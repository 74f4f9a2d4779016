------------------------- MODULE ReadoutModelProofs -------------------------
(***************************************************************************)
(* Proofs for ReadoutModel, for any number of post-processing tasks, any   *)
(* sizes of queues and buffer, any share that cleanup() pops, and any      *)
(* number of runs.  What stop() loses or keeps is decided by the order of  *)
(* its joins, so the invariant says for each of its stages which threads   *)
(* may still be there; the rest follows an element from the buffer through *)
(* the queues, and a time from the consumer to the TimeSync.               *)
(***************************************************************************)
EXTENDS ReadoutModel, FiniteSetTheorems, SequenceTheorems, TLAPS

Receiving == {"running", "join_handler", "join_timesync", "join_consumer"}
Syncing == {"running", "join_handler", "join_timesync"}
Cleaning == {"running", "join_handler"}

(* Which threads are there at each stage of the commands.                  *)
StageInv == /\ m_run_marker <=> ctl = "running"
            /\ proc_marker <=> ctl \in Receiving
            /\ ctl \in Receiving => \A i \in Tasks : thread[i] # "off"
            /\ ctl \in {"initial", "configured"} => \A i \in Tasks : thread[i] = "off"
            /\ ctl \in Cleaning => pool = "open"
            /\ timesync # "off" => ctl \in Syncing
            /\ registered => m_callback_mode
            /\ ~m_callback_mode /\ consumer # "off" => ctl \in Receiving

(* At most one fake trigger of each run is lost: after one is, the         *)
(* timesync thread looks at the cleared run marker.                        *)
LostInv == /\ lost <= run
           /\ ctl \in Cleaning \/ timesync \in {"read", "trigger"} => lost < run

(* cleanup() leaves Kept elements, and the buffer is not empty between     *)
(* write() and back().                                                     *)
PopInv == /\ to_pop # 0 => /\ ctl \in Cleaning
                           /\ to_pop < Len(ring)
                           /\ Kept <= Len(ring) - to_pop
          /\ ~m_callback_mode /\ consumer = "handover" => Len(ring) > 0
          /\ ~m_callback_mode => ~handed_null

(* The ring is in the order of time, one element to a timestamp at most.   *)
OrderInv == /\ \A a, b \in 1..Len(ring) : a <= b => b - a <= ring[b] - ring[a]
            /\ \A a \in 1..Len(ring) : ring[a] < next_ts /\ (consumer = "write" => ring[a] < payload)
            /\ consumer = "write" => payload \in Ts /\ payload < next_ts

(* What has left the ring is old.                                          *)
InRing(p) == \E a \in 1..Len(ring) : ring[a] = p
Old(p) == Kept <= next_ts - 1 - p

FreshInv ==
  ~m_callback_mode /\ ctl \in Receiving =>
    \A i \in Tasks :
      /\ work[i] # Null => InRing(work[i]) \/ Old(work[i])
      /\ \A k \in 1..Len(posts[i]) : posts[i][k] # Null => InRing(posts[i][k]) \/ Old(posts[i][k])

(* An element a task still owes is in its queue, in its hands, or about to *)
(* be handed over as the last of the ring.                                 *)
Queued(i, e) == \E k \in 1..Len(posts[i]) : posts[i][k] = e
Coming(e) == consumer = "handover" /\ e = payload /\ Len(ring) > 0 /\ ring[Len(ring)] = e

OwedInv ==
  /\ \A i \in Tasks : thread[i] # "busy" => work[i] = Null
  /\ ~m_callback_mode =>
       \A i \in Tasks :
         /\ ctl \notin Receiving /\ thread[i] = "off" => posts[i] = <<>>
         /\ \A e \in outstanding[i] :
              /\ e < next_ts /\ (consumer = "write" => e < payload)
              /\ Queued(i, e) \/ e = work[i] \/ Coming(e)

(* The last time processed is of this run and the last TimeSync not later. *)
TimeInv == /\ m_last_processed_daq_ts < next_ts /\ run_first <= next_ts
           /\ ~m_callback_mode => /\ m_last_processed_daq_ts = 0 \/ run_first <= m_last_processed_daq_ts
                                  /\ ctl \in {"initial", "configured"} => m_last_processed_daq_ts = 0
           /\ sync.run <= run
           /\ timesync # "off" => /\ prev_ts <= m_last_processed_daq_ts
                                  /\ sync.run = run => prev_ts = sync.daq_time

ReadoutInv == /\ ReadoutTypeOK /\ StageInv /\ LostInv /\ PopInv /\ OrderInv
              /\ FreshInv /\ OwedInv /\ TimeInv
-----------------------------------------------------------------------------
(* The constants as numbers.                                               *)
LEMMA Sizes == /\ QueueSize \in Nat /\ Capacity \in Nat /\ PopLimit \in Nat
               /\ PopNum \in Nat /\ PopDen \in Nat /\ PopNum < PopDen
               /\ MaxTs \in Nat /\ MaxRuns \in Nat
               /\ QueueSize >= 2 /\ Capacity >= 1
<1>1. {QueueSize, Capacity, PopNum, PopDen, MaxTs, MaxRuns} \subseteq Nat
  BY ReadoutAssumption
<1>2. PopLimit \in 0..Capacity /\ QueueSize >= 2 /\ Capacity >= 1 /\ PopNum < PopDen
  BY ReadoutAssumption
<1> QED
  BY <1>1, <1>2

Share(n) == (n * PopNum) \div PopDen

(* A share of something is less than all of it, also when it is 0.         *)
LEMMA ShareBounds ==
  ASSUME NEW n \in Nat
  PROVE  /\ Share(n) \in Nat /\ PopDen * Share(n) <= n * PopNum /\ n * PopNum < PopDen * (Share(n) + 1)
         /\ n > 0 => Share(n) < n
<1>1. PopNum \in Nat /\ PopDen \in Nat /\ PopNum < PopDen
  BY Sizes
<1> DEFINE x == n * PopNum
           q == x \div PopDen
<1>2. x \in Nat
  BY <1>1
<1> HIDE DEF x
<1>3. q \in Nat /\ PopDen * q <= x /\ x < PopDen * (q + 1)
  BY <1>1, <1>2
<1>4. q = Share(n)
  BY DEF x, Share
<1> HIDE DEF q
<1>5. ASSUME n > 0 PROVE q < n
  <2>1. x < PopDen * n
    BY <1>1, <1>5 DEF x
  <2> QED
    BY <1>1, <1>2, <1>3, <1>5, <2>1
<1> QED
  BY <1>3, <1>4, <1>5 DEF x

(* What a larger buffer keeps is not less.                                 *)
LEMMA KeepsMore ==
  ASSUME NEW m \in Nat, NEW n \in Nat, m <= n
  PROVE  m - Share(m) <= n - Share(n)
<1>1. PopNum \in Nat /\ PopDen \in Nat /\ PopNum < PopDen
  BY Sizes
<1>2. Share(m) \in Nat /\ m * PopNum < PopDen * (Share(m) + 1)
  BY ShareBounds
<1>3. Share(n) \in Nat /\ PopDen * Share(n) <= n * PopNum
  BY ShareBounds
<1> DEFINE k == n - m
           p == Share(m)
           q == Share(n)
<1>4. p \in Nat /\ q \in Nat /\ m * PopNum < PopDen * (p + 1) /\ PopDen * q <= n * PopNum
  BY <1>2, <1>3
<1> HIDE DEF p, q
<1>5. k \in Nat /\ n = m + k
  OBVIOUS
<1> HIDE DEF k
<1>6. q <= p + k
  <2> SUFFICES ASSUME q >= p + k + 1 PROVE FALSE
    BY <1>4, <1>5
  <2>1. PopDen * (p + k + 1) <= PopDen * q
    BY <1>1, <1>4, <1>5
  <2>2. PopDen * (p + k + 1) = PopDen * (p + 1) + PopDen * k
    BY <1>1, <1>4, <1>5
  <2>3. n * PopNum = m * PopNum + k * PopNum
    BY <1>1, <1>5
  <2>4. k * PopNum <= PopDen * k
    BY <1>1, <1>5
  <2>5. \A a, b, c, d, e, f, g \in Int :
          /\ a <= b /\ a = c + d /\ e = f + g /\ g <= d /\ f < c => ~(b <= e)
    OBVIOUS
  <2>6. /\ PopDen * (p + k + 1) \in Int /\ PopDen * q \in Int /\ PopDen * (p + 1) \in Int /\ PopDen * k \in Int
        /\ n * PopNum \in Int /\ m * PopNum \in Int /\ k * PopNum \in Int
    BY <1>1, <1>4, <1>5
  <2> QED
    BY <1>4, <2>1, <2>2, <2>3, <2>4, <2>5, <2>6
<1> QED
  BY <1>4, <1>5, <1>6 DEF p, q

(* A share of a buffer over the limit leaves Kept elements, and at least   *)
(* one.                                                                    *)
LEMMA ShareLeaves ==
  ASSUME NEW n \in Nat, n > PopLimit
  PROVE  /\ (n * PopNum) \div PopDen \in Nat /\ (n * PopNum) \div PopDen < n
         /\ Kept <= n - (n * PopNum) \div PopDen
<1>1. n > 0 /\ PopLimit + 1 \in Nat /\ PopLimit + 1 <= n
  BY Sizes
<1>2. Share(n) \in Nat /\ Share(n) < n
  BY <1>1, ShareBounds
<1>3. (PopLimit + 1) - Share(PopLimit + 1) <= n - Share(n)
  BY <1>1, KeepsMore
<1> QED
  BY <1>2, <1>3 DEF Kept, Share

LEMMA KeptType == Kept \in Int
<1>1. PopLimit + 1 \in Nat
  BY Sizes
<1>2. Share(PopLimit + 1) \in Nat
  BY <1>1, ShareBounds
<1> QED
  BY <1>1, <1>2 DEF Kept, Share
-----------------------------------------------------------------------------
LEMMA ReadoutInvInit == ReadoutInit => ReadoutInv
<1> SUFFICES ASSUME ReadoutInit PROVE ReadoutInv
  OBVIOUS
<1> USE Sizes DEF ReadoutInit, Null
<1>1. ControlTypeOK
  <2>1. ctl \in Commands /\ run \in 0..MaxRuns /\ run_first \in 1..MaxTs + 1
    BY DEF Commands
  <2>2. {m_callback_mode, m_run_marker, registered, proc_marker, handed_null} \subseteq BOOLEAN
    BY Zenon
  <2> QED
    BY <2>1, <2>2 DEF ControlTypeOK
<1>2. FeedTypeOK
  BY DEF FeedTypeOK, Pointer
<1>3. PostTypeOK
  <2>1. <<>> \in Seq(Pointer) /\ Len(<<>>) = 0 /\ Null \in Pointer
    BY DEF Pointer
  <2> QED
    BY <2>1 DEF PostTypeOK
<1>4. SyncTypeOK
  BY DEF SyncTypeOK, Pointer
<1>5. StageInv
  BY DEF StageInv, Receiving, Syncing, Cleaning
<1>6. LostInv
  BY DEF LostInv, Cleaning
<1>7. PopInv
  BY DEF PopInv, Cleaning
<1>8. OrderInv
  BY DEF OrderInv
<1>9. FreshInv
  BY DEF FreshInv, Receiving
<1>10. OwedInv
  BY DEF OwedInv, Receiving
<1>11. TimeInv
  BY DEF TimeInv
<1> QED
  BY <1>1, <1>2, <1>3, <1>4, <1>5, <1>6, <1>7, <1>8, <1>9, <1>10, <1>11 DEF ReadoutInv, ReadoutTypeOK
-----------------------------------------------------------------------------
(* Which actions change what.                                              *)
LEMMA ChangesStage ==
  [ReadoutNext]_readout_vars => \/ Conf \/ Start \/ Stop \/ Joins \/ Scrap
                               \/ UNCHANGED <<conf_vars, ctl, run_vars, proc_marker, pool>>
  BY DEF ReadoutNext, Consumer, PostThread, Timesync, Finished, ConsumerExit, Receive, Write, HandOver,
         Cleanup, Pop, PostRead, PostDone, PostExit, SyncTest, SendSync, FakeTrigger,
         readout_vars, proc_vars

LEMMA ChangesFeed ==
  [ReadoutNext]_readout_vars => \/ Conf \/ Start \/ JoinConsumer \/ Scrap \/ Consumer \/ Pop
                               \/ UNCHANGED <<ring, feed_vars>>
  BY DEF ReadoutNext, PostThread, Timesync, Finished, Stop, Joins, JoinHandler, JoinTimesync, JoinThreads,
         Cleanup, PostRead, PostDone, PostExit, SyncTest, SendSync, FakeTrigger, readout_vars, lb_vars

PostWork == \E i \in Tasks : PostThread(i)

LEMMA ChangesPosts ==
  [ReadoutNext]_readout_vars => \/ Conf \/ Start \/ Scrap \/ Write \/ HandOver \/ PostWork
                               \/ UNCHANGED post_vars
  BY DEF PostWork, ReadoutNext, Timesync, Consumer, Finished, Stop, Joins, JoinHandler, JoinTimesync, JoinConsumer,
         JoinThreads, ConsumerExit, Receive, Cleanup, Pop, SyncTest, SendSync, FakeTrigger, readout_vars

LEMMA ChangesSync ==
  [ReadoutNext]_readout_vars => Start \/ Timesync \/ UNCHANGED sync_vars
  BY DEF ReadoutNext, PostThread, Consumer, Finished, Conf, Stop, Joins, JoinHandler, JoinTimesync,
         JoinConsumer, JoinThreads, Scrap, ConsumerExit, Receive, Write, HandOver, Cleanup, Pop,
         PostRead, PostDone, PostExit, readout_vars

LEMMA ChangesToPop ==
  [ReadoutNext]_readout_vars => Cleanup \/ Pop \/ UNCHANGED to_pop
  BY DEF ReadoutNext, PostThread, Consumer, Timesync, Finished, Conf, Start, Stop, Joins, JoinHandler,
         JoinTimesync, JoinConsumer, JoinThreads, Scrap, ConsumerExit, Receive, Write, HandOver,
         PostRead, PostDone, PostExit, SyncTest, SendSync, FakeTrigger, readout_vars, lb_vars

LEMMA ChangesLastTime ==
  [ReadoutNext]_readout_vars => JoinThreads \/ Receive \/ UNCHANGED m_last_processed_daq_ts
  BY DEF ReadoutNext, PostThread, Consumer, Timesync, Finished, Conf, Start, Stop, Joins, JoinHandler,
         JoinTimesync, JoinConsumer, Scrap, ConsumerExit, Write, HandOver, Cleanup, Pop,
         PostRead, PostDone, PostExit, SyncTest, SendSync, FakeTrigger, readout_vars, proc_vars
-----------------------------------------------------------------------------
(* Types                                                                   *)

(* The flags, for the commands and for HandOver, which remembers a null.   *)
LEMMA FlagsStep ==
  ASSUME ReadoutInv, [ReadoutNext]_readout_vars
  PROVE  {m_callback_mode, m_run_marker, registered, proc_marker, handed_null}' \subseteq BOOLEAN
<1>1. /\ m_callback_mode \in BOOLEAN /\ m_run_marker \in BOOLEAN /\ registered \in BOOLEAN
      /\ proc_marker \in BOOLEAN /\ handed_null \in BOOLEAN
  BY Zenon DEF ReadoutInv, ReadoutTypeOK, ControlTypeOK
<1>2. m_callback_mode' \in BOOLEAN
  <2>1. m_callback_mode' = m_callback_mode
    BY ChangesStage DEF Conf, Start, Stop, Joins, JoinHandler, JoinTimesync, JoinConsumer, JoinThreads, Scrap, conf_vars
  <2> QED
    BY <1>1, <2>1, Zenon
<1>3. registered' \in BOOLEAN
  <2>1. registered' = registered \/ registered' = (registered \/ m_callback_mode)
    BY ChangesStage DEF Conf, Start, Stop, Joins, JoinHandler, JoinTimesync, JoinConsumer, JoinThreads, Scrap,
                        conf_vars, RegisterCallback
  <2> QED
    BY <1>1, <2>1, Zenon
<1>4. m_run_marker' \in BOOLEAN
  <2>1. m_run_marker' = m_run_marker \/ m_run_marker' = TRUE \/ m_run_marker' = FALSE
    BY ChangesStage DEF Conf, Start, Stop, Joins, JoinHandler, JoinTimesync, JoinConsumer, JoinThreads, Scrap, run_vars
  <2> QED
    BY <1>1, <2>1, Zenon
<1>5. proc_marker' \in BOOLEAN
  <2>1. proc_marker' = proc_marker \/ proc_marker' = TRUE \/ proc_marker' = FALSE
    BY ChangesStage DEF Conf, Start, Stop, Joins, JoinHandler, JoinTimesync, JoinConsumer, JoinThreads, Scrap,
                        proc_vars, StartProcessor
  <2> QED
    BY <1>1, <2>1, Zenon
<1>6. handed_null' \in BOOLEAN
  <2>1. handed_null' = handed_null \/ handed_null' = (handed_null \/ Back = Null)
    BY ChangesFeed DEF Conf, Start, JoinConsumer, Scrap, Consumer, ConsumerExit, Receive, Write, HandOver, Pop, feed_vars
  <2> QED
    BY <1>1, <2>1, Zenon
<1> QED
  BY <1>2, <1>3, <1>4, <1>5, <1>6, Zenon

LEMMA ControlTypeStep == ASSUME ReadoutInv, [ReadoutNext]_readout_vars PROVE ControlTypeOK'
<1>1. ctl \in Commands /\ run \in 0..MaxRuns /\ run_first \in 1..MaxTs + 1 /\ next_ts \in 1..MaxTs + 1
  BY DEF ReadoutInv, ReadoutTypeOK, ControlTypeOK, FeedTypeOK
<1>2. ctl' \in Commands
  BY <1>1, ChangesStage DEF Commands, Conf, Start, Stop, Joins, JoinHandler, JoinTimesync, JoinConsumer, JoinThreads, Scrap
<1>3. run' \in 0..MaxRuns /\ run_first' \in 1..MaxTs + 1
  BY <1>1, Sizes, ChangesStage DEF Conf, Start, Stop, Joins, JoinHandler, JoinTimesync, JoinConsumer, JoinThreads,
                                   Scrap, run_vars
<1> QED
  BY <1>2, <1>3, FlagsStep DEF ControlTypeOK

LEMMA FeedTypeStep == ASSUME ReadoutInv, [ReadoutNext]_readout_vars PROVE FeedTypeOK'
<1> DEFINE T == Ts
<1>1. FeedTypeOK
  BY DEF ReadoutInv, ReadoutTypeOK
<1>2. ring' \in Seq(Ts) /\ Len(ring') <= Capacity /\ Len(ring') \in Nat
  <2>1. ring \in Seq(T) /\ Len(ring) <= Capacity /\ Len(ring) \in Nat
    BY <1>1 DEF FeedTypeOK
  <2>2. CASE Conf \/ JoinConsumer \/ Scrap
    <3>1. ring' = <<>>
      BY <2>2 DEF Conf, JoinConsumer, Scrap
    <3> HIDE DEF T
    <3> QED
      BY <3>1, Sizes
  <2>3. CASE Write
    <3>1. payload \in T
      BY <2>3 DEF ReadoutInv, OrderInv, Write
    <3> HIDE DEF T
    <3>2. CASE Len(ring) < Capacity
      <4>1. ring' = Append(ring, payload)
        BY <2>3, <3>2 DEF Write
      <4> QED
        BY <4>1, <3>1, <3>2, <2>1, Sizes DEF T
    <3>3. CASE ~(Len(ring) < Capacity)
      <4>1. ring' = ring
        BY <2>3, <3>3 DEF Write
      <4> QED
        BY <4>1, <2>1 DEF T
    <3> QED
      BY <3>2, <3>3
  <2>4. CASE Pop
    <3>1. Len(ring) > 0 /\ ring' = Tail(ring)
      <4>1. to_pop \in Nat /\ to_pop > 0 /\ to_pop < Len(ring)
        BY <2>4, <1>1 DEF Pop, ReadoutInv, PopInv, FeedTypeOK
      <4> QED
        BY <4>1, <2>1, <2>4 DEF Pop
    <3> HIDE DEF T
    <3>2. Tail(ring) \in Seq(T) /\ Len(Tail(ring)) = Len(ring) - 1
      BY <2>1, <3>1
    <3> QED
      BY <3>1, <3>2, <2>1, Sizes DEF T
  <2>5. CASE UNCHANGED ring
    BY <2>5, <2>1
  <2> QED
    BY <2>2, <2>3, <2>4, <2>5, ChangesFeed DEF Start, Consumer, ConsumerExit, Receive, HandOver, lb_vars
<1>3. to_pop' \in 0..Capacity
  <2>1. to_pop \in 0..Capacity /\ Len(ring) \in Nat /\ Len(ring) <= Capacity
    BY <1>1 DEF FeedTypeOK
  <2>2. CASE Cleanup
    <3>1. (Len(ring) * PopNum) \div PopDen \in Nat /\ (Len(ring) * PopNum) \div PopDen < Len(ring)
      BY <2>1, <2>2, ShareLeaves DEF Cleanup
    <3> QED
      BY <2>1, <2>2, <3>1, Sizes DEF Cleanup, ToPop
  <2> QED
    BY <2>1, <2>2, Sizes, ChangesToPop DEF Pop
<1>4. consumer' \in {"off", "receive", "write", "handover"}
  BY <1>1, ChangesFeed DEF FeedTypeOK, Conf, Start, JoinConsumer, Scrap, Consumer, ConsumerExit, Receive, Write,
                           HandOver, ConsumerLoop, Pop, feed_vars
<1>5. payload' \in Pointer /\ next_ts' \in 1..MaxTs + 1
  BY <1>1, Sizes, ChangesFeed DEF FeedTypeOK, Conf, Start, JoinConsumer, Scrap, Consumer, ConsumerExit, Receive, Write,
                           HandOver, Pop, feed_vars, Pointer, Ts, Null
<1> QED
  BY <1>2, <1>3, <1>4, <1>5 DEF FeedTypeOK

(* What is handed over is of the ring, or null.                            *)
LEMMA BackType ==
  ASSUME FeedTypeOK
  PROVE  /\ Back \in Pointer
         /\ Len(ring) > 0 => Back = ring[Len(ring)] /\ Back \in Ts /\ InRing(Back)
         /\ Len(ring) = 0 => Back = Null
<1> DEFINE T == Ts
<1>1. ring \in Seq(T) /\ Len(ring) \in Nat
  BY DEF FeedTypeOK
<1>2. ring = <<>> <=> Len(ring) = 0
  <2> HIDE DEF T
  <2> QED
    BY <1>1
<1>3. Len(ring) > 0 => ring[Len(ring)] \in T
  <2> HIDE DEF T
  <2> QED
    BY <1>1
<1> QED
  BY <1>1, <1>2, <1>3 DEF Back, Last, InRing, Pointer, Null

LEMMA PostTypeStep == ASSUME ReadoutInv, [ReadoutNext]_readout_vars PROVE PostTypeOK'
<1> DEFINE P == Pointer
<1>1. /\ posts \in [Tasks -> Seq(P)] /\ \A i \in Tasks : Len(posts[i]) < QueueSize
      /\ thread \in [Tasks -> {"off", "idle", "busy"}] /\ work \in [Tasks -> P]
      /\ outstanding \in [Tasks -> SUBSET Ts]
  BY DEF ReadoutInv, ReadoutTypeOK, PostTypeOK
<1>2. FeedTypeOK /\ Null \in P
  BY DEF ReadoutInv, ReadoutTypeOK, Pointer
<1>3. posts' \in [Tasks -> Seq(P)] /\ \A i \in Tasks : Len(posts'[i]) < QueueSize
  <2>1. CASE Conf \/ Scrap
    <3>1. posts' = [i \in Tasks |-> <<>>]
      BY <2>1 DEF Conf, Scrap, ConfProcessor, ScrapProcessor
    <3>2. <<>> \in Seq(P) /\ Len(<<>>) < QueueSize
      BY Sizes
    <3> HIDE DEF P
    <3> QED
      BY <3>1, <3>2
  <2>2. CASE HandOver
    <3>1. posts' = [i \in Tasks |-> IF HasRoom(i) THEN Append(posts[i], Back) ELSE posts[i]]
      BY <2>2 DEF HandOver
    <3>2. Back \in P
      BY <1>2, BackType
    <3> HIDE DEF P
    <3>3. ASSUME NEW i \in Tasks
          PROVE  posts'[i] \in Seq(P) /\ Len(posts'[i]) < QueueSize
      <4>1. posts[i] \in Seq(P) /\ Len(posts[i]) < QueueSize /\ Len(posts[i]) \in Nat
        BY <1>1
      <4>2. CASE HasRoom(i)
        BY <3>1, <3>2, <4>1, <4>2, Sizes DEF HasRoom
      <4>3. CASE ~HasRoom(i)
        BY <3>1, <4>1, <4>3
      <4> QED
        BY <4>2, <4>3
    <3> QED
      BY <3>1, <3>3
  <2>3. ASSUME NEW j \in Tasks, PostRead(j)
        PROVE  posts' \in [Tasks -> Seq(P)] /\ \A i \in Tasks : Len(posts'[i]) < QueueSize
    <3> HIDE DEF P
    <3>1. posts' = [posts EXCEPT ![j] = Tail(posts[j])] /\ posts[j] # <<>>
      BY <2>3 DEF PostRead
    <3>2. posts[j] \in Seq(P) /\ Len(posts[j]) \in Nat /\ Len(posts[j]) < QueueSize
      BY <1>1
    <3>3. Tail(posts[j]) \in Seq(P) /\ Len(Tail(posts[j])) = Len(posts[j]) - 1
      BY <3>1, <3>2
    <3>4. Len(Tail(posts[j])) < QueueSize
      BY <3>2, <3>3, Sizes
    <3> QED
      BY <1>1, <3>1, <3>3, <3>4
  <2>4. CASE UNCHANGED posts
    BY <1>1, <2>4
  <2> QED
    BY <2>1, <2>2, <2>3, <2>4, ChangesPosts DEF Start, Write, PostWork, PostThread, PostDone, PostExit, post_vars
<1>4. thread' \in [Tasks -> {"off", "idle", "busy"}]
  <2>1. CASE Start
    BY <2>1 DEF Start, StartProcessor
  <2>2. CASE PostWork
    BY <1>1, <2>2 DEF PostWork, PostThread, PostRead, PostDone, PostExit
  <2> QED
    BY <1>1, <2>1, <2>2, ChangesPosts DEF Conf, Scrap, Write, HandOver, post_vars
<1>5. work' \in [Tasks -> P]
  <2>1. ASSUME NEW j \in Tasks, PostRead(j)
        PROVE  work' \in [Tasks -> P]
    <3> HIDE DEF P
    <3>1. work' = [work EXCEPT ![j] = Head(posts[j])] /\ posts[j] # <<>>
      BY <2>1 DEF PostRead
    <3>2. posts[j] \in Seq(P)
      BY <1>1
    <3>3. Head(posts[j]) \in P
      BY <3>1, <3>2
    <3> QED
      BY <1>1, <3>1, <3>3
  <2>2. ASSUME NEW j \in Tasks, PostDone(j)
        PROVE  work' \in [Tasks -> P]
    <3> HIDE DEF P
    <3> QED
      BY <1>1, <1>2, <2>2 DEF PostDone
  <2>3. CASE UNCHANGED work
    BY <1>1, <2>3
  <2> QED
    BY <2>1, <2>2, <2>3, ChangesPosts DEF Conf, Start, Scrap, Write, HandOver, PostWork, PostThread, PostExit, post_vars
<1>6. outstanding' \in [Tasks -> SUBSET Ts]
  <2> DEFINE T == Ts
  <2>0. outstanding \in [Tasks -> SUBSET T]
    BY <1>1
  <2>1. CASE Write
    <3>1. payload \in T
      BY <2>1 DEF ReadoutInv, OrderInv, Write
    <3>2. UNCHANGED outstanding \/ outstanding' = [i \in Tasks |-> outstanding[i] \cup {payload}]
      BY <2>1 DEF Write
    <3> HIDE DEF T
    <3>3. outstanding' \in [Tasks -> SUBSET T]
      BY <2>0, <3>1, <3>2
    <3> QED
      BY <3>3 DEF T
  <2>2. CASE HandOver
    <3>1. outstanding' = [i \in Tasks |-> IF HasRoom(i) THEN outstanding[i] ELSE outstanding[i] \ {Back}]
      BY <2>2 DEF HandOver
    <3> HIDE DEF T
    <3>2. \A i \in Tasks : (IF HasRoom(i) THEN outstanding[i] ELSE outstanding[i] \ {Back}) \in SUBSET T
      BY <2>0
    <3>3. outstanding' \in [Tasks -> SUBSET T]
      BY <3>1, <3>2
    <3> QED
      BY <3>3 DEF T
  <2>3. CASE PostWork
    <3> HIDE DEF T
    <3>1. outstanding' \in [Tasks -> SUBSET T]
      BY <2>0, <2>3 DEF PostWork, PostThread, PostRead, PostDone, PostExit
    <3> QED
      BY <3>1 DEF T
  <2> QED
    BY <1>1, <2>1, <2>2, <2>3, ChangesPosts DEF Conf, Start, Scrap, post_vars
<1> QED
  BY <1>3, <1>4, <1>5, <1>6 DEF PostTypeOK

LEMMA SyncTypeStep == ASSUME ReadoutInv, [ReadoutNext]_readout_vars PROVE SyncTypeOK'
<1>1. SyncTypeOK /\ next_ts \in 1..MaxTs + 1 /\ run \in 0..MaxRuns
  BY DEF ReadoutInv, ReadoutTypeOK, FeedTypeOK, ControlTypeOK
<1>2. timesync' \in {"off", "test", "read", "trigger"}
  BY <1>1, ChangesSync DEF SyncTypeOK, Start, Timesync, SyncTest, SendSync, FakeTrigger, sync_vars
<1>3. pool' \in {"none", "open", "joined"}
  BY <1>1, ChangesStage DEF SyncTypeOK, Conf, Start, Stop, Joins, JoinHandler, JoinTimesync, JoinConsumer, JoinThreads, Scrap
<1>4. m_last_processed_daq_ts' \in Pointer
  BY <1>1, ChangesLastTime DEF SyncTypeOK, JoinThreads, ResetLastDaqTime, Receive, Preprocess, Pointer, Null
<1>5. prev_ts' \in Pointer
  BY <1>1, ChangesSync DEF SyncTypeOK, Start, Timesync, SyncTest, SendSync, FakeTrigger, sync_vars, Pointer, Null
<1>6. lost' \in Nat
  BY <1>1, ChangesSync DEF SyncTypeOK, Start, Timesync, SyncTest, SendSync, FakeTrigger, sync_vars
<1>7. sync' \in [run : 0..MaxRuns, daq_time : Pointer, seqno : Nat]
  <2>1. sync \in [run : 0..MaxRuns, daq_time : Pointer, seqno : Nat] /\ m_last_processed_daq_ts \in Pointer
    BY <1>1 DEF SyncTypeOK
  <2>2. CASE SendSync
    <3>1. (IF sync.run = run THEN sync.seqno + 1 ELSE 1) \in Nat
      BY <2>1
    <3> QED
      BY <1>1, <2>1, <2>2, <3>1 DEF SendSync
  <2> QED
    BY <2>1, <2>2, ChangesSync DEF Start, Timesync, SyncTest, FakeTrigger, sync_vars
<1> QED
  BY <1>2, <1>3, <1>4, <1>5, <1>6, <1>7 DEF SyncTypeOK

LEMMA TypeStep == ASSUME ReadoutInv, [ReadoutNext]_readout_vars PROVE ReadoutTypeOK'
  BY ControlTypeStep, FeedTypeStep, PostTypeStep, SyncTypeStep DEF ReadoutTypeOK
-----------------------------------------------------------------------------
(* The stages of the commands                                              *)

LEMMA StageStep == ASSUME ReadoutInv, [ReadoutNext]_readout_vars PROVE StageInv'
<1>1. StageInv /\ ctl \in Commands
  BY DEF ReadoutInv, ReadoutTypeOK, ControlTypeOK
<1> USE DEF Receiving, Syncing, Cleaning, Commands
<1>2. (m_run_marker <=> ctl = "running")'
  BY <1>1, ChangesStage DEF StageInv, Conf, Start, Stop, Joins, JoinHandler, JoinTimesync, JoinConsumer, JoinThreads,
                            Scrap, run_vars
<1>3. (proc_marker <=> ctl \in Receiving)'
  BY <1>1, ChangesStage DEF StageInv, Conf, Start, Stop, Joins, JoinHandler, JoinTimesync, JoinConsumer, JoinThreads,
                            Scrap, proc_vars, StartProcessor
<1>4. /\ (ctl \in Receiving => \A i \in Tasks : thread[i] # "off")'
      /\ (ctl \in {"initial", "configured"} => \A i \in Tasks : thread[i] = "off")'
  <2>0. thread \in [Tasks -> {"off", "idle", "busy"}]
    BY DEF ReadoutInv, ReadoutTypeOK, PostTypeOK
  <2>1. CASE Conf \/ Stop \/ Joins \/ Scrap
    BY <1>1, <2>1 DEF StageInv, Conf, Stop, Joins, JoinHandler, JoinTimesync, JoinConsumer, JoinThreads, Scrap, post_vars
  <2>2. CASE Start
    BY <2>2 DEF Start, StartProcessor
  <2>3. CASE UNCHANGED <<ctl, proc_marker>> /\ PostWork
    <3>1. PICK j \in Tasks : PostThread(j)
      BY <2>3 DEF PostWork
    <3>2. CASE PostRead(j) \/ PostDone(j)
      <4>1. thread[j] # "off" /\ thread' = [thread EXCEPT ![j] = thread'[j]] /\ thread'[j] # "off"
        BY <2>0, <3>2 DEF PostRead, PostDone
      <4> QED
        BY <1>1, <2>0, <2>3, <4>1 DEF StageInv
    <3>3. CASE PostExit(j)
      <4>1. ~proc_marker /\ thread[j] # "off"
        BY <3>3 DEF PostExit, Leaves
      <4>2. ctl \notin Receiving /\ ctl \notin {"initial", "configured"}
        BY <1>1, <4>1 DEF StageInv
      <4> QED
        BY <2>3, <4>2
    <3> QED
      BY <3>1, <3>2, <3>3 DEF PostThread
  <2>4. CASE UNCHANGED <<ctl, thread>>
    BY <1>1, <2>4 DEF StageInv
  <2> QED
    BY <2>1, <2>2, <2>3, <2>4, ChangesStage, ChangesPosts DEF Write, HandOver, PostWork, post_vars
<1>5. (ctl \in Cleaning => pool = "open")'
  BY <1>1, ChangesStage DEF StageInv, Conf, Start, Stop, Joins, JoinHandler, JoinTimesync, JoinConsumer, JoinThreads, Scrap
<1>6. (timesync # "off" => ctl \in Syncing)'
  <2>1. CASE Conf \/ Stop \/ Joins \/ Scrap
    BY <1>1, <2>1 DEF StageInv, Conf, Stop, Joins, JoinHandler, JoinTimesync, JoinConsumer, JoinThreads, Scrap, sync_vars
  <2>2. CASE Start
    BY <2>2 DEF Start
  <2>3. CASE UNCHANGED ctl /\ Timesync
    BY <1>1, <2>3 DEF StageInv, Timesync, SyncTest, SendSync, FakeTrigger
  <2>4. CASE UNCHANGED <<ctl, timesync>>
    BY <1>1, <2>4 DEF StageInv
  <2> QED
    BY <2>1, <2>2, <2>3, <2>4, ChangesStage, ChangesSync DEF sync_vars
<1>7. (registered => m_callback_mode)'
  BY <1>1, ChangesStage DEF StageInv, Conf, Start, Stop, Joins, JoinHandler, JoinTimesync, JoinConsumer, JoinThreads,
                            Scrap, conf_vars, RegisterCallback
<1>8. (~m_callback_mode /\ consumer # "off" => ctl \in Receiving)'
  <2>1. CASE Conf \/ Stop \/ Joins \/ Scrap
    BY <1>1, <2>1 DEF StageInv, Conf, Stop, Joins, JoinHandler, JoinTimesync, JoinConsumer, JoinThreads, Scrap,
                      feed_vars, conf_vars, ConsumerJoined
  <2>2. CASE Start
    BY <2>2 DEF Start
  <2>3. CASE UNCHANGED <<ctl, m_callback_mode>> /\ Consumer
    BY <1>1, <2>3 DEF StageInv, Consumer, ConsumerExit, Receive, Write, HandOver
  <2>4. CASE UNCHANGED <<ctl, m_callback_mode, consumer>>
    BY <1>1, <2>4 DEF StageInv
  <2> QED
    BY <2>1, <2>2, <2>3, <2>4, ChangesStage, ChangesFeed DEF feed_vars, conf_vars, Pop, JoinConsumer, Joins
<1> QED
  BY <1>2, <1>3, <1>4, <1>5, <1>6, <1>7, <1>8 DEF StageInv

LEMMA LostStep == ASSUME ReadoutInv, [ReadoutNext]_readout_vars PROVE LostInv'
<1>1. StageInv /\ LostInv /\ ctl \in Commands /\ lost \in Nat /\ run \in Nat
  BY Sizes DEF ReadoutInv, ReadoutTypeOK, ControlTypeOK, SyncTypeOK
<1> USE DEF Cleaning, Syncing, Commands
<1>2. CASE Start
  <2>1. run' = run + 1 /\ lost' = lost
    BY <1>2 DEF Start
  <2> QED
    BY <1>1, <2>1 DEF LostInv
<1>3. CASE Conf \/ Stop \/ Joins \/ Scrap
  <2>1. run' = run /\ lost' = lost /\ timesync' = timesync
    BY <1>3 DEF Conf, Stop, Joins, JoinHandler, JoinTimesync, JoinConsumer, JoinThreads, Scrap, run_vars, sync_vars
  <2>2. ctl' \in Cleaning => ctl \in Cleaning
    BY <1>3 DEF Conf, Stop, Joins, JoinHandler, JoinTimesync, JoinConsumer, JoinThreads, Scrap
  <2> QED
    BY <1>1, <2>1, <2>2 DEF LostInv
<1>4. CASE UNCHANGED <<ctl, run, m_run_marker>> /\ Timesync
  <2>1. CASE SyncTest
    <3>1. lost' = lost /\ (timesync' \in {"read", "trigger"} => ctl \in Cleaning)
      BY <1>1, <2>1 DEF SyncTest, GoesOn, StageInv
    <3> QED
      BY <1>1, <1>4, <3>1 DEF LostInv
  <2>2. CASE SendSync
    <3>1. lost' = lost /\ timesync = "read"
      BY <2>2 DEF SendSync
    <3> QED
      BY <1>1, <1>4, <3>1 DEF LostInv
  <2>3. CASE FakeTrigger
    <3>1. timesync = "trigger" /\ timesync' = "test" /\ lost' = IF pool = "open" THEN lost ELSE lost + 1
      BY <2>3 DEF FakeTrigger
    <3>2. lost < run
      BY <1>1, <3>1 DEF LostInv
    <3>3. ctl \in Cleaning => lost' = lost
      BY <1>1, <3>1 DEF StageInv
    <3> QED
      BY <1>1, <1>4, <3>1, <3>2, <3>3 DEF LostInv
  <2> QED
    BY <1>4, <2>1, <2>2, <2>3 DEF Timesync
<1>5. CASE UNCHANGED <<ctl, run, sync_vars>>
  BY <1>1, <1>5 DEF LostInv, sync_vars
<1> QED
  BY <1>2, <1>3, <1>4, <1>5, ChangesStage, ChangesSync DEF run_vars

LEMMA TimeStep == ASSUME ReadoutInv, [ReadoutNext]_readout_vars PROVE TimeInv'
<1>1. /\ StageInv /\ TimeInv /\ ctl \in Commands /\ next_ts \in Nat /\ run_first \in Nat
      /\ m_last_processed_daq_ts \in Nat /\ prev_ts \in Nat /\ run \in Nat
      /\ sync.run \in Nat /\ sync.daq_time \in Nat
  BY Sizes DEF ReadoutInv, ReadoutTypeOK, ControlTypeOK, FeedTypeOK, SyncTypeOK, Pointer, Ts, Null
<1>0. UNCHANGED m_callback_mode
  BY ChangesStage DEF Conf, Start, Stop, Joins, JoinHandler, JoinTimesync, JoinConsumer, JoinThreads, Scrap, conf_vars
<1> USE DEF Receiving, Syncing, Commands
<1>2. CASE Start
  <2>1. /\ run' = run + 1 /\ run_first' = next_ts /\ next_ts' = next_ts /\ prev_ts' = 0 /\ sync' = sync
        /\ m_last_processed_daq_ts' = m_last_processed_daq_ts /\ ctl = "configured" /\ ctl' = "running"
    BY <1>2 DEF Start
  <2>2. ~m_callback_mode => m_last_processed_daq_ts = 0
    BY <1>1, <2>1 DEF TimeInv
  <2> QED
    BY <1>0, <1>1, <2>1, <2>2 DEF TimeInv
<1>3. CASE JoinThreads
  <2>1. /\ m_last_processed_daq_ts' = 0 /\ ctl = "join_threads"
        /\ UNCHANGED <<run, run_first, next_ts, sync, prev_ts, timesync>>
    BY <1>3 DEF JoinThreads, ResetLastDaqTime, run_vars, feed_vars, sync_vars
  <2>2. timesync' = "off"
    BY <1>1, <2>1 DEF StageInv
  <2> QED
    BY <1>1, <2>1, <2>2 DEF TimeInv
<1>4. CASE Conf \/ Stop \/ JoinHandler \/ JoinTimesync \/ JoinConsumer \/ Scrap
  <2>1. UNCHANGED <<run, run_first, next_ts, sync, prev_ts, timesync, m_last_processed_daq_ts>>
    BY <1>4 DEF Conf, Stop, JoinHandler, JoinTimesync, JoinConsumer, Scrap, run_vars, feed_vars, sync_vars, proc_vars
  <2>2. ctl' \in {"initial", "configured"} => ctl \in {"initial", "configured"}
    BY <1>4 DEF Conf, Stop, JoinHandler, JoinTimesync, JoinConsumer, Scrap
  <2> QED
    BY <1>0, <1>1, <2>1, <2>2 DEF TimeInv
<1>5. CASE Receive
  <2>1. /\ m_last_processed_daq_ts' = next_ts /\ next_ts' = next_ts + 1
        /\ UNCHANGED <<ctl, run, run_first, sync, prev_ts, timesync>>
    BY <1>5 DEF Receive, Preprocess, run_vars, sync_vars
  <2>2. ~m_callback_mode => ctl \in Receiving
    BY <1>1, <1>5 DEF Receive, StageInv
  <2>3. run_first <= next_ts /\ (timesync # "off" => prev_ts <= next_ts)
    BY <1>1 DEF TimeInv
  <2> QED
    BY <1>0, <1>1, <2>1, <2>2, <2>3 DEF TimeInv
<1>6. CASE Timesync
  <2>1. UNCHANGED <<ctl, run, run_first, next_ts, m_last_processed_daq_ts>> /\ timesync # "off"
    BY <1>6 DEF Timesync, SyncTest, SendSync, FakeTrigger, run_vars, feed_vars, proc_vars
  <2>2. \/ UNCHANGED <<sync, prev_ts>>
        \/ sync'.run = run /\ sync'.daq_time = prev_ts' /\ prev_ts' = m_last_processed_daq_ts
    BY <1>6 DEF Timesync, SyncTest, SendSync, FakeTrigger
  <2> QED
    BY <1>0, <1>1, <2>1, <2>2 DEF TimeInv
<1>7. CASE UNCHANGED <<ctl, run_vars, next_ts, m_last_processed_daq_ts, sync_vars>>
  BY <1>0, <1>1, <1>7 DEF TimeInv, sync_vars, run_vars
<1>8. ReadoutNext => Start \/ JoinThreads \/ Receive \/ UNCHANGED <<next_ts, m_last_processed_daq_ts>>
  BY ChangesLastTime, ChangesFeed
  DEF Conf, Start, JoinConsumer, Scrap, Consumer, ConsumerExit, Write, HandOver, Pop, feed_vars
<1> QED
  BY <1>2, <1>3, <1>4, <1>5, <1>6, <1>7, <1>8, ChangesStage, ChangesSync
  DEF Joins, readout_vars, feed_vars, proc_vars
-----------------------------------------------------------------------------
(* The buffer                                                              *)

(* What each action that changes the ring makes of it.                     *)
LEMMA WriteRing ==
  ASSUME FeedTypeOK, payload \in Ts, Write
  PROVE  /\ Len(ring') \in Nat /\ Len(ring') > 0 /\ Len(ring) <= Len(ring')
         /\ \A a \in 1..Len(ring) : ring'[a] = ring[a]
         /\ Len(ring) < Capacity => Len(ring') = Len(ring) + 1 /\ ring'[Len(ring')] = payload
         /\ ~(Len(ring) < Capacity) => ring' = ring
<1> DEFINE T == Ts
<1>1. ring \in Seq(T) /\ Len(ring) \in Nat /\ payload \in T
  BY DEF FeedTypeOK
<1>2. CASE Len(ring) < Capacity
  <2>1. ring' = Append(ring, payload)
    BY <1>2 DEF Write
  <2> HIDE DEF T
  <2> QED
    BY <1>1, <1>2, <2>1, Sizes
<1>3. CASE ~(Len(ring) < Capacity)
  <2>1. ring' = ring
    BY <1>3 DEF Write
  <2> HIDE DEF T
  <2> QED
    BY <1>1, <1>3, <2>1, Sizes
<1> QED
  BY <1>2, <1>3

LEMMA PopRing ==
  ASSUME FeedTypeOK, PopInv, Pop
  PROVE  /\ Len(ring) \in Nat /\ Len(ring) > 1 /\ Len(ring') = Len(ring) - 1
         /\ \A a \in 1..Len(ring') : ring'[a] = ring[a + 1]
         /\ Kept <= Len(ring) - 1
<1> DEFINE T == Ts
<1>1. ring \in Seq(T) /\ Len(ring) \in Nat /\ to_pop \in Nat /\ to_pop > 0 /\ ring' = Tail(ring)
  BY DEF FeedTypeOK, Pop
<1>2. to_pop < Len(ring) /\ Kept <= Len(ring) - to_pop
  BY <1>1 DEF PopInv
<1> HIDE DEF T
<1>3. Len(ring) > 1 /\ Kept <= Len(ring) - 1
  BY <1>1, <1>2, KeptType
<1>4. Len(Tail(ring)) = Len(ring) - 1 /\ \A a \in 1..Len(ring) - 1 : Tail(ring)[a] = ring[a + 1]
  BY <1>1, <1>3
<1> QED
  BY <1>1, <1>3, <1>4

LEMMA Flushes ==
  ASSUME Conf \/ JoinConsumer \/ Scrap
  PROVE  /\ ring' = <<>> /\ Len(ring') = 0
         /\ ctl \in {"initial", "configured", "join_consumer"} /\ ctl' \notin Receiving
         /\ UNCHANGED <<to_pop, feed_vars, m_callback_mode>>
<1>1. ring' = <<>>
  BY DEF Conf, JoinConsumer, Scrap
<1> QED
  BY <1>1 DEF Conf, JoinConsumer, Scrap, Receiving, conf_vars

LEMMA PopStep == ASSUME ReadoutInv, [ReadoutNext]_readout_vars PROVE PopInv'
<1>1. /\ FeedTypeOK /\ StageInv /\ PopInv /\ ctl \in Commands
      /\ to_pop \in Nat /\ Len(ring) \in Nat /\ Kept \in Int /\ Kept' = Kept
  BY KeptType DEF ReadoutInv, ReadoutTypeOK, ControlTypeOK, FeedTypeOK, Kept
<1>0. UNCHANGED m_callback_mode
  BY ChangesStage DEF Conf, Start, Stop, Joins, JoinHandler, JoinTimesync, JoinConsumer, JoinThreads, Scrap, conf_vars
<1> USE DEF Cleaning, Receiving, Commands
<1>2. CASE Conf \/ JoinConsumer \/ Scrap
  <2>1. /\ Len(ring') = 0 /\ ctl \notin Cleaning /\ UNCHANGED <<to_pop, consumer, handed_null>>
    BY <1>2, Flushes DEF feed_vars
  <2>2. ~m_callback_mode => consumer # "handover"
    BY <1>1, <1>2 DEF StageInv, Conf, JoinConsumer, Scrap, ConsumerJoined
  <2> QED
    BY <1>0, <1>1, <2>1, <2>2 DEF PopInv
<1>3. CASE Write
  <2>1. payload \in Ts
    BY <1>3 DEF ReadoutInv, OrderInv, Write
  <2>2. Len(ring') \in Nat /\ Len(ring') > 0 /\ Len(ring) <= Len(ring')
    BY <1>1, <1>3, <2>1, WriteRing
  <2>3. UNCHANGED <<ctl, to_pop, handed_null>>
    BY <1>3 DEF Write
  <2> QED
    BY <1>0, <1>1, <2>2, <2>3 DEF PopInv
<1>4. CASE Pop
  <2>1. Len(ring) > 1 /\ Len(ring') = Len(ring) - 1
    BY <1>1, <1>4, PopRing
  <2>2. to_pop > 0 /\ to_pop' = to_pop - 1 /\ UNCHANGED <<ctl, consumer, handed_null>>
    BY <1>4 DEF Pop, feed_vars
  <2> QED
    BY <1>0, <1>1, <2>1, <2>2 DEF PopInv
<1>5. CASE Cleanup
  <2>1. /\ Len(ring) > PopLimit /\ to_pop' = (Len(ring) * PopNum) \div PopDen /\ ctl \in Cleaning
        /\ UNCHANGED <<ring, ctl, consumer, handed_null>>
    BY <1>5 DEF Cleanup, ToPop, feed_vars
  <2>2. /\ (Len(ring) * PopNum) \div PopDen \in Nat /\ (Len(ring) * PopNum) \div PopDen < Len(ring)
        /\ Kept <= Len(ring) - (Len(ring) * PopNum) \div PopDen
    BY <1>1, <2>1, ShareLeaves
  <2> QED
    BY <1>0, <1>1, <2>1, <2>2 DEF PopInv
<1>6. CASE HandOver
  <2>1. ~m_callback_mode => Back # Null
    <3>1. ~m_callback_mode => Len(ring) > 0
      BY <1>1, <1>6 DEF PopInv, HandOver
    <3> QED
      BY <1>1, <3>1, BackType, Sizes DEF Ts, Null
  <2>2. ~m_callback_mode => ~handed_null'
    BY <1>1, <1>6, <2>1 DEF PopInv, HandOver
  <2>3. UNCHANGED <<ctl, ring, to_pop>> /\ consumer' # "handover"
    BY <1>6 DEF HandOver, ConsumerLoop, lb_vars
  <2> QED
    BY <1>0, <1>1, <2>2, <2>3 DEF PopInv
<1>7. CASE Start \/ Stop \/ JoinHandler \/ JoinTimesync \/ JoinThreads
  <2>1. UNCHANGED <<ring, to_pop, handed_null>> /\ (consumer' # consumer => consumer' # "handover")
    BY <1>7 DEF Start, Stop, JoinHandler, JoinTimesync, JoinThreads, lb_vars, feed_vars
  <2>2. to_pop # 0 => ctl' \in Cleaning
    BY <1>1, <1>7 DEF Start, Stop, JoinHandler, JoinTimesync, JoinThreads, PopInv
  <2> QED
    BY <1>0, <1>1, <2>1, <2>2 DEF PopInv
<1>8. CASE /\ UNCHANGED <<ctl, ring, to_pop, handed_null>>
           /\ consumer' # consumer => consumer' # "handover"
  BY <1>0, <1>1, <1>8 DEF PopInv
<1>9. ConsumerExit \/ Receive \/ UNCHANGED <<ring, feed_vars>> =>
        UNCHANGED <<ring, handed_null>> /\ (consumer' # consumer => consumer' # "handover")
  BY DEF ConsumerExit, Receive, lb_vars, feed_vars
<1> QED
  BY <1>2, <1>3, <1>4, <1>5, <1>6, <1>7, <1>8, <1>9, ChangesStage, ChangesFeed, ChangesToPop DEF Joins, Consumer

LEMMA OrderStep == ASSUME ReadoutInv, [ReadoutNext]_readout_vars PROVE OrderInv'
<1>1. /\ FeedTypeOK /\ PopInv /\ OrderInv /\ Len(ring) \in Nat /\ next_ts \in Nat /\ payload \in Nat
      /\ \A a \in 1..Len(ring) : ring[a] \in Nat
  <2> DEFINE T == Ts
  <2>1. FeedTypeOK /\ ring \in Seq(T) /\ PopInv /\ OrderInv
    BY DEF ReadoutInv, ReadoutTypeOK, FeedTypeOK
  <2>2. T \subseteq Nat
    BY Sizes DEF Ts
  <2>3. next_ts \in Nat /\ payload \in Nat
    BY Sizes DEF ReadoutInv, ReadoutTypeOK, FeedTypeOK, Pointer, Ts, Null
  <2> HIDE DEF T
  <2>4. Len(ring) \in Nat /\ \A a \in 1..Len(ring) : ring[a] \in T
    BY <2>1
  <2> QED
    BY <2>1, <2>2, <2>3, <2>4
<1>2. CASE Conf \/ JoinConsumer \/ Scrap
  <2>1. Len(ring') = 0 /\ UNCHANGED <<next_ts, consumer, payload>>
    BY <1>2, Flushes DEF feed_vars
  <2> QED
    BY <1>1, <2>1 DEF OrderInv, Ts
<1>3. CASE Write
  <2>1. payload \in Ts /\ payload < next_ts /\ \A a \in 1..Len(ring) : ring[a] < payload
    BY <1>1, <1>3 DEF OrderInv, Write
  <2>2. consumer' = "handover" /\ next_ts' = next_ts
    BY <1>3 DEF Write
  <2>3. CASE Len(ring) < Capacity
    <3>1. /\ Len(ring') = Len(ring) + 1 /\ ring'[Len(ring) + 1] = payload
          /\ \A a \in 1..Len(ring) : ring'[a] = ring[a]
      BY <1>1, <1>3, <2>1, <2>3, WriteRing
    <3>2. ASSUME NEW a \in 1..Len(ring'), NEW b \in 1..Len(ring'), a <= b
          PROVE  b - a <= ring'[b] - ring'[a]
      <4>1. CASE b <= Len(ring)
        BY <1>1, <3>1, <3>2, <4>1 DEF OrderInv
      <4>2. CASE b = Len(ring) + 1 /\ a = b
        BY <1>1, <3>1, <4>2
      <4>3. CASE b = Len(ring) + 1 /\ a <= Len(ring)
        <5>1. Len(ring) - a <= ring[Len(ring)] - ring[a] /\ ring[Len(ring)] < payload
          BY <1>1, <2>1, <4>3 DEF OrderInv
        <5> QED
          BY <1>1, <3>1, <4>3, <5>1
      <4> QED
        BY <1>1, <3>1, <3>2, <4>1, <4>2, <4>3
    <3>3. ASSUME NEW a \in 1..Len(ring') PROVE ring'[a] < next_ts
      <4>1. CASE a \in 1..Len(ring)
        BY <1>1, <3>1, <4>1 DEF OrderInv
      <4>2. CASE a = Len(ring) + 1
        BY <2>1, <3>1, <4>2
      <4> QED
        BY <1>1, <3>1, <4>1, <4>2
    <3> QED
      BY <2>2, <3>2, <3>3 DEF OrderInv
  <2>4. CASE ~(Len(ring) < Capacity)
    <3>1. ring' = ring
      BY <1>1, <1>3, <2>1, <2>4, WriteRing
    <3> QED
      BY <1>1, <2>2, <3>1 DEF OrderInv
  <2> QED
    BY <2>3, <2>4
<1>4. CASE Pop
  <2>1. Len(ring') = Len(ring) - 1 /\ \A a \in 1..Len(ring') : ring'[a] = ring[a + 1]
    BY <1>1, <1>4, PopRing
  <2>2. UNCHANGED <<next_ts, consumer, payload>>
    BY <1>4 DEF Pop, feed_vars
  <2>3. \A a \in 1..Len(ring') : a + 1 \in 1..Len(ring)
    BY <1>1, <2>1
  <2>4. ASSUME NEW a \in 1..Len(ring'), NEW b \in 1..Len(ring'), a <= b
        PROVE  b - a <= ring'[b] - ring'[a]
    <3>1. a + 1 \in 1..Len(ring) /\ b + 1 \in 1..Len(ring) /\ a + 1 <= b + 1
      BY <1>1, <2>1, <2>4
    <3>2. (b + 1) - (a + 1) <= ring[b + 1] - ring[a + 1]
      BY <1>1, <3>1 DEF OrderInv
    <3> QED
      BY <1>1, <2>1, <3>1, <3>2
  <2>5. \A a \in 1..Len(ring') : ring'[a] < next_ts /\ (consumer = "write" => ring'[a] < payload)
    BY <1>1, <2>1, <2>3 DEF OrderInv
  <2>6. consumer = "write" => payload \in Ts /\ payload < next_ts
    BY <1>1 DEF OrderInv
  <2>7. Ts' = Ts
    BY DEF Ts
  <2> QED
    BY <2>2, <2>4, <2>5, <2>6, <2>7 DEF OrderInv
<1>5. CASE Receive
  <2>1. /\ UNCHANGED ring /\ next_ts' = next_ts + 1 /\ payload' = next_ts /\ next_ts \in Ts
    BY <1>5 DEF Receive, lb_vars
  <2> QED
    BY <1>1, <2>1 DEF OrderInv, Ts
<1>6. CASE UNCHANGED <<ring, next_ts>> /\ (consumer' = "write" => UNCHANGED <<consumer, payload>>)
  BY <1>1, <1>6 DEF OrderInv, Ts
<1>7. Start \/ ConsumerExit \/ HandOver \/ UNCHANGED <<ring, feed_vars>> =>
        UNCHANGED <<ring, next_ts>> /\ (consumer' = "write" => UNCHANGED <<consumer, payload>>)
  BY DEF Start, ConsumerExit, HandOver, ConsumerLoop, lb_vars, feed_vars
<1> QED
  BY <1>2, <1>3, <1>4, <1>5, <1>6, <1>7, ChangesFeed DEF Consumer
-----------------------------------------------------------------------------
(* The pointers                                                            *)

(* A pointer that is live or old stays so until the flush: the element     *)
(* popped is older than everything else in the ring.                       *)
LEMMA StaysFresh ==
  ASSUME ReadoutInv, [ReadoutNext]_readout_vars, ctl' \in Receiving,
         NEW p \in Ts, InRing(p) \/ Old(p)
  PROVE  InRing(p)' \/ Old(p)'
<1>1. /\ FeedTypeOK /\ PopInv /\ OrderInv /\ Len(ring) \in Nat /\ next_ts \in Nat /\ p \in Nat
      /\ Kept \in Int /\ Kept' = Kept
  <2>1. FeedTypeOK /\ PopInv /\ OrderInv /\ Len(ring) \in Nat /\ next_ts \in Nat
    BY Sizes DEF ReadoutInv, ReadoutTypeOK, FeedTypeOK
  <2> QED
    BY <2>1, KeptType, Sizes DEF Ts, Kept
<1>2. next_ts' = next_ts \/ next_ts' = next_ts + 1
  BY ChangesFeed DEF Conf, Start, JoinConsumer, Scrap, Consumer, ConsumerExit, Receive, Write, HandOver, Pop, feed_vars
<1>3. CASE Old(p)
  BY <1>1, <1>2, <1>3 DEF Old
<1>4. CASE InRing(p)
  <2>1. PICK a \in 1..Len(ring) : ring[a] = p
    BY <1>4 DEF InRing
  <2>2. CASE Write
    <3>1. payload \in Ts
      BY <1>1, <2>2 DEF OrderInv, Write
    <3>2. ring'[a] = p /\ a \in 1..Len(ring')
      BY <1>1, <2>1, <2>2, <3>1, WriteRing
    <3> QED
      BY <3>2 DEF InRing
  <2>3. CASE Pop
    <3>1. /\ Len(ring') = Len(ring) - 1 /\ \A b \in 1..Len(ring') : ring'[b] = ring[b + 1]
          /\ Kept <= Len(ring) - 1 /\ Len(ring) > 1
      BY <1>1, <2>3, PopRing
    <3>2. CASE a = 1
      <4>1. Len(ring) - 1 <= ring[Len(ring)] - p /\ ring[Len(ring)] < next_ts
        BY <1>1, <2>1, <3>1, <3>2 DEF OrderInv
      <4>2. ring[Len(ring)] \in Nat
        <5> DEFINE T == Ts
        <5>1. ring \in Seq(T) /\ T \subseteq Nat
          BY <1>1, Sizes DEF FeedTypeOK, Ts
        <5> HIDE DEF T
        <5>2. ring[Len(ring)] \in T
          BY <1>1, <3>1, <5>1
        <5> QED
          BY <5>1, <5>2
      <4>3. next_ts' = next_ts
        BY <2>3 DEF Pop, feed_vars
      <4> QED
        BY <1>1, <3>1, <4>1, <4>2, <4>3 DEF Old
    <3>3. CASE a # 1
      <4>1. a - 1 \in 1..Len(ring') /\ ring'[a - 1] = p
        BY <1>1, <2>1, <3>1, <3>3
      <4> QED
        BY <4>1 DEF InRing
    <3> QED
      BY <3>2, <3>3
  <2>4. CASE UNCHANGED ring
    BY <2>1, <2>4 DEF InRing
  <2> QED
    BY <2>2, <2>3, <2>4, ChangesFeed, Flushes DEF Start, Consumer, ConsumerExit, Receive, HandOver, lb_vars
<1> QED
  BY <1>3, <1>4

LEMMA FreshStep == ASSUME ReadoutInv, [ReadoutNext]_readout_vars PROVE FreshInv'
<1> SUFFICES ASSUME ~m_callback_mode', ctl' \in Receiving, NEW i \in Tasks
             PROVE  /\ work'[i] # Null => InRing(work[i])' \/ Old(work[i])'
                    /\ \A k \in 1..Len(posts'[i]) : posts'[i][k] # Null => InRing(posts[i][k])' \/ Old(posts[i][k])'
  BY DEF FreshInv, Null
<1> DEFINE P == Pointer
           Held(p) == p \in P /\ (p # Null => InRing(p) \/ Old(p))
<1>1. /\ FeedTypeOK /\ PopInv /\ OwedInv /\ StageInv /\ ctl \in Commands
      /\ work \in [Tasks -> P] /\ posts \in [Tasks -> Seq(P)]
      /\ thread \in [Tasks -> {"off", "idle", "busy"}]
  BY DEF ReadoutInv, ReadoutTypeOK, ControlTypeOK, PostTypeOK
<1>2. ~m_callback_mode
  BY ChangesStage DEF Conf, Start, Stop, Joins, JoinHandler, JoinTimesync, JoinConsumer, JoinThreads, Scrap, conf_vars
<1>3. ASSUME NEW p, Held(p), p # Null PROVE InRing(p)' \/ Old(p)'
  <2>1. p \in Ts
    BY <1>3 DEF Pointer
  <2> QED
    BY <1>3, <2>1, StaysFresh
<1>4. CASE Start
  <2>1. work[i] = Null /\ posts[i] = <<>>
    BY <1>1, <1>2, <1>4 DEF Start, OwedInv, StageInv, Receiving
  <2>2. work'[i] = Null /\ posts'[i] = <<>>
    BY <1>4, <2>1 DEF Start
  <2> QED
    BY <2>2
<1>5. CASE ctl \in Receiving
  <2>1. Held(work[i]) /\ posts[i] \in Seq(P) /\ Len(posts[i]) \in Nat /\ \A k \in 1..Len(posts[i]) : Held(posts[i][k])
    <3>1. /\ work[i] # Null => InRing(work[i]) \/ Old(work[i])
          /\ \A k \in 1..Len(posts[i]) : posts[i][k] # Null => InRing(posts[i][k]) \/ Old(posts[i][k])
      BY <1>2, <1>5 DEF ReadoutInv, FreshInv
    <3>2. work[i] \in P /\ posts[i] \in Seq(P)
      BY <1>1
    <3>3. Len(posts[i]) \in Nat /\ \A k \in 1..Len(posts[i]) : posts[i][k] \in P
      <4> HIDE DEF P
      <4> QED
        BY <3>2
    <3> QED
      BY <3>1, <3>2, <3>3
  <2> HIDE DEF Held
  <2>2. ASSUME NEW w, NEW q, w = work'[i], q = posts'[i], w = Null \/ Held(w),
               \A k \in 1..Len(q) : Held(q[k])
        PROVE  /\ work'[i] # Null => InRing(work[i])' \/ Old(work[i])'
               /\ \A k \in 1..Len(posts'[i]) : posts'[i][k] # Null => InRing(posts[i][k])' \/ Old(posts[i][k])'
    BY <1>3, <2>2
  <2>3. CASE HandOver
    <3>1. UNCHANGED work /\ posts'[i] = IF HasRoom(i) THEN Append(posts[i], Back) ELSE posts[i]
      BY <2>3 DEF HandOver
    <3>2. Held(Back) /\ Back \in P
      <4>1. Len(ring) > 0
        BY <1>1, <1>2, <2>3 DEF PopInv, HandOver
      <4> QED
        BY <1>1, <4>1, BackType DEF Held
    <3> HIDE DEF P
    <3>3. \A k \in 1..Len(posts'[i]) : Held(posts'[i][k])
      <4>1. CASE HasRoom(i)
        <5>1. /\ Len(posts'[i]) = Len(posts[i]) + 1 /\ posts'[i][Len(posts[i]) + 1] = Back
              /\ \A k \in 1..Len(posts[i]) : posts'[i][k] = posts[i][k]
          BY <2>1, <3>1, <3>2, <4>1
        <5> QED
          BY <2>1, <3>2, <5>1
      <4>2. CASE ~HasRoom(i)
        BY <2>1, <3>1, <4>2
      <4> QED
        BY <4>1, <4>2
    <3> QED
      BY <2>1, <2>2, <3>1, <3>3
  <2>4. ASSUME NEW j \in Tasks, PostRead(j)
        PROVE  (work'[i] = Null \/ Held(work'[i])) /\ \A k \in 1..Len(posts'[i]) : Held(posts'[i][k])
    <3> HIDE DEF P
    <3>1. CASE i = j
      <4>1. posts[i] # <<>> /\ work'[i] = Head(posts[i]) /\ posts'[i] = Tail(posts[i])
        BY <1>1, <2>4, <3>1 DEF PostRead
      <4>2. /\ Head(posts[i]) = posts[i][1] /\ Len(posts[i]) > 0 /\ Len(Tail(posts[i])) = Len(posts[i]) - 1
            /\ \A k \in 1..Len(posts[i]) - 1 : Tail(posts[i])[k] = posts[i][k + 1]
        BY <2>1, <4>1
      <4>3. \A k \in 1..Len(posts[i]) - 1 : k + 1 \in 1..Len(posts[i])
        BY <2>1
      <4> QED
        BY <2>1, <4>1, <4>2, <4>3
    <3>2. CASE i # j
      <4>1. work'[i] = work[i] /\ posts'[i] = posts[i]
        BY <1>1, <2>4, <3>2 DEF PostRead
      <4> QED
        BY <2>1, <4>1
    <3> QED
      BY <3>1, <3>2
  <2>5. ASSUME NEW j \in Tasks, PostDone(j) \/ PostExit(j)
        PROVE  (work'[i] = Null \/ Held(work'[i])) /\ \A k \in 1..Len(posts'[i]) : Held(posts'[i][k])
    <3>1. posts' = posts /\ (work'[i] = Null \/ work'[i] = work[i])
      BY <1>1, <2>5 DEF PostDone, PostExit
    <3> QED
      BY <2>1, <3>1
  <2>6. CASE UNCHANGED <<work, posts>>
    BY <2>1, <2>2, <2>6
  <2>7. ~Conf /\ ~Scrap
    BY <1>5 DEF Conf, Scrap, Receiving
  <2> QED
    BY <1>4, <2>2, <2>3, <2>4, <2>5, <2>6, <2>7, ChangesPosts DEF PostWork, PostThread, Write, post_vars
<1>6. ctl \in Receiving \/ Start
  BY ChangesStage DEF Conf, Stop, Joins, JoinHandler, JoinTimesync, JoinConsumer, JoinThreads, Scrap, Receiving
<1> QED
  BY <1>4, <1>5, <1>6
-----------------------------------------------------------------------------
(* What the tasks owe                                                      *)

(* Between runs nothing is owed.                                           *)
LEMMA NothingOwedAtRest ==
  ASSUME ReadoutInv, ~m_callback_mode, ctl \in {"initial", "configured"}, NEW i \in Tasks
  PROVE  outstanding[i] = {} /\ posts[i] = <<>> /\ consumer = "off"
<1>1. thread[i] = "off" /\ consumer = "off"
  BY DEF ReadoutInv, StageInv, Receiving
<1>2. posts[i] = <<>> /\ work[i] = Null
  BY <1>1 DEF ReadoutInv, OwedInv, Receiving
<1>3. ASSUME NEW e \in outstanding[i] PROVE FALSE
  <2>1. Queued(i, e) \/ e = work[i] \/ Coming(e)
    BY DEF ReadoutInv, OwedInv
  <2>2. ~Queued(i, e) /\ ~Coming(e)
    BY <1>1, <1>2 DEF Queued, Coming
  <2>3. e \in Ts
    BY DEF ReadoutInv, ReadoutTypeOK, PostTypeOK
  <2> QED
    BY <1>2, <2>1, <2>2, <2>3, Sizes DEF Ts, Null
<1> QED
  BY <1>1, <1>2, <1>3

LEMMA WorkStep == ASSUME ReadoutInv, [ReadoutNext]_readout_vars, NEW i \in Tasks
                  PROVE  thread'[i] # "busy" => work'[i] = Null
<1>1. /\ thread[i] # "busy" => work[i] = Null
      /\ thread \in [Tasks -> {"off", "idle", "busy"}] /\ work \in [Tasks -> Pointer]
  BY DEF ReadoutInv, OwedInv, ReadoutTypeOK, PostTypeOK
<1>2. CASE Start
  <2>1. thread[i] = "off"
    BY <1>2 DEF Start, ReadoutInv, StageInv
  <2> QED
    BY <1>1, <1>2, <2>1 DEF Start
<1>3. CASE PostWork
  <2>1. PICK j \in Tasks : PostThread(j)
    BY <1>3 DEF PostWork
  <2> QED
    BY <1>1, <2>1 DEF PostThread, PostRead, PostDone, PostExit
<1> QED
  BY <1>1, <1>2, <1>3, ChangesPosts DEF Conf, Scrap, Write, HandOver, post_vars

LEMMA EmptiedStep ==
  ASSUME ReadoutInv, [ReadoutNext]_readout_vars, ~m_callback_mode, NEW i \in Tasks,
         ctl' \notin Receiving, thread'[i] = "off"
  PROVE  posts'[i] = <<>>
<1>1. /\ StageInv /\ posts \in [Tasks -> Seq(Pointer)] /\ thread \in [Tasks -> {"off", "idle", "busy"}]
      /\ ctl \notin Receiving /\ thread[i] = "off" => posts[i] = <<>>
  BY DEF ReadoutInv, OwedInv, ReadoutTypeOK, PostTypeOK
<1>2. CASE Conf \/ Scrap
  BY <1>2 DEF Conf, Scrap, ConfProcessor, ScrapProcessor
<1>3. CASE Start \/ Stop \/ JoinHandler \/ JoinTimesync
  BY <1>3 DEF Start, Stop, JoinHandler, JoinTimesync, Receiving
<1>4. CASE JoinConsumer
  <2>1. thread' = thread /\ ctl \in Receiving
    BY <1>4 DEF JoinConsumer, post_vars, Receiving
  <2> QED
    BY <1>1, <2>1 DEF StageInv
<1>5. CASE JoinThreads
  <2>1. UNCHANGED <<thread, posts>> /\ ctl \notin Receiving
    BY <1>5 DEF JoinThreads, post_vars, Receiving
  <2> QED
    BY <1>1, <2>1
<1>6. CASE UNCHANGED ctl
  <2>1. CASE HandOver
    BY <1>1, <1>6, <2>1 DEF HandOver, StageInv
  <2>2. CASE PostWork
    <3>1. PICK j \in Tasks : PostThread(j)
      BY <2>2 DEF PostWork
    <3>2. CASE i = j
      BY <1>1, <1>6, <3>1, <3>2 DEF PostThread, PostRead, PostDone, PostExit, Leaves
    <3>3. CASE i # j
      BY <1>1, <1>6, <3>1, <3>3 DEF PostThread, PostRead, PostDone, PostExit
    <3> QED
      BY <3>2, <3>3
  <2>3. CASE UNCHANGED <<thread, posts>>
    BY <1>1, <1>6, <2>3
  <2> QED
    BY <1>2, <1>3, <2>1, <2>2, <2>3, ChangesPosts DEF Write, post_vars
<1> QED
  BY <1>2, <1>3, <1>4, <1>5, <1>6, ChangesStage DEF Joins

LEMMA OwedElementStep ==
  ASSUME ReadoutInv, [ReadoutNext]_readout_vars, ~m_callback_mode,
         NEW i \in Tasks, NEW e \in outstanding'[i]
  PROVE  /\ e < next_ts' /\ (consumer' = "write" => e < payload')
         /\ Queued(i, e)' \/ e = work'[i] \/ Coming(e)'
<1> DEFINE P == Pointer
<1>1. /\ FeedTypeOK /\ StageInv /\ PopInv /\ OrderInv
      /\ posts \in [Tasks -> Seq(P)] /\ work \in [Tasks -> P] /\ outstanding \in [Tasks -> SUBSET Ts]
      /\ next_ts \in Nat /\ payload \in Nat /\ Len(ring) \in Nat
  BY Sizes DEF ReadoutInv, ReadoutTypeOK, PostTypeOK, FeedTypeOK, Pointer, Ts, Null
<1>2. posts[i] \in Seq(P) /\ Len(posts[i]) \in Nat
  BY <1>1
<1>3. ASSUME e \in outstanding[i]
      PROVE  /\ e \in Nat /\ e # Null /\ e < next_ts /\ (consumer = "write" => e < payload)
             /\ Queued(i, e) \/ e = work[i] \/ Coming(e)
  <2>1. e \in Ts
    BY <1>1, <1>3
  <2> QED
    BY <1>3, <2>1, Sizes DEF ReadoutInv, OwedInv, Ts, Null
<1>4. CASE Conf \/ Scrap \/ Start
  <2>1. outstanding' = outstanding /\ ctl \in {"initial", "configured"}
    BY <1>4 DEF Conf, Scrap, Start
  <2> QED
    BY <2>1, NothingOwedAtRest
<1>5. CASE Receive
  <2>1. e \in outstanding[i] /\ consumer # "handover" /\ next_ts' = next_ts + 1 /\ payload' = next_ts
        /\ UNCHANGED <<posts, work>>
    BY <1>5 DEF Receive, post_vars
  <2> QED
    BY <1>1, <1>3, <2>1 DEF Queued, Coming
<1>6. CASE Write
  <2>1. /\ consumer = "write" /\ consumer' = "handover" /\ UNCHANGED <<next_ts, payload, posts, work>>
    BY <1>6 DEF Write
  <2>2. payload \in Ts /\ payload < next_ts
    BY <1>1, <2>1 DEF OrderInv
  <2>3. CASE e \in outstanding[i]
    BY <1>3, <2>1, <2>3 DEF Queued, Coming
  <2>4. CASE e \notin outstanding[i]
    <3>1. Len(ring) < Capacity /\ e = payload
      BY <1>6, <2>4 DEF Write
    <3>2. Len(ring') > 0 /\ ring'[Len(ring')] = payload
      BY <1>1, <1>6, <2>2, <3>1, WriteRing
    <3> QED
      BY <2>1, <2>2, <3>1, <3>2 DEF Coming
  <2> QED
    BY <2>3, <2>4
<1>7. CASE HandOver
  <2>1. /\ consumer = "handover" /\ consumer' # "write" /\ UNCHANGED <<next_ts, work>>
        /\ posts'[i] = IF HasRoom(i) THEN Append(posts[i], Back) ELSE posts[i]
        /\ e \in outstanding[i] /\ (~HasRoom(i) => e # Back)
    BY <1>7 DEF HandOver, ConsumerLoop
  <2>2. Len(ring) > 0 /\ Back = ring[Len(ring)] /\ Back \in P
    BY <1>1, <2>1, BackType DEF PopInv
  <2>3. Coming(e) => e = Back
    BY <2>2 DEF Coming
  <2>4. Queued(i, e) => Queued(i, e)'
    <3> HIDE DEF P
    <3>1. CASE HasRoom(i)
      <4>1. Len(posts'[i]) = Len(posts[i]) + 1 /\ \A k \in 1..Len(posts[i]) : posts'[i][k] = posts[i][k]
        BY <1>2, <2>1, <2>2, <3>1
      <4> QED
        BY <1>2, <4>1 DEF Queued
    <3>2. CASE ~HasRoom(i)
      BY <2>1, <3>2 DEF Queued
    <3> QED
      BY <3>1, <3>2
  <2>5. HasRoom(i) /\ e = Back => Queued(i, e)'
    <3> HIDE DEF P
    <3>1. HasRoom(i) => Len(posts'[i]) = Len(posts[i]) + 1 /\ posts'[i][Len(posts[i]) + 1] = Back
      BY <1>2, <2>1, <2>2
    <3> QED
      BY <1>2, <3>1 DEF Queued
  <2> QED
    BY <1>3, <2>1, <2>3, <2>4, <2>5
<1>8. CASE Pop
  <2>1. /\ e \in outstanding[i] /\ UNCHANGED <<consumer, payload, next_ts, posts, work>>
    BY <1>8 DEF Pop, feed_vars, post_vars
  <2>2. /\ Len(ring) > 1 /\ Len(ring') = Len(ring) - 1
        /\ \A a \in 1..Len(ring') : ring'[a] = ring[a + 1]
    BY <1>1, <1>8, PopRing
  <2>3. Len(ring') > 0 /\ ring'[Len(ring')] = ring[Len(ring)]
    BY <1>1, <2>2
  <2> QED
    BY <1>3, <2>1, <2>3 DEF Queued, Coming
<1>9. CASE JoinConsumer
  <2>1. consumer = "off" /\ UNCHANGED <<outstanding, consumer, next_ts, posts, work>>
    BY <1>9 DEF JoinConsumer, ConsumerJoined, feed_vars, post_vars
  <2> QED
    BY <1>3, <2>1 DEF Queued, Coming
<1>10. CASE PostWork
  <2>1. PICK j \in Tasks : PostThread(j)
    BY <1>10 DEF PostWork
  <2>2. UNCHANGED <<ring, consumer, payload, next_ts>>
    BY <2>1 DEF PostThread, PostRead, PostDone, PostExit, lb_vars, feed_vars
  <2>3. CASE PostRead(j)
    <3>1. e \in outstanding[i]
      BY <2>3 DEF PostRead
    <3>2. CASE i = j
      <4>1. thread[i] = "idle" /\ posts[i] # <<>> /\ work'[i] = Head(posts[i]) /\ posts'[i] = Tail(posts[i])
        BY <1>1, <2>3, <3>2 DEF PostRead
      <4>2. work[i] = Null
        BY <4>1 DEF ReadoutInv, OwedInv
      <4>3. /\ Head(posts[i]) = posts[i][1] /\ Len(Tail(posts[i])) = Len(posts[i]) - 1
            /\ \A k \in 1..Len(posts[i]) - 1 : Tail(posts[i])[k] = posts[i][k + 1]
        <5> HIDE DEF P
        <5> QED
          BY <1>2, <4>1
      <4>4. Queued(i, e) => Queued(i, e)' \/ e = work'[i]
        <5>1. SUFFICES ASSUME NEW k \in 1..Len(posts[i]), posts[i][k] = e, e # work'[i]
                       PROVE  Queued(i, e)'
          BY DEF Queued
        <5>2. k # 1
          BY <5>1, <4>1, <4>3
        <5>3. k - 1 \in 1..Len(posts'[i]) /\ posts'[i][k - 1] = e
          BY <1>2, <4>1, <4>3, <5>1, <5>2
        <5> QED
          BY <5>3 DEF Queued
      <4> QED
        BY <1>3, <2>2, <3>1, <4>2, <4>4 DEF Coming
    <3>3. CASE i # j
      <4>1. work'[i] = work[i] /\ posts'[i] = posts[i]
        BY <1>1, <2>3, <3>3 DEF PostRead
      <4> QED
        BY <1>3, <2>2, <3>1, <4>1 DEF Coming, Queued
    <3> QED
      BY <3>2, <3>3
  <2>4. CASE PostDone(j)
    <3>1. e \in outstanding[i] /\ (i = j => e # work[i]) /\ posts' = posts /\ (i # j => work'[i] = work[i])
      BY <1>1, <2>4 DEF PostDone
    <3> QED
      BY <1>3, <2>2, <3>1 DEF Coming, Queued
  <2>5. CASE PostExit(j)
    <3>1. e \in outstanding[i] /\ UNCHANGED <<posts, work>>
      BY <2>5 DEF PostExit
    <3> QED
      BY <1>3, <2>2, <3>1 DEF Coming, Queued
  <2> QED
    BY <2>1, <2>3, <2>4, <2>5 DEF PostThread
<1>11. CASE UNCHANGED post_vars /\ UNCHANGED <<ring, next_ts>> /\
            (UNCHANGED <<consumer, payload>> \/ (consumer = "receive" /\ consumer' = "off"))
  <2>1. e \in outstanding[i] /\ UNCHANGED <<posts, work, ring, next_ts>>
    BY <1>11 DEF post_vars
  <2> QED
    BY <1>3, <1>11, <2>1 DEF Coming, Queued
<1>12. ConsumerExit \/ UNCHANGED <<ring, feed_vars>> =>
         /\ UNCHANGED <<ring, next_ts>>
         /\ UNCHANGED <<consumer, payload>> \/ (consumer = "receive" /\ consumer' = "off")
  BY DEF ConsumerExit, lb_vars, feed_vars
<1> QED
  BY <1>4, <1>5, <1>6, <1>7, <1>8, <1>9, <1>10, <1>11, <1>12, ChangesPosts, ChangesFeed DEF Consumer

LEMMA OwedStep == ASSUME ReadoutInv, [ReadoutNext]_readout_vars PROVE OwedInv'
<1>0. UNCHANGED m_callback_mode
  BY ChangesStage DEF Conf, Start, Stop, Joins, JoinHandler, JoinTimesync, JoinConsumer, JoinThreads, Scrap, conf_vars
<1>1. \A i \in Tasks : thread'[i] # "busy" => work'[i] = Null
  BY WorkStep
<1>2. ASSUME ~m_callback_mode, NEW i \in Tasks
      PROVE  ctl' \notin Receiving /\ thread'[i] = "off" => posts'[i] = <<>>
  BY <1>2, EmptiedStep
<1>3. ASSUME ~m_callback_mode, NEW i \in Tasks, NEW e \in outstanding'[i]
      PROVE  /\ e < next_ts' /\ (consumer' = "write" => e < payload')
             /\ Queued(i, e)' \/ e = work'[i] \/ Coming(e)'
  BY <1>3, OwedElementStep
<1> QED
  BY <1>0, <1>1, <1>2, <1>3 DEF OwedInv, Null, Receiving

LEMMA ReadoutInvNext == ReadoutInv /\ [ReadoutNext]_readout_vars => ReadoutInv'
  BY TypeStep, StageStep, LostStep, PopStep, OrderStep, FreshStep, OwedStep, TimeStep DEF ReadoutInv

LEMMA ReadoutInvariant == ReadoutSpec => []ReadoutInv
  BY ReadoutInvInit, ReadoutInvNext, PTL DEF ReadoutSpec
-----------------------------------------------------------------------------
(* The theorems                                                            *)

(* Ring, queues, pointers, threads and counters keep their types, and ring *)
(* and queues their limits, in polling and in callback mode.               *)
THEOREM ReadoutTypeCorrect == ReadoutSpec => []ReadoutTypeOK
<1>1. ReadoutInv => ReadoutTypeOK
  BY DEF ReadoutInv
<1> QED
  BY <1>1, ReadoutInvariant, PTL

(* consume_payload() never hands a null back() on, and a post-processing   *)
(* thread that is less than Kept elements behind reads live elements.      *)
THEOREM PostprocessingReadsLive == ReadoutSpec => []FreshPointersAreLive
<1>1. ReadoutInv => FreshPointersAreLive
  <2> SUFFICES ASSUME ReadoutInv, ~m_callback_mode PROVE
                 /\ ~handed_null
                 /\ ctl \in Receiving =>
                      \A i \in Tasks : \A p \in Pointers(i) : Cardinality(Younger(p)) < Kept => p \in ToSet(ring)
    BY DEF FreshPointersAreLive, Receiving
  <2>1. ~handed_null
    BY DEF ReadoutInv, PopInv
  <2>2. ASSUME ctl \in Receiving, NEW i \in Tasks, NEW p \in Pointers(i), Cardinality(Younger(p)) < Kept
        PROVE  p \in ToSet(ring)
    <3> DEFINE P == Pointer
    <3>1. posts[i] \in Seq(P) /\ work[i] \in P /\ ring \in Seq(Ts) /\ next_ts \in 1..MaxTs + 1
      BY DEF ReadoutInv, ReadoutTypeOK, PostTypeOK, FeedTypeOK
    <3>2. p # Null /\ (p = work[i] \/ \E k \in 1..Len(posts[i]) : p = posts[i][k])
      <4>1. DOMAIN posts[i] = 1..Len(posts[i])
        <5> HIDE DEF P
        <5> QED
          BY <3>1
      <4> QED
        BY <2>2, <4>1 DEF Pointers, ToSet
    <3>3. p \in P
      <4> HIDE DEF P
      <4> QED
        BY <3>1, <3>2
    <3>4. InRing(p) \/ Old(p)
      BY <2>2, <3>2 DEF ReadoutInv, FreshInv
    <3>5. ~Old(p)
      <4>1. p \in 1..MaxTs
        BY <3>2, <3>3 DEF Pointer, Ts
      <4>2. Younger(p) = (p + 1)..(next_ts - 1)
        BY <3>1, <4>1, Sizes DEF Younger, Ts
      <4>3. next_ts - 1 - p <= Cardinality((p + 1)..(next_ts - 1)) /\ Cardinality((p + 1)..(next_ts - 1)) \in Int
        <5>1. p + 1 \in Int /\ next_ts - 1 \in Int
          BY <3>1, <4>1, Sizes
        <5>2. Cardinality((p + 1)..(next_ts - 1)) = IF p + 1 > next_ts - 1 THEN 0 ELSE (next_ts - 1) - (p + 1) + 1
          BY <5>1, FS_Interval
        <5> QED
          BY <3>1, <4>1, <5>2, Sizes
      <4> QED
        BY <2>2, <3>1, <4>1, <4>2, <4>3, KeptType, Sizes DEF Old
    <3>6. DOMAIN ring = 1..Len(ring)
      <4> DEFINE T == Ts
      <4>1. ring \in Seq(T)
        BY <3>1
      <4> HIDE DEF T
      <4> QED
        BY <4>1
    <3> QED
      BY <3>4, <3>5, <3>6 DEF InRing, ToSet
  <2> QED
    BY <2>1, <2>2
<1> QED
  BY <1>1, ReadoutInvariant, PTL

(* When stop() has returned, every element accepted in a polled run has    *)
(* been processed by every task or warned about, and at most one fake      *)
(* trigger per run went to the joined pool.                                *)
THEOREM StopLeavesNothing == ReadoutSpec => []NothingLeftOver
<1>1. ReadoutInv => NothingLeftOver
  <2>1. ReadoutInv => lost <= run
    BY DEF ReadoutInv, LostInv
  <2> QED
    BY <2>1, NothingOwedAtRest DEF NothingLeftOver
<1> QED
  BY <1>1, ReadoutInvariant, PTL

(* A TimeSync is of its own run and later than the one before it.          *)
THEOREM TimeSyncsOrdered == ReadoutSpec => TimeSyncsAdvance
<1>1. ASSUME ReadoutInv, [ReadoutNext]_readout_vars, sync' # sync
      PROVE  /\ m_callback_mode \/ sync'.daq_time >= run_first
             /\ sync'.run = sync.run => sync'.daq_time > sync.daq_time
  <2>1. SendSync
    BY <1>1, ChangesSync DEF Start, Timesync, SyncTest, FakeTrigger, sync_vars
  <2>2. /\ m_last_processed_daq_ts \in Nat /\ prev_ts \in Nat /\ run_first \in Nat
        /\ sync.run \in Nat /\ sync.daq_time \in Nat
    BY <1>1, Sizes DEF ReadoutInv, ReadoutTypeOK, ControlTypeOK, SyncTypeOK, Pointer, Ts, Null
  <2>3. /\ timesync # "off" /\ sync'.run = run /\ sync'.daq_time = m_last_processed_daq_ts
        /\ m_last_processed_daq_ts # 0 /\ m_last_processed_daq_ts # prev_ts
    BY <1>1, <2>1 DEF SendSync, WorthSending
  <2>4. /\ m_callback_mode \/ run_first <= m_last_processed_daq_ts
        /\ prev_ts <= m_last_processed_daq_ts /\ (sync.run = run => prev_ts = sync.daq_time)
    BY <1>1, <2>3 DEF ReadoutInv, TimeInv
  <2> QED
    BY <2>2, <2>3, <2>4
<1>2. ReadoutInv /\ [ReadoutNext]_readout_vars =>
        [sync' # sync => /\ m_callback_mode \/ sync'.daq_time >= run_first
                         /\ sync'.run = sync.run => sync'.daq_time > sync.daq_time]_readout_vars
  BY <1>1
<1> QED
  BY <1>2, ReadoutInvariant, PTL DEF ReadoutSpec, TimeSyncsAdvance
=============================================================================
