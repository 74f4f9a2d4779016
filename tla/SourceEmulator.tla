--------------------------- MODULE SourceEmulator ---------------------------
(***************************************************************************)
(* SourceEmulatorModel: run_produce() sends the elements of a file round   *)
(* and round, with timestamps of its own, dropouts and frame errors, at    *)
(* the pace of a RateLimiter.  The file (FileSourceBuffer) is its size in  *)
(* units, the error bits (ErrorBitGenerator) are there or not, time is     *)
(* counted from start().  Which channels the periodic pattern lifts is     *)
(* contents of the elements and left out.                                  *)
(* The owner of the emulator sets the run marker before start() and clears *)
(* it before stop().                                                       *)
(***************************************************************************)
EXTENDS Integers, Sequences

CONSTANTS ElemSize, FileSizes,       \* sizeof(ReadoutType); sizes of the input file
          PopulationSize,            \* random_population_size, the length of the dropouts
          NumFrames, FramesPerTick,  \* frames of an element, elements of a tick
          Step,                      \* m_time_tick_diff * get_num_frames()
          TsRange, FirstTs,          \* timestamps are modulo TsRange; the first ones
          m_period, m_max_overshoot, \* of the rate limiter
          m_size, MaxDuration,       \* error stretches: how many are drawn, the longest one
          MaxSlots, MaxTime, MaxRuns, MaxConfs

ASSUME SourceAssumption ==
  /\ {ElemSize, PopulationSize, m_size, NumFrames, FramesPerTick, Step, TsRange, m_period}
       \subseteq Nat \ {0}
  /\ {m_max_overshoot, MaxDuration, MaxSlots, MaxTime, MaxRuns, MaxConfs} \subseteq Nat
  /\ FileSizes \subseteq Nat /\ FirstTs \subseteq 0..TsRange - 1

VARIABLES ctl, m_sender_is_set, m_run_marker, confs, runs,
          file_size, m_dropouts,               \* set by conf()
          ebg,                                 \* the error bit generator
          producer, offset, dropout_index, timestamp, i, \* run_produce() and its locals
          clock, m_deadline,                   \* the rate limiter
          m_packet_count, m_packet_count_tot,
          unreported,                          \* history: made, and not yet reported by get_info()
          slots, ts_0, last,                   \* history: elements of this run, the last one
          tat, late                            \* history: pace of the ticks

conf_vars == <<file_size, m_dropouts>>
ctl_vars == <<ctl, m_sender_is_set, m_run_marker, confs, runs>>
locals == <<offset, dropout_index, timestamp, i>>
counters == <<m_packet_count, m_packet_count_tot, unreported>>
pace_vars == <<clock, m_deadline, tat, late>>
run_history == <<slots, ts_0, last>>
source_vars == <<ctl_vars, conf_vars, ebg, producer, locals, counters, pace_vars, run_history>>

None == -1

(* TRUE for an element that is made; one entry without a dropout rate.     *)
Populations == {<<TRUE>>} \cup [1..PopulationSize -> BOOLEAN]

(* The draws of generate() for one kind of stretch.                        *)
Draws == [0..m_size - 1 -> 1..MaxDuration]

(* generate() with an error rate of num / 2.                               *)
Generator(num, errors, rest) ==
  [rate |-> num, error_occurrences |-> [k \in 0..m_size - 1 |-> (errors[k] * num) \div 2],
   no_error_occurrences |-> [k \in 0..m_size - 1 |-> (rest[k] * (2 - num)) \div 2],
   e |-> 0, n |-> 0, current |-> 0, count |-> 0, set |-> TRUE, bits |-> FALSE]

Shows(g) == g.set /\ g.current # 0

(* next(): stretches with and without error bits alternate.                *)
Switched(g) == IF g.set THEN [g EXCEPT !.e = (@ + 1) % m_size, !.set = FALSE, !.count = 0,
                                       !.current = g.no_error_occurrences[g.n]]
                        ELSE [g EXCEPT !.n = (@ + 1) % m_size, !.set = TRUE, !.count = 0,
                                       !.current = g.error_occurrences[g.e]]
NextBits(g) == LET h == IF g.count >= g.current THEN Switched(g) ELSE g
               IN [h EXCEPT !.count = @ + 1, !.bits = Shows(h)]

(* The generator after each frame of an element.                           *)
Frames == LET after[k \in 0..NumFrames] == IF k = 0 THEN ebg ELSE NextBits(after[k - 1]) IN after

NoElement == [ts |-> None, slot |-> 0, at |-> 0, err |-> FALSE]

SourceInit == /\ ctl = "initial" /\ m_sender_is_set = FALSE /\ m_run_marker = FALSE /\ confs = 0 /\ runs = 0
              /\ file_size = None /\ m_dropouts = <<TRUE>>
              /\ ebg \in {Generator(0, d, d) : d \in [0..m_size - 1 -> {0}]}
              /\ producer = "off" /\ offset = 0 /\ dropout_index = 0 /\ timestamp = 0 /\ i = 0
              /\ clock = 0 /\ m_deadline = 0 /\ tat = 0 /\ late = FALSE
              /\ m_packet_count = 0 /\ m_packet_count_tot = 0 /\ unreported = 0
              /\ slots = 0 /\ ts_0 = 0 /\ last = NoElement
-----------------------------------------------------------------------------
(* Commands                                                                *)

SetSender == /\ ~m_sender_is_set /\ m_sender_is_set' = TRUE
             /\ UNCHANGED <<ctl, m_run_marker, confs, runs, conf_vars, ebg, producer, locals, counters,
                            pace_vars, run_history>>

(* conf(): file, dropouts and error bits are new.                          *)
Conf == /\ ctl = "initial" /\ confs < MaxConfs
        /\ ctl' = "configured" /\ confs' = confs + 1
        /\ file_size' \in FileSizes /\ m_dropouts' \in Populations
        /\ \E num \in 0..2, errors \in Draws, rest \in Draws : ebg' = Generator(num, errors, rest)
        /\ UNCHANGED <<m_sender_is_set, m_run_marker, runs, producer, locals, counters,
                       pace_vars, run_history>>

(* The file cannot be read: ConfigurationError.                            *)
ConfThrows == /\ ctl = "initial" /\ confs < MaxConfs
              /\ confs' = confs + 1 /\ file_size' = 0
              /\ UNCHANGED <<ctl, m_sender_is_set, m_run_marker, runs, m_dropouts, ebg, producer, locals,
                             counters, pace_vars, run_history>>

Start == /\ ctl = "configured" /\ m_sender_is_set /\ runs < MaxRuns
         /\ ctl' = "running" /\ m_run_marker' = TRUE /\ runs' = runs + 1
         /\ m_packet_count_tot' = 0 /\ producer' = "begin"
         /\ clock' = 0 /\ m_deadline' = m_period /\ tat' = 0
         /\ UNCHANGED <<m_sender_is_set, confs, conf_vars, ebg, locals, m_packet_count, unreported,
                        late, run_history>>

Stop == /\ ctl = "running" /\ ctl' = "stopping" /\ m_run_marker' = FALSE
        /\ UNCHANGED <<m_sender_is_set, confs, runs, conf_vars, ebg, producer, locals, counters,
                       pace_vars, run_history>>

(* stop() polls until the producer thread is ready.                        *)
Stopped == /\ ctl = "stopping" /\ producer = "off"
           /\ ctl' = "configured"
           /\ UNCHANGED <<m_sender_is_set, m_run_marker, confs, runs, conf_vars, ebg, producer, locals,
                          counters, pace_vars, run_history>>

Scrap == /\ ctl = "configured" /\ ctl' = "initial"
         /\ file_size' = None
         /\ UNCHANGED <<m_sender_is_set, m_run_marker, confs, runs, m_dropouts, ebg, producer, locals,
                        counters, pace_vars, run_history>>

TakeCount == m_packet_count' = 0

(* get_info(): exchange(0) on the number of new packets.                   *)
GetInfo == /\ m_packet_count > 0
           /\ unreported' = unreported - m_packet_count /\ TakeCount
           /\ UNCHANGED <<ctl_vars, conf_vars, ebg, producer, locals, m_packet_count_tot,
                          pace_vars, run_history>>
-----------------------------------------------------------------------------
(* run_produce()                                                           *)

(* The first timestamp is the file's, a configured one, or the time.       *)
Begin == /\ producer = "begin" /\ producer' = "tick"
         /\ offset' = 0 /\ dropout_index' = 0 /\ i' = 0
         /\ ts_0' \in FirstTs /\ timestamp' = ts_0'
         /\ slots' = 0 /\ last' = NoElement
         /\ UNCHANGED <<ctl_vars, conf_vars, ebg, counters, pace_vars>>

(* Faulty variant: the run marker is not looked at.                        *)
GoesOnBlindly == TRUE

GoesOn == m_run_marker

Tick == /\ producer = "tick" /\ GoesOn /\ slots < MaxSlots
        /\ producer' = "frame" /\ i' = 0
        /\ UNCHANGED <<ctl_vars, conf_vars, ebg, offset, dropout_index, timestamp, counters, pace_vars,
                       run_history>>

(* run_produce() returns and its locals are gone.                          *)
Return == /\ producer = "tick" /\ ~GoesOn
          /\ producer' = "off"
          /\ offset' = 0 /\ dropout_index' = 0 /\ timestamp' = 0 /\ i' = 0
          /\ slots' = 0 /\ ts_0' = 0 /\ last' = NoElement
          /\ clock' = 0 /\ m_deadline' = 0 /\ tat' = 0
          /\ UNCHANGED <<ctl_vars, conf_vars, ebg, counters, late>>

num_elem == file_size \div ElemSize

(* Faulty variant: starts over one element late.                           *)
AtEndLate == offset > num_elem

AtEnd == offset = num_elem \/ (offset + 1) * ElemSize > file_size

NextDropout == (dropout_index + 1) % Len(m_dropouts)

CreateFrame == m_dropouts[dropout_index + 1]

(* One round of the for loop.  Whether send() succeeds or times out with a *)
(* warning, the element is counted.                                        *)
Produce ==
  /\ producer = "frame" /\ i < FramesPerTick
  /\ LET from == IF AtEnd THEN 0 ELSE offset
     IN IF CreateFrame
        THEN /\ ebg' = Frames[NumFrames]
             /\ last' = [ts |-> timestamp, slot |-> slots, at |-> from,
                         err |-> \E k \in 1..NumFrames : Frames[k].bits]
             /\ offset' = from + 1 /\ unreported' = unreported + 1
             /\ m_packet_count' = m_packet_count + 1 /\ m_packet_count_tot' = m_packet_count_tot + 1
        ELSE /\ offset' = from
             /\ UNCHANGED <<ebg, last, unreported, m_packet_count, m_packet_count_tot>>
  /\ dropout_index' = NextDropout
  /\ i' = i + 1 /\ slots' = slots + 1
  /\ UNCHANGED <<ctl_vars, conf_vars, producer, timestamp, pace_vars, ts_0>>

Advance == (timestamp + Step) % TsRange

TickDone == /\ producer = "frame" /\ i = FramesPerTick
            /\ timestamp' = Advance
            /\ producer' = "limit"
            /\ UNCHANGED <<ctl_vars, conf_vars, ebg, offset, dropout_index, i, counters, pace_vars,
                           run_history>>
-----------------------------------------------------------------------------
(* RateLimiter                                                             *)

(* The tick is over: it is due at the time tat at the earliest, when ticks *)
(* are to follow each other at m_period.                                   *)
Paced(deadline) == /\ producer' = "tick" /\ m_deadline' = deadline
                   /\ late' = (tat - clock > m_max_overshoot + m_period)
                   /\ tat' = (IF clock > tat THEN clock ELSE tat) + m_period

(* Faulty variant: lost time is always caught up with.                     *)
LaggingNever == FALSE

Lagging == clock > m_deadline + m_max_overshoot

(* limit(): too late, late, or early.                                      *)
Limit == /\ producer = "limit"
         /\ \/ Lagging /\ Paced(clock + m_period)
            \/ ~Lagging /\ clock >= m_deadline /\ Paced(m_deadline + m_period)
            \/ ~Lagging /\ clock < m_deadline /\ producer' = "sleep" /\ UNCHANGED <<m_deadline, tat, late>>
         /\ UNCHANGED <<ctl_vars, conf_vars, ebg, locals, counters, clock, run_history>>

(* nanosleep() may end early, the loop behind it does not.                 *)
Due == clock >= m_deadline

Awake == /\ producer = "sleep" /\ Due
         /\ Paced(m_deadline + m_period)
         /\ UNCHANGED <<ctl_vars, conf_vars, ebg, locals, counters, clock, run_history>>

TimePasses == /\ producer # "off" /\ (clock < MaxTime \/ (producer = "sleep" /\ clock < m_deadline))
              /\ clock' = clock + 1
              /\ UNCHANGED <<ctl_vars, conf_vars, ebg, producer, locals, counters, m_deadline, tat, late,
                             run_history>>

(* The bounds are reached.                                                 *)
Finished == /\ (ctl = "initial" /\ confs = MaxConfs) \/ slots = MaxSlots
            /\ UNCHANGED source_vars

Producer == Begin \/ Tick \/ Return \/ Produce \/ TickDone \/ Limit \/ Awake

SourceNext == \/ SetSender \/ Conf \/ ConfThrows \/ Start \/ Stop \/ Stopped \/ Scrap \/ GetInfo
              \/ Producer \/ TimePasses \/ Finished

(* The producer thread runs, time passes, and stop() looks again.          *)
SourceSpec == /\ SourceInit /\ [][SourceNext]_source_vars
              /\ WF_source_vars(Producer) /\ WF_source_vars(TimePasses) /\ WF_source_vars(Stopped)
-----------------------------------------------------------------------------
(* The type invariant: the dropout index stays in the population, the      *)
(* stretches' indices in their tables.                                     *)
Generators == [rate : 0..2, error_occurrences : [0..m_size - 1 -> 0..MaxDuration],
               no_error_occurrences : [0..m_size - 1 -> 0..MaxDuration],
               e : 0..m_size - 1, n : 0..m_size - 1, current : 0..MaxDuration, count : 0..MaxDuration + 1,
               set : BOOLEAN, bits : BOOLEAN]

CommandTypeOK == /\ ctl \in {"initial", "configured", "running", "stopping"}
                 /\ {m_sender_is_set, m_run_marker, late} \subseteq BOOLEAN
                 /\ file_size \in FileSizes \cup {None, 0} /\ m_dropouts \in Populations /\ ebg \in Generators

ProducerTypeOK == /\ producer \in {"off", "begin", "tick", "frame", "limit", "sleep"}
                  /\ offset \in Nat /\ slots \in Nat /\ i \in 0..FramesPerTick
                  /\ dropout_index \in 0..Len(m_dropouts) - 1
                  /\ timestamp \in 0..TsRange - 1 /\ ts_0 \in 0..TsRange - 1
                  /\ {clock, m_deadline, tat, m_packet_count, m_packet_count_tot} \subseteq Nat

SourceTypeOK == CommandTypeOK /\ ProducerTypeOK

(* The file's elements are sent in turn, from the first to the last whole  *)
(* one and again: what memcpy() reads lies in the buffer, provided that    *)
(* the file has an element at all.                                         *)
SentInTurn == (last # NoElement /\ num_elem > 0) => last.at = (m_packet_count_tot - 1) % num_elem

(* An element's timestamp is the one its place in the run asks for:        *)
(* dropouts and elements that could not be sent leave gaps and shift       *)
(* nothing.                                                                *)
TimestampsEven == last # NoElement =>
                    last.ts = (ts_0 + Step * (last.slot \div FramesPerTick)) % TsRange

(* With an error rate of zero no frame has error bits, however often the   *)
(* generator has gone round its stretches.                                 *)
NoErrorsAtRateZero == ebg.rate = 0 => ~last.err

(* Over a run the ticks are never faster than the rate; and after a delay  *)
(* the limiter catches up with at most m_max_overshoot (and one period,    *)
(* when it overslept): between any two ticks k apart at least k periods    *)
(* less that much have passed.                                             *)
RateKept == /\ (m_run_marker /\ producer = "tick") => (slots \div FramesPerTick) * m_period <= clock
            /\ ~late

(* get_info() reports every element once, over all runs: what it will      *)
(* report next is what was made and not reported.                          *)
CountsAddUp == m_packet_count = unreported

(* The elements of a run are right: in turn, on time, with errors only if  *)
(* configured, and each reported once.                                     *)
ElementsRight == SentInTurn /\ TimestampsEven /\ NoErrorsAtRateZero /\ CountsAddUp

(* stop() returns: the producer sees the marker within a tick.             *)
ProductionStops == (ctl = "stopping") ~> (ctl = "configured")
=============================================================================
