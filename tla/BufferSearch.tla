---------------------------- MODULE BufferSearch ----------------------------
(***************************************************************************)
(* How a request finds its data: lower_bound() of BinarySearchQueueModel   *)
(* and FixedRateQueueModel over the ring of IterableQueueModel, the        *)
(* ring's Iterator, get_fragment_pieces(), and the FrameErrorRegistry that *)
(* chooses the search.                                                     *)
(*                                                                         *)
(* A slot holds the first timestamp of its element.  An element has        *)
(* NumFrames frames, Tick apart.  Timestamps are unsigned: differences     *)
(* wrap at TsModulus, which stands for 2^64.  A query holds the gate of    *)
(* the request handler, so nothing is popped while it is under way, but    *)
(* the consumer keeps registering gaps and writing elements, also between  *)
(* the query's look at the registry and its search.                        *)
(***************************************************************************)
EXTENDS Integers, FiniteSets, FiniteSetsExt

CONSTANTS Size,        \* size_
          NumFrames,   \* get_num_frames()
          Tick,        \* expected_tick_difference
          Searches,    \* the buffers: "binary" (BinarySearchQueueModel), "fixed_rate" (FixedRateQueueModel)
          Overflowing, \* the buffers the consumer may find full
          FirstTs,     \* timestamp of the first element
          LastTs,      \* bound: no element after this one
          FirstWindow, \* no window begins before this
          MaxGap,      \* bound: elements missing in a row
          TsModulus    \* 2^64

ASSUME SearchAssumption ==
  /\ Size \in Nat /\ Size >= 2 /\ NumFrames \in Nat \ {0} /\ Tick \in Nat \ {0}
  /\ Searches \subseteq {"binary", "fixed_rate"} /\ Overflowing \subseteq Searches
  /\ LastTs \in Nat /\ FirstTs \in 0..LastTs /\ FirstWindow \in Nat /\ MaxGap \in Nat
  /\ TsModulus \in Nat /\ TsModulus > LastTs + Size * NumFrames * Tick

VARIABLES search,    \* which of the two latency buffers it is
          records_, readIndex_, writeIndex_,
          missing,   \* end of the MISSING_FRAMES interval in the registry, or NoError
          next_ts,   \* timestamp of the next element in an unbroken stream
          consumer,  \* the element that the consumer is taking in
          query      \* the request being served

registry_vars == <<missing, next_ts, consumer>>
search_vars == <<search, records_, readIndex_, writeIndex_, registry_vars, query>>

Slots == 0..Size - 1
NoError == -1
End == -1          \* end(): the index numeric_limits<uint32_t>::max()
Idle == [pc |-> "idle"]
Waiting == [pc |-> "wait", ts |-> 0, erased |-> NoError]
Span == NumFrames * Tick

BSInit == /\ search \in Searches
          /\ records_ = [i \in Slots |-> 0]
          /\ readIndex_ = 0 /\ writeIndex_ = 0
          /\ missing = NoError /\ next_ts = FirstTs /\ consumer = Waiting
          /\ query = Idle
-----------------------------------------------------------------------------
FixedRate == search = "fixed_rate"

(* The ring                                                                *)

Wrap(i) == IF i >= Size THEN i - Size ELSE i
Before(i) == IF i = 0 THEN Size - 1 ELSE i - 1
Distance(from, to) == IF from <= to THEN to - from ELSE Size + to - from
Count == Distance(readIndex_, writeIndex_)
Full == Count = Size - 1
Front == records_[readIndex_]
Back == records_[Before(writeIndex_)]

(* Iterator::good(), operator++.                                           *)
Good(i) == /\ i # End
           /\ \/ i >= readIndex_ /\ i < writeIndex_
              \/ i >= readIndex_ /\ writeIndex_ < readIndex_
              \/ writeIndex_ < readIndex_ /\ i < readIndex_ /\ i < writeIndex_

Advance(i) == LET n == IF Good(i) THEN Wrap(i + 1) ELSE i
              IN IF Good(n) THEN n ELSE End

(* The slot in the middle of s..e, rounded up.                             *)
Middle(s, e) == Wrap(s + (Distance(s, e) + 1) \div 2)

(* The first passes of a loop that takes step from x.                      *)
Passes(step, x) ==
  LET pass[n \in 0..Size] == IF n = 0 THEN x ELSE step[pass[n - 1]]
  IN pass

(* One pass of lower_bound() for the key k: it stops, or drops the slots   *)
(* on one side of the middle.                                              *)
Halve(k, r) ==
  LET m == Middle(r.start_index, r.end_index)
  IN IF k = records_[m] \/ r.start_index = r.end_index THEN r
     ELSE IF k < records_[m] THEN [r EXCEPT !.end_index = Before(m)]
     ELSE [r EXCEPT !.start_index = m]

(* Faulty variant: the last pass does not move past an older element.      *)
ReturnLow(k, r) == Middle(r.start_index, r.end_index)

(* What the pass that stops returns.                                       *)
Return(k, r) == LET m == Middle(r.start_index, r.end_index)
                IN IF k <= records_[m] THEN m ELSE Wrap(m + 1)

Ranges == [start_index : Slots, end_index : Slots]

(* The slots left for the last pass of the loop, which begins with all     *)
(* that are occupied.  A pass that does not stop drops a slot, so there    *)
(* are no more than Size of them.                                          *)
LastPass(k) == Passes([r \in Ranges |-> Halve(k, r)],
                      [start_index |-> readIndex_, end_index |-> Before(writeIndex_)])[Size]

(* BinarySearchQueueModel::lower_bound for the key k.                      *)
BinarySearch(k) == IF Count = 0 \/ k < Front THEN End ELSE Return(k, LastPass(k))

(* Elements between the front and a key that many ticks after it.          *)
RoundUp(ticks) == ticks \div NumFrames + (IF ticks % NumFrames # 0 THEN 1 ELSE 0)

(* FixedRateQueueModel::lower_bound when no error is registered.           *)
PositionOf(k) ==
  IF Front > k \/ k > Front + Count * Span THEN End
  ELSE Wrap(readIndex_ + RoundUp((k - Front) \div Tick))

LowerBound(k, with_errors) ==
  IF FixedRate /\ ~with_errors THEN PositionOf(k) ELSE BinarySearch(k)
-----------------------------------------------------------------------------
(* The consumer, and cleanup()                                             *)

(* preprocess_item() notices a gap; add_error() takes the interval that is *)
(* there out of the map before it inserts the new one.                     *)
ReceiveItem(gap) ==
  LET ts == next_ts + gap * Span
  IN /\ consumer = Waiting
     /\ ts <= LastTs
     /\ gap > 0 => next_ts > FirstTs
     /\ \/ /\ gap = 0
           /\ consumer' = [pc |-> "write", ts |-> ts, erased |-> NoError]
           /\ UNCHANGED missing
        \/ /\ gap > 0
           /\ consumer' = [pc |-> "insert", ts |-> ts, erased |-> missing]
           /\ missing' = NoError
     /\ UNCHANGED <<search, records_, readIndex_, writeIndex_, next_ts, query>>

InsertError ==
  /\ consumer.pc = "insert"
  /\ missing' = consumer.ts
  /\ consumer' = [pc |-> "write", ts |-> consumer.ts, erased |-> NoError]
  /\ UNCHANGED <<search, records_, readIndex_, writeIndex_, next_ts, query>>

(* write(): the element is dropped if the buffer is full.                  *)
WriteItem ==
  /\ consumer.pc = "write"
  /\ search \in Overflowing \/ ~Full
  /\ next_ts' = consumer.ts + Span
  /\ consumer' = Waiting
  /\ \/ /\ ~Full
        /\ records_' = [records_ EXCEPT ![writeIndex_] = consumer.ts]
        /\ writeIndex_' = Wrap(writeIndex_ + 1)
     \/ /\ Full
        /\ UNCHANGED <<records_, writeIndex_>>
  /\ UNCHANGED <<search, readIndex_, missing, query>>

(* Faulty variant: the registry forgets the gap while it is in the buffer. *)
ForgetEarly(ts) == IF ts + 2 * Span >= missing THEN NoError ELSE missing

(* FrameErrorRegistry::remove_errors_until.                                *)
RemoveErrorsUntil(ts) == IF ts > missing THEN NoError ELSE missing

(* A cleanup that pops one element; it waits for the registry's mutex,     *)
(* which add_error() holds.                                                *)
CleanupOne == /\ query = Idle /\ Count > 1 /\ consumer.pc # "insert"
              /\ readIndex_' = Wrap(readIndex_ + 1)
              /\ missing' = RemoveErrorsUntil(records_[Wrap(readIndex_ + 1)])
              /\ UNCHANGED <<search, records_, writeIndex_, next_ts, consumer, query>>
-----------------------------------------------------------------------------
(* get_fragment_pieces()                                                   *)

(* The search key: one element before the window, unsigned.                *)
Key(begin) == (begin - Span) % TsModulus

(* data_request() has found the window in the buffer, in full or in part.  *)
Ask(begin, end) ==
  /\ query = Idle /\ Count > 0
  /\ begin < end /\ Front <= end
  /\ query' = [pc |-> "asked", begin |-> begin, end |-> end]
  /\ UNCHANGED <<search, records_, readIndex_, writeIndex_, registry_vars>>

(* The last gap that the consumer has found, also while add_error() has    *)
(* taken it out of the map.                                                *)
LastGap == IF consumer.pc = "insert" THEN consumer.erased ELSE missing

(* has_error(), which takes no lock.  upto, for the properties only, is    *)
(* the time up to which the answer tells the truth about the elements that *)
(* the search will find: all of them for a binary search, those there are  *)
(* for a fixed rate search, none if add_error() has a gap out of the map.  *)
HasError ==
  /\ query.pc = "asked"
  /\ query' = [pc |-> "search", begin |-> query.begin, end |-> query.end,
               with_errors |-> missing # NoError,
               upto |-> IF ~FixedRate \/ missing # NoError THEN LastTs + Span
                        ELSE IF LastGap = NoError THEN Back + Span ELSE 0]
  /\ UNCHANGED <<search, records_, readIndex_, writeIndex_, registry_vars>>

(* lower_bound(), for what has_error() has said.                           *)
LookUp ==
  LET iter == LowerBound(Key(query.begin), query.with_errors)
  IN /\ query.pc = "search"
     /\ query' = [pc |-> IF iter = End THEN "notyet" ELSE "collect", begin |-> query.begin,
                  end |-> query.end, iter |-> iter, upto |-> query.upto]
     /\ UNCHANGED <<search, records_, readIndex_, writeIndex_, registry_vars>>

FramesOf(ts) == {ts + Tick * f : f \in 0..NumFrames - 1}

(* What one element adds to the fragment: nothing, some frames, or all.    *)
PiecesOf(ts, begin, end) ==
  IF ts + Span <= begin THEN {}
  ELSE IF NumFrames > 1 /\ (ts < begin \/ ts + Span > end)
    THEN {f \in FramesOf(ts) : f > (begin - Tick) % TsModulus /\ f < end}
  ELSE FramesOf(ts)

(* The loop over the iterator: its positions, and where it stops.          *)
Collected ==
  LET at == Passes([i \in Slots \cup {End} |-> Advance(i)], query.iter)
      stops(k) == ~Good(at[k]) \/ records_[at[k]] >= query.end
      length == Min({k \in 0..Size : stops(k)})
  IN UNION {PiecesOf(records_[at[k]], query.begin, query.end) : k \in 0..length - 1}

CollectPieces ==
  /\ query.pc = "collect"
  /\ query' = [pc |-> "done", begin |-> query.begin, end |-> query.end, pieces |-> Collected]
  /\ UNCHANGED <<search, records_, readIndex_, writeIndex_, registry_vars>>

Reply == /\ query.pc \in {"notyet", "done"}
         /\ query' = Idle
         /\ UNCHANGED <<search, records_, readIndex_, writeIndex_, registry_vars>>

(* The windows asked for, some of them past the newest element.            *)
WindowEdges == FirstWindow..LastTs + 1

BSNext == \/ \E gap \in 0..MaxGap : ReceiveItem(gap)
          \/ InsertError \/ WriteItem
          \/ CleanupOne
          \/ \E begin, end \in WindowEdges : Ask(begin, end)
          \/ HasError \/ LookUp \/ CollectPieces \/ Reply

BSSpec == BSInit /\ [][BSNext]_search_vars
-----------------------------------------------------------------------------
(* The type invariant; indices stay in the ring.                           *)
BSTypeOK ==
  /\ search \in Searches
  /\ records_ \in [Slots -> 0..LastTs]
  /\ readIndex_ \in Slots /\ writeIndex_ \in Slots
  /\ missing \in 0..LastTs \cup {NoError} /\ next_ts \in 0..LastTs + Span
  /\ consumer \in [pc : {"wait", "insert", "write"}, ts : 0..LastTs, erased : 0..LastTs \cup {NoError}]
  /\ query = Idle \/ /\ query.pc \in {"asked", "search", "notyet", "collect", "done"}
                     /\ query.begin < query.end

Occupied == {Wrap(readIndex_ + k) : k \in 0..Count - 1}

(* The reference: the first element not older than the key; the slot past  *)
(* the newest element if all are older.                                    *)
FirstNotOlder(k) ==
  LET later == {i \in Occupied : records_[i] >= k}
  IN IF later = {} THEN writeIndex_
     ELSE CHOOSE i \in later : \A j \in later : records_[i] <= records_[j]

(* lower_bound() follows "normal lower_bound rules" for every key between  *)
(* the oldest and the newest element, wherever the ring has wrapped and    *)
(* however many frames are missing.  The fixed rate search divides by the  *)
(* tick, and may do so only while no gap has been found: then it is right  *)
(* for keys that are a whole number of ticks apart.                        *)
LowerBoundRight ==
  Count > 0 =>
    \A k \in Front..Back :
      /\ LowerBound(k, TRUE) = FirstNotOlder(k)
      /\ LastGap = NoError /\ (FixedRate => (k - Front) % Tick = 0)
           => LowerBound(k, FALSE) = FirstNotOlder(k)

(* The frames of the buffer that overlap begin <= t < end.                 *)
FramesIn(begin, end) ==
  {f \in UNION {FramesOf(records_[i]) : i \in Occupied} : f + Tick > begin /\ f < end}

(* A fragment holds frames of its window only, and all of them that the    *)
(* buffer has, up to the time for which the look at the registry counts:   *)
(* all, always, with a binary search; with a fixed rate search those of    *)
(* the elements that were there at the look, and what comes after it may   *)
(* be missed if a gap comes with it.  A window that starts at least one    *)
(* element after the front and ends before that time is found at the first *)
(* attempt.  If add_error() had a gap out of its map when has_error()      *)
(* looked, frames of the window may be missed; no others are sent.         *)
CollectsTheWindow ==
  [][/\ CollectPieces => /\ query'.pieces \subseteq FramesIn(query.begin, query.end)
                         /\ {f \in FramesIn(query.begin, query.end) : f < query.upto} \subseteq query'.pieces
     /\ LookUp /\ Front + Span <= query.begin /\ query.end <= query.upto
          => query'.pc = "collect"]_search_vars

=============================================================================
