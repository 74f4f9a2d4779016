---------------------------- MODULE LatencyBuffer ----------------------------
(***************************************************************************)
(* What a latency buffer promises to the thread that fills it and to the   *)
(* thread that empties it (LatencyBufferConcept): a bounded FIFO.  write() *)
(* appends or, when the buffer is full, refuses; read() and pop() remove   *)
(* the oldest element.                                                     *)
(***************************************************************************)
EXTENDS Integers, Sequences

CONSTANTS Elements,  \* the payloads
          Nothing,   \* no payload
          Limit      \* how many of them fit

VARIABLES queue,   \* the payloads, oldest first
          result,  \* how the last write() ended
          out      \* the payload removed last

LBInit == queue = <<>> /\ result = "none" /\ out = Nothing

Put == \E e \in Elements : /\ Len(queue) < Limit
                           /\ queue' = Append(queue, e)
                           /\ result' = "accepted"
                           /\ UNCHANGED out

Refuse == /\ Len(queue) >= Limit
          /\ result' = "refused"
          /\ UNCHANGED <<queue, out>>

Take == /\ queue # <<>>
        /\ out' = Head(queue)
        /\ queue' = Tail(queue)
        /\ UNCHANGED result

LBNext == Put \/ Refuse \/ Take

LBSpec == LBInit /\ [][LBNext]_<<queue, result, out>>
=============================================================================
