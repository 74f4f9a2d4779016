-------------------------- MODULE MCRequestHandler --------------------------
EXTENDS RequestHandler, TLC

CONSTANTS r1, r2, p1, p2

(* Windows that the run can find complete, too old, gone or not yet there. *)
MCBegin == [r \in Requests |-> IF r = r1 THEN 2 ELSE 3]
MCEnd == [r \in Requests |-> IF r = r1 THEN 3 ELSE 5]

(* The pool threads are interchangeable (used where no liveness is checked). *)
PoolSymmetry == Permutations({p1, p2})
============================================================================
