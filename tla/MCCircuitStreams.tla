-------------------------- MODULE MCCircuitStreams --------------------------
(* The small instance of CircuitStreams that TLC checks.                   *)
EXTENDS CircuitStreams, TLC

CONSTANTS r1, r2, r3

MCRequests == {r1, r2, r3}

\* Only the answers to r1 are repeated, which keeps the others comparable.
MCCopies == [r \in Requests |-> IF r = r1 THEN 2 ELSE 1]

\* The other requests are interchangeable.
Symmetry == Permutations({r2, r3})
=============================================================================
