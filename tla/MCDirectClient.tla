--------------------------- MODULE MCDirectClient ---------------------------
(* The small instance of DirectClient that TLC checks.                    *)
EXTENDS DirectClient

CONSTANTS r1, r2, r3

MCRequests == {r1, r2, r3}
=============================================================================
