--------------------------- MODULE MCProxyHandler ---------------------------
(* The small instances of ProxyHandler that TLC checks.                    *)
EXTENDS ProxyHandler

CONSTANTS r1, r2

MCRequests == {r1, r2}
=============================================================================
