--------------------------- MODULE MCCircuitBuild ---------------------------
(* The small instances of CircuitBuild that TLC checks.                    *)
EXTENDS CircuitBuild

Relay(t, k, rs) == [text |-> t, key |-> k, roles |-> rs]

\* Relays with one role and with several, one key in two spellings, and one
\* that does not decode.
MCRelays == {Relay("a1", "A", {"entry"}), Relay("b1", "B", {"entry", "middle"}),
             Relay("c1", "C", {"middle", "exit"}), Relay("d1", "D", {"exit"}),
             Relay("a2", "A", {"exit"}),
             Relay("zz", NoKey, {"middle"})}
=============================================================================
