--------------------------- MODULE MCResolverCache --------------------------
(* The small instances of ResolverCache that TLC checks.                   *)
EXTENDS ResolverCache, TLC

CONSTANTS d1, d2, d3, d4, r1, r2

MCDomains  == {d1, d2, d3, d4}
MCOne      == {d1}
MCRequests == {r1, r2}

\* Domains and requests are interchangeable.
Symmetry == Permutations(Domains) \union Permutations(Requests)
=============================================================================
