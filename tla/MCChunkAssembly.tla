--------------------------- MODULE MCChunkAssembly --------------------------
(* The small instances of ChunkAssembly that TLC checks.                   *)
EXTENDS ChunkAssembly

CONSTANTS s1, s2

MCStreams == {s1, s2}

Chunk(s, i, n, z) ==
  [stream |-> s, index |-> i, total |-> n, size |-> z, circuit |-> "this"]

\* Stream s1: a response of two chunks, and a chunk with an index above its
\* total that does not fit with the others.  Stream s2: a response of two
\* chunks, and chunks whose TotalChunks is above the limit or negative;
\* and a chunk of stream s2 of an older circuit, of a longer response.
MCWire ==
  {Chunk(s1, 0, 2, 1), Chunk(s1, 1, 2, 2), Chunk(s1, 5, 2, 3),
   Chunk(s2, 0, 2, 1), Chunk(s2, 1, 2, 1),
   Chunk(s2, 1, 4, 1), Chunk(s2, 7, -1, 1),
   [Chunk(s2, 0, 3, 1) EXCEPT !.circuit = "older"]}

\* The chunks of s1 may arrive twice.
MCCopies == [c \in MCWire |-> IF c.stream = s1 /\ c.index < 2 THEN 2 ELSE 1]

\* The instance is one that the theorems about whole responses speak of.
ASSUME WholeResponses == OneResponse /\ EntireResponses
=============================================================================
