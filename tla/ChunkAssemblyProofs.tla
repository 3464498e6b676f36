------------------------- MODULE ChunkAssemblyProofs ------------------------
(***************************************************************************)
(* Proofs about ChunkAssembly for every set of chunks on the wire, every   *)
(* order, loss and repetition of them, and every limit.                    *)
(***************************************************************************)
EXTENDS ChunkAssembly, FiniteSetTheorems, SequenceTheorems,
        WellFoundedInduction, TLAPS

-----------------------------------------------------------------------------
(* The inductive invariant.                                                *)

\* An index of the response that assembler a does not have yet.
Missing(a) == \E i \in 0..(a.total - 1) : \A d \in a.received : d.index # i

\* The assembler in the map for stream s.
Holds(s, a) ==
  /\ exitKey = "set" /\ IsFiniteSet(a.received) /\ a.received \subseteq Acceptable(s)
  /\ \E c \in Acceptable(s) : c.total = a.total
  /\ Missing(a) /\ a.size <= maxChunkTotalSize

Held == \A s \in Streams : chunks[s] # NoAssembler => Holds(s, chunks[s])

\* Channels and results have at most one element.
AtMostOne(q) == q = <<>> \/ \E x : q = <<x>>
Slots == /\ DOMAIN chan = Streams /\ DOMAIN read = Streams
         /\ \A s \in Streams : AtMostOne(chan[s]) /\ AtMostOne(read[s])

IndInv == /\ chunks \in [Streams -> Assemblers]
          /\ sending = NoSend \/ sending.stream \in Streams
          /\ open \subseteq Streams /\ failed \subseteq Streams
          /\ DOMAIN wire = Wire /\ \A c \in Wire : wire[c] \in 0..Copies[c]
          /\ exitKey \in {"unset", "writing", "set", "crashed"}
          /\ Slots /\ Held

-----------------------------------------------------------------------------
(* One chunk and its assembler.                                            *)

\* No response comes of no chunks.
LEMMA ByIndexEmpty == ByIndex({}) = <<>>
<1>1. 1..Cardinality({}) = {}
  BY FS_EmptySet
<1>2. <<>> \in [{} -> {}]
  OBVIOUS
<1>3. ASSUME NEW q \in [{} -> {}] PROVE q = <<>>
  <2>1. q \in [1..0 -> {}]
    OBVIOUS
  <2>2. q \in Seq({}) /\ Len(q) = 0
    BY <2>1
  <2> QED BY <2>2, EmptySeq
<1> QED BY <1>1, <1>2, <1>3 DEF ByIndex

\* Counting and looking for a missing index agree: the test of handleChunk
\* fails exactly if an index is missing.
LEMMA AllOrMissing ==
  ASSUME NEW a, IsFiniteSet(a.received), a.total \in Int
  PROVE  AllReceived(a) <=> ~Missing(a)
<1>1. AllReceived(a) => ~Missing(a)
  BY DEF AllReceived, Missing
<1>2. ASSUME ~Missing(a) PROVE Cardinality(a.received) >= a.total
  <2> DEFINE T == {d.index : d \in a.received}
             f == [d \in a.received |-> d.index]
  <2>1. Cardinality(a.received) \in Nat
    BY FS_CardinalityType
  <2>2. f \in Surjection(a.received, T)
    BY DEF Surjection
  <2>3. IsFiniteSet(T) /\ Cardinality(T) <= Cardinality(a.received)
    BY <2>2, FS_Surjection
  <2>4. 0..(a.total - 1) \subseteq T
    BY <1>2 DEF Missing
  <2>5. Cardinality(0..(a.total - 1)) <= Cardinality(T)
    BY <2>3, <2>4, FS_Subset
  <2>6. Cardinality(0..(a.total - 1)) = IF 0 > a.total - 1 THEN 0 ELSE a.total
    BY FS_Interval
  <2>7. Cardinality(T) \in Nat
    BY <2>3, FS_CardinalityType
  <2> HIDE DEF T
  <2> QED BY <2>1, <2>3, <2>5, <2>6, <2>7
<1>3. ~Missing(a) => AllReceived(a)
  BY <1>2 DEF AllReceived, Missing
<1> QED BY <1>1, <1>3

\* An assembler with one more chunk.
LEMMA StoreType ==
  ASSUME NEW a \in Assemblers, NEW c \in Wire
  PROVE  /\ Store(a, c) \in Assemblers
         /\ Store(a, c).received = a.received \union {c}
         /\ Store(a, c).size = a.size + c.size
         /\ Store(a, c).total = a.total /\ Store(a, c).age = a.age
<1>1. [a EXCEPT !.received = @ \union {c}] \in Assemblers
  BY DEF Assemblers
<1>2. a.size + c.size \in Nat
  BY WireOK DEF Assemblers
<1>3. ASSUME NEW b \in Assemblers, NEW k \in Nat PROVE [b EXCEPT !.size = k] \in Assemblers
  BY DEF Assemblers
<1>4. Store(a, c) = [[a EXCEPT !.received = @ \union {c}] EXCEPT !.size = a.size + c.size]
  BY DEF Store
<1>5. Store(a, c) \in Assemblers
  BY <1>1, <1>2, <1>3, <1>4
<1> QED BY <1>5 DEF Store, Assemblers

\* The assembler for an acceptable chunk, and the same with the chunk in it.
LEMMA StoreFacts ==
  ASSUME IndInv, NEW c \in Own, ValidTotal(c), exitKey = "set"
  PROVE  LET a == AssemblerFor(c)
             b == Store(a, c)
         IN /\ a \in Assemblers /\ b \in Assemblers /\ b # NoAssembler
            /\ IsFiniteSet(a.received) /\ IsFiniteSet(b.received)
            /\ a.received \subseteq Acceptable(c.stream)
            /\ b.received = a.received \union {c} /\ b.size = a.size + c.size
            /\ b.total = a.total /\ b.age = a.age
            /\ \E d \in Acceptable(c.stream) : d.total = a.total
            /\ chunks[c.stream] = NoAssembler =>
                 a.received = {} /\ a.total = c.total /\ a.size = 0 /\ a.age = 0
            /\ chunks[c.stream] # NoAssembler => a = chunks[c.stream]
            /\ AllReceived(b) <=> ~Missing(b)
<1> DEFINE a == AssemblerFor(c)
           b == Store(a, c)
           s == c.stream
<1>1. c \in Wire /\ s \in Streams /\ c.total \in Int /\ c.size \in Nat /\ c \in Acceptable(s)
  BY WireOK DEF Own, Acceptable
<1>2. /\ a \in Assemblers /\ IsFiniteSet(a.received) /\ a.received \subseteq Acceptable(s)
      /\ \E d \in Acceptable(s) : d.total = a.total
      /\ chunks[s] = NoAssembler =>
           a.received = {} /\ a.total = c.total /\ a.size = 0 /\ a.age = 0
      /\ chunks[s] # NoAssembler => a = chunks[s]
  <2>1. CASE chunks[s] = NoAssembler
    <3>1. a = [total |-> c.total, received |-> {}, size |-> 0, age |-> 0]
      BY <2>1 DEF AssemblerFor, NoAssembler
    <3> QED BY <1>1, <2>1, <3>1, FS_EmptySet, LimitsOK DEF Assemblers
  <2>2. CASE chunks[s] # NoAssembler
    <3>1. a = chunks[s] /\ Holds(s, a) /\ a \in Assemblers
      BY <1>1, <2>2 DEF AssemblerFor, IndInv, Held
    <3> QED BY <2>2, <3>1 DEF Holds
  <2> QED BY <2>1, <2>2
<1> HIDE DEF a
<1>3. /\ b.received = a.received \union {c} /\ b.size = a.size + c.size
      /\ b.total = a.total /\ b.age = a.age /\ b \in Assemblers
  BY <1>1, <1>2, StoreType
<1>4. b # NoAssembler
  <2>1. c \in b.received
    BY <1>3
  <2> QED BY <2>1 DEF NoAssembler
<1>5. IsFiniteSet(b.received)
  BY <1>2, <1>3, FS_AddElement
<1>6. AllReceived(b) <=> ~Missing(b)
  <2>1. b.total \in Int
    BY <1>3 DEF Assemblers
  <2> QED BY <1>5, <2>1, AllOrMissing
<1> QED BY <1>2, <1>3, <1>4, <1>5, <1>6 DEF a

\* The outcomes of handleChunk: a chunk that leaves no trace, one that ends
\* its stream's assembler in failure, one that is stored, and the last one.
Ignored(c) == /\ \/ c \notin Acceptable(c.stream)
                 \/ chunks[c.stream] # NoAssembler /\ Duplicate(chunks[c.stream], c)
              /\ UNCHANGED <<chunks, sending, failed>>
Rejected(c) == /\ chunks' = [chunks EXCEPT ![c.stream] = NoAssembler]
               /\ failed' = failed \union {c.stream} /\ UNCHANGED sending
Fits(c) == /\ c \in Acceptable(c.stream) /\ ~Duplicate(AssemblerFor(c), c)
           /\ ~TooLarge(AssemblerFor(c), c)
Stored(c) == LET b == Store(AssemblerFor(c), c) IN
  /\ Fits(c) /\ Missing(b)
  /\ chunks' = [chunks EXCEPT ![c.stream] = b] /\ UNCHANGED <<sending, failed>>
Completed(c) == LET b == Store(AssemblerFor(c), c) IN
  /\ Fits(c) /\ ~Missing(b)
  /\ chunks' = [chunks EXCEPT ![c.stream] = NoAssembler] /\ UNCHANGED failed
  /\ \/ sending' = NoSend
     \/ /\ sending' = [stream |-> c.stream, body |-> Reassembled(b)]
        /\ Reassembled(b) # <<>>

\* handleChunk has no other outcome.
LEMMA HandleCases ==
  ASSUME IndInv, NEW c \in Wire, HandleChunk(c)
  PROVE  /\ sending = NoSend /\ wire[c] > 0
         /\ wire' = [wire EXCEPT ![c] = @ - 1]
         /\ UNCHANGED <<open, chan, read, exitKey>>
         /\ Ignored(c) \/ (c \in Acceptable(c.stream) /\ exitKey = "set" /\
              (Rejected(c) \/ Stored(c) \/ Completed(c)))
<1> DEFINE a == AssemblerFor(c)
           b == Store(a, c)
           s == c.stream
<1>1. s \in Streams /\ chunks \in [Streams -> Assemblers]
  BY WireOK DEF IndInv
<1>2. CASE ~ValidTotal(c) /\ UNCHANGED <<chunks, sending, failed>>
  BY <1>2 DEF HandleChunk, Ignored, Acceptable
<1>3. CASE ValidTotal(c) /\ ~Decrypts(c) /\ chunks' = Undecryptable(c) /\ UNCHANGED <<sending, failed>>
  <2>1. c \notin Own
    BY <1>3 DEF HandleChunk, Decrypts
  <2> QED BY <1>3, <2>1 DEF HandleChunk, Ignored, Acceptable, Undecryptable
<1>4. ASSUME ValidTotal(c), Decrypts(c) PROVE c \in Acceptable(s) /\ c \in Own /\ exitKey = "set"
  BY <1>4 DEF Decrypts, Acceptable
<1>5. CASE /\ ValidTotal(c) /\ Decrypts(c)
           /\ chunks' = [chunks EXCEPT ![s] = NoAssembler]
           /\ failed' = failed \union {s} /\ UNCHANGED sending
  BY <1>4, <1>5 DEF HandleChunk, Rejected
<1>6. CASE /\ ValidTotal(c) /\ Decrypts(c) /\ Duplicate(a, c)
           /\ chunks' = [chunks EXCEPT ![s] = a] /\ UNCHANGED <<sending, failed>>
  <2>1. chunks[s] # NoAssembler /\ a = chunks[s]
    BY <1>4, <1>6, StoreFacts DEF Duplicate
  <2>2. chunks' = chunks
    BY <1>1, <1>6, <2>1
  <2> QED BY <1>6, <2>1, <2>2 DEF HandleChunk, Ignored
<1>7. CASE /\ ValidTotal(c) /\ Decrypts(c) /\ ~Duplicate(a, c) /\ ~TooLarge(a, c)
           /\ ~AllReceived(b) /\ chunks' = [chunks EXCEPT ![s] = b]
           /\ UNCHANGED <<sending, failed>>
  <2>1. Missing(b)
    BY <1>4, <1>7, StoreFacts
  <2> QED BY <1>4, <1>7, <2>1 DEF HandleChunk, Stored, Fits
<1>8. CASE /\ ValidTotal(c) /\ Decrypts(c) /\ ~Duplicate(a, c) /\ ~TooLarge(a, c)
           /\ AllReceived(b) /\ chunks' = [chunks EXCEPT ![s] = Cleanup(b)]
           /\ sending' = IF s \in open /\ Parses(Reassembled(b))
                           THEN [stream |-> s, body |-> Reassembled(b)] ELSE NoSend
           /\ UNCHANGED failed
  <2>1. ~Missing(b)
    BY <1>4, <1>8, StoreFacts
  <2> QED BY <1>4, <1>8, <2>1 DEF HandleChunk, Completed, Fits, Cleanup, Parses
<1> QED BY <1>2, <1>3, <1>5, <1>6, <1>7, <1>8 DEF HandleChunk

-----------------------------------------------------------------------------
(* IndInv is inductive.                                                    *)

\* No chunk has come.
LEMMA InitIndInv == Init => IndInv
<1> SUFFICES ASSUME Init PROVE IndInv
  OBVIOUS
<1> USE DEF Init
<1>1. NoAssembler \in Assemblers
  BY LimitsOK DEF NoAssembler, Assemblers
<1>2. Slots
  BY DEF Slots, AtMostOne
<1>3. Held
  BY DEF Held
<1>4. DOMAIN wire = Wire /\ \A c \in Wire : wire[c] \in 0..Copies[c]
  BY LimitsOK
<1> QED BY <1>1, <1>2, <1>3, <1>4 DEF IndInv

\* A chunk is handled.
LEMMA HandleIndInv ==
  ASSUME IndInv, NEW c \in Wire, HandleChunk(c)
  PROVE  IndInv'
<1> DEFINE a == AssemblerFor(c)
           b == Store(a, c)
           s == c.stream
<1>1. s \in Streams /\ chunks \in [Streams -> Assemblers] /\ failed \subseteq Streams
  BY WireOK DEF IndInv
<1>2. /\ sending = NoSend /\ wire[c] > 0 /\ wire' = [wire EXCEPT ![c] = @ - 1]
      /\ UNCHANGED <<open, chan, read, exitKey>>
  BY HandleCases
<1>3. /\ open' \subseteq Streams /\ exitKey' \in {"unset", "writing", "set", "crashed"}
      /\ Slots'
  BY <1>2 DEF IndInv, Slots
<1>4. DOMAIN wire' = Wire /\ \A d \in Wire : wire'[d] \in 0..Copies[d]
  <2>1. DOMAIN wire = Wire /\ \A d \in Wire : wire[d] \in 0..Copies[d] /\ Copies[d] \in Nat
    BY LimitsOK DEF IndInv
  <2>2. wire[c] - 1 \in 0..Copies[c]
    BY <1>2, <2>1
  <2> QED BY <1>2, <2>1, <2>2
<1>5. /\ chunks' \in [Streams -> Assemblers] /\ Held' /\ failed' \subseteq Streams
      /\ sending' = NoSend \/ sending'.stream \in Streams
  <2>0. NoAssembler \in Assemblers
    BY LimitsOK DEF NoAssembler, Assemblers
  <2>1. \A t \in Streams : \A x : Holds(t, x)' <=> Holds(t, x)
    BY <1>2 DEF Holds
  <2>2. CASE Ignored(c)
    BY <1>1, <1>2, <2>1, <2>2 DEF Ignored, Held, IndInv
  <2>3. CASE Rejected(c)
    <3>1. \A t \in Streams : chunks'[t] # NoAssembler => chunks[t] = chunks'[t]
      BY <1>1, <2>3 DEF Rejected
    <3> QED BY <1>1, <1>2, <2>0, <2>1, <2>3, <3>1 DEF Rejected, Held, IndInv
  <2>4. CASE Completed(c)
    <3>1. \A t \in Streams : chunks'[t] # NoAssembler => chunks[t] = chunks'[t]
      BY <1>1, <2>4 DEF Completed
    <3>2. Held'
      BY <2>1, <3>1 DEF Held, IndInv
    <3> QED BY <1>1, <2>0, <2>4, <3>2 DEF Completed
  <2>5. CASE Stored(c) /\ c \in Acceptable(s) /\ exitKey = "set"
    <3>1. /\ b \in Assemblers /\ IsFiniteSet(b.received)
          /\ a.received \subseteq Acceptable(s)
          /\ b.received = a.received \union {c} /\ b.size = a.size + c.size
          /\ b.total = a.total /\ \E d \in Acceptable(s) : d.total = a.total
          /\ a \in Assemblers
      BY <2>5, StoreFacts DEF Acceptable
    <3>2. b.size <= maxChunkTotalSize
      BY <2>5, <3>1, WireOK, LimitsOK DEF Stored, Fits, TooLarge, Assemblers
    <3>3. Missing(b) /\ chunks' = [chunks EXCEPT ![s] = b] /\ UNCHANGED <<sending, failed>>
      BY <2>5 DEF Stored
    <3>4. Holds(s, b)
      BY <2>5, <3>1, <3>2, <3>3 DEF Holds
    <3> HIDE DEF b
    <3>5. Held'
      <4> SUFFICES ASSUME NEW t \in Streams, chunks'[t] # NoAssembler
                   PROVE  Holds(t, chunks'[t])
        BY <2>1 DEF Held
      <4>1. CASE t = s
        BY <1>1, <3>3, <3>4, <4>1
      <4>2. CASE t # s
        BY <1>1, <3>3, <4>2 DEF Held, IndInv
      <4> QED BY <4>1, <4>2
    <3> QED BY <1>1, <1>2, <3>1, <3>3, <3>5
  <2> QED BY <2>2, <2>3, <2>4, <2>5, HandleCases
<1> QED BY <1>3, <1>4, <1>5 DEF IndInv

\* The response is sent, or dropped after the time-out.
LEMMA SendIndInv == IndInv /\ (Dispatch \/ Drop) => IndInv'
<1> SUFFICES ASSUME IndInv, Dispatch \/ Drop PROVE IndInv'
  OBVIOUS
<1>1. /\ sending # NoSend /\ sending.stream \in Streams /\ sending' = NoSend
      /\ UNCHANGED <<chunks, open, read, wire, exitKey>>
  BY DEF IndInv, Dispatch, Drop
<1>2. Slots'
  <2>1. CASE Dispatch
    <3>1. /\ DOMAIN chan = Streams /\ chan[sending.stream] = <<>>
          /\ chan' = [chan EXCEPT ![sending.stream] = Append(chan[sending.stream], sending.body)]
      BY <2>1 DEF Dispatch, IndInv, Slots
    <3>2. chan'[sending.stream] = <<sending.body>>
      BY <1>1, <3>1
    <3>3. DOMAIN chan' = Streams
      BY <3>1
    <3>4. \A s \in Streams : s # sending.stream => chan'[s] = chan[s]
      BY <3>1
    <3>5. \A s \in Streams : AtMostOne(chan'[s])
      BY <3>2, <3>4 DEF IndInv, Slots, AtMostOne
    <3> QED BY <1>1, <3>3, <3>5 DEF IndInv, Slots
  <2>2. CASE Drop
    BY <1>1, <2>2 DEF Drop, IndInv, Slots
  <2> QED BY <2>1, <2>2
<1>3. Held'
  BY <1>1 DEF IndInv, Held, Holds
<1>4. failed' \subseteq Streams
  BY <1>1 DEF IndInv, Dispatch, Drop
<1> QED BY <1>1, <1>2, <1>3, <1>4 DEF IndInv

\* Time makes assemblers older and changes nothing else of them.
LEMMA TickFacts ==
  ASSUME IndInv, Tick, NEW s \in Streams
  PROVE  /\ chunks'[s] \in Assemblers
         /\ chunks'[s].received = chunks[s].received
         /\ chunks'[s].total = chunks[s].total /\ chunks'[s].size = chunks[s].size
         /\ chunks[s] = NoAssembler => chunks'[s] = NoAssembler
<1>1. chunks[s] \in Assemblers
  BY DEF IndInv
<1>2. CASE chunks[s] = NoAssembler \/ chunks[s].age > AssemblyTimeout
  BY <1>1, <1>2 DEF Tick
<1>3. CASE ~(chunks[s] = NoAssembler \/ chunks[s].age > AssemblyTimeout)
  <2>1. chunks'[s] = [chunks[s] EXCEPT !.age = chunks[s].age + 1]
    BY <1>3 DEF Tick
  <2>2. chunks[s].age + 1 \in 0..(AssemblyTimeout + 1)
    BY <1>1, <1>3, LimitsOK DEF Assemblers
  <2> QED BY <1>1, <1>3, <2>1, <2>2 DEF Assemblers
<1> QED BY <1>2, <1>3

\* Time passes.
LEMMA TickIndInv == IndInv /\ Tick => IndInv'
<1> SUFFICES ASSUME IndInv, Tick PROVE IndInv'
  OBVIOUS
<1>1. UNCHANGED <<sending, open, chan, read, wire, failed, exitKey>>
  BY DEF Tick
<1>2. \A s \in Streams :
        /\ chunks'[s] \in Assemblers
        /\ chunks'[s].received = chunks[s].received
        /\ chunks'[s].total = chunks[s].total /\ chunks'[s].size = chunks[s].size
        /\ chunks[s] = NoAssembler => chunks'[s] = NoAssembler
  BY TickFacts
<1>3. chunks' \in [Streams -> Assemblers]
  BY <1>2 DEF Tick
<1>4. Held'
  <2> SUFFICES ASSUME NEW s \in Streams, chunks'[s] # NoAssembler
               PROVE  Holds(s, chunks[s])'
    BY DEF Held
  <2>1. Holds(s, chunks[s])
    BY <1>2 DEF IndInv, Held
  <2> QED BY <1>1, <1>2, <2>1 DEF Holds, Missing
<1> QED BY <1>1, <1>3, <1>4 DEF IndInv, Slots

\* Every step preserves the invariant.
LEMMA NextIndInv == IndInv /\ [Next]_vars => IndInv'
<1> SUFFICES ASSUME IndInv, [Next]_vars PROVE IndInv'
  OBVIOUS
<1>1. ASSUME NEW c \in Wire, Lose(c) PROVE IndInv'
  <2>1. /\ UNCHANGED <<chunks, sending, open, chan, read, exitKey>>
        /\ wire' = [wire EXCEPT ![c] = 0]
        /\ failed' \subseteq failed \union {c.stream} /\ c.stream \in Streams
    BY <1>1, WireOK DEF Lose
  <2>2. Held' /\ Slots'
    BY <2>1 DEF IndInv, Held, Holds, Slots
  <2>3. DOMAIN wire' = Wire /\ \A d \in Wire : wire'[d] \in 0..Copies[d]
    <3>1. DOMAIN wire = Wire /\ \A d \in Wire : wire[d] \in 0..Copies[d] /\ Copies[d] \in Nat
      BY LimitsOK DEF IndInv
    <3> QED BY <2>1, <3>1
  <2> QED BY <2>1, <2>2, <2>3 DEF IndInv
<1>2. ASSUME NEW c \in Wire, TornRead(c) PROVE IndInv'
  <2>1. /\ UNCHANGED <<chunks, sending, open, chan, read, wire, failed>>
        /\ exitKey = "writing" /\ exitKey' = "crashed"
    BY <1>2 DEF TornRead
  <2>2. \A s \in Streams : chunks[s] = NoAssembler
    BY <2>1 DEF IndInv, Held, Holds
  <2>3. Held' /\ Slots'
    BY <2>1, <2>2 DEF IndInv, Held, Slots
  <2> QED BY <2>1, <2>3 DEF IndInv
<1>3. CASE WriteExitKey
  <2>1. /\ UNCHANGED <<chunks, sending, open, chan, read, wire, failed>>
        /\ exitKey \in {"unset", "writing"} /\ exitKey' \in {"writing", "set"}
    BY <1>3 DEF WriteExitKey
  <2>2. \A s \in Streams : chunks[s] = NoAssembler
    BY <2>1 DEF IndInv, Held, Holds
  <2>3. Held' /\ Slots'
    BY <2>1, <2>2 DEF IndInv, Held, Slots
  <2> QED BY <2>1, <2>3 DEF IndInv
<1>4. ASSUME NEW s \in Streams, RecvData(s) PROVE IndInv'
  <2>1. /\ UNCHANGED <<chunks, sending, open, wire, failed, exitKey>>
        /\ read' = [read EXCEPT ![s] = chan[s]] /\ chan' = [chan EXCEPT ![s] = <<>>]
    BY <1>4 DEF RecvData
  <2>2. Slots'
    BY <2>1 DEF IndInv, Slots, AtMostOne
  <2>3. Held'
    BY <2>1 DEF IndInv, Held, Holds
  <2> QED BY <2>1, <2>2, <2>3 DEF IndInv
<1>5. ASSUME NEW s \in Streams, CloseStream(s) PROVE IndInv'
  <2>1. open' \subseteq open /\ UNCHANGED <<chunks, sending, chan, read, wire, failed, exitKey>>
    BY <1>5 DEF CloseStream
  <2>2. Held' /\ Slots'
    BY <2>1 DEF IndInv, Held, Holds, Slots
  <2> QED BY <2>1, <2>2 DEF IndInv
<1>6. CASE UNCHANGED vars
  BY <1>6 DEF vars, IndInv, Held, Holds, Slots
<1> QED BY <1>1, <1>2, <1>3, <1>4, <1>5, <1>6, HandleIndInv, SendIndInv, TickIndInv
        DEF Next, Quiescent, Crashed

\* The invariant holds in every reachable state.
LEMMA IndInvHolds == Spec => []IndInv
BY InitIndInv, NextIndInv, PTL DEF Spec

-----------------------------------------------------------------------------
(* What holds for every wire.                                              *)

\* The types: a channel never has more than one response.
THEOREM TypeCorrect == Spec => []TypeOK
<1>1. ASSUME IndInv PROVE TypeOK
  <2>1. ASSUME NEW q, AtMostOne(q) PROVE Len(q) <= 1
    <3>1. CASE q = <<>>
      BY <3>1
    <3>2. ASSUME NEW x, q = <<x>> PROVE Len(q) <= 1
      BY <3>2
    <3> QED BY <2>1, <3>1, <3>2 DEF AtMostOne
  <2> QED BY <1>1, <2>1 DEF IndInv, TypeOK, Slots
<1> QED BY <1>1, IndInvHolds, PTL

\* Chunks of an older circuit, and chunks that come before the exit key is
\* known, leave no trace.
THEOREM NoForeignChunks == Spec => []OwnChunksOnly
<1>1. IndInv => OwnChunksOnly
  BY DEF IndInv, OwnChunksOnly, Held, Holds, Acceptable
<1> QED BY <1>1, IndInvHolds, PTL

-----------------------------------------------------------------------------
(* What the client reads, if the exit sends one response on a stream       *)
(* (OneResponse).                                                          *)

\* An assembler that misses nothing holds the chunks of the response and no
\* others with an index of it.
LEMMA Whole ==
  ASSUME NEW s \in Streams, NEW n \in Nat, ResponseOf(s, n), NEW R \in SUBSET Acceptable(s),
         \A i \in 0..(n - 1) : \E d \in R : d.index = i
  PROVE  {d \in R : d.index \in 0..(n - 1)}
           = {c \in Own : c.stream = s /\ c.index \in 0..(c.total - 1)
                            /\ c.total <= maxChunkCount}
<1> DEFINE L == {d \in R : d.index \in 0..(n - 1)}
           M == {c \in Own : c.stream = s /\ c.index \in 0..(c.total - 1)
                               /\ c.total <= maxChunkCount}
<1>1. \A c \in Own : c.total \in Int /\ c.index \in Int
  BY WireOK DEF Own
<1>2. ASSUME NEW d \in L PROVE d \in M
  <2>1. d \in Acceptable(s) /\ d.total = n
    BY DEF ResponseOf
  <2> QED BY <2>1 DEF Acceptable, ValidTotal
<1>3. ASSUME NEW c \in M PROVE c \in L
  <2>1. c.total > 0 /\ c \in Acceptable(s)
    BY <1>1 DEF Acceptable, ValidTotal
  <2>2. c.total = n
    BY <1>1, <2>1 DEF ResponseOf, Acceptable
  <2>3. PICK d \in R : d.index = c.index
    BY <2>2
  <2>4. d = c
    BY <2>1, <2>2, <2>3 DEF ResponseOf
  <2> QED BY <2>2, <2>3, <2>4
<1> QED BY <1>2, <1>3

\* What the last chunk completes is the response, or nothing that parses.
LEMMA CompletedWhole ==
  ASSUME OneResponse, IndInv, NEW c \in Wire, c \in Acceptable(c.stream),
         exitKey = "set", ~Missing(Store(AssemblerFor(c), c))
  PROVE  Reassembled(Store(AssemblerFor(c), c)) \in {<<>>, Response(c.stream)}
<1> DEFINE b == Store(AssemblerFor(c), c)
           s == c.stream
<1>1. s \in Streams /\ c \in Own /\ ValidTotal(c)
  BY WireOK DEF Acceptable
<1>2. /\ b.received \subseteq Acceptable(s)
      /\ \E d \in Acceptable(s) : d.total = b.total
  BY <1>1, StoreFacts
<1>3. PICK n \in Nat : ResponseOf(s, n)
  BY <1>1, LimitsOK DEF OneResponse
<1> HIDE DEF b
<1>4. b.total = n \/ b.total < 0
  BY <1>2, <1>3 DEF ResponseOf
<1>5. CASE b.total = n
  <2>1. \A i \in 0..(n - 1) : \E d \in b.received : d.index = i
    BY <1>5 DEF Missing, b
  <2>2. {d \in b.received : d.index \in 0..(b.total - 1)}
           = {e \in Own : e.stream = s /\ e.index \in 0..(e.total - 1)
                            /\ e.total <= maxChunkCount}
    BY <1>1, <1>2, <1>3, <1>5, <2>1, Whole
  <2> QED BY <2>2 DEF Reassembled, Response, b
<1>6. CASE b.total < 0
  <2>1. b.total \in Int
    BY <1>2, WireOK DEF Acceptable, Own
  <2>2. {d \in b.received : d.index \in 0..(b.total - 1)} = {}
    BY <1>6, <2>1
  <2> QED BY <2>2, ByIndexEmpty DEF Reassembled, b
<1> QED BY <1>4, <1>5, <1>6

\* What is sent, waits in a channel or was read is the stream's response.
MailInv ==
  /\ sending # NoSend => sending.body = Response(sending.stream)
  /\ \A s \in Streams : /\ chan[s] \in {<<>>, <<Response(s)>>}
                        /\ read[s] \in {<<>>, <<Response(s)>>}

\* The client reads whole responses, with their chunks in order, each once,
\* in whatever order and however often the chunks come.
THEOREM ReadsAreIntact ==
  ASSUME OneResponse
  PROVE  Spec => []Intact
<1>1. Init => MailInv
  BY DEF Init, MailInv
<1>2. ASSUME IndInv, MailInv, [Next]_vars PROVE MailInv'
  <2>1. ASSUME NEW c \in Wire, HandleChunk(c) PROVE MailInv'
    <3>1. sending = NoSend /\ UNCHANGED <<chan, read>>
      BY <1>2, <2>1, HandleCases
    <3>2. sending' = NoSend \/ (/\ sending'.body = Response(c.stream)
                                /\ sending'.stream = c.stream)
      <4>1. CASE Ignored(c) \/ Rejected(c) \/ Stored(c)
        BY <3>1, <4>1 DEF Ignored, Rejected, Stored
      <4>2. CASE Completed(c) /\ c \in Acceptable(c.stream) /\ exitKey = "set"
        <5>1. Reassembled(Store(AssemblerFor(c), c)) \in {<<>>, Response(c.stream)}
          BY <1>2, <4>2, CompletedWhole DEF Completed
        <5> QED BY <4>2, <5>1 DEF Completed
      <4> QED BY <1>2, <2>1, <4>1, <4>2, HandleCases
    <3> QED BY <1>2, <3>1, <3>2 DEF MailInv
  <2>2. CASE Dispatch
    <3>1. /\ sending # NoSend /\ sending.stream \in Streams /\ sending' = NoSend
          /\ DOMAIN chan = Streams /\ chan[sending.stream] = <<>>
          /\ chan' = [chan EXCEPT ![sending.stream] = Append(chan[sending.stream], sending.body)]
          /\ UNCHANGED read
      BY <1>2, <2>2 DEF Dispatch, IndInv, Slots
    <3>2. chan'[sending.stream] = <<sending.body>> /\ sending.body = Response(sending.stream)
      BY <1>2, <3>1 DEF MailInv
    <3>3. \A s \in Streams : s # sending.stream => chan'[s] = chan[s]
      BY <3>1
    <3> QED BY <1>2, <3>1, <3>2, <3>3 DEF MailInv
  <2>3. ASSUME NEW s \in Streams, RecvData(s) PROVE MailInv'
    BY <1>2, <2>3 DEF RecvData, MailInv, IndInv, Slots
  <2>4. CASE \/ \E c \in Wire : Lose(c) \/ TornRead(c)
             \/ \E s \in Streams : CloseStream(s)
             \/ WriteExitKey \/ Drop \/ Tick \/ UNCHANGED vars
    <3>1. (sending' = sending \/ sending' = NoSend) /\ UNCHANGED <<chan, read>>
      BY <2>4 DEF Lose, TornRead, CloseStream, WriteExitKey, Drop, Tick, vars
    <3> QED BY <1>2, <3>1 DEF MailInv
  <2> QED BY <1>2, <2>1, <2>2, <2>3, <2>4 DEF Next, Quiescent, Crashed
<1>3. ASSUME MailInv PROVE Intact
  <2> SUFFICES ASSUME NEW s \in Streams, NEW i \in 1..Len(read[s])
               PROVE  read[s][i] = Response(s)
    BY DEF Intact
  <2>1. read[s] \in {<<>>, <<Response(s)>>}
    BY <1>3 DEF MailInv
  <2>2. \A x : Len(<<x>>) = 1 /\ <<x>>[1] = x
    OBVIOUS
  <2>3. read[s] # <<>>
    <3> SUFFICES ASSUME read[s] = <<>> PROVE FALSE
      OBVIOUS
    <3>1. Len(read[s]) = 0
      OBVIOUS
    <3> QED BY <3>1
  <2>4. read[s] = <<Response(s)>>
    BY <2>1, <2>3
  <2>5. i = 1
    BY <2>2, <2>4
  <2> QED BY <2>2, <2>4, <2>5
<1> QED BY <1>1, <1>2, <1>3, IndInvHolds, PTL DEF Spec

-----------------------------------------------------------------------------
(* Assemblers do not outlive their responses (EntireResponses).            *)

\* As long as the stream has not failed: an assembler has the chunks that
\* have arrived; without one, none of them has, or all have.
Progress(s, n) ==
  IF chunks[s] = NoAssembler
    THEN (\A c \in Part(s, n) : wire[c] = 1) \/ (\A c \in Part(s, n) : wire[c] = 0)
    ELSE \A c \in Part(s, n) : c \in chunks[s].received <=> wire[c] = 0
ProgressInv ==
  \A s \in Streams, n \in Nat : Entire(s, n) /\ s \notin failed => Progress(s, n)

\* The assembler of an entire response has its total.
LEMMA HeldTotal ==
  ASSUME IndInv, NEW s \in Streams, NEW n \in Nat, ResponseOf(s, n),
         chunks[s] # NoAssembler
  PROVE  chunks[s].total = n /\ Missing(chunks[s]) /\ chunks[s].received \subseteq Acceptable(s)
<1>1. Holds(s, chunks[s])
  BY DEF IndInv, Held
<1>2. PICK d \in Acceptable(s) : d.total = chunks[s].total
  BY <1>1 DEF Holds
<1>3. chunks[s].total \in Int /\ Missing(chunks[s])
  BY <1>1, <1>2, WireOK DEF Holds, Acceptable, Own
<1>4. chunks[s].total > 0
  BY <1>3 DEF Missing
<1>5. chunks[s].total = n
  BY <1>2, <1>3, <1>4 DEF ResponseOf
<1> QED BY <1>1, <1>3, <1>5 DEF Holds

\* A chunk of the stream is handled.
LEMMA HandleProgress ==
  ASSUME IndInv, NEW c \in Wire, HandleChunk(c), NEW n \in Nat,
         Entire(c.stream, n), c.stream \notin failed', Progress(c.stream, n),
         c.stream \in Streams
  PROVE  Progress(c.stream, n)'
<1> DEFINE s == c.stream
           a == AssemblerFor(c)
           b == Store(a, c)
           P == Part(s, n)
<1>1. /\ wire[c] > 0 /\ wire' = [wire EXCEPT ![c] = @ - 1] /\ DOMAIN wire = Wire
      /\ P \subseteq Acceptable(s) /\ P \subseteq Wire /\ chunks \in [Streams -> Assemblers]
  BY HandleCases DEF IndInv, Part, Acceptable, Own
<1>2. \A d \in P : d # c => wire'[d] = wire[d]
  BY <1>1
<1>3. c \in P => wire[c] = 1 /\ wire'[c] = 0
  <2> SUFFICES ASSUME c \in P PROVE wire[c] = 1 /\ wire'[c] = 0
    OBVIOUS
  <2>1. Copies[c] = 1 /\ wire[c] \in 0..Copies[c]
    BY DEF Entire, Part, Acceptable, IndInv
  <2> QED BY <1>1, <2>1
<1>4. ASSUME NEW d \in Acceptable(s), NEW e \in P, d.index = e.index PROVE d = e
  BY <1>4 DEF Entire, ResponseOf, Part
<1>5. P' = P
  BY DEF Part
<1>6. CASE Ignored(c)
  <2>1. c \notin P
    <3> SUFFICES ASSUME c \in P PROVE FALSE
      OBVIOUS
    <3>1. chunks[s] # NoAssembler /\ Duplicate(chunks[s], c)
      BY <1>1, <1>6 DEF Ignored
    <3>2. PICK d \in chunks[s].received : d.index = c.index
      BY <3>1 DEF Duplicate
    <3>3. d \in Acceptable(s)
      BY <3>1, HeldTotal DEF Entire
    <3>4. c \in chunks[s].received
      BY <1>4, <3>2, <3>3
    <3> QED BY <1>3, <3>1, <3>4 DEF Progress
  <2>2. chunks' = chunks /\ \A d \in P : wire'[d] = wire[d]
    BY <1>2, <1>6, <2>1 DEF Ignored
  <2> QED BY <1>5, <2>2 DEF Progress
<1>7. CASE Rejected(c)
  BY <1>7 DEF Rejected
<1>8. ASSUME c \in Acceptable(s), exitKey = "set"
      PROVE  /\ b # NoAssembler /\ b.received = a.received \union {c} /\ b.total = a.total
             /\ chunks[s] = NoAssembler => a.received = {} /\ a.total = c.total
             /\ chunks[s] # NoAssembler => a = chunks[s]
             /\ c \notin P => c.total < 0 /\ c.index \notin 0..(n - 1)
             /\ c \in P => c.total = n
  <2>1. c \in Own /\ ValidTotal(c)
    BY <1>8 DEF Acceptable
  <2>2. /\ b # NoAssembler /\ b.received = a.received \union {c} /\ b.total = a.total
        /\ chunks[s] = NoAssembler => a.received = {} /\ a.total = c.total
        /\ chunks[s] # NoAssembler => a = chunks[s]
    BY <1>8, <2>1, StoreFacts
  <2>3. /\ c \notin P => c.total < 0 /\ c.index \notin 0..(n - 1)
        /\ c \in P => c.total = n
    BY <1>8 DEF Entire, ResponseOf, Part
  <2> QED BY <2>2, <2>3
<1>9. CASE Stored(c) /\ c \in Acceptable(s) /\ exitKey = "set"
  <2>1. Missing(b) /\ chunks'[s] = b
    BY <1>1, <1>9 DEF Stored
  <2> HIDE DEF a, b, P
  <2>2. CASE c \in P
    <3>1. \A d \in P : d \in b.received <=> wire'[d] = 0
      <4>1. CASE chunks[s] = NoAssembler
        <5>1. \A d \in P : wire[d] = 1
          BY <1>3, <2>2, <4>1 DEF Progress, P
        <5>2. b.received = {c}
          BY <1>8, <1>9, <4>1
        <5> QED BY <1>2, <1>3, <2>2, <5>1, <5>2
      <4>2. CASE chunks[s] # NoAssembler
        <5>1. \A d \in P : d \in chunks[s].received <=> wire[d] = 0
          BY <4>2 DEF Progress, P
        <5>2. b.received = chunks[s].received \union {c}
          BY <1>8, <1>9, <4>2
        <5> QED BY <1>2, <1>3, <2>2, <5>1, <5>2
      <4> QED BY <4>1, <4>2
    <3> QED BY <1>5, <1>8, <1>9, <2>1, <3>1 DEF Progress, P
  <2>3. CASE c \notin P
    <3>1. chunks[s] # NoAssembler
      <4> SUFFICES ASSUME chunks[s] = NoAssembler PROVE FALSE
        OBVIOUS
      <4>1. b.total < 0 /\ b.total \in Int
        BY <1>8, <1>9, <2>3, WireOK
      <4> QED BY <2>1, <4>1 DEF Missing
    <3>2. \A d \in P : d \in b.received <=> wire'[d] = 0
      <4>1. \A d \in P : d \in chunks[s].received <=> wire[d] = 0
        BY <3>1 DEF Progress, P
      <4>2. b.received = chunks[s].received \union {c}
        BY <1>8, <1>9, <3>1
      <4> QED BY <1>2, <2>3, <4>1, <4>2
    <3> QED BY <1>5, <1>8, <1>9, <2>1, <3>2 DEF Progress, P
  <2> QED BY <2>2, <2>3
<1>10. CASE Completed(c) /\ c \in Acceptable(s) /\ exitKey = "set"
  <2>1. ~Missing(b) /\ chunks'[s] = NoAssembler
    BY <1>1, <1>10 DEF Completed
  <2>2. chunks[s] # NoAssembler =>
          /\ chunks[s].total = n /\ Missing(chunks[s])
          /\ chunks[s].received \subseteq Acceptable(s)
    BY HeldTotal DEF Entire
  <2> HIDE DEF a, b, P
  <2>3. CASE c \in P
    <3>1. b.total = n /\ b.received \subseteq Acceptable(s)
      BY <1>8, <1>10, <2>2, <2>3
    <3>2. ASSUME NEW d \in P PROVE wire'[d] = 0
      <4>1. PICK e \in b.received : e.index = d.index
        <5>1. d.index \in 0..(b.total - 1)
          BY <3>1 DEF P, Part
        <5> QED BY <2>1, <5>1 DEF Missing
      <4>2. d \in b.received
        BY <1>4, <3>1, <4>1
      <4>3. CASE d = c
        BY <1>3, <2>3, <4>3
      <4>4. CASE d # c
        <5>1. chunks[s] # NoAssembler /\ d \in chunks[s].received
          BY <1>8, <1>10, <4>2, <4>4
        <5> QED BY <1>2, <4>4, <5>1 DEF Progress, P
      <4> QED BY <4>3, <4>4
    <3> QED BY <1>5, <2>1, <3>2 DEF Progress, P
  <2>4. CASE c \notin P
    <3>1. chunks[s] = NoAssembler
      <4> SUFFICES ASSUME chunks[s] # NoAssembler PROVE FALSE
        OBVIOUS
      <4>1. b.received = chunks[s].received \union {c} /\ b.total = n /\ c.index \notin 0..(n - 1)
        BY <1>8, <1>10, <2>2, <2>4
      <4> QED BY <2>1, <2>2, <4>1 DEF Missing
    <3>2. \A d \in P : wire'[d] = wire[d]
      BY <1>2, <2>4
    <3> QED BY <1>5, <2>1, <3>1, <3>2 DEF Progress, P
  <2> QED BY <2>3, <2>4
<1> QED BY <1>6, <1>7, <1>9, <1>10, HandleCases

\* When every chunk of a response has come once, its assembler is gone: for
\* every order of the chunks and whatever comes between them.
THEOREM AssemblersEnd ==
  ASSUME EntireResponses
  PROVE  Spec => []NoLeftover
<1>1. Init => ProgressInv
  <2> SUFFICES ASSUME Init, NEW s \in Streams, NEW n \in Nat, Entire(s, n)
               PROVE  Progress(s, n)
    BY DEF ProgressInv
  <2>1. \A c \in Part(s, n) : Copies[c] = 1
    BY DEF Entire, Part, Acceptable
  <2> QED BY <2>1 DEF Init, Progress
<1>2. ASSUME IndInv, ProgressInv, [Next]_vars PROVE ProgressInv'
  <2> SUFFICES ASSUME NEW s \in Streams, NEW n \in Nat, Entire(s, n), s \notin failed'
               PROVE  Progress(s, n)'
    BY DEF ProgressInv, Entire
  <2>1. failed \subseteq failed'
    BY <1>2 DEF Next, HandleChunk, Lose, TornRead, RecvData, CloseStream, WriteExitKey,
                Dispatch, Drop, Tick, Quiescent, Crashed, vars
  <2>2. Progress(s, n)
    BY <1>2, <2>1 DEF ProgressInv
  <2>3. Part(s, n) \subseteq Wire /\ \A c \in Part(s, n) : c \in Own /\ c.stream = s
    BY DEF Part, Acceptable, Own
  <2>4. DOMAIN wire = Wire /\ chunks \in [Streams -> Assemblers]
    BY <1>2 DEF IndInv
  <2>5. ASSUME NEW c \in Wire, HandleChunk(c) PROVE Progress(s, n)'
    <3>1. CASE c.stream = s
      BY <1>2, <2>2, <2>5, <3>1, HandleProgress
    <3>2. CASE c.stream # s
      <4>1. \A d \in Part(s, n) : wire'[d] = wire[d]
        BY <1>2, <2>3, <2>4, <2>5, <3>2, HandleCases
      <4>2. chunks'[s] = chunks[s]
        BY <1>2, <2>4, <2>5, <3>2, HandleCases DEF Ignored, Rejected, Stored, Completed
      <4> QED BY <2>2, <4>1, <4>2 DEF Progress, Part
    <3> QED BY <3>1, <3>2
  <2>6. ASSUME NEW c \in Wire, Lose(c) PROVE Progress(s, n)'
    <3>1. c \notin Part(s, n)
      BY <2>3, <2>6 DEF Lose
    <3>2. chunks' = chunks /\ \A d \in Part(s, n) : wire'[d] = wire[d]
      BY <2>3, <2>4, <2>6, <3>1 DEF Lose
    <3> QED BY <2>2, <3>2 DEF Progress, Part
  <2>7. CASE Tick
    <3>1. UNCHANGED wire /\ chunks'[s].received = chunks[s].received
      BY <1>2, <2>7, TickFacts DEF Tick
    <3>2. chunks'[s] = NoAssembler <=> chunks[s] = NoAssembler
      <4>1. chunks[s] # NoAssembler => chunks'[s].total # 0
        <5>1. chunks[s] # NoAssembler => Missing(chunks[s]) /\ chunks[s].total \in Int
          BY <1>2, <2>4 DEF IndInv, Held, Holds, Assemblers
        <5>2. chunks'[s].total = chunks[s].total
          BY <1>2, <2>7, TickFacts
        <5> QED BY <5>1, <5>2 DEF Missing
      <4> QED BY <1>2, <2>7, <4>1, TickFacts DEF NoAssembler
    <3> QED BY <2>2, <3>1, <3>2 DEF Progress, Part
  <2>8. CASE \/ \E c \in Wire : TornRead(c)
             \/ \E t \in Streams : RecvData(t) \/ CloseStream(t)
             \/ WriteExitKey \/ Dispatch \/ Drop \/ UNCHANGED vars
    <3>1. UNCHANGED <<chunks, wire>>
      BY <2>8 DEF TornRead, RecvData, CloseStream, WriteExitKey, Dispatch, Drop, vars
    <3> QED BY <2>2, <3>1 DEF Progress, Part
  <2> QED BY <1>2, <2>5, <2>6, <2>7, <2>8 DEF Next, Quiescent, Crashed
<1>3. ASSUME IndInv, ProgressInv PROVE NoLeftover
  <2> SUFFICES ASSUME NEW s \in Streams, s \notin failed,
                      \A c \in Own : c.stream = s => Copies[c] = 1 /\ wire[c] = 0,
                      chunks[s] # NoAssembler
               PROVE  FALSE
    BY DEF NoLeftover
  <2>1. PICK n \in Nat : Entire(s, n)
    BY LimitsOK DEF EntireResponses
  <2>2. chunks[s].total = n /\ Missing(chunks[s])
    BY <1>3, <2>1, HeldTotal DEF Entire
  <2>3. \A c \in Part(s, n) : c \in chunks[s].received
    BY <1>3, <2>1 DEF ProgressInv, Progress, Part, Acceptable
  <2> QED BY <2>1, <2>2, <2>3 DEF Missing, Entire
<1> QED BY <1>1, <1>2, <1>3, IndInvHolds, PTL DEF Spec

-----------------------------------------------------------------------------
(* The size of an assembler.  TotalSize is defined by recursion over       *)
(* finite sets; what it needs of induction is had from least               *)
(* counterexamples.                                                        *)

\* The sum of the sizes of a set of chunks.
TotalSize(S) == MapThenSumSet(LAMBDA c : c.size, S)

\* Its recursion: the value for s from those for smaller sets.
First(s)   == CHOOSE c \in s : TRUE
Sum(f, s)  == IF s = {} THEN 0 ELSE First(s).size + f[s \ {First(s)}]
Sums(S, f) == f = [s \in SUBSET S |-> Sum(f, s)]

\* TotalSize is defined by a function with this recursion.
LEMMA TotalSizeDef ==
  ASSUME NEW S
  PROVE  TotalSize(S) = (CHOOSE f : Sums(S, f))[S]
BY DEF TotalSize, MapThenSumSet, MapThenFoldSet, Sums, Sum, First

\* A set of numbers that is not empty has a least element.
LEMMA Least ==
  ASSUME NEW T \in SUBSET Nat, T # {}
  PROVE  \E m \in T : \A k \in T : m <= k
<1> DEFINE Lt == OpToRel(<, Nat)
<1>1. \A k, n \in Nat : k < n => <<k, n>> \in Lt
  BY DEF OpToRel
<1>2. IsWellFoundedOn(Lt, Nat)
  BY NatLessThanWellFounded
<1> HIDE DEF Lt
<1>3. PICK m \in T : \A k \in T : ~(<<k, m>> \in Lt)
  BY <1>2, WFMin
<1>4. ASSUME NEW k \in T PROVE m <= k
  <2>1. k \in Nat /\ m \in Nat
    OBVIOUS
  <2>2. ~(k < m)
    BY <1>1, <1>3, <2>1, Zenon
  <2> QED BY <2>1, <2>2
<1> QED BY <1>4

\* The set a nonempty finite set leaves without its first element is smaller.
LEMMA FirstFacts ==
  ASSUME NEW s, IsFiniteSet(s), s # {}
  PROVE  /\ First(s) \in s /\ IsFiniteSet(s \ {First(s)})
         /\ Cardinality(s) \in Nat /\ Cardinality(s \ {First(s)}) \in Nat
         /\ Cardinality(s \ {First(s)}) = Cardinality(s) - 1
<1>1. First(s) \in s
  BY DEF First
<1> QED BY <1>1, FS_RemoveElement, FS_CardinalityType

\* Such a function exists for a finite set: it can be extended from the sets
\* with at most n elements to those with one more.
LEMMA SumsExist ==
  ASSUME NEW S \in SUBSET Wire, IsFiniteSet(S)
  PROVE  \E f \in [SUBSET S -> Nat] : Sums(S, f)
<1> DEFINE Upto(f, n) == \A s \in SUBSET S : Cardinality(s) <= n => f[s] = Sum(f, s)
           Bad == {n \in Nat : ~\E f \in [SUBSET S -> Nat] : Upto(f, n)}
<1>1. \A s \in SUBSET S : IsFiniteSet(s) /\ Cardinality(s) \in Nat
  BY FS_Subset, FS_CardinalityType
<1>2. Bad = {}
  <2> SUFFICES ASSUME Bad # {} PROVE FALSE
    OBVIOUS
  <2>1. PICK m \in Bad : \A k \in Bad : m <= k
    BY Least
  <2>2. CASE m = 0
    <3> DEFINE z == [s \in SUBSET S |-> 0]
    <3>1. z \in [SUBSET S -> Nat]
      OBVIOUS
    <3>2. ASSUME NEW s \in SUBSET S, Cardinality(s) <= 0 PROVE z[s] = Sum(z, s)
      <4>1. s = {}
        BY <1>1, <3>2, FS_EmptySet
      <4> QED BY <4>1 DEF Sum
    <3> QED BY <2>1, <2>2, <3>1, <3>2
  <2>3. CASE m # 0
    <3>1. m \in Nat /\ m - 1 \in Nat /\ m - 1 \notin Bad
      <4>1. m \in Nat
        BY <2>1
      <4> HIDE DEF Bad
      <4> QED BY <2>1, <2>3, <4>1
    <3>2. PICK f \in [SUBSET S -> Nat] : Upto(f, m - 1)
      BY <3>1
    <3> DEFINE g == [s \in SUBSET S |-> Sum(f, s)]
    <3>3. ASSUME NEW s \in SUBSET S, s # {}
          PROVE  /\ First(s) \in S /\ First(s).size \in Nat
                 /\ s \ {First(s)} \in SUBSET S
                 /\ Cardinality(s \ {First(s)}) = Cardinality(s) - 1
                 /\ Cardinality(s) \in Nat
      BY <1>1, <3>3, FirstFacts, WireOK
    <3>4. g \in [SUBSET S -> Nat]
      BY <3>3 DEF Sum
    <3>5. ASSUME NEW s \in SUBSET S, Cardinality(s) <= m PROVE g[s] = Sum(g, s)
      <4>1. CASE s = {}
        BY <4>1 DEF Sum
      <4>2. CASE s # {}
        <5>1. g[s \ {First(s)}] = f[s \ {First(s)}]
          BY <3>1, <3>2, <3>3, <3>5, <4>2
        <5> QED BY <4>2, <5>1 DEF Sum
      <4> QED BY <4>1, <4>2
    <3> HIDE DEF g
    <3> QED BY <2>1, <3>4, <3>5
  <2> QED BY <2>2, <2>3
<1>3. Cardinality(S) \in Nat /\ \A s \in SUBSET S : Cardinality(s) <= Cardinality(S)
  BY FS_Subset, FS_CardinalityType
<1>4. PICK f \in [SUBSET S -> Nat] : Upto(f, Cardinality(S))
  BY <1>2, <1>3
<1>5. Sums(S, f)
  BY <1>3, <1>4 DEF Sums
<1> QED BY <1>5

\* Two such functions have the same values on the finite sets they share.
LEMMA SumsAgree ==
  ASSUME NEW S, NEW T, IsFiniteSet(S), NEW f, NEW g, Sums(S, f), Sums(T, g),
         NEW r \in SUBSET S, r \in SUBSET T
  PROVE  f[r] = g[r]
<1> DEFINE Differ == {s \in SUBSET r : f[s] # g[s]}
           Bad == {Cardinality(s) : s \in Differ}
<1> SUFFICES ASSUME f[r] # g[r] PROVE FALSE
  OBVIOUS
<1>1. \A s \in SUBSET r : IsFiniteSet(s) /\ Cardinality(s) \in Nat
  BY FS_Subset, FS_CardinalityType
<1>2. Bad \in SUBSET Nat /\ Bad # {}
  BY <1>1
<1>3. PICK m \in Bad : \A k \in Bad : m <= k
  BY <1>2, Least
<1>4. PICK s \in Differ : Cardinality(s) = m
  BY <1>3
<1>5. f[s] = Sum(f, s) /\ g[s] = Sum(g, s)
  BY <1>4 DEF Sums
<1>6. s # {}
  BY <1>4, <1>5 DEF Sum
<1> DEFINE t == s \ {First(s)}
<1>7. t \in SUBSET r /\ Cardinality(t) = m - 1 /\ m \in Nat
  BY <1>1, <1>4, <1>6, FirstFacts
<1>8. f[t] # g[t]
  BY <1>4, <1>5, <1>6 DEF Sum
<1>9. m - 1 \in Bad
  BY <1>7, <1>8
<1> HIDE DEF Bad
<1> QED BY <1>3, <1>7, <1>9

\* The recursion of TotalSize.
LEMMA TotalSizeRec ==
  ASSUME NEW S \in SUBSET Wire, IsFiniteSet(S)
  PROVE  /\ TotalSize(S) \in Nat
         /\ S = {} => TotalSize(S) = 0
         /\ S # {} => TotalSize(S) = First(S).size + TotalSize(S \ {First(S)})
<1> DEFINE F(R) == CHOOSE f : Sums(R, f)
<1>1. ASSUME NEW R \in SUBSET S PROVE Sums(R, F(R)) /\ F(R)[R] \in Nat /\ TotalSize(R) = F(R)[R]
  <2>1. R \in SUBSET Wire /\ IsFiniteSet(R)
    BY FS_Subset
  <2>2. PICK f \in [SUBSET R -> Nat] : Sums(R, f)
    BY <2>1, SumsExist
  <2>3. Sums(R, F(R))
    BY <2>2
  <2>4. F(R)[R] = f[R]
    BY <2>1, <2>2, <2>3, SumsAgree
  <2> QED BY <2>2, <2>3, <2>4, TotalSizeDef
<1> HIDE DEF F
<1>2. TotalSize(S) = Sum(F(S), S) /\ TotalSize(S) \in Nat
  BY <1>1 DEF Sums
<1>3. ASSUME S # {} PROVE F(S)[S \ {First(S)}] = TotalSize(S \ {First(S)})
  <2> DEFINE R == S \ {First(S)}
  <2>1. Sums(S, F(S)) /\ Sums(R, F(R)) /\ TotalSize(R) = F(R)[R]
    BY <1>1
  <2> HIDE DEF R
  <2>2. R \in SUBSET S
    BY DEF R
  <2>3. F(S)[R] = F(R)[R]
    BY <2>1, <2>2, SumsAgree
  <2> QED BY <2>1, <2>3 DEF R
<1> QED BY <1>2, <1>3 DEF Sum

\* Any element may be taken out first.
LEMMA TotalSizeRemove ==
  ASSUME NEW S \in SUBSET Wire, IsFiniteSet(S), NEW c \in S
  PROVE  TotalSize(S) = c.size + TotalSize(S \ {c})
<1> DEFINE Fails(n) == \E R \in SUBSET S : /\ Cardinality(R) = n
                         /\ \E d \in R : TotalSize(R) # d.size + TotalSize(R \ {d})
           Bad == {n \in Nat : Fails(n)}
<1> SUFFICES ASSUME TotalSize(S) # c.size + TotalSize(S \ {c}) PROVE FALSE
  OBVIOUS
<1>1. \A R \in SUBSET S : /\ IsFiniteSet(R) /\ Cardinality(R) \in Nat
                          /\ R \in SUBSET Wire /\ TotalSize(R) \in Nat
  BY FS_Subset, FS_CardinalityType, TotalSizeRec
<1>2. Cardinality(S) \in Bad
  BY <1>1
<1>3. PICK m \in Bad : \A k \in Bad : m <= k
  BY <1>2, Least
<1>4. PICK R \in SUBSET S : /\ Cardinality(R) = m
                            /\ \E d \in R : TotalSize(R) # d.size + TotalSize(R \ {d})
  BY <1>3
<1>5. PICK d \in R : TotalSize(R) # d.size + TotalSize(R \ {d})
  BY <1>4
<1>6. m \in Nat /\ m - 1 \notin Bad
  <2>1. m \in Nat
    BY <1>3
  <2> HIDE DEF Bad
  <2> QED BY <1>3, <2>1
<1> DEFINE e == First(R)
           Q == (R \ {e}) \ {d}
<1>7. e \in R /\ TotalSize(R) = e.size + TotalSize(R \ {e})
  BY <1>1, <1>5, TotalSizeRec, FirstFacts
<1>8. e # d
  BY <1>5, <1>7
<1>9. ASSUME NEW x \in R, NEW y \in R, x # y
      PROVE  TotalSize(R \ {x}) = y.size + TotalSize((R \ {x}) \ {y})
  <2>1. R \ {x} \in SUBSET S /\ Cardinality(R \ {x}) = m - 1 /\ y \in R \ {x}
    BY <1>1, <1>4, <1>9, FS_RemoveElement
  <2>2. m - 1 \in Nat
    BY <1>1, <2>1
  <2>3. ~Fails(m - 1)
    BY <1>6, <2>2
  <2> QED BY <2>1, <2>3
<1>10. TotalSize(R \ {e}) = d.size + TotalSize(Q)
  BY <1>7, <1>8, <1>9
<1>11. TotalSize(R \ {d}) = e.size + TotalSize(Q)
  <2>1. (R \ {d}) \ {e} = Q
    OBVIOUS
  <2> QED BY <1>7, <1>8, <1>9, <2>1
<1>12. /\ d.size \in Nat /\ e.size \in Nat /\ TotalSize(Q) \in Nat
       /\ TotalSize(R \ {e}) \in Nat /\ TotalSize(R \ {d}) \in Nat
  BY <1>1, <1>7, WireOK
<1> HIDE DEF e, Q
<1> QED BY <1>5, <1>7, <1>10, <1>11, <1>12

\* A chunk more.
LEMMA TotalSizeAdd ==
  ASSUME NEW S \in SUBSET Wire, IsFiniteSet(S), NEW c \in Wire, c \notin S
  PROVE  TotalSize(S \union {c}) = TotalSize(S) + c.size
<1>1. S \union {c} \in SUBSET Wire /\ IsFiniteSet(S \union {c}) /\ (S \union {c}) \ {c} = S
  BY FS_AddElement
<1>2. TotalSize(S \union {c}) = c.size + TotalSize(S)
  BY <1>1, TotalSizeRemove
<1>3. c.size \in Nat /\ TotalSize(S) \in Nat
  BY TotalSizeRec, WireOK
<1> QED BY <1>2, <1>3

\* totalSize counts what the assembler holds.
SizesAdd == \A s \in Streams : chunks[s].size = TotalSize(chunks[s].received)

\* An assembler's size is the size of its chunks, and is within the limit.
THEOREM SizesAreBounded == Spec => []SizeBounded
<1>1. TotalSize(NoAssembler.received) = NoAssembler.size
  <2>1. TotalSize({}) = 0
    BY TotalSizeRec, FS_EmptySet
  <2> QED BY <2>1 DEF NoAssembler
<1>2. Init => SizesAdd
  BY <1>1 DEF Init, SizesAdd
<1>3. ASSUME IndInv, SizesAdd, [Next]_vars PROVE SizesAdd'
  <2>1. ASSUME NEW c \in Wire, HandleChunk(c) PROVE SizesAdd'
    <3>1. chunks \in [Streams -> Assemblers]
      BY <1>3 DEF IndInv
    <3>2. CASE Ignored(c)
      BY <1>3, <3>2 DEF Ignored, SizesAdd
    <3>3. CASE Rejected(c) \/ Completed(c)
      <4>1. chunks' = [chunks EXCEPT ![c.stream] = NoAssembler]
        BY <3>3 DEF Rejected, Completed
      <4> QED BY <1>1, <1>3, <3>1, <4>1 DEF SizesAdd
    <3>4. CASE Stored(c) /\ c \in Acceptable(c.stream) /\ exitKey = "set"
      <4> DEFINE a == AssemblerFor(c)
                 b == Store(a, c)
      <4>1. chunks' = [chunks EXCEPT ![c.stream] = b] /\ c \in Own /\ ValidTotal(c)
        BY <3>4 DEF Stored, Acceptable
      <4>2. /\ IsFiniteSet(a.received) /\ a.received \subseteq Acceptable(c.stream)
            /\ b.received = a.received \union {c} /\ b.size = a.size + c.size
            /\ chunks[c.stream] = NoAssembler => a.received = {} /\ a.size = 0
            /\ chunks[c.stream] # NoAssembler => a = chunks[c.stream]
        BY <1>3, <3>4, <4>1, StoreFacts
      <4>3. c \notin a.received /\ a.received \in SUBSET Wire
        BY <3>4, <4>2 DEF Stored, Fits, Duplicate, Acceptable, Own
      <4>4. c.stream \in Streams
        BY WireOK
      <4>5. a.size = TotalSize(a.received)
        BY <1>1, <1>3, <4>2, <4>4 DEF SizesAdd, NoAssembler
      <4>6. b.size = TotalSize(b.received)
        BY <4>2, <4>3, <4>5, TotalSizeAdd
      <4> HIDE DEF b
      <4> QED BY <1>3, <3>1, <4>1, <4>6 DEF SizesAdd
    <3> QED BY <1>3, <2>1, <3>2, <3>3, <3>4, HandleCases
  <2>2. CASE Tick
    BY <1>3, <2>2, TickFacts DEF SizesAdd
  <2>3. CASE \/ \E c \in Wire : Lose(c) \/ TornRead(c)
             \/ \E s \in Streams : RecvData(s) \/ CloseStream(s)
             \/ WriteExitKey \/ Dispatch \/ Drop \/ UNCHANGED vars
    <3>1. UNCHANGED chunks
      BY <2>3 DEF Lose, TornRead, RecvData, CloseStream, WriteExitKey, Dispatch, Drop, vars
    <3> QED BY <1>3, <3>1 DEF SizesAdd
  <2> QED BY <1>3, <2>1, <2>2, <2>3 DEF Next, Quiescent, Crashed
<1>4. ASSUME IndInv, SizesAdd PROVE SizeBounded
  <2> SUFFICES ASSUME NEW s \in Streams
               PROVE  /\ chunks[s].size = TotalSize(chunks[s].received)
                      /\ chunks[s].size <= maxChunkTotalSize
    BY DEF SizeBounded, TotalSize
  <2>1. chunks[s].size = TotalSize(chunks[s].received)
    BY <1>4 DEF SizesAdd
  <2>2. chunks[s] = NoAssembler => chunks[s].size = 0
    BY DEF NoAssembler
  <2>3. chunks[s].size <= maxChunkTotalSize
    BY <1>4, <2>2, LimitsOK DEF IndInv, Held, Holds
  <2> QED BY <2>1, <2>3
<1> QED BY <1>2, <1>3, <1>4, IndInvHolds, PTL DEF Spec
=============================================================================
