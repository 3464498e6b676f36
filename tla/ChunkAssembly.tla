--------------------------- MODULE ChunkAssembly ----------------------------
(***************************************************************************)
(* Reassembly of chunked responses: ClientCircuit.handleChunk, its map of  *)
(* assemblers and the mutex chunksMu, which the handler keeps while it     *)
(* sends the reassembled response into the stream's channel.               *)
(*                                                                         *)
(* A chunk is a record; the bytes it carries are abstracted to its place   *)
(* in the response, its size and the circuit whose exit encrypted it: one  *)
(* relay may be the entry of two circuits, with one peer whose handler the *)
(* younger circuit replaces, and stream ids start at 1 in each.  The       *)
(* network (external) may lose, delay, reorder or repeat chunks.           *)
(***************************************************************************)
EXTENDS Integers, Sequences, FiniteSets, FiniteSetsExt

CONSTANTS
  Streams,            \* stream ids
  Wire,               \* the chunks the relays send to the client
  Copies,             \* bound: deliveries of each chunk, a function on Wire
  maxChunkCount,      \* 1024
  maxChunkTotalSize,  \* 100 MB
  AssemblyTimeout     \* chunkAssemblyTimeout, 60 s

ASSUME LimitsOK == /\ Copies \in [Wire -> Nat \ {0}] /\ maxChunkCount \in Nat
                   /\ maxChunkTotalSize \in Nat /\ AssemblyTimeout \in Nat
ASSUME WireOK == \A c \in Wire : /\ c.stream \in Streams /\ c.index \in Int
                                 /\ c.total \in Int /\ c.size \in Nat
                                 /\ c.circuit \in {"this", "older"}

VARIABLES
  chunks,    \* ClientCircuit.chunks: stream id -> assembler or NoAssembler
  sending,   \* the chunksMu holder's sendWithTimeout, or NoSend
  open,      \* streams registered in ClientCircuit.pending
  chan,      \* contents of the channel of each stream, capacity 1
  read,      \* what RecvData has returned for each stream
  wire,      \* deliveries left of each chunk
  failed,    \* history: streams that lost a chunk, timed out or were dropped
  exitKey    \* SharedKeys[2]: unset, being written, set; or the process died

vars == <<chunks, sending, open, chan, read, wire, failed, exitKey>>

Assemblers  == [total: Int, received: SUBSET Wire, size: Nat,
                age: 0..(AssemblyTimeout + 1)]
NoAssembler == [total |-> 0, received |-> {}, size |-> 0, age |-> 0]
NoSend      == [stream |-> "none", body |-> <<>>]

\* The chunks of this circuit: the others are what is left of the responses
\* of an older circuit.
Own == {c \in Wire : c.circuit = "this"}

\* The chunks of S in the order of their indices, which are different.
ByIndex(S) == CHOOSE q \in [1..Cardinality(S) -> S] :
                \A i, j \in 1..Cardinality(S) : i < j => q[i].index < q[j].index

\* The response of a stream: its well-formed chunks in order.
Response(s) == ByIndex({c \in Own : c.stream = s /\ c.index \in 0..(c.total - 1)
                                       /\ c.total <= maxChunkCount})

Init ==
  /\ chunks = [s \in Streams |-> NoAssembler]
  /\ sending = NoSend
  /\ open = Streams
  /\ chan = [s \in Streams |-> <<>>] /\ read = [s \in Streams |-> <<>>]
  /\ wire = Copies
  /\ failed = {}
  /\ exitKey = "unset"

-----------------------------------------------------------------------------
(* NewClientCircuit registers the handler before the keys are agreed, and  *)
(* writes SharedKeys[2] without a lock.                                    *)

WriteExitKey ==
  /\ exitKey \in {"unset", "writing"}
  /\ exitKey' = IF exitKey = "unset" THEN "writing" ELSE "set"
  /\ UNCHANGED <<chunks, sending, open, chan, read, wire, failed>>

\* The checks of a chunk before it is decrypted.
ValidTotal(c) == c.total # 0 /\ c.total <= maxChunkCount

\* A handler reads the slice while it is written, and sees the new length
\* with the old pointer, nil: it dereferences nil.
TornRead(c) ==
  /\ wire[c] > 0 /\ c \notin Own /\ ValidTotal(c) /\ exitKey = "writing"
  /\ exitKey' = "crashed"
  /\ UNCHANGED <<chunks, sending, open, chan, read, wire, failed>>

-----------------------------------------------------------------------------
(* handleChunk.                                                            *)

\* The assembler of the chunk's stream, created if there is none.
AssemblerFor(c) ==
  IF chunks[c.stream] = NoAssembler
    THEN [NoAssembler EXCEPT !.total = c.total]
    ELSE chunks[c.stream]

\* decryptPayload: without a key it fails, and with the key of another
\* circuit the authentication does.
Decrypts(c) == exitKey = "set" /\ c \in Own

\* Mutant: the assembler is made before the chunk is decrypted.
UndecryptableLate(c) == [chunks EXCEPT ![c.stream] = AssemblerFor(c)]

\* What a chunk that does not decrypt leaves in the map.
Undecryptable(c) == chunks

Duplicate(a, c) == \E d \in a.received : d.index = c.index

\* Mutant: the chunk in hand is not counted.
TooLargeLate(a, c) == a.size > maxChunkTotalSize

TooLarge(a, c) == a.size + c.size > maxChunkTotalSize

Store(a, c) == [a EXCEPT !.received = @ \union {c}, !.size = @ + c.size]

\* Mutant: off by one in the number of chunks.
AllReceivedEarly(a) == Cardinality(a.received) >= a.total - 1

\* The chunk count has reached the total; no index of 0..total-1 is missing.
AllReceived(a) == /\ Cardinality(a.received) >= a.total
                  /\ \A i \in 0..(a.total - 1) : \E d \in a.received : d.index = i

Reassembled(a) == ByIndex({d \in a.received : d.index \in 0..(a.total - 1)})

\* Mutant: the assembler of a finished response stays in the map.
CleanupForgotten(a) == a

\* delete(c.chunks, chunk.StreamID) once the response is complete.
Cleanup(a) == NoAssembler

\* The TL parser accepts no empty buffer (a negative TotalChunks gives one).
Parses(body) == body # <<>>

\* One chunk, from the lock to the return or to the send.  An assembler with
\* all its chunks leaves the map before the response is dispatched.  The code
\* dispatches by the stream id inside the response (circuit.go:583), which
\* the exit relay, external, sets to that of the chunks.
HandleChunk(c) ==
  /\ wire[c] > 0 /\ sending = NoSend
  /\ exitKey = "set" \/ (c \notin Own /\ exitKey # "crashed")
  /\ wire' = [wire EXCEPT ![c] = @ - 1]
  /\ LET a == AssemblerFor(c)
         b == Store(a, c)
         Put(x) == chunks' = [chunks EXCEPT ![c.stream] = x]
         Accepted == ValidTotal(c) /\ Decrypts(c)
         InTime == Accepted /\ a.age <= AssemblyTimeout
     IN \/ ~ValidTotal(c) /\ UNCHANGED <<chunks, sending, failed>>
        \/ /\ ValidTotal(c) /\ ~Decrypts(c)
           /\ chunks' = Undecryptable(c) /\ UNCHANGED <<sending, failed>>
        \/ /\ Accepted /\ a.age > AssemblyTimeout
           /\ Put(NoAssembler) /\ failed' = failed \union {c.stream}
           /\ UNCHANGED sending
        \/ /\ InTime /\ Duplicate(a, c)
           /\ Put(a) /\ UNCHANGED <<sending, failed>>
        \/ /\ InTime /\ ~Duplicate(a, c) /\ TooLarge(a, c)
           /\ Put(NoAssembler) /\ failed' = failed \union {c.stream}
           /\ UNCHANGED sending
        \/ /\ InTime /\ ~Duplicate(a, c) /\ ~TooLarge(a, c) /\ ~AllReceived(b)
           /\ Put(b) /\ UNCHANGED <<sending, failed>>
        \/ /\ InTime /\ ~Duplicate(a, c) /\ ~TooLarge(a, c) /\ AllReceived(b)
           /\ Put(Cleanup(b))
           /\ sending' = IF c.stream \in open /\ Parses(Reassembled(b))
                           THEN [stream |-> c.stream, body |-> Reassembled(b)]
                           ELSE NoSend
           /\ UNCHANGED failed
  /\ UNCHANGED <<open, chan, read, exitKey>>

\* sendWithTimeout: there is room in the channel; then the deferred Unlock.
Dispatch ==
  /\ sending # NoSend /\ chan[sending.stream] = <<>>
  /\ chan' = [chan EXCEPT ![sending.stream] = Append(@, sending.body)]
  /\ sending' = NoSend
  /\ UNCHANGED <<chunks, open, read, wire, failed, exitKey>>

\* Mutant: a plain send, which waits for the reader for ever.
DropNever ==
  /\ sending # NoSend /\ chan[sending.stream] # <<>>
  /\ UNCHANGED vars

\* The channel stayed full for 5 s: the response is dropped.
Drop ==
  /\ sending # NoSend /\ chan[sending.stream] # <<>>
  /\ sending' = NoSend /\ failed' = failed \union {sending.stream}
  /\ UNCHANGED <<chunks, open, chan, read, wire, exitKey>>

-----------------------------------------------------------------------------
(* The stream's user, time and the network.                                *)

\* RecvData takes the response; ServeHTTP calls it once per stream.
RecvData(s) ==
  /\ s \in open /\ chan[s] # <<>> /\ read[s] = <<>>
  /\ read' = [read EXCEPT ![s] = chan[s]]
  /\ chan' = [chan EXCEPT ![s] = <<>>]
  /\ UNCHANGED <<chunks, sending, open, wire, failed, exitKey>>

\* After the response, or after a timeout of RecvData.
CloseStream(s) ==
  /\ s \in open /\ exitKey = "set"
  /\ open' = open \ {s}
  /\ UNCHANGED <<chunks, sending, chan, read, wire, failed, exitKey>>

Tick ==
  /\ \E s \in Streams : chunks[s] # NoAssembler
  /\ chunks' = [s \in Streams |->
       IF chunks[s] = NoAssembler \/ chunks[s].age > AssemblyTimeout
         THEN chunks[s] ELSE [chunks[s] EXCEPT !.age = @ + 1]]
  /\ UNCHANGED <<sending, open, chan, read, wire, failed, exitKey>>

\* External: the remaining deliveries of a chunk never happen.
Lose(c) ==
  /\ wire[c] > 0 /\ exitKey # "crashed"
  /\ wire' = [wire EXCEPT ![c] = 0]
  /\ failed' = IF c \in Own THEN failed \union {c.stream} ELSE failed
  /\ UNCHANGED <<chunks, sending, open, chan, read, exitKey>>

\* Nothing more arrives.
Quiescent == (\A c \in Wire : wire[c] = 0) /\ UNCHANGED vars

Crashed == exitKey = "crashed" /\ UNCHANGED vars

Next ==
  \/ \E c \in Wire : HandleChunk(c) \/ Lose(c) \/ TornRead(c)
  \/ \E s \in Streams : RecvData(s) \/ CloseStream(s)
  \/ WriteExitKey \/ Dispatch \/ Drop \/ Tick \/ Quiescent \/ Crashed

Spec == Init /\ [][Next]_vars

\* The build gets on, handlers that hold the lock do (the send has a timer),
\* a handler that waits for the lock gets it once it is free, and time passes;
\* streams close when they like.
FairSpec ==
  /\ Spec
  /\ WF_vars(\E c \in Wire : HandleChunk(c))
  /\ WF_vars(WriteExitKey)
  /\ WF_vars(Dispatch) /\ WF_vars(Drop) /\ WF_vars(Tick)

-----------------------------------------------------------------------------
(* What an exit relay that keeps the protocol sends (external).  Nothing   *)
(* in the model depends on it: it is what the theorems about whole         *)
(* responses ask of the wire, and the run's instance has it.               *)

\* The chunks of stream s that handleChunk accepts.
Acceptable(s) == {c \in Own : c.stream = s /\ ValidTotal(c)}

\* The chunks of stream s belong to one response of n chunks: they have its
\* total, or a negative one and no index of the response, and there is one
\* chunk for an index.  Chunks with other indices may be among them.
ResponseOf(s, n) ==
  /\ \A c \in Acceptable(s) : c.total = n \/ (c.total < 0 /\ c.index \notin 0..(n - 1))
  /\ \A c, d \in Acceptable(s) : c.index = d.index /\ c.index \in 0..(n - 1) => c = d
OneResponse == \A s \in Streams : \E n \in 0..maxChunkCount : ResponseOf(s, n)

\* The chunks that make up a response of n chunks on stream s.
Part(s, n) == {c \in Acceptable(s) : c.index \in 0..(n - 1)}

\* The stream carries the whole response, each chunk of it once, and besides
\* only chunks with a negative total.
Entire(s, n) ==
  /\ \A c \in Own : c.stream = s => Copies[c] = 1
  /\ ResponseOf(s, n)
  /\ \A c \in Acceptable(s) : c.total = n => c \in Part(s, n)
  /\ \A i \in 0..(n - 1) : \E c \in Part(s, n) : c.index = i
EntireResponses ==
  \A s \in Streams :
    (\A c \in Own : c.stream = s => Copies[c] = 1) => \E n \in 0..maxChunkCount : Entire(s, n)

-----------------------------------------------------------------------------
(* Properties.                                                             *)

\* Every variable has its type: the assemblers, the lock holder's send, the
\* channels and the chunks under way.
TypeOK ==
  /\ chunks \in [Streams -> Assemblers]
  /\ sending = NoSend \/ sending.stream \in Streams
  /\ open \subseteq Streams /\ failed \subseteq Streams
  /\ \A s \in Streams : Len(chan[s]) <= 1 /\ Len(read[s]) <= 1
  /\ \A c \in Wire : wire[c] \in 0..Copies[c]
  /\ exitKey \in {"unset", "writing", "set", "crashed"}

\* What RecvData returns of a chunked response is the whole response, with
\* its chunks in order, each once (circuit.go:528-561).
Intact ==
  \A s \in Streams : \A i \in 1..Len(read[s]) : read[s][i] = Response(s)

\* An assembler's totalSize is the size of what it holds, and never exceeds
\* the limit (circuit.go:533-541).
SizeBounded ==
  \A s \in Streams :
    /\ chunks[s].size = MapThenSumSet(LAMBDA c : c.size, chunks[s].received)
    /\ chunks[s].size <= maxChunkTotalSize

\* No assembler outlives its response: when every chunk of a stream has been
\* delivered just once and none is left, the stream has no assembler, whatever
\* invalid chunks came in between (circuit.go:492-500, 563-564).
NoLeftover ==
  \A s \in Streams :
    /\ s \notin failed
    /\ \A c \in Own : c.stream = s => Copies[c] = 1 /\ wire[c] = 0
    => chunks[s] = NoAssembler

\* A chunk of an older circuit through the same entry relay, with a stream id
\* that this circuit uses too, and a chunk that comes before the exit key is
\* known leave no trace: whatever assembler there is was made by, and holds,
\* chunks of this circuit, with their total (circuit.go:97-129, 502-520).
OwnChunksOnly ==
  \A s \in Streams : chunks[s] # NoAssembler =>
    /\ exitKey = "set" /\ chunks[s].received \subseteq Own
    /\ \E c \in Own : c.stream = s /\ c.total = chunks[s].total

\* A response that loses no chunk, does not time out and is not dropped
\* reaches its stream, unless the stream is closed: handlers of other streams
\* that keep chunksMu while they wait for a reader do not lock it out for
\* ever (circuit.go:508-509, 572-579), nor do chunks of another circuit.  The
\* race on the exit key may end the process before.
EventuallyDelivered ==
  \A s \in Streams :
    <>(read[s] # <<>> \/ chan[s] # <<>> \/ s \notin open \/ s \in failed
       \/ exitKey = "crashed")

\* "Enforce reassembly timeout" (circuit.go:522): an assembler older than
\* chunkAssemblyTimeout is removed.
TimeoutEnforced ==
  \A s \in Streams :
    chunks[s].age > AssemblyTimeout ~> chunks[s] = NoAssembler
=============================================================================
