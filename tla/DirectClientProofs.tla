------------------------- MODULE DirectClientProofs -------------------------
(***************************************************************************)
(* Proofs about DirectClient for every set of requests and every size of   *)
(* the stream id space.                                                    *)
(***************************************************************************)
EXTENDS DirectClient, FiniteSetTheorems, TLAPS

-----------------------------------------------------------------------------
(* The inductive invariant.                                                *)

Running == {"opened", "sent", "receiving", "closing"}

\* A request starts one goroutine, after SendData has found its stream: the
\* goroutines are as many as the calls of Add.
WorkersSent == /\ IsFiniteSet(workers)
               /\ \A w \in workers : pc[w.by] \notin {"idle", "opened"}

\* RecvData waits on a stream object that it found.
RecvFound == \A r \in Requests : pc[r] = "receiving" => recvFrom[r] \in Requests

\* The map holds exactly the streams of the running requests, each under the
\* id it was given; ids above nextStream are fresh.
MapExact ==
  /\ \A r \in Requests : pc[r] # "idle" => sid[r] <= nextStream
  /\ \A i \in Ids : \A r \in Requests :
       streams[i] = r <=> pc[r] \in Running /\ sid[r] = i

\* A goroutine works for the request that started it, which is not done
\* unless its stream was cancelled; what is in a channel, or is waited for
\* on it, belongs to the request of the channel.
NoCrossTalk ==
  /\ \A w \in workers : /\ w.on = w.by
                        /\ pc[w.by] = "done" => w.on \in cancelled
  /\ \A r \in Requests : pc[r] = "receiving" => recvFrom[r] = r
  /\ \A r \in Requests : respChan[r] # <<>> => respChan[r][1].for = r

IndInv == /\ TypeOK /\ WorkersSent /\ RecvFound
          /\ ~wrapped => MapExact /\ NoCrossTalk

-----------------------------------------------------------------------------
(* Lemmas.                                                                 *)

\* The counter's increment modulo the id space: it skips nothing until it
\* comes around.
LEMMA IncrementMod ==
  ASSUME NEW a \in Ids
  PROVE  (a + 1) % IdSpace = IF a + 1 = IdSpace THEN 0 ELSE a + 1
<1>1. a \in Nat /\ a < IdSpace /\ IdSpace \in Nat /\ IdSpace > 1
  BY IdSpaceOK DEF Ids
<1>2. CASE a + 1 = IdSpace
  BY <1>1, <1>2
<1>3. CASE a + 1 < IdSpace
  BY <1>1, <1>3
<1> QED BY <1>1, <1>2, <1>3

\* A stream id is never 0 and lies in the id space.
LEMMA NewId ==
  ASSUME NEW r \in Requests, TypeOK, OpenStream(r)
  PROVE  /\ nextStream' \in Ids /\ nextStream' # 0
         /\ wrapped' \in BOOLEAN
         /\ ~wrapped' => ~wrapped /\ nextStream' = nextStream + 1
<1>1. nextStream \in Ids /\ nextStream \in Nat
  BY DEF TypeOK, Ids
<1>2. DEFINE n == (nextStream + 1) % IdSpace
<1>3. n = IF nextStream + 1 = IdSpace THEN 0 ELSE nextStream + 1
  BY <1>1, IncrementMod
<1>4. n \in Ids /\ 1 \in Ids
  BY <1>1, <1>3, IdSpaceOK DEF Ids
<1>5. nextStream' = IF n = 0 THEN 1 ELSE n
  BY DEF OpenStream
<1>6. wrapped' = (wrapped \/ n = 0)
  BY DEF OpenStream
<1>7. wrapped' \in BOOLEAN
  BY <1>6, Zenon DEF TypeOK
<1>8. ~wrapped' => ~wrapped /\ n # 0
  BY <1>6, Zenon
<1> HIDE DEF n
<1> QED BY <1>1, <1>3, <1>4, <1>5, <1>7, <1>8

-----------------------------------------------------------------------------
(* IndInv is inductive.                                                    *)

\* At the start no id is given, no goroutine runs and no channel is full.
LEMMA InitIndInv == Init => IndInv
<1> SUFFICES ASSUME Init PROVE IndInv
  OBVIOUS
<1>1. IsFiniteSet(workers) /\ Cardinality(workers) = 0
  BY FS_EmptySet DEF Init
<1>2. wrapped \in BOOLEAN
  BY Zenon DEF Init
<1>3. TypeOK
  BY <1>1, <1>2, IdSpaceOK DEF Init, TypeOK, Ids, PC, Results
<1>4. WorkersSent /\ RecvFound /\ MapExact /\ NoCrossTalk
  BY <1>1, RequestsOK DEF Init, WorkersSent, RecvFound, MapExact, NoCrossTalk, Running
<1> QED BY <1>3, <1>4 DEF IndInv

\* OpenStream takes a fresh id, which is no other stream's, until the counter
\* comes around.
LEMMA OpenStreamIndInv ==
  ASSUME IndInv, NEW r \in Requests, OpenStream(r)
  PROVE  IndInv'
<1> USE DEF IndInv
<1>1. TypeOK'
  BY NewId DEF OpenStream, TypeOK, recvVars, PC
<1>2. WorkersSent' /\ RecvFound'
  BY DEF OpenStream, WorkersSent, RecvFound, TypeOK, recvVars, PC
<1>3. ASSUME ~wrapped' PROVE MapExact' /\ NoCrossTalk'
  <2>1. ~wrapped /\ nextStream' = nextStream + 1
    BY <1>3, NewId, Zenon
  <2>2. nextStream \in Nat /\ MapExact /\ NoCrossTalk
    BY <2>1 DEF TypeOK, Ids
  <2>3. /\ sid' = [sid EXCEPT ![r] = nextStream'] /\ pc[r] = "idle"
        /\ streams' = [streams EXCEPT ![nextStream'] = r]
        /\ pc' = [pc EXCEPT ![r] = "opened"]
    BY DEF OpenStream
  <2>4. nextStream' \in Ids
    BY NewId
  <2>5. \A q \in Requests : pc'[q] # "idle" => sid'[q] <= nextStream'
    BY <2>1, <2>2, <2>3 DEF MapExact, TypeOK, Ids
  <2>6. ASSUME NEW i \in Ids, NEW q \in Requests
        PROVE  streams'[i] = q <=> pc'[q] \in Running /\ sid'[q] = i
    <3>1. streams[i] = q <=> pc[q] \in Running /\ sid[q] = i
      BY <2>2 DEF MapExact
    <3>2. CASE q = r
      BY <2>3, <2>4, <3>1, <3>2 DEF TypeOK, Running
    <3>3. CASE q # r /\ i = nextStream'
      <4>1. ~(pc[q] \in Running /\ sid[q] = i)
        <5>1. sid[q] \in Nat /\ (pc[q] \in Running => sid[q] <= nextStream)
          BY <2>2 DEF MapExact, TypeOK, Ids, Running
        <5> QED BY <2>1, <2>2, <3>3, <5>1
      <4> QED BY <2>3, <2>4, <3>3, <4>1 DEF TypeOK
    <3>4. CASE q # r /\ i # nextStream'
      BY <2>3, <2>4, <3>1, <3>4 DEF TypeOK
    <3> QED BY <3>2, <3>3, <3>4
  <2>7. NoCrossTalk'
    BY <2>2, <2>3 DEF OpenStream, NoCrossTalk, TypeOK, recvVars
  <2> QED BY <2>5, <2>6, <2>7 DEF MapExact
<1> QED BY <1>1, <1>2, <1>3

\* SendData finds the stream of its own request, and adds the first goroutine
\* of the request.
LEMMA SendDataIndInv ==
  ASSUME IndInv, NEW r \in Requests, SendData(r)
  PROVE  IndInv'
<1> USE DEF IndInv
<1> DEFINE s == streams[sid[r]]
           w == [by |-> r, on |-> s]
<1>1. pc[r] = "opened" /\ sid[r] \in Ids /\ s \in Requests \union {NoStream}
  BY DEF SendData, TypeOK
<1>2. w \notin workers
  BY <1>1 DEF WorkersSent
<1>3. /\ IsFiniteSet(workers') /\ requestWg' = Cardinality(workers')
      /\ workers' \subseteq [by: Requests, on: Requests]
      /\ \A v \in workers' : v \in workers \/ (v = w /\ pc'[r] = "sent" /\ s # NoStream)
  <2>1. CASE s = NoStream
    BY <2>1 DEF SendData, TypeOK, WorkersSent
  <2>2. CASE s # NoStream
    <3>1. workers' = workers \union {w} /\ requestWg' = requestWg + 1 /\ pc'[r] = "sent"
      BY <2>2 DEF SendData, TypeOK
    <3>2. Cardinality(workers \union {w}) = Cardinality(workers) + 1
      BY <1>2, FS_AddElement DEF WorkersSent
    <3>3. IsFiniteSet(workers \union {w})
      BY FS_AddElement DEF WorkersSent
    <3>4. w \in [by: Requests, on: Requests]
      BY <1>1, <2>2
    <3> QED BY <2>2, <3>1, <3>2, <3>3, <3>4 DEF TypeOK
  <2> QED BY <2>1, <2>2
<1>4. /\ UNCHANGED <<streamVars, respChan, cancelled, recvVars, client>>
      /\ \/ pc' = [pc EXCEPT ![r] = "closing"]
         \/ pc' = [pc EXCEPT ![r] = "sent"]
  BY DEF SendData
<1>5. TypeOK'
  BY <1>3, <1>4 DEF TypeOK, streamVars, recvVars, PC
<1>6. WorkersSent' /\ RecvFound'
  <2>1. ASSUME NEW v \in workers' PROVE pc'[v.by] \notin {"idle", "opened"}
    <3>1. CASE v \in workers
      BY <1>1, <1>4, <3>1 DEF WorkersSent, TypeOK
    <3>2. CASE v = w /\ pc'[r] = "sent"
      BY <3>2
    <3> QED BY <1>3, <3>1, <3>2
  <2>2. RecvFound'
    BY <1>4 DEF RecvFound, TypeOK, recvVars
  <2> QED BY <1>3, <2>1, <2>2 DEF WorkersSent
<1>7. ASSUME ~wrapped' PROVE MapExact' /\ NoCrossTalk'
  <2>1. MapExact /\ NoCrossTalk
    BY <1>4, <1>7 DEF streamVars
  <2>2. MapExact'
    BY <1>1, <1>4, <2>1 DEF MapExact, TypeOK, streamVars, Running
  <2>3. s = r
    BY <1>1, <2>1 DEF MapExact, Running
  <2>4. ASSUME NEW v \in workers'
        PROVE  v.on = v.by /\ (pc'[v.by] = "done" => v.on \in cancelled')
    BY <1>1, <1>3, <1>4, <2>1, <2>3 DEF NoCrossTalk, TypeOK
  <2>5. NoCrossTalk'
    BY <1>4, <2>1, <2>4 DEF NoCrossTalk, TypeOK, recvVars
  <2> QED BY <2>2, <2>5
<1> QED BY <1>5, <1>6, <1>7

\* A goroutine that ends leaves its result in the channel of its own request,
\* or drops it, and counts itself out.
LEMMA WorkerEndsIndInv ==
  ASSUME IndInv, NEW w \in workers, WorkerEnds(w)
  PROVE  IndInv'
<1> USE DEF IndInv
<1>1. /\ workers' = workers \ {w} /\ requestWg' = requestWg - 1
      /\ UNCHANGED <<streamVars, cancelled, pc, recvVars, client>>
      /\ w.on \in Requests /\ w.by \in Requests
  BY DEF WorkerEnds, TypeOK
<1>2. PICK k \in {"response", "error"} :
        respChan' = IF respChan[w.on] = <<>>
          THEN [respChan EXCEPT ![w.on] = <<[for |-> w.by, kind |-> k]>>]
          ELSE respChan
  BY DEF WorkerEnds
<1>3. IsFiniteSet(workers') /\ Cardinality(workers') = Cardinality(workers) - 1
  BY <1>1, FS_RemoveElement DEF WorkersSent
<1>4. respChan' \in [Requests -> Seq(Results)]
  <2>1. <<[for |-> w.by, kind |-> k]>> \in Seq(Results)
    BY <1>1 DEF Results
  <2> QED BY <1>1, <1>2, <2>1 DEF TypeOK
<1>5. TypeOK'
  BY <1>1, <1>3, <1>4 DEF TypeOK, streamVars, recvVars
<1>6. WorkersSent' /\ RecvFound'
  BY <1>1, <1>3 DEF WorkersSent, RecvFound, recvVars
<1>7. ASSUME ~wrapped' PROVE MapExact' /\ NoCrossTalk'
  <2>1. MapExact /\ NoCrossTalk
    BY <1>1, <1>7 DEF streamVars
  <2>2. MapExact'
    BY <1>1, <2>1 DEF MapExact, streamVars
  <2>3. ASSUME NEW r \in Requests, respChan'[r] # <<>>
        PROVE  respChan'[r][1].for = r
    BY <1>1, <1>2, <2>1, <2>3 DEF NoCrossTalk, TypeOK
  <2>4. NoCrossTalk'
    BY <1>1, <2>1, <2>3 DEF NoCrossTalk, recvVars
  <2> QED BY <2>2, <2>4
<1> QED BY <1>5, <1>6, <1>7

\* RecvData loads the stream of its own request.
LEMMA RecvLoadIndInv ==
  ASSUME IndInv, NEW r \in Requests, RecvLoad(r)
  PROVE  IndInv'
<1> USE DEF IndInv
<1>1. streams[sid[r]] \in Requests \union {NoStream} /\ sid[r] \in Ids
  BY DEF TypeOK
<1>2. TypeOK'
  BY <1>1 DEF RecvLoad, TypeOK, streamVars, PC
<1>3. WorkersSent' /\ RecvFound'
  BY <1>1 DEF RecvLoad, WorkersSent, RecvFound, TypeOK
<1>4. ASSUME ~wrapped' PROVE MapExact' /\ NoCrossTalk'
  <2>1. MapExact /\ NoCrossTalk
    BY <1>4 DEF RecvLoad, streamVars
  <2>2. streams[sid[r]] = r
    BY <1>1, <2>1 DEF RecvLoad, MapExact, Running
  <2>3. MapExact'
    BY <2>1, <2>2 DEF RecvLoad, MapExact, TypeOK, streamVars, Running
  <2>4. NoCrossTalk'
    BY <2>1, <2>2 DEF RecvLoad, NoCrossTalk, TypeOK
  <2> QED BY <2>3, <2>4
<1> QED BY <1>2, <1>3, <1>4

\* CloseStream cancels the stream of its own request, and no other one, as it
\* removes it.
LEMMA CloseStreamIndInv ==
  ASSUME IndInv, NEW r \in Requests, CloseStream(r)
  PROVE  IndInv'
<1> USE DEF IndInv
<1>1. streams[sid[r]] \in Requests \union {NoStream} /\ sid[r] \in Ids
  BY DEF TypeOK
<1>2. TypeOK'
  BY <1>1 DEF CloseStream, TypeOK, recvVars, PC
<1>3. WorkersSent' /\ RecvFound'
  BY <1>1 DEF CloseStream, WorkersSent, RecvFound, TypeOK, recvVars
<1>4. ASSUME ~wrapped' PROVE MapExact' /\ NoCrossTalk'
  <2>1. MapExact /\ NoCrossTalk
    BY <1>4 DEF CloseStream
  <2>2. streams[sid[r]] = r
    BY <1>1, <2>1 DEF CloseStream, MapExact, Running
  <2>3. \A q \in Requests : pc'[q] # "idle" => sid'[q] <= nextStream'
    BY <2>1 DEF CloseStream, MapExact, TypeOK
  <2>4. ASSUME NEW i \in Ids, NEW q \in Requests
        PROVE  streams'[i] = q <=> pc'[q] \in Running /\ sid'[q] = i
    <3>1. streams[i] = q <=> pc[q] \in Running /\ sid[q] = i
      BY <2>1 DEF MapExact
    <3> QED BY <1>1, <2>2, <3>1, RequestsOK DEF CloseStream, TypeOK, Running
  <2>5. NoCrossTalk'
    BY <2>1, <2>2, RequestsOK DEF CloseStream, NoCrossTalk, TypeOK, recvVars
  <2> QED BY <2>3, <2>4, <2>5 DEF MapExact
<1> QED BY <1>2, <1>3, <1>4

\* Every step preserves the invariant.
LEMMA NextIndInv == IndInv /\ [Next]_vars => IndInv'
<1> SUFFICES ASSUME IndInv, [Next]_vars PROVE IndInv'
  OBVIOUS
<1> USE DEF IndInv
<1>1. ASSUME NEW r \in Requests, RecvReturns(r) PROVE IndInv'
  <2>1. recvFrom[r] \in Requests
    BY <1>1 DEF RecvReturns, RecvFound
  <2>2. TypeOK'
    BY <1>1, <2>1 DEF RecvReturns, TypeOK, streamVars, PC
  <2>3. WorkersSent' /\ RecvFound'
    BY <1>1 DEF RecvReturns, WorkersSent, RecvFound, TypeOK
  <2>4. ~wrapped' => MapExact' /\ NoCrossTalk'
    BY <1>1, <2>1 DEF RecvReturns, MapExact, NoCrossTalk, TypeOK, streamVars, Running
  <2> QED BY <2>2, <2>3, <2>4
<1>2. ASSUME NEW r \in Requests, Fails(r) PROVE IndInv'
  <2>1. TypeOK'
    BY <1>2 DEF Fails, TypeOK, streamVars, recvVars, PC
  <2>2. WorkersSent' /\ RecvFound'
    BY <1>2 DEF Fails, WorkersSent, RecvFound, TypeOK, recvVars
  <2>3. ~wrapped' => MapExact' /\ NoCrossTalk'
    BY <1>2 DEF Fails, MapExact, NoCrossTalk, TypeOK, streamVars, recvVars, Running
  <2> QED BY <2>1, <2>2, <2>3
<1>3. CASE CloseCalled \/ CloseReturns
  BY <1>3 DEF CloseCalled, CloseReturns, TypeOK, WorkersSent, RecvFound,
              MapExact, NoCrossTalk, streamVars, recvVars
<1>4. CASE UNCHANGED vars
  BY <1>4 DEF vars, TypeOK, WorkersSent, RecvFound, MapExact, NoCrossTalk,
              streamVars, recvVars
<1> QED BY <1>1, <1>2, <1>3, <1>4, OpenStreamIndInv, SendDataIndInv,
           WorkerEndsIndInv, RecvLoadIndInv, CloseStreamIndInv
        DEF Next, Quiescent

\* The invariant that all the results below rest on.
LEMMA IndInvHolds == Spec => []IndInv
BY InitIndInv, NextIndInv, PTL DEF Spec

-----------------------------------------------------------------------------
(* The results.                                                            *)

\* The types hold, and the WaitGroup counts the goroutines, also after the
\* stream ids have come around (client.go:160-182).
THEOREM TypeCorrect == Spec => []TypeOK
BY IndInvHolds, PTL DEF IndInv

\* A request leaves no stream in the map and no fetch that was not cancelled
\* (client.go:145-157, 337-350).
THEOREM LeavesNothing == Spec => []NothingLeft
<1>1. IndInv => NothingLeft
  BY DEF IndInv, TypeOK, MapExact, NoCrossTalk, NothingLeft, Running
<1> QED BY <1>1, IndInvHolds, PTL

\* At the moment Wait returns in Close no fetch is running (client.go:352-354).
THEOREM CloseWaitsForFetches == Spec => CloseWaits
<1>1. IndInv /\ [Next]_vars => [CloseReturns => workers = {}]_vars
  <2> SUFFICES ASSUME IndInv, CloseReturns PROVE workers = {}
    OBVIOUS
  <2> QED BY FS_EmptySet DEF IndInv, TypeOK, WorkersSent, CloseReturns
<1> QED BY <1>1, IndInvHolds, PTL DEF Spec, CloseWaits

-----------------------------------------------------------------------------
(* The refinement of ProxyClient.                                          *)

Stages  == [r \in Requests |-> Stage(r)]
Replies == [r \in Requests |-> IF got[r] = <<>> THEN "none" ELSE got[r][1].for]

\* The stage that a value of the program counter stands for.
StageAt(p) ==
  CASE p = "idle" -> "new" [] p = "opened" -> "open"
    [] p \in {"sent", "receiving"} -> "sent" [] OTHER -> "over"

\* A request that moves on changes its own stage only.
LEMMA StageMoves ==
  ASSUME TypeOK, NEW r \in Requests, NEW p \in PC, pc' = [pc EXCEPT ![r] = p]
  PROVE  /\ Stages[r] = StageAt(pc[r])
         /\ Stages' = [Stages EXCEPT ![r] = StageAt(p)]
<1>1. /\ Stages = [q \in Requests |-> StageAt(pc[q])]
      /\ Stages' = [q \in Requests |-> StageAt(pc'[q])]
  BY DEF Stages, Stage, StageAt
<1>2. \A q \in Requests : pc'[q] = IF q = r THEN p ELSE pc[q]
  BY DEF TypeOK
<1> QED BY <1>1, <1>2

\* A step that keeps stages, replies and the wrap-around is a stutter.
LEMMA ContractStutters ==
  ASSUME Stages' = Stages, UNCHANGED <<got, wrapped>>
  PROVE  UNCHANGED Contract!vars
BY DEF Contract!vars, Stages

\* A request that gives up on its way is a failure in the contract.
LEMMA ContractFails ==
  ASSUME TypeOK, NEW r \in Requests, pc[r] \in {"idle", "opened", "sent", "receiving"},
         pc' = [pc EXCEPT ![r] = "closing"], UNCHANGED <<got, wrapped>>
  PROVE  Contract!Next
<1>1. Stages' = [Stages EXCEPT ![r] = "over"] /\ Stages[r] = StageAt(pc[r])
  <2>1. "closing" \in PC /\ StageAt("closing") = "over"
    BY DEF PC, StageAt
  <2> QED BY <2>1, StageMoves
<1>2. Stages[r] \in {"new", "open", "sent"}
  BY <1>1 DEF StageAt
<1>3. Contract!Fail(r)
  BY <1>1, <1>2 DEF Contract!Fail, Contract!Move, Stages
<1> QED BY <1>3 DEF Contract!Next

\* The initial states of the direct client are initial states of the contract.
LEMMA InitContract == Init => Contract!Init
BY DEF Init, Contract!Init, Contract!NoReply, Stage

\* Every step of the direct client is a step of the contract or a stutter.
LEMMA NextContract == IndInv /\ [Next]_vars => [Contract!Next]_(Contract!vars)
<1> SUFFICES ASSUME IndInv, [Next]_vars
             PROVE  Contract!Next \/ UNCHANGED Contract!vars
  OBVIOUS
<1> USE DEF IndInv
<1>1. ASSUME NEW r \in Requests, OpenStream(r) PROVE Contract!Next
  <2>1. Stages[r] = "new" /\ Stages' = [Stages EXCEPT ![r] = "open"]
    BY <1>1, StageMoves DEF OpenStream, PC, StageAt
  <2>2. wrapped' \in {wrapped, TRUE}
    <3>1. wrapped' = wrapped \/ wrapped' = TRUE
      BY <1>1, NewId, Zenon DEF TypeOK
    <3> QED BY <3>1
  <2>3. Contract!OpenStream(r)
    BY <1>1, <2>1, <2>2
    DEF Contract!OpenStream, Contract!Move, OpenStream, Stages, recvVars
  <2> QED BY <2>3 DEF Contract!Next
<1>2. ASSUME NEW r \in Requests, SendData(r) PROVE Contract!Next
  <2>1. CASE streams[sid[r]] = NoStream
    BY <1>2, <2>1, ContractFails DEF SendData, streamVars, recvVars
  <2>2. CASE streams[sid[r]] # NoStream
    <3>1. pc[r] = "opened" /\ pc' = [pc EXCEPT ![r] = "sent"]
      BY <1>2, <2>2 DEF SendData
    <3>2. Stages[r] = "open" /\ Stages' = [Stages EXCEPT ![r] = "sent"]
      BY <3>1, StageMoves DEF PC, StageAt
    <3>3. Contract!SendData(r)
      BY <1>2, <3>2
      DEF Contract!SendData, Contract!Move, SendData, Stages, streamVars, recvVars
    <3> QED BY <3>3 DEF Contract!Next
  <2> QED BY <2>1, <2>2
<1>3. ASSUME NEW r \in Requests, RecvLoad(r)
      PROVE  Contract!Next \/ UNCHANGED Contract!vars
  <2>1. CASE streams[sid[r]] = NoStream
    BY <1>3, <2>1, ContractFails DEF RecvLoad, streamVars
  <2>2. CASE streams[sid[r]] # NoStream
    <3>1. pc[r] = "sent" /\ pc' = [pc EXCEPT ![r] = "receiving"]
      BY <1>3, <2>2 DEF RecvLoad
    <3>2. Stages[r] = "sent" /\ Stages' = [Stages EXCEPT ![r] = "sent"]
      BY <3>1, StageMoves DEF PC, StageAt
    <3>3. Stages' = Stages
      BY <3>2 DEF Stages
    <3> QED BY <1>3, <3>3, ContractStutters DEF RecvLoad, streamVars
  <2> QED BY <2>1, <2>2
<1>4. ASSUME NEW r \in Requests, RecvReturns(r) PROVE Contract!Next
  <2> DEFINE m == respChan[recvFrom[r]]
  <2>1. Stages[r] = "sent" /\ Stages' = [Stages EXCEPT ![r] = "over"]
    <3>1. "closing" \in PC /\ StageAt("closing") = "over" /\ StageAt("receiving") = "sent"
      BY DEF PC, StageAt
    <3> QED BY <1>4, <3>1, StageMoves DEF RecvReturns
  <2>2. recvFrom[r] \in Requests /\ m # <<>> /\ m \in Seq(Results)
    BY <1>4 DEF RecvReturns, RecvFound, TypeOK
  <2>3. PICK q \in Requests : q = m[1].for
    <3> HIDE DEF m
    <3>1. m[1] \in Results
      BY <2>2
    <3> QED BY <3>1 DEF Results
  <2>4. q = r \/ wrapped
    BY <1>4, <2>2, <2>3 DEF RecvReturns, NoCrossTalk
  <2>5. Replies' = [Replies EXCEPT ![r] = q]
    <3>1. got' = [got EXCEPT ![r] = m]
      BY <1>4 DEF RecvReturns
    <3> HIDE DEF m
    <3> QED BY <2>2, <2>3, <3>1 DEF Replies, TypeOK
  <2>6. wrapped' = wrapped
    BY <1>4 DEF RecvReturns, streamVars
  <2>7. Contract!RecvData(r, q)
    BY <2>1, <2>4, <2>5, <2>6
    DEF Contract!RecvData, Contract!Move, Stages, Replies
  <2> QED BY <2>7 DEF Contract!Next
<1>5. ASSUME NEW r \in Requests, Fails(r) PROVE Contract!Next
  BY <1>5, ContractFails DEF Fails, streamVars, recvVars
<1>6. ASSUME NEW r \in Requests, CloseStream(r) PROVE UNCHANGED Contract!vars
  <2>1. Stages[r] = "over" /\ Stages' = [Stages EXCEPT ![r] = "over"]
    BY <1>6, StageMoves DEF CloseStream, PC, StageAt
  <2>2. Stages' = Stages
    BY <2>1 DEF Stages
  <2> QED BY <1>6, <2>2, ContractStutters DEF CloseStream, recvVars
<1>7. ASSUME pc' = pc, UNCHANGED <<got, wrapped>> PROVE UNCHANGED Contract!vars
  <2>1. Stages' = Stages
    BY <1>7 DEF Stages, Stage
  <2> QED BY <1>7, <2>1, ContractStutters
<1>8. ASSUME NEW w \in workers, WorkerEnds(w) PROVE UNCHANGED Contract!vars
  BY <1>7, <1>8 DEF WorkerEnds, streamVars, recvVars
<1>9. CASE CloseCalled \/ CloseReturns \/ UNCHANGED vars
  BY <1>7, <1>9 DEF CloseCalled, CloseReturns, vars, streamVars, recvVars
<1> QED BY <1>1, <1>2, <1>3, <1>4, <1>5, <1>6, <1>8, <1>9 DEF Next, Quiescent

\* The direct client implements the interface: a request gets the result of
\* the fetch it started and no other, until stream ids have come around.
THEOREM DirectImplementsClient == Spec => ImplementsClient
<1>1. Spec => []IndInv
  BY IndInvHolds
<1> QED BY <1>1, InitContract, NextContract, PTL
        DEF Spec, ImplementsClient, Contract!Spec
=============================================================================
