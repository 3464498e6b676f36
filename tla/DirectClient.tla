---------------------------- MODULE DirectClient ----------------------------
(***************************************************************************)
(* The direct-mode backend (internal/direct/client.go): each request of    *)
(* ServeHTTP opens a stream, SendData starts a goroutine that fetches the  *)
(* site over RLDP (external), RecvData waits for its result, CloseStream   *)
(* cancels it, and Close waits for the goroutines.                         *)
(***************************************************************************)
EXTENDS Integers, Sequences, FiniteSets

CONSTANTS
  Requests,   \* the requests forwarded by this client
  IdSpace     \* stream ids are integers modulo IdSpace (2^32 in the code)

NoStream == "none"   \* what Load returns for an id that is not in the map

ASSUME IdSpaceOK  == IdSpace \in Nat /\ IdSpace > 1
ASSUME RequestsOK == NoStream \notin Requests

VARIABLES
  nextStream, wrapped,  \* DirectClient.nextStream; history: it wrapped around
  streams,      \* stream id -> stream object, named by the request it is for
  respChan,     \* contents of each stream object's channel, capacity 1
  cancelled,    \* stream objects whose context was cancelled
  workers,      \* processRequest goroutines: the request and its stream object
  requestWg,    \* counter of DirectClient.requestWg
  pc, sid,      \* request: program counter, stream id
  recvFrom,     \* request: the stream object RecvData waits on
  got,          \* request: what RecvData returned
  client        \* "open"; "waiting" in Close; "closed"

Ids      == 0..(IdSpace - 1)
Results  == [for: Requests, kind: {"response", "error"}]
PC == {"idle", "opened", "sent", "receiving", "closing", "done"}

streamVars == <<nextStream, wrapped, streams, sid>>
recvVars   == <<recvFrom, got>>
vars == <<streamVars, respChan, cancelled, workers, requestWg, pc, recvVars, client>>

Init ==
  /\ nextStream = 0 /\ wrapped = FALSE
  /\ streams = [i \in Ids |-> NoStream]
  /\ respChan = [r \in Requests |-> <<>>]
  /\ cancelled = {} /\ workers = {} /\ requestWg = 0
  /\ pc = [r \in Requests |-> "idle"] /\ sid = [r \in Requests |-> 0]
  /\ recvFrom = [r \in Requests |-> NoStream] /\ got = [r \in Requests |-> <<>>]
  /\ client = "open"

\* Mutant: every stream gets the id the counter had before.
OpenStreamSameId(r) ==
  /\ pc[r] = "idle"
  /\ sid' = [sid EXCEPT ![r] = 1]
  /\ streams' = [streams EXCEPT ![1] = r]
  /\ pc' = [pc EXCEPT ![r] = "opened"]
  /\ UNCHANGED <<nextStream, wrapped, respChan, cancelled, workers, requestWg>>
  /\ UNCHANGED <<recvVars, client>>

\* nextStreamID skips 0; the new stream replaces whatever had its id.  A
\* request accepted before the shutdown may come here after Close.
OpenStream(r) ==
  /\ pc[r] = "idle"
  /\ LET n  == (nextStream + 1) % IdSpace
         id == IF n = 0 THEN 1 ELSE n
     IN /\ nextStream' = id /\ wrapped' = (wrapped \/ n = 0)
        /\ sid' = [sid EXCEPT ![r] = id]
        /\ streams' = [streams EXCEPT ![id] = r]
  /\ pc' = [pc EXCEPT ![r] = "opened"]
  /\ UNCHANGED <<respChan, cancelled, workers, requestWg, recvVars, client>>

\* Mutant: Add is left to the goroutine, which has not run yet.
SendDataLateAdd(r) ==
  /\ pc[r] = "opened"
  /\ LET s == streams[sid[r]] IN
       IF s = NoStream
         THEN /\ pc' = [pc EXCEPT ![r] = "closing"]
              /\ UNCHANGED <<workers, requestWg>>
         ELSE /\ workers' = workers \union {[by |-> r, on |-> s]}
              /\ pc' = [pc EXCEPT ![r] = "sent"]
              /\ UNCHANGED requestWg
  /\ UNCHANGED <<streamVars, respChan, cancelled, recvVars, client>>

\* SendData: Add, then the goroutine; an unknown stream is an error.
SendData(r) ==
  /\ pc[r] = "opened"
  /\ LET s == streams[sid[r]] IN
       IF s = NoStream
         THEN /\ pc' = [pc EXCEPT ![r] = "closing"]
              /\ UNCHANGED <<workers, requestWg>>
         ELSE /\ workers' = workers \union {[by |-> r, on |-> s]}
              /\ requestWg' = requestWg + 1
              /\ pc' = [pc EXCEPT ![r] = "sent"]
  /\ UNCHANGED <<streamVars, respChan, cancelled, recvVars, client>>

\* Mutant: processRequest returns from its error path without Done.
WorkerEndsNoDone(w) ==
  /\ w \in workers
  /\ workers' = workers \ {w}
  /\ \E k \in {"response", "error"} :
       /\ respChan' = IF respChan[w.on] = <<>>
            THEN [respChan EXCEPT ![w.on] = <<[for |-> w.by, kind |-> k]>>]
            ELSE respChan
       /\ requestWg' = IF k = "error" THEN requestWg ELSE requestWg - 1
  /\ UNCHANGED <<streamVars, cancelled, pc, recvVars, client>>

\* processRequest ends with the site's response or, through sendError, with
\* an error; it never waits for room in the channel.
WorkerEnds(w) ==
  /\ w \in workers
  /\ workers' = workers \ {w} /\ requestWg' = requestWg - 1
  /\ \E k \in {"response", "error"} :
       respChan' = IF respChan[w.on] = <<>>
         THEN [respChan EXCEPT ![w.on] = <<[for |-> w.by, kind |-> k]>>]
         ELSE respChan
  /\ UNCHANGED <<streamVars, cancelled, pc, recvVars, client>>

\* RecvData's Load; a stream that is not found is an error.
RecvLoad(r) ==
  /\ pc[r] = "sent"
  /\ recvFrom' = [recvFrom EXCEPT ![r] = streams[sid[r]]]
  /\ pc' = [pc EXCEPT ![r] = IF streams[sid[r]] = NoStream THEN "closing"
                                                          ELSE "receiving"]
  /\ UNCHANGED <<streamVars, respChan, cancelled, workers, requestWg, got, client>>

RecvReturns(r) ==
  /\ pc[r] = "receiving" /\ respChan[recvFrom[r]] # <<>>
  /\ got' = [got EXCEPT ![r] = respChan[recvFrom[r]]]
  /\ respChan' = [respChan EXCEPT ![recvFrom[r]] = <<>>]
  /\ pc' = [pc EXCEPT ![r] = "closing"]
  /\ UNCHANGED <<streamVars, cancelled, workers, requestWg, recvFrom, client>>

\* r.Write fails before SendData; RecvData's timer or its context.
Fails(r) ==
  /\ pc[r] \in {"opened", "receiving"}
  /\ pc' = [pc EXCEPT ![r] = "closing"]
  /\ UNCHANGED <<streamVars, respChan, cancelled, workers, requestWg, recvVars, client>>

\* Mutant: the stream is deleted but its request goes on.
CloseStreamNoCancel(r) ==
  /\ pc[r] = "closing"
  /\ streams' = [streams EXCEPT ![sid[r]] = NoStream]
  /\ pc' = [pc EXCEPT ![r] = "done"]
  /\ UNCHANGED <<nextStream, wrapped, sid, respChan, cancelled, workers, requestWg>>
  /\ UNCHANGED <<recvVars, client>>

\* LoadAndDelete, then cancel: ServeHTTP defers it.
CloseStream(r) ==
  /\ pc[r] = "closing"
  /\ cancelled' = cancelled \union ({streams[sid[r]]} \ {NoStream})
  /\ streams' = [streams EXCEPT ![sid[r]] = NoStream]
  /\ pc' = [pc EXCEPT ![r] = "done"]
  /\ UNCHANGED <<nextStream, wrapped, sid, respChan, workers, requestWg>>
  /\ UNCHANGED <<recvVars, client>>

\* shutdown() calls Close when the server has stopped, or did not stop in
\* time: requests may still be running.
CloseCalled ==
  /\ client = "open" /\ client' = "waiting"
  /\ UNCHANGED <<streamVars, respChan, cancelled, workers, requestWg, pc, recvVars>>

\* requestWg.Wait returns; the DHT client and the gateway are closed.
CloseReturns ==
  /\ client = "waiting" /\ requestWg = 0
  /\ client' = "closed"
  /\ UNCHANGED <<streamVars, respChan, cancelled, workers, requestWg, pc, recvVars>>

Quiescent ==
  /\ client = "closed" /\ \A r \in Requests : pc[r] \in {"idle", "done"}
  /\ workers = {} /\ UNCHANGED vars

Next ==
  \/ \E r \in Requests : \/ OpenStream(r) \/ SendData(r) \/ RecvLoad(r)
                         \/ RecvReturns(r) \/ Fails(r) \/ CloseStream(r)
  \/ \E w \in workers : WorkerEnds(w)
  \/ CloseCalled \/ CloseReturns \/ Quiescent

Spec == Init /\ [][Next]_vars

\* A fetch ends: its context is cancelled or its 60 s timeout expires.  Wait
\* returns when the counter is zero.
FairSpec ==
  /\ Spec
  /\ WF_vars(\E w \in workers : WorkerEnds(w)) /\ WF_vars(CloseReturns)

-----------------------------------------------------------------------------
(* Properties.                                                             *)

\* Every variable has its type; the WaitGroup counts the goroutines.
TypeOK ==
  /\ nextStream \in Ids /\ wrapped \in BOOLEAN
  /\ streams \in [Ids -> Requests \union {NoStream}]
  /\ recvFrom \in [Requests -> Requests \union {NoStream}]
  /\ respChan \in [Requests -> Seq(Results)] /\ got \in [Requests -> Seq(Results)]
  /\ cancelled \subseteq Requests /\ workers \subseteq [by: Requests, on: Requests]
  /\ requestWg = Cardinality(workers)
  /\ pc \in [Requests -> PC] /\ sid \in [Requests -> Ids]
  /\ client \in {"open", "waiting", "closed"}

\* What a request leaves behind is nothing: its stream is in the map exactly as
\* long as it runs, and a fetch that outlives it was cancelled, so that none
\* goes on for a browser that has gone (client.go:145-157, 337-350).
NothingLeft ==
  ~wrapped =>
    /\ \A w \in workers : pc[w.by] = "done" => w.on \in cancelled
    /\ \A r \in Requests :
         (\E i \in Ids : streams[i] = r) <=>
           pc[r] \in {"opened", "sent", "receiving", "closing"}

\* How far a request has come, in the terms of the interface.
Stage(r) ==
  CASE pc[r] = "idle" -> "new" [] pc[r] = "opened" -> "open"
    [] pc[r] \in {"sent", "receiving"} -> "sent" [] OTHER -> "over"

Contract == INSTANCE ProxyClient WITH
  stage <- [r \in Requests |-> Stage(r)],
  reply <- [r \in Requests |-> IF got[r] = <<>> THEN "none" ELSE got[r][1].for],
  exhausted <- wrapped

\* The direct client implements the interface ProxyClient too, also while and
\* after it is closed: a request gets the result of the fetch it started and
\* no other, until the stream counter wraps around (client.go:135-350).
ImplementsClient == Contract!Spec

\* Close returns, whatever the fetches do (client.go:353-354).
CloseTerminates == client = "waiting" ~> client = "closed"

\* "Close closes the client, waiting for in-flight requests to complete."
\* (client.go:352): no fetch is running at the moment Wait returns.  One that
\* is sent later, by a request that server.Shutdown gave up on, is not waited
\* for and runs on a closed gateway.
CloseWaits == [][CloseReturns => workers = {}]_vars
=============================================================================
