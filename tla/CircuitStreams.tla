--------------------------- MODULE CircuitStreams ---------------------------
(***************************************************************************)
(* Stream multiplexing of a built ClientCircuit (internal/client/          *)
(* circuit.go): the goroutines of ServeHTTP call OpenStream, SendData,     *)
(* RecvData and CloseStream while response handlers, one per message that  *)
(* arrives from the entry relay, look the stream up in c.pending and send  *)
(* into the channel they found.                                            *)
(*                                                                         *)
(* The exit relay and the ADNL network are external: an answer may be      *)
(* lost, delayed, reordered or delivered several times, up to MaxCopies.   *)
(* Payloads are abstracted to the request they answer and their kind.      *)
(***************************************************************************)
EXTENDS Integers, Sequences, FiniteSets

CONSTANTS
  Requests,    \* the requests forwarded through this circuit
  IdSpace,     \* stream ids are integers modulo IdSpace (2^32 in the code)
  MaxCopies,   \* bound: deliveries of one answer, for each request
  RecvCap      \* capacity of the channel RecvData makes (10 in the code)

ASSUME IdSpaceOK   == IdSpace \in Nat /\ IdSpace > 1
ASSUME MaxCopiesOK == MaxCopies \in [Requests -> Nat \ {0}]
ASSUME RecvCapOK   == RecvCap \in Nat \ {0}

VARIABLES
  nextStream,  \* ClientCircuit.nextStream
  wrapped,     \* history: nextStream has wrapped around
  pending,     \* ClientCircuit.pending: stream id -> channel
  buf,         \* contents of every channel
  pc, sid,     \* request: program counter, stream id
  rchan,       \* request: the channel RecvData waits on
  got,         \* request: the messages RecvData returned, none or one
  handlers,    \* response handlers inside sendWithTimeout
  relay,       \* exit relay: what it knows of each request
  net          \* messages on their way to the client

Ids      == 0..(IdSpace - 1)
Channels == [owner: Requests, madeBy: {"OpenStream", "RecvData"}]
NoChan   == [owner |-> "none", madeBy |-> "none"]
Messages == [owner: Requests, kind: {"connected", "refused", "data"},
             copy: Nat \ {0}]
Handlers == [msg: Messages, ch: Channels]
PC == {"idle", "register", "connect", "connecting", "sending", "load",
       "receiving", "closing", "done", "refused", "conflict"}
Relay == {"none", "connect", "refused", "connected", "request", "answered"}

OpenChan(r) == [owner |-> r, madeBy |-> "OpenStream"]
RecvChan(r) == [owner |-> r, madeBy |-> "RecvData"]
Cap(ch)     == IF ch.madeBy = "OpenStream" THEN 1 ELSE RecvCap

reqVars == <<nextStream, wrapped, pc, sid, rchan, got>>
vars    == <<reqVars, pending, buf, handlers, relay, net>>

Init ==
  /\ nextStream = 0 /\ wrapped = FALSE
  /\ pending = [i \in Ids |-> NoChan]
  /\ buf = [ch \in Channels |-> <<>>]
  /\ pc = [r \in Requests |-> "idle"] /\ sid = [r \in Requests |-> 0]
  /\ rchan = [r \in Requests |-> OpenChan(r)]
  /\ got = [r \in Requests |-> <<>>]
  /\ handlers = {} /\ net = {}
  /\ relay = [r \in Requests |-> "none"]

-----------------------------------------------------------------------------
(* OpenStream.                                                             *)

\* Mutant: after a wraparound the counter yields 0.
NextStreamIDZero(r) ==
  /\ pc[r] = "idle"
  /\ LET n == (nextStream + 1) % IdSpace
     IN /\ nextStream' = n
        /\ sid' = [sid EXCEPT ![r] = n]
        /\ wrapped' = (wrapped \/ n = 0)
  /\ pc' = [pc EXCEPT ![r] = "register"]
  /\ UNCHANGED <<rchan, got, pending, buf, handlers, relay, net>>

\* nextStreamID: atomic increment; 0, the control stream, is skipped.
NextStreamID(r) ==
  /\ pc[r] = "idle"
  /\ LET n == (nextStream + 1) % IdSpace
         id == IF n = 0 THEN 1 ELSE n
     IN /\ nextStream' = id
        /\ sid' = [sid EXCEPT ![r] = id]
        /\ wrapped' = (wrapped \/ n = 0)
  /\ pc' = [pc EXCEPT ![r] = "register"]
  /\ UNCHANGED <<rchan, got, pending, buf, handlers, relay, net>>

\* pending.LoadOrStore: an id that is still pending is an error.
Register(r) ==
  /\ pc[r] = "register"
  /\ IF pending[sid[r]] = NoChan
       THEN /\ pending' = [pending EXCEPT ![sid[r]] = OpenChan(r)]
            /\ pc' = [pc EXCEPT ![r] = "connect"]
       ELSE /\ pc' = [pc EXCEPT ![r] = "conflict"]
            /\ UNCHANGED pending
  /\ UNCHANGED <<nextStream, wrapped, sid, rchan, got>>
  /\ UNCHANGED <<buf, handlers, relay, net>>

\* Mutant: OpenStream does not wait for the confirmation.
SendConnectPipelined(r) ==
  /\ pc[r] = "connect"
  /\ pc' = [pc EXCEPT ![r] = "sending"]
  /\ relay' = [relay EXCEPT ![r] = "connect"]
  /\ UNCHANGED <<nextStream, wrapped, sid, rchan, got>>
  /\ UNCHANGED <<pending, buf, handlers, net>>

SendConnect(r) ==
  /\ pc[r] = "connect"
  /\ pc' = [pc EXCEPT ![r] = "connecting"]
  /\ relay' = [relay EXCEPT ![r] = "connect"]
  /\ UNCHANGED <<nextStream, wrapped, sid, rchan, got>>
  /\ UNCHANGED <<pending, buf, handlers, net>>

\* Mutant: OpenStream removes its registration on success too, as a deferred
\* Delete would.
ConnectResponseDeletes(r) ==
  /\ pc[r] = "connecting" /\ buf[OpenChan(r)] # <<>>
  /\ buf' = [buf EXCEPT ![OpenChan(r)] = Tail(@)]
  /\ IF Head(buf[OpenChan(r)]).kind = "connected"
       THEN pc' = [pc EXCEPT ![r] = "sending"]
       ELSE pc' = [pc EXCEPT ![r] = "refused"]
  /\ pending' = [pending EXCEPT ![sid[r]] = NoChan]
  /\ UNCHANGED <<nextStream, wrapped, sid, rchan, got>>
  /\ UNCHANGED <<handlers, relay, net>>

\* The select of OpenStream takes a response.  One that does not parse as a
\* successful StreamConnected is an error, and the registration stays.
ConnectResponse(r) ==
  /\ pc[r] = "connecting" /\ buf[OpenChan(r)] # <<>>
  /\ buf' = [buf EXCEPT ![OpenChan(r)] = Tail(@)]
  /\ IF Head(buf[OpenChan(r)]).kind = "connected"
       THEN pc' = [pc EXCEPT ![r] = "sending"]
       ELSE pc' = [pc EXCEPT ![r] = "refused"]
  /\ UNCHANGED <<nextStream, wrapped, sid, rchan, got>>
  /\ UNCHANGED <<pending, handlers, relay, net>>

\* Mutant: the failure path forgets pending.Delete.
OpenFailsNoDelete(r) ==
  /\ pc[r] \in {"connect", "connecting"}
  /\ pc' = [pc EXCEPT ![r] = "done"]
  /\ UNCHANGED <<nextStream, wrapped, sid, rchan, got>>
  /\ UNCHANGED <<pending, buf, handlers, relay, net>>

\* SendCustomMessage fails, the 30 s timer fires or the context is done.
OpenFails(r) ==
  /\ pc[r] \in {"connect", "connecting"}
  /\ pending' = [pending EXCEPT ![sid[r]] = NoChan]
  /\ pc' = [pc EXCEPT ![r] = "done"]
  /\ UNCHANGED <<nextStream, wrapped, sid, rchan, got>>
  /\ UNCHANGED <<buf, handlers, relay, net>>

-----------------------------------------------------------------------------
(* SendData, RecvData, CloseStream.                                        *)

SendData(r) ==
  /\ pc[r] = "sending"
  /\ pc' = [pc EXCEPT ![r] = "load"]
  /\ relay' = [relay EXCEPT ![r] = "request"]
  /\ UNCHANGED <<nextStream, wrapped, sid, rchan, got>>
  /\ UNCHANGED <<pending, buf, handlers, net>>

\* RecvData's LoadOrStore: the registered channel, or a new one.
RecvLoad(r) ==
  /\ pc[r] = "load"
  /\ IF pending[sid[r]] = NoChan
       THEN /\ pending' = [pending EXCEPT ![sid[r]] = RecvChan(r)]
            /\ rchan' = [rchan EXCEPT ![r] = RecvChan(r)]
       ELSE /\ rchan' = [rchan EXCEPT ![r] = pending[sid[r]]]
            /\ UNCHANGED pending
  /\ pc' = [pc EXCEPT ![r] = "receiving"]
  /\ UNCHANGED <<nextStream, wrapped, sid, got, buf, handlers, relay, net>>

RecvReturns(r) ==
  /\ pc[r] = "receiving" /\ buf[rchan[r]] # <<>>
  /\ got' = [got EXCEPT ![r] = <<Head(buf[rchan[r]])>>]
  /\ buf' = [buf EXCEPT ![rchan[r]] = Tail(@)]
  /\ pc' = [pc EXCEPT ![r] = "closing"]
  /\ UNCHANGED <<nextStream, wrapped, sid, rchan>>
  /\ UNCHANGED <<pending, handlers, relay, net>>

\* r.Write or SendData fails; RecvData's 60 s timer or the context is done.
Fails(r) ==
  /\ pc[r] \in {"sending", "receiving"}
  /\ pc' = [pc EXCEPT ![r] = "closing"]
  /\ UNCHANGED <<nextStream, wrapped, sid, rchan, got>>
  /\ UNCHANGED <<pending, buf, handlers, relay, net>>

\* ServeHTTP's deferred CloseStream.
CloseStream(r) ==
  /\ pc[r] = "closing"
  /\ pending' = [pending EXCEPT ![sid[r]] = NoChan]
  /\ pc' = [pc EXCEPT ![r] = "done"]
  /\ UNCHANGED <<nextStream, wrapped, sid, rchan, got>>
  /\ UNCHANGED <<buf, handlers, relay, net>>

-----------------------------------------------------------------------------
(* HandleResponse: look the stream up, then sendWithTimeout.               *)

\* Mutant: the handler falls back to any registered stream.
HandleResponseAnyStream(m) ==
  /\ m \in net
  /\ net' = net \ {m}
  /\ \E i \in Ids :
       /\ pending[i] # NoChan
       /\ handlers' = handlers \union {[msg |-> m, ch |-> pending[i]]}
  /\ UNCHANGED <<reqVars, pending, buf, relay>>

HandleResponse(m) ==
  /\ m \in net
  /\ net' = net \ {m}
  /\ handlers' = IF pending[sid[m.owner]] = NoChan THEN handlers
                 ELSE handlers \union
                        {[msg |-> m, ch |-> pending[sid[m.owner]]]}
  /\ UNCHANGED <<reqVars, pending, buf, relay>>

HandlerSends(h) ==
  /\ h \in handlers /\ Len(buf[h.ch]) < Cap(h.ch)
  /\ buf' = [buf EXCEPT ![h.ch] = Append(@, h.msg)]
  /\ handlers' = handlers \ {h}
  /\ UNCHANGED <<reqVars, pending, relay, net>>

\* The channel stayed full for 5 s.
HandlerDrops(h) ==
  /\ h \in handlers /\ Len(buf[h.ch]) >= Cap(h.ch)
  /\ handlers' = handlers \ {h}
  /\ UNCHANGED <<reqVars, pending, buf, relay, net>>

-----------------------------------------------------------------------------
(* The exit relay (external): answers the connect, then the request.       *)

Deliver(r, k, n) ==
  net' = net \union {[owner |-> r, kind |-> k, copy |-> i] : i \in 1..n}

RelayConnects(r, n) ==
  /\ relay[r] = "connect"
  /\ \E k \in {"connected", "refused"} :
       relay' = [relay EXCEPT ![r] = k] /\ Deliver(r, k, n)
  /\ UNCHANGED <<reqVars, pending, buf, handlers>>

RelayResponds(r, n) ==
  /\ relay[r] = "request"
  /\ relay' = [relay EXCEPT ![r] = "answered"] /\ Deliver(r, "data", n)
  /\ UNCHANGED <<reqVars, pending, buf, handlers>>

\* Every request is over: what is left on the way never arrives.
Quiescent ==
  /\ \A r \in Requests : pc[r] \in {"done", "refused", "conflict"}
  /\ UNCHANGED vars

Next ==
  \/ \E r \in Requests :
       \/ NextStreamID(r) \/ Register(r) \/ SendConnect(r)
       \/ ConnectResponse(r) \/ OpenFails(r)
       \/ SendData(r) \/ RecvLoad(r) \/ RecvReturns(r) \/ Fails(r)
       \/ CloseStream(r)
       \/ \E n \in 1..MaxCopies[r] : RelayConnects(r, n) \/ RelayResponds(r, n)
  \/ \E m \in net : HandleResponse(m)
  \/ \E h \in handlers : HandlerSends(h) \/ HandlerDrops(h)
  \/ Quiescent

Spec == Init /\ [][Next]_vars

-----------------------------------------------------------------------------
(* Properties.  Those that say ~wrapped hold until the 32-bit counter has  *)
(* issued every stream id once.                                            *)

\* A request that has a stream id has not got 0, and nothing is registered
\* under 0.
ControlStreamFree ==
  /\ \A r \in Requests : sid[r] = 0 <=> pc[r] = "idle"
  /\ pending[0] = NoChan

\* Every variable has its type: the circuit's fields, the local variables of
\* the request goroutines, the handlers, and the messages under way.  Stream
\* ids are never 0, the control stream, also after the counter has come around
\* (circuit.go:291-304).
TypeOK ==
  /\ ControlStreamFree
  /\ nextStream \in Ids /\ wrapped \in BOOLEAN
  /\ pending \in [Ids -> Channels \union {NoChan}]
  /\ buf \in [Channels -> Seq(Messages)]
  /\ pc \in [Requests -> PC] /\ sid \in [Requests -> Ids]
  /\ rchan \in [Requests -> Channels]
  /\ got \in [Requests -> Seq(Messages)]
  /\ handlers \subseteq Handlers
  /\ relay \in [Requests -> Relay] /\ net \subseteq Messages

Registered(r) == pc[r] \in {"connect", "connecting", "sending", "load",
                            "receiving", "closing"}

\* OpenStream succeeds only after the exit relay confirmed this very stream
\* (circuit.go:347-356).
OpenMeansConfirmed ==
  ~wrapped => \A r \in Requests :
    pc[r] \in {"sending", "load", "receiving"}
      => relay[r] \in {"connected", "request", "answered"}

\* c.pending holds exactly the streams in use, and the streams whose connect
\* was refused: every other way out of a request removes its entry
\* (circuit.go:338-365, 599-602).
PendingOwned ==
  ~wrapped =>
    /\ \A r \in Requests : Registered(r) => pending[sid[r]] # NoChan
    /\ \A i \in Ids : pending[i] # NoChan =>
         \E r \in Requests : sid[r] = i /\ (Registered(r) \/ pc[r] = "refused")

\* The one slot that OpenStream registers is enough: RecvData waits on that
\* channel, so that an answer before the call is not lost; and as long as
\* nothing is delivered twice no handler finds it full, whatever happens to
\* other streams, and what RecvData returns is data, as its comment says
\* (circuit.go:326, 392-413, 447-454).  A repeated StreamConnected may be
\* returned in place of the response.
OneSlotEnough ==
  ~wrapped =>
    /\ \A r \in Requests : pc[r] = "receiving" => rchan[r] = OpenChan(r)
    /\ \A h \in handlers :
         MaxCopies[h.msg.owner] = 1 => Len(buf[h.ch]) < Cap(h.ch)
    /\ \A r \in Requests :
         got[r] # <<>> /\ MaxCopies[r] = 1 => got[r][1].kind = "data"

\* How far a request has come, in the terms of the interface.
Stage(r) ==
  CASE pc[r] \in {"idle", "register", "connect", "connecting"} -> "new"
    [] pc[r] = "sending" -> "open"
    [] pc[r] \in {"load", "receiving"} -> "sent"
    [] OTHER -> "over"

Contract == INSTANCE ProxyClient WITH
  stage <- [r \in Requests |-> Stage(r)],
  reply <- [r \in Requests |-> IF got[r] = <<>> THEN "none" ELSE got[r][1].owner],
  exhausted <- wrapped

\* A circuit implements the interface ProxyClient.  In particular there is no
\* cross-talk: the reply of a request was sent in answer to it, whatever the
\* interleaving of handlers, closes, timeouts and late or repeated answers, as
\* long as stream ids have not come around (circuit.go:291-602).
ImplementsClient == Contract!Spec
=============================================================================
