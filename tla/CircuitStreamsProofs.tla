------------------------ MODULE CircuitStreamsProofs ------------------------
(***************************************************************************)
(* Proofs about CircuitStreams for every set of requests, every size of    *)
(* the stream id space, every number of deliveries of an answer and every  *)
(* capacity of the channel that RecvData makes.                            *)
(***************************************************************************)
EXTENDS CircuitStreams, TLAPS

-----------------------------------------------------------------------------
(* The inductive invariant.  Its parts hold until ids have come around.    *)

\* Requests whose channel is registered.
Holds(r) == Registered(r) \/ pc[r] = "refused"

\* No two requests have the same stream id; ids above nextStream are fresh.
IdsDistinct ==
  /\ \A r \in Requests : pc[r] # "idle" => sid[r] <= nextStream
  /\ \A r, q \in Requests :
       pc[r] # "idle" /\ pc[q] # "idle" /\ sid[r] = sid[q] => r = q

\* c.pending holds the channel that OpenStream made, for the requests that
\* are registered, and nothing else: RecvData never makes one.
PendingExact ==
  /\ \A i \in Ids : pending[i] # NoChan =>
       \E r \in Requests : pending[i] = OpenChan(r) /\ Holds(r) /\ sid[r] = i
  /\ \A r \in Requests : Holds(r) => pending[sid[r]] = OpenChan(r)
  /\ \A r \in Requests : rchan[r] = OpenChan(r)

\* The request and the exit relay agree on how far they are.
InStep ==
  \A r \in Requests :
    /\ pc[r] \in {"idle", "register", "connect"} => relay[r] = "none"
    /\ pc[r] = "connecting" => relay[r] \in {"connect", "connected", "refused"}
    /\ pc[r] = "sending" => relay[r] = "connected"
    /\ pc[r] \in {"load", "receiving"} => relay[r] \in {"request", "answered"}

\* What a message says of the exit relay is true; where nothing is delivered
\* twice, it is what the relay has said last.
Honest(m) ==
  /\ relay[m.owner] # "none"
  /\ m.kind = "connected" => relay[m.owner] \in {"connected", "request", "answered"}
  /\ MaxCopies[m.owner] = 1 =>
       relay[m.owner] = IF m.kind = "data" THEN "answered" ELSE m.kind

\* Handlers and channels carry the messages of their own request only, and a
\* channel holds one at most.
OwnTraffic ==
  /\ \A m \in net : Honest(m)
  /\ \A h \in handlers : Honest(h.msg) /\ h.ch = OpenChan(h.msg.owner)
  /\ \A ch \in Channels : buf[ch] # <<>> =>
       /\ buf[ch] = <<Head(buf[ch])>>
       /\ Honest(Head(buf[ch])) /\ ch = OpenChan(Head(buf[ch]).owner)

\* No message for r is under way.
Quiet(r) ==
  /\ \A m \in net : m.owner # r
  /\ \A h \in handlers : h.msg.owner # r
  /\ buf[OpenChan(r)] = <<>>

\* Where nothing is delivered twice, one message at a time is under way: on
\* the network, in a handler or in the channel.
SingleFile ==
  \A r \in Requests : MaxCopies[r] = 1 =>
    /\ pc[r] = "sending" => Quiet(r)
    /\ \A m \in net : m.owner = r =>
         /\ \A n \in net : n.owner = r => n = m
         /\ \A h \in handlers : h.msg.owner # r
         /\ buf[OpenChan(r)] = <<>>
    /\ \A h \in handlers : h.msg.owner = r =>
         /\ \A g \in handlers : g.msg.owner = r => g = h
         /\ buf[OpenChan(r)] = <<>>
    /\ got[r] # <<>> => got[r][1].kind = "data"

StreamInv == IdsDistinct /\ PendingExact /\ InStep /\ OwnTraffic /\ SingleFile

IndInv == TypeOK /\ (~wrapped => StreamInv)

-----------------------------------------------------------------------------
(* Lemmas about ids, channels and types.                                   *)

\* The counter's increment modulo the id space.
LEMMA IncrementMod ==
  ASSUME NEW a \in Ids
  PROVE  (a + 1) % IdSpace = IF a + 1 = IdSpace THEN 0 ELSE a + 1
<1>1. a \in Nat /\ a < IdSpace /\ IdSpace \in Nat /\ IdSpace > 1
  BY IdSpaceOK DEF Ids
<1>2. CASE a + 1 = IdSpace
  BY <1>1, <1>2
<1>3. CASE a + 1 < IdSpace
  BY <1>1, <1>3
<1> QED BY <1>1, <1>2, <1>3

\* nextStreamID never yields 0, the control stream, and counts up by one
\* until it comes around.
LEMMA NewId ==
  ASSUME NEW r \in Requests, TypeOK, NextStreamID(r)
  PROVE  /\ nextStream' \in Ids /\ nextStream' # 0
         /\ wrapped' \in BOOLEAN
         /\ ~wrapped' => ~wrapped /\ nextStream' = nextStream + 1
         /\ wrapped' = wrapped \/ wrapped' = TRUE
<1>1. nextStream \in Ids /\ nextStream \in Nat
  BY DEF TypeOK, Ids
<1>2. DEFINE n == (nextStream + 1) % IdSpace
<1>3. n = IF nextStream + 1 = IdSpace THEN 0 ELSE nextStream + 1
  BY <1>1, IncrementMod
<1>4. n \in Ids /\ 1 \in Ids
  BY <1>1, <1>3, IdSpaceOK DEF Ids
<1>5. nextStream' = IF n = 0 THEN 1 ELSE n
  BY DEF NextStreamID
<1>6. wrapped' = (wrapped \/ n = 0)
  BY DEF NextStreamID
<1>7. wrapped' \in BOOLEAN /\ (wrapped' = wrapped \/ wrapped' = TRUE)
  BY <1>6, Zenon DEF TypeOK
<1>8. ~wrapped' => ~wrapped /\ n # 0
  BY <1>6, Zenon
<1> HIDE DEF n
<1> QED BY <1>1, <1>3, <1>4, <1>5, <1>7, <1>8

\* The two channels of a request are channels; NoChan is none.
LEMMA ChannelFacts ==
  /\ NoChan \notin Channels
  /\ \A r \in Requests : /\ OpenChan(r) \in Channels /\ RecvChan(r) \in Channels
                         /\ OpenChan(r).owner = r /\ OpenChan(r) # NoChan
                         /\ OpenChan(r) # RecvChan(r) /\ Cap(OpenChan(r)) = 1
  /\ \A r, q \in Requests : OpenChan(r) = OpenChan(q) => r = q
BY DEF NoChan, Channels, OpenChan, RecvChan, Cap

\* What the exit relay sends is for the request it answers, and is one message
\* where nothing is delivered twice.
LEMMA Delivered ==
  ASSUME NEW r \in Requests, NEW n \in 1..MaxCopies[r],
         NEW k \in {"connected", "refused", "data"}, Deliver(r, k, n)
  PROVE  /\ net \subseteq net'
         /\ \A m \in net' \ net : /\ m \in Messages /\ m.owner = r /\ m.kind = k
                                  /\ MaxCopies[r] = 1 =>
                                       m = [owner |-> r, kind |-> k, copy |-> 1]
<1> DEFINE msg(i) == [owner |-> r, kind |-> k, copy |-> i]
<1>1. net \subseteq net'
  BY DEF Deliver
<1>2. ASSUME NEW m \in net' \ net
      PROVE  /\ m \in Messages /\ m.owner = r /\ m.kind = k
             /\ MaxCopies[r] = 1 => m = msg(1)
  <2>1. PICK i \in 1..n : m = msg(i)
    BY <1>2 DEF Deliver
  <2>2. i \in Nat \ {0} /\ (MaxCopies[r] = 1 => i = 1)
    BY MaxCopiesOK
  <2> QED BY <2>1, <2>2 DEF Messages
<1> QED BY <1>1, <1>2

\* The types hold at the start.
LEMMA InitTypeOK == Init => TypeOK
<1> SUFFICES ASSUME Init PROVE TypeOK
  OBVIOUS
<1>1. wrapped \in BOOLEAN
  BY Zenon DEF Init
<1>2. pending \in [Ids -> Channels \union {NoChan}] /\ rchan \in [Requests -> Channels]
  BY ChannelFacts DEF Init
<1>3. buf \in [Channels -> Seq(Messages)]
  BY DEF Init
<1>4. ControlStreamFree
  BY IdSpaceOK DEF Init, ControlStreamFree, Ids
<1> QED BY <1>1, <1>2, <1>3, <1>4, IdSpaceOK DEF Init, TypeOK, Ids, PC, Relay

\* No step uses stream 0: an id comes from nextStreamID, which skips it, and
\* what is registered is registered under the id of a request.
LEMMA NextControlStreamFree == TypeOK /\ [Next]_vars => ControlStreamFree'
<1> SUFFICES ASSUME TypeOK, [Next]_vars PROVE ControlStreamFree'
  OBVIOUS
<1> USE DEF ControlStreamFree
<1>1. /\ 0 \in Ids /\ pending[0] = NoChan /\ DOMAIN pending = Ids
      /\ DOMAIN pc = Requests /\ DOMAIN sid = Requests
      /\ \A r \in Requests : sid[r] = 0 <=> pc[r] = "idle"
  BY IdSpaceOK DEF TypeOK, Ids
<1>2. ASSUME NEW r \in Requests, NextStreamID(r) PROVE ControlStreamFree'
  <2>1. /\ pc[r] = "idle" /\ pc' = [pc EXCEPT ![r] = "register"]
        /\ sid' = [sid EXCEPT ![r] = nextStream'] /\ UNCHANGED pending
    BY <1>2 DEF NextStreamID
  <2>2. nextStream' # 0
    BY <1>2, NewId
  <2> QED BY <1>1, <2>1, <2>2
<1>3. ASSUME NEW r \in Requests, NEW p, NEW x, pc[r] # "idle", p # "idle",
             pc' = [pc EXCEPT ![r] = p], UNCHANGED sid,
             pending' = [pending EXCEPT ![sid[r]] = x] \/ UNCHANGED pending
      PROVE  ControlStreamFree'
  BY <1>1, <1>3
<1>4. ASSUME NEW r \in Requests, SendConnect(r) \/ ConnectResponse(r) \/ SendData(r)
                                   \/ RecvReturns(r) \/ Fails(r)
      PROVE  ControlStreamFree'
  BY <1>1, <1>4 DEF SendConnect, ConnectResponse, SendData, RecvReturns, Fails
<1>5. ASSUME NEW r \in Requests, Register(r) \/ OpenFails(r) \/ RecvLoad(r)
                                   \/ CloseStream(r)
      PROVE  ControlStreamFree'
  BY <1>3, <1>5 DEF Register, OpenFails, RecvLoad, CloseStream
<1>6. ASSUME UNCHANGED <<pc, sid, pending>> PROVE ControlStreamFree'
  BY <1>1, <1>6
<1>7. ASSUME NEW m \in net, HandleResponse(m) PROVE ControlStreamFree'
  BY <1>6, <1>7 DEF HandleResponse, reqVars
<1>8. ASSUME NEW h \in handlers, HandlerSends(h) \/ HandlerDrops(h)
      PROVE  ControlStreamFree'
  BY <1>6, <1>8 DEF HandlerSends, HandlerDrops, reqVars
<1>9. ASSUME NEW r \in Requests, NEW n \in 1..MaxCopies[r],
             RelayConnects(r, n) \/ RelayResponds(r, n)
      PROVE  ControlStreamFree'
  BY <1>6, <1>9 DEF RelayConnects, RelayResponds, reqVars
<1>10. CASE UNCHANGED vars
  BY <1>6, <1>10 DEF vars, reqVars
<1> QED BY <1>2, <1>4, <1>5, <1>7, <1>8, <1>9, <1>10 DEF Next, Quiescent

\* Every step preserves the types.
LEMMA NextTypeOK == TypeOK /\ [Next]_vars => TypeOK'
<1> SUFFICES ASSUME TypeOK, [Next]_vars PROVE TypeOK'
  OBVIOUS
<1>0. ControlStreamFree'
  BY NextControlStreamFree
<1> USE <1>0, ChannelFacts DEF TypeOK, PC, Relay
<1>1. ASSUME NEW r \in Requests, NextStreamID(r) PROVE TypeOK'
  BY <1>1, NewId DEF NextStreamID
<1>2. ASSUME NEW r \in Requests, Register(r) PROVE TypeOK'
  BY <1>2 DEF Register
<1>3. ASSUME NEW r \in Requests, SendConnect(r) \/ SendData(r) \/ Fails(r) PROVE TypeOK'
  BY <1>3 DEF SendConnect, SendData, Fails
<1>4. ASSUME NEW r \in Requests, OpenFails(r) \/ CloseStream(r) PROVE TypeOK'
  BY <1>4 DEF OpenFails, CloseStream
<1>5. ASSUME NEW ch \in Channels, buf[ch] # <<>>
      PROVE  Tail(buf[ch]) \in Seq(Messages) /\ Head(buf[ch]) \in Messages
  BY <1>5
<1>6. ASSUME NEW r \in Requests, ConnectResponse(r) PROVE TypeOK'
  <2>1. buf' \in [Channels -> Seq(Messages)]
    BY <1>5, <1>6 DEF ConnectResponse
  <2> QED BY <1>6, <2>1 DEF ConnectResponse
<1>7. ASSUME NEW r \in Requests, RecvLoad(r) PROVE TypeOK'
  BY <1>7 DEF RecvLoad
<1>8. ASSUME NEW r \in Requests, RecvReturns(r) PROVE TypeOK'
  <2>1. buf' \in [Channels -> Seq(Messages)] /\ <<Head(buf[rchan[r]])>> \in Seq(Messages)
    BY <1>5, <1>8 DEF RecvReturns
  <2> QED BY <1>8, <2>1 DEF RecvReturns
<1>9. ASSUME NEW m \in net, HandleResponse(m) PROVE TypeOK'
  <2>1. m \in Messages /\ m.owner \in Requests /\ sid[m.owner] \in Ids
    BY DEF Messages
  <2>2. handlers' \subseteq Handlers
    BY <1>9, <2>1 DEF HandleResponse, Handlers
  <2> QED BY <1>9, <2>2 DEF HandleResponse, reqVars
<1>10. ASSUME NEW h \in handlers, HandlerSends(h) \/ HandlerDrops(h) PROVE TypeOK'
  <2>1. h.ch \in Channels /\ h.msg \in Messages
    BY DEF Handlers
  <2>2. Append(buf[h.ch], h.msg) \in Seq(Messages)
    BY <2>1
  <2>3. CASE HandlerSends(h)
    <3>1. buf' \in [Channels -> Seq(Messages)] /\ handlers' \subseteq Handlers
      BY <2>1, <2>2, <2>3 DEF HandlerSends
    <3> QED BY <2>3, <3>1 DEF HandlerSends, reqVars
  <2>4. CASE HandlerDrops(h)
    BY <2>4 DEF HandlerDrops, reqVars
  <2> QED BY <1>10, <2>3, <2>4
<1>11. ASSUME NEW r \in Requests, NEW n \in 1..MaxCopies[r],
              RelayConnects(r, n) \/ RelayResponds(r, n)
       PROVE  TypeOK'
  <2>1. ASSUME NEW k \in {"connected", "refused", "data"}, Deliver(r, k, n)
        PROVE  net' \subseteq Messages
    BY <2>1, Delivered
  <2>2. CASE RelayConnects(r, n)
    BY <2>1, <2>2 DEF RelayConnects, reqVars
  <2>3. CASE RelayResponds(r, n)
    BY <2>1, <2>3 DEF RelayResponds, reqVars
  <2> QED BY <1>11, <2>2, <2>3
<1>12. CASE UNCHANGED vars
  BY <1>12 DEF vars, reqVars
<1> QED BY <1>1, <1>2, <1>3, <1>4, <1>6, <1>7, <1>8, <1>9, <1>10, <1>11, <1>12
        DEF Next, Quiescent

\* Every variable of a circuit's streams has its type, and no stream has the
\* id 0, also after the counter has come around.
THEOREM TypeCorrect == Spec => []TypeOK
BY InitTypeOK, NextTypeOK, PTL DEF Spec

-----------------------------------------------------------------------------
(* StreamInv is preserved until ids have come around.                      *)

\* No stream at the start.
LEMMA InitStreamInv == Init => StreamInv
BY ChannelFacts
DEF Init, StreamInv, IdsDistinct, PendingExact, InStep, OwnTraffic, SingleFile,
    Holds, Registered, Quiet

\* A request takes an id that no other one has.
LEMMA NextStreamIDStreamInv ==
  ASSUME TypeOK, StreamInv, NEW r \in Requests, NextStreamID(r), ~wrapped'
  PROVE  StreamInv'
<1> USE DEF StreamInv
<1>1. /\ pc[r] = "idle" /\ pc' = [pc EXCEPT ![r] = "register"]
      /\ sid' = [sid EXCEPT ![r] = nextStream']
      /\ UNCHANGED <<rchan, got, pending, buf, handlers, relay, net>>
  BY DEF NextStreamID
<1>2. nextStream' = nextStream + 1
  BY NewId, Zenon
<1>3. nextStream \in Nat /\ \A q \in Requests : sid[q] \in Nat
  BY DEF TypeOK, Ids
<1>4. IdsDistinct'
  BY <1>1, <1>2, <1>3 DEF IdsDistinct, TypeOK
<1>5. PendingExact'
  BY <1>1 DEF PendingExact, TypeOK, Holds, Registered
<1>6. InStep' /\ OwnTraffic' /\ SingleFile'
  BY <1>1 DEF InStep, OwnTraffic, SingleFile, Honest, Quiet, TypeOK
<1> QED BY <1>4, <1>5, <1>6

\* OpenStream registers its channel under an id that is free.
LEMMA RegisterStreamInv ==
  ASSUME TypeOK, StreamInv, NEW r \in Requests, Register(r)
  PROVE  StreamInv'
<1> USE DEF StreamInv
<1>1. pc[r] = "register" /\ sid[r] \in Ids
  BY DEF Register, TypeOK
<1>2. pending[sid[r]] = NoChan
  BY <1>1 DEF IdsDistinct, PendingExact, Holds, Registered
<1>3. /\ pending' = [pending EXCEPT ![sid[r]] = OpenChan(r)]
      /\ pc' = [pc EXCEPT ![r] = "connect"]
      /\ UNCHANGED <<nextStream, sid, rchan, got, buf, handlers, relay, net>>
  BY <1>2 DEF Register
<1>4. IdsDistinct'
  BY <1>1, <1>3 DEF IdsDistinct, TypeOK
<1>5. PendingExact'
  <2>1. ASSUME NEW i \in Ids, pending'[i] # NoChan
        PROVE  \E q \in Requests : pending'[i] = OpenChan(q) /\ Holds(q)' /\ sid'[q] = i
    <3>1. CASE i = sid[r]
      BY <1>1, <1>3, <3>1 DEF TypeOK, Holds, Registered
    <3>2. CASE i # sid[r]
      <4>1. PICK q \in Requests : pending[i] = OpenChan(q) /\ Holds(q) /\ sid[q] = i
        BY <1>1, <1>3, <2>1, <3>2 DEF TypeOK, PendingExact
      <4> QED BY <1>1, <1>3, <3>2, <4>1 DEF TypeOK, Holds, Registered
    <3> QED BY <3>1, <3>2
  <2>2. ASSUME NEW q \in Requests, Holds(q)'
        PROVE  pending'[sid'[q]] = OpenChan(q)
    <3>1. CASE q = r
      BY <1>1, <1>3, <3>1 DEF TypeOK
    <3>2. CASE q # r
      <4>1. Holds(q) /\ pc[q] # "idle" /\ sid[q] # sid[r] /\ sid[q] \in Ids
        BY <1>1, <1>3, <2>2, <3>2 DEF TypeOK, Holds, Registered, IdsDistinct
      <4> QED BY <1>1, <1>3, <4>1 DEF TypeOK, PendingExact
    <3> QED BY <3>1, <3>2
  <2> QED BY <1>3, <2>1, <2>2 DEF PendingExact
<1>6. InStep' /\ OwnTraffic' /\ SingleFile'
  BY <1>1, <1>3 DEF InStep, OwnTraffic, SingleFile, Honest, Quiet, TypeOK
<1> QED BY <1>4, <1>5, <1>6

\* A request that is over deletes its own registration and no other one.
LEMMA DeleteStreamInv ==
  ASSUME TypeOK, StreamInv, NEW r \in Requests, OpenFails(r) \/ CloseStream(r)
  PROVE  StreamInv'
<1> USE DEF StreamInv
<1>1. /\ Registered(r) /\ sid[r] \in Ids
      /\ pending' = [pending EXCEPT ![sid[r]] = NoChan]
      /\ pc' = [pc EXCEPT ![r] = "done"]
      /\ UNCHANGED <<nextStream, sid, rchan, got, buf, handlers, relay, net>>
  BY DEF OpenFails, CloseStream, TypeOK, Registered
<1>2. pc[r] # "idle"
  BY <1>1 DEF Registered
<1>3. IdsDistinct'
  BY <1>1, <1>2 DEF IdsDistinct, TypeOK
<1>4. PendingExact'
  <2>1. ASSUME NEW i \in Ids, pending'[i] # NoChan
        PROVE  \E q \in Requests : pending'[i] = OpenChan(q) /\ Holds(q)' /\ sid'[q] = i
    <3>1. i # sid[r] /\ pending'[i] = pending[i]
      BY <1>1, <2>1 DEF TypeOK
    <3>2. PICK q \in Requests : pending[i] = OpenChan(q) /\ Holds(q) /\ sid[q] = i
      BY <2>1, <3>1 DEF PendingExact
    <3> QED BY <1>1, <3>1, <3>2 DEF TypeOK, Holds, Registered
  <2>2. ASSUME NEW q \in Requests, Holds(q)'
        PROVE  pending'[sid'[q]] = OpenChan(q)
    <3>1. q # r
      BY <1>1, <2>2 DEF TypeOK, Holds, Registered
    <3>2. Holds(q) /\ pc[q] # "idle" /\ sid[q] # sid[r] /\ sid[q] \in Ids
      BY <1>1, <1>2, <2>2, <3>1 DEF TypeOK, Holds, Registered, IdsDistinct
    <3> QED BY <1>1, <3>2 DEF TypeOK, PendingExact
  <2> QED BY <1>1, <2>1, <2>2 DEF PendingExact
<1>5. InStep' /\ OwnTraffic' /\ SingleFile'
  BY <1>1 DEF InStep, OwnTraffic, SingleFile, Honest, Quiet, TypeOK
<1> QED BY <1>3, <1>4, <1>5

\* A step inside the time a request is registered keeps ids and registrations.
LEMMA StaysRegistered ==
  ASSUME TypeOK, StreamInv, NEW r \in Requests, NEW p \in PC, Registered(r),
         pc' = [pc EXCEPT ![r] = p],
         p \in {"connecting", "sending", "load", "receiving", "closing", "refused"},
         UNCHANGED <<nextStream, sid, rchan, pending>>
  PROVE  IdsDistinct' /\ PendingExact'
<1>1. \A q \in Requests : /\ pc[q] # "idle" <=> pc'[q] # "idle"
                          /\ Holds(q)' <=> Holds(q)
  BY DEF TypeOK, Holds, Registered
<1> QED BY <1>1 DEF StreamInv, IdsDistinct, PendingExact

\* The connect request goes to a relay that has not heard of the stream.
LEMMA SendConnectStreamInv ==
  ASSUME TypeOK, StreamInv, NEW r \in Requests, SendConnect(r)
  PROVE  StreamInv'
<1> USE DEF StreamInv
<1>1. /\ pc[r] = "connect" /\ pc' = [pc EXCEPT ![r] = "connecting"]
      /\ relay' = [relay EXCEPT ![r] = "connect"] /\ relay[r] = "none"
      /\ UNCHANGED <<nextStream, sid, rchan, got, pending, buf, handlers, net>>
  BY DEF SendConnect, InStep
<1>2. IdsDistinct' /\ PendingExact'
  BY <1>1, StaysRegistered DEF Registered, PC
<1>3. InStep' /\ SingleFile'
  BY <1>1 DEF InStep, SingleFile, Quiet, TypeOK
<1>4. ASSUME NEW m \in Messages, Honest(m) PROVE Honest(m)'
  BY <1>1, <1>4 DEF Honest, Messages, TypeOK
<1>5. OwnTraffic'
  BY <1>1, <1>4 DEF OwnTraffic, TypeOK, Handlers
<1> QED BY <1>2, <1>3, <1>5

\* The request is sent when the connect was confirmed; its answer is not yet
\* under way and, where nothing is repeated, nothing else is.
LEMMA SendDataStreamInv ==
  ASSUME TypeOK, StreamInv, NEW r \in Requests, SendData(r)
  PROVE  StreamInv'
<1> USE DEF StreamInv
<1>1. /\ pc[r] = "sending" /\ pc' = [pc EXCEPT ![r] = "load"]
      /\ relay' = [relay EXCEPT ![r] = "request"]
      /\ UNCHANGED <<nextStream, sid, rchan, got, pending, buf, handlers, net>>
  BY DEF SendData
<1>2. IdsDistinct' /\ PendingExact'
  BY <1>1, StaysRegistered DEF Registered, PC
<1>3. InStep' /\ SingleFile'
  BY <1>1 DEF InStep, SingleFile, Quiet, TypeOK
<1>4. ASSUME NEW m \in Messages, Honest(m), m.owner = r => MaxCopies[r] # 1
      PROVE  Honest(m)'
  BY <1>1, <1>4 DEF Honest, Messages, TypeOK
<1>5. MaxCopies[r] = 1 => Quiet(r)
  BY <1>1 DEF SingleFile
<1>6. OwnTraffic'
  <2>1. \A m \in net' : Honest(m)'
    BY <1>1, <1>4, <1>5 DEF OwnTraffic, Quiet, TypeOK
  <2>2. \A h \in handlers' : Honest(h.msg)' /\ h.ch = OpenChan(h.msg.owner)
    BY <1>1, <1>4, <1>5 DEF OwnTraffic, Quiet, TypeOK, Handlers
  <2>3. ASSUME NEW ch \in Channels, buf'[ch] # <<>>
        PROVE  /\ buf'[ch] = <<Head(buf'[ch])>>
               /\ Honest(Head(buf[ch]))' /\ ch = OpenChan(Head(buf'[ch]).owner)
    <3> DEFINE m == Head(buf[ch])
    <3>1. buf[ch] \in Seq(Messages) /\ buf[ch] = <<m>> /\ Honest(m) /\ ch = OpenChan(m.owner)
      BY <1>1, <2>3 DEF OwnTraffic, TypeOK
    <3>2. m \in Messages
      BY <1>1, <2>3, <3>1
    <3>3. m.owner = r => MaxCopies[r] # 1
      BY <1>1, <1>5, <2>3, <3>1 DEF Quiet
    <3> QED BY <1>1, <1>4, <3>1, <3>2, <3>3
  <2> QED BY <1>1, <2>1, <2>2, <2>3 DEF OwnTraffic
<1> QED BY <1>2, <1>3, <1>6

\* RecvData finds the channel that OpenStream has registered.
LEMMA RecvLoadStreamInv ==
  ASSUME TypeOK, StreamInv, NEW r \in Requests, RecvLoad(r)
  PROVE  StreamInv'
<1> USE DEF StreamInv
<1>1. pc[r] = "load" /\ Registered(r) /\ pending[sid[r]] = OpenChan(r)
  BY DEF RecvLoad, Registered, PendingExact, Holds
<1>2. /\ pc' = [pc EXCEPT ![r] = "receiving"]
      /\ UNCHANGED <<nextStream, sid, got, pending, buf, handlers, relay, net>>
      /\ rchan' = [rchan EXCEPT ![r] = OpenChan(r)]
  BY <1>1, ChannelFacts DEF RecvLoad
<1>3. rchan' = rchan
  BY <1>2 DEF PendingExact, TypeOK
<1>4. IdsDistinct' /\ PendingExact'
  BY <1>1, <1>2, <1>3, StaysRegistered DEF PC
<1>5. InStep' /\ OwnTraffic' /\ SingleFile'
  BY <1>1, <1>2 DEF InStep, OwnTraffic, SingleFile, Honest, Quiet, TypeOK
<1> QED BY <1>4, <1>5

\* A request that gives up stays registered until its deferred CloseStream.
LEMMA FailsStreamInv ==
  ASSUME TypeOK, StreamInv, NEW r \in Requests, Fails(r)
  PROVE  StreamInv'
<1> USE DEF StreamInv
<1>1. /\ Registered(r) /\ pc' = [pc EXCEPT ![r] = "closing"]
      /\ UNCHANGED <<nextStream, sid, rchan, got, pending, buf, handlers, relay, net>>
  BY DEF Fails, Registered
<1>2. IdsDistinct' /\ PendingExact'
  BY <1>1, StaysRegistered DEF PC
<1>3. InStep' /\ OwnTraffic' /\ SingleFile'
  BY <1>1 DEF InStep, OwnTraffic, SingleFile, Honest, Quiet, TypeOK
<1> QED BY <1>2, <1>3

\* A channel that holds a message holds one, which is its owner's; taking it
\* leaves the channel empty.
LEMMA TakenFrom ==
  ASSUME TypeOK, StreamInv, NEW r \in Requests, buf[OpenChan(r)] # <<>>,
         buf' = [buf EXCEPT ![OpenChan(r)] = Tail(@)],
         UNCHANGED <<handlers, relay, net>>
  PROVE  /\ Head(buf[OpenChan(r)]) \in Messages /\ Head(buf[OpenChan(r)]).owner = r
         /\ Honest(Head(buf[OpenChan(r)]))
         /\ buf'[OpenChan(r)] = <<>>
         /\ \A ch \in Channels : ch # OpenChan(r) => buf'[ch] = buf[ch]
         /\ MaxCopies[r] = 1 => Quiet(r)'
         /\ OwnTraffic'
<1> USE DEF StreamInv
<1> DEFINE ch == OpenChan(r)
           m  == Head(buf[ch])
<1>1. ch \in Channels /\ ch.owner = r
  BY ChannelFacts
<1>2. buf[ch] \in Seq(Messages) /\ buf[ch] = <<m>> /\ ch = OpenChan(m.owner) /\ Honest(m)
  BY <1>1 DEF TypeOK, OwnTraffic
<1>3. m \in Messages /\ Tail(buf[ch]) = <<>> /\ m.owner = r
  <2>1. m \in Messages /\ Tail(buf[ch]) = <<>>
    <3>1. m \in Messages
      BY <1>2
    <3> HIDE DEF m
    <3>2. Tail(<<m>>) = <<>>
      BY <3>1
    <3> QED BY <1>2, <3>1, <3>2
  <2>2. m.owner \in Requests
    BY <2>1 DEF Messages
  <2> QED BY <1>2, <2>1, <2>2, ChannelFacts
<1>4. /\ buf'[ch] = <<>>
      /\ \A c \in Channels : c # ch => buf'[c] = buf[c]
  BY <1>1, <1>3 DEF TypeOK
<1>5. OwnTraffic'
  <2>1. ASSUME NEW c \in Channels, buf'[c] # <<>>
        PROVE  /\ buf'[c] = <<Head(buf'[c])>>
               /\ Honest(Head(buf[c]))' /\ c = OpenChan(Head(buf'[c]).owner)
    BY <1>4, <2>1 DEF OwnTraffic, Honest
  <2>2. (\A n \in net' : Honest(n)') /\ \A h \in handlers' : Honest(h.msg)'
    BY DEF OwnTraffic, Honest
  <2> QED BY <1>4, <2>1, <2>2 DEF OwnTraffic, Honest
<1>6. MaxCopies[r] = 1 => Quiet(r)'
  BY <1>4 DEF SingleFile, Quiet
<1> QED BY <1>2, <1>3, <1>4, <1>5, <1>6

\* The connect is answered by a message of this stream; if nothing is repeated
\* nothing is under way after it.
LEMMA ConnectResponseStreamInv ==
  ASSUME TypeOK, StreamInv, NEW r \in Requests, ConnectResponse(r)
  PROVE  StreamInv'
<1> USE DEF StreamInv
<1> DEFINE m == Head(buf[OpenChan(r)])
           p == IF m.kind = "connected" THEN "sending" ELSE "refused"
<1>1. /\ pc[r] = "connecting" /\ buf[OpenChan(r)] # <<>>
      /\ buf' = [buf EXCEPT ![OpenChan(r)] = Tail(@)]
      /\ pc' = [pc EXCEPT ![r] = p] /\ p \in {"sending", "refused"}
      /\ UNCHANGED <<nextStream, sid, rchan, got, pending, handlers, relay, net>>
  BY DEF ConnectResponse
<1>2. /\ m.owner = r /\ Honest(m) /\ buf'[OpenChan(r)] = <<>>
      /\ \A c \in Channels : c # OpenChan(r) => buf'[c] = buf[c]
      /\ MaxCopies[r] = 1 => Quiet(r)'
      /\ OwnTraffic'
  BY <1>1, TakenFrom
<1>3. p = "sending" => m.kind = "connected"
  OBVIOUS
<1> HIDE DEF m, p
<1>4. IdsDistinct' /\ PendingExact'
  BY <1>1, StaysRegistered DEF Registered, PC
<1>5. InStep'
  BY <1>1, <1>2, <1>3 DEF InStep, Honest, TypeOK
<1>6. SingleFile'
  <2>1. \A q \in Requests : buf[OpenChan(q)] = <<>> => buf'[OpenChan(q)] = <<>>
    BY <1>2, ChannelFacts
  <2>2. \A q \in Requests : Quiet(q) => Quiet(q)'
    BY <1>1, <2>1 DEF Quiet
  <2>3. \A q \in Requests : q # r => pc'[q] = pc[q]
    BY <1>1 DEF TypeOK
  <2> QED BY <1>1, <1>2, <2>1, <2>2, <2>3 DEF SingleFile
<1> QED BY <1>2, <1>4, <1>5, <1>6

\* RecvData returns a message of its own stream, and data if nothing is
\* repeated.
LEMMA RecvReturnsStreamInv ==
  ASSUME TypeOK, StreamInv, NEW r \in Requests, RecvReturns(r)
  PROVE  StreamInv'
<1> USE DEF StreamInv
<1> DEFINE m == Head(buf[OpenChan(r)])
<1>1. rchan[r] = OpenChan(r)
  BY DEF PendingExact
<1>2. /\ pc[r] = "receiving" /\ buf[OpenChan(r)] # <<>>
      /\ buf' = [buf EXCEPT ![OpenChan(r)] = Tail(@)]
      /\ pc' = [pc EXCEPT ![r] = "closing"]
      /\ got' = [got EXCEPT ![r] = <<m>>]
      /\ UNCHANGED <<nextStream, sid, rchan, pending, handlers, relay, net>>
  BY <1>1 DEF RecvReturns
<1>3. /\ m.owner = r /\ Honest(m) /\ buf'[OpenChan(r)] = <<>>
      /\ \A c \in Channels : c # OpenChan(r) => buf'[c] = buf[c]
      /\ MaxCopies[r] = 1 => Quiet(r)'
      /\ OwnTraffic' /\ m \in Messages
  BY <1>2, TakenFrom
<1> HIDE DEF m
<1>4. IdsDistinct' /\ PendingExact'
  BY <1>2, StaysRegistered DEF Registered, PC
<1>5. InStep'
  BY <1>2 DEF InStep, TypeOK
<1>6. MaxCopies[r] = 1 => m.kind = "data"
  BY <1>2, <1>3 DEF InStep, Honest, Messages
<1>7. SingleFile'
  <2>1. \A q \in Requests : buf[OpenChan(q)] = <<>> => buf'[OpenChan(q)] = <<>>
    BY <1>3, ChannelFacts
  <2>2. \A q \in Requests : Quiet(q) => Quiet(q)'
    BY <1>2, <2>1 DEF Quiet
  <2>3. \A q \in Requests : q # r => pc'[q] = pc[q] /\ got'[q] = got[q]
    BY <1>2 DEF TypeOK
  <2>4. pc'[r] = "closing" /\ got'[r] = <<m>>
    BY <1>2 DEF TypeOK
  <2> QED BY <1>2, <1>3, <1>6, <2>1, <2>2, <2>3, <2>4 DEF SingleFile
<1> QED BY <1>3, <1>4, <1>5, <1>7

\* A handler takes the channel of the stream its message belongs to, or finds
\* none.
LEMMA HandleResponseStreamInv ==
  ASSUME TypeOK, StreamInv, NEW m \in net, HandleResponse(m)
  PROVE  StreamInv'
<1> USE DEF StreamInv
<1> DEFINE o == m.owner
           h == [msg |-> m, ch |-> pending[sid[o]]]
<1>1. /\ m \in Messages /\ o \in Requests /\ Honest(m) /\ sid[o] \in Ids
      /\ pc[o] # "idle"
  <2>1. m \in Messages /\ Honest(m)
    BY DEF TypeOK, OwnTraffic
  <2>2. o \in Requests /\ relay[o] # "none"
    BY <2>1 DEF Messages, Honest
  <2> QED BY <2>1, <2>2 DEF InStep, TypeOK
<1>2. pending[sid[o]] # NoChan => pending[sid[o]] = OpenChan(o)
  BY <1>1 DEF PendingExact, IdsDistinct, Holds, Registered
<1>3. /\ net' = net \ {m}
      /\ handlers' \subseteq handlers \union {h}
      /\ h \in handlers' \ handlers => pending[sid[o]] # NoChan
      /\ UNCHANGED <<nextStream, pc, sid, rchan, got, pending, buf, relay>>
  BY DEF HandleResponse, reqVars
<1>4. h.msg = m /\ h.ch = pending[sid[o]]
  OBVIOUS
<1>5. IdsDistinct' /\ PendingExact' /\ InStep'
  BY <1>3 DEF IdsDistinct, PendingExact, InStep, Holds, Registered
<1> HIDE DEF h
<1>6. OwnTraffic'
  <2>1. \A g \in handlers' : Honest(g.msg)' /\ g.ch = OpenChan(g.msg.owner)
    BY <1>1, <1>2, <1>3, <1>4 DEF OwnTraffic, Honest
  <2> QED BY <1>3, <2>1 DEF OwnTraffic, Honest
<1>7. SingleFile'
  <2> SUFFICES ASSUME NEW r \in Requests, MaxCopies[r] = 1
               PROVE  /\ pc[r] = "sending" => Quiet(r)'
                      /\ \A n \in net' : n.owner = r =>
                           /\ \A k \in net' : k.owner = r => k = n
                           /\ \A g \in handlers' : g.msg.owner # r
                           /\ buf[OpenChan(r)] = <<>>
                      /\ \A g \in handlers' : g.msg.owner = r =>
                           /\ \A k \in handlers' : k.msg.owner = r => k = g
                           /\ buf[OpenChan(r)] = <<>>
    BY <1>3 DEF SingleFile
  <2>1. CASE o = r
    BY <1>3, <1>4, <2>1 DEF SingleFile, Quiet
  <2>2. CASE o # r
    BY <1>3, <1>4, <2>2 DEF SingleFile, Quiet
  <2> QED BY <2>1, <2>2
<1> QED BY <1>5, <1>6, <1>7

\* A handler puts its message into the empty channel of its own stream.
LEMMA HandlerSendsStreamInv ==
  ASSUME TypeOK, StreamInv, NEW h \in handlers, HandlerSends(h)
  PROVE  StreamInv'
<1> USE DEF StreamInv
<1> DEFINE m == h.msg
           o == h.msg.owner
<1>1. m \in Messages /\ o \in Requests /\ Honest(m) /\ h.ch = OpenChan(o)
  BY DEF TypeOK, OwnTraffic, Handlers, Messages
<1>2. h.ch \in Channels /\ Cap(h.ch) = 1
  BY <1>1, ChannelFacts
<1>3. buf[h.ch] = <<>>
  <2>1. buf[h.ch] \in Seq(Messages) /\ Len(buf[h.ch]) < 1
    BY <1>2 DEF HandlerSends, TypeOK
  <2> QED BY <2>1
<1>4. /\ buf' = [buf EXCEPT ![h.ch] = <<m>>]
      /\ handlers' = handlers \ {h}
      /\ UNCHANGED <<nextStream, pc, sid, rchan, got, pending, relay, net>>
  BY <1>3 DEF HandlerSends, reqVars
<1>5. IdsDistinct' /\ PendingExact' /\ InStep'
  BY <1>4 DEF IdsDistinct, PendingExact, InStep, Holds, Registered
<1>6. \A c \in Channels : buf'[c] = IF c = h.ch THEN <<m>> ELSE buf[c]
  BY <1>2, <1>4 DEF TypeOK
<1>7. OwnTraffic'
  <2>1. ASSUME NEW c \in Channels, buf'[c] # <<>>
        PROVE  /\ buf'[c] = <<Head(buf'[c])>>
               /\ Honest(Head(buf'[c])) /\ c = OpenChan(Head(buf'[c]).owner)
    <3>1. CASE c = h.ch
      <4>1. buf'[c] = <<m>> /\ Head(buf'[c]) = m
        BY <1>6, <3>1
      <4> QED BY <1>1, <3>1, <4>1
    <3>2. CASE c # h.ch
      <4>1. buf'[c] = buf[c]
        BY <1>6, <3>2
      <4> QED BY <2>1, <4>1 DEF OwnTraffic
    <3> QED BY <3>1, <3>2
  <2> QED BY <1>4, <2>1 DEF OwnTraffic, Honest
<1>8. SingleFile'
  <2>1. \A r \in Requests : r # o => buf'[OpenChan(r)] = buf[OpenChan(r)]
    BY <1>1, <1>6, ChannelFacts
  <2> QED BY <1>4, <2>1 DEF SingleFile, Quiet
<1> QED BY <1>5, <1>7, <1>8

\* A handler that gives up takes its message with it.
LEMMA HandlerDropsStreamInv ==
  ASSUME TypeOK, StreamInv, NEW h \in handlers, HandlerDrops(h)
  PROVE  StreamInv'
<1> USE DEF StreamInv
<1>1. /\ handlers' = handlers \ {h}
      /\ UNCHANGED <<nextStream, pc, sid, rchan, got, pending, buf, relay, net>>
  BY DEF HandlerDrops, reqVars
<1>2. IdsDistinct' /\ PendingExact' /\ InStep'
  BY <1>1 DEF IdsDistinct, PendingExact, InStep, Holds, Registered
<1>3. OwnTraffic' /\ SingleFile'
  BY <1>1 DEF OwnTraffic, Honest, SingleFile, Quiet
<1> QED BY <1>2, <1>3

\* The exit relay answers when, without repetition, nothing else is under way.
LEMMA RelayStreamInv ==
  ASSUME TypeOK, StreamInv, NEW r \in Requests, NEW n \in 1..MaxCopies[r],
         NEW k \in {"connected", "refused", "data"}, Deliver(r, k, n),
         NEW x \in Relay, relay' = [relay EXCEPT ![r] = x],
         IF k = "data" THEN relay[r] = "request" /\ x = "answered"
                       ELSE relay[r] = "connect" /\ x = k,
         UNCHANGED <<reqVars, pending, buf, handlers>>
  PROVE  StreamInv'
<1> USE DEF StreamInv
<1>1. UNCHANGED <<nextStream, pc, sid, rchan, got, pending, buf, handlers>>
  BY DEF reqVars
<1>2. /\ net \subseteq net'
      /\ \A m \in net' \ net : /\ m \in Messages /\ m.owner = r /\ m.kind = k
                               /\ MaxCopies[r] = 1 =>
                                    m = [owner |-> r, kind |-> k, copy |-> 1]
  BY Delivered
<1>3. IdsDistinct' /\ PendingExact'
  BY <1>1 DEF IdsDistinct, PendingExact, Holds, Registered
<1>4. InStep'
  BY <1>1 DEF InStep, TypeOK
<1>5. ASSUME NEW m \in Messages, Honest(m)
      PROVE  Honest(m)' /\ (MaxCopies[r] = 1 => m.owner # r)
  BY <1>5 DEF Honest, Messages, TypeOK
<1>6. ASSUME NEW m \in net' \ net PROVE Honest(m)'
  BY <1>2 DEF Honest, TypeOK
<1>7. ASSUME NEW c \in Channels, buf[c] # <<>>
      PROVE  /\ Head(buf[c]) \in Messages /\ Honest(Head(buf[c]))
             /\ c = OpenChan(Head(buf[c]).owner)
  <2>1. buf[c] \in Seq(Messages)
    BY DEF TypeOK
  <2> QED BY <1>7, <2>1 DEF OwnTraffic
<1>8. OwnTraffic'
  <2>1. \A m \in net' : Honest(m)'
    BY <1>2, <1>5, <1>6 DEF OwnTraffic, TypeOK
  <2>2. \A h \in handlers' : Honest(h.msg)' /\ h.ch = OpenChan(h.msg.owner)
    BY <1>1, <1>5 DEF OwnTraffic, TypeOK, Handlers
  <2>3. ASSUME NEW c \in Channels, buf[c] # <<>> PROVE Honest(Head(buf[c]))'
    BY <1>1, <1>5, <1>7, <2>3
  <2> QED BY <1>1, <2>1, <2>2, <2>3 DEF OwnTraffic
<1>9. MaxCopies[r] = 1 => Quiet(r)
  <2> SUFFICES ASSUME MaxCopies[r] = 1 PROVE Quiet(r)
    OBVIOUS
  <2>1. \A m \in net : m.owner # r
    BY <1>5 DEF OwnTraffic, TypeOK
  <2>2. \A h \in handlers : h.msg.owner # r
    BY <1>5 DEF OwnTraffic, TypeOK, Handlers
  <2>3. buf[OpenChan(r)] = <<>>
    <3> SUFFICES ASSUME buf[OpenChan(r)] # <<>> PROVE FALSE
      OBVIOUS
    <3>1. OpenChan(r) \in Channels
      BY ChannelFacts
    <3>2. Head(buf[OpenChan(r)]) \in Messages /\ Honest(Head(buf[OpenChan(r)]))
          /\ OpenChan(r) = OpenChan(Head(buf[OpenChan(r)]).owner)
      BY <1>7, <3>1
    <3>3. Head(buf[OpenChan(r)]).owner \in Requests
      BY <3>2 DEF Messages
    <3> QED BY <1>5, <3>2, <3>3, ChannelFacts
  <2> QED BY <2>1, <2>2, <2>3 DEF Quiet
<1>10. pc[r] # "sending" \/ MaxCopies[r] # 1
  BY <1>5 DEF InStep
<1>11. SingleFile'
  <2> SUFFICES ASSUME NEW q \in Requests, MaxCopies[q] = 1
               PROVE  /\ pc[q] = "sending" => Quiet(q)'
                      /\ \A m \in net' : m.owner = q =>
                           /\ \A l \in net' : l.owner = q => l = m
                           /\ \A g \in handlers : g.msg.owner # q
                           /\ buf[OpenChan(q)] = <<>>
    BY <1>1 DEF SingleFile
  <2>1. CASE q = r
    BY <1>1, <1>2, <1>9, <1>10, <2>1 DEF Quiet
  <2>2. CASE q # r
    BY <1>1, <1>2, <2>2 DEF SingleFile, Quiet
  <2> QED BY <2>1, <2>2
<1> QED BY <1>3, <1>4, <1>8, <1>11

\* Every step preserves the invariant.
LEMMA NextIndInv == IndInv /\ [Next]_vars => IndInv'
<1> SUFFICES ASSUME IndInv, [Next]_vars PROVE IndInv'
  OBVIOUS
<1>1. TypeOK /\ TypeOK'
  BY NextTypeOK DEF IndInv
<1> SUFFICES ASSUME ~wrapped' PROVE StreamInv'
  BY <1>1 DEF IndInv
<1>2. ASSUME NEW r \in Requests, NextStreamID(r) PROVE StreamInv'
  <2>1. ~wrapped
    BY <1>1, <1>2, NewId, Zenon
  <2> QED BY <1>1, <1>2, <2>1, NextStreamIDStreamInv DEF IndInv
<1>3. ASSUME ~wrapped PROVE StreamInv
  BY <1>3 DEF IndInv
<1>4. ASSUME NEW r \in Requests,
             \/ Register(r) \/ SendConnect(r) \/ ConnectResponse(r) \/ OpenFails(r)
             \/ SendData(r) \/ RecvLoad(r) \/ RecvReturns(r) \/ Fails(r)
             \/ CloseStream(r)
      PROVE  StreamInv'
  <2>1. ~wrapped
    BY <1>4 DEF Register, SendConnect, ConnectResponse, OpenFails, SendData,
                RecvLoad, RecvReturns, Fails, CloseStream
  <2> QED BY <1>1, <1>3, <1>4, <2>1, RegisterStreamInv, SendConnectStreamInv,
             ConnectResponseStreamInv, DeleteStreamInv, SendDataStreamInv,
             RecvLoadStreamInv, RecvReturnsStreamInv, FailsStreamInv
<1>5. ASSUME NEW r \in Requests, NEW n \in 1..MaxCopies[r], RelayConnects(r, n)
      PROVE  StreamInv'
  <2>1. PICK k \in {"connected", "refused"} :
          relay' = [relay EXCEPT ![r] = k] /\ Deliver(r, k, n)
    BY <1>5 DEF RelayConnects
  <2>2. relay[r] = "connect" /\ UNCHANGED <<reqVars, pending, buf, handlers>> /\ ~wrapped
    BY <1>5 DEF RelayConnects, reqVars
  <2>3. k \in Relay /\ k \in {"connected", "refused", "data"} /\ k # "data"
    BY <2>1 DEF Relay
  <2> QED BY <1>1, <1>3, <2>1, <2>2, <2>3, RelayStreamInv
<1>6. ASSUME NEW r \in Requests, NEW n \in 1..MaxCopies[r], RelayResponds(r, n)
      PROVE  StreamInv'
  <2>1. ~wrapped
    BY <1>6 DEF RelayResponds, reqVars
  <2> QED BY <1>1, <1>3, <1>6, <2>1, RelayStreamInv DEF RelayResponds, Relay
<1>7. ASSUME NEW m \in net, HandleResponse(m) PROVE StreamInv'
  <2>1. ~wrapped
    BY <1>7 DEF HandleResponse, reqVars
  <2> QED BY <1>1, <1>3, <1>7, <2>1, HandleResponseStreamInv
<1>8. ASSUME NEW h \in handlers, HandlerSends(h) \/ HandlerDrops(h) PROVE StreamInv'
  <2>1. ~wrapped
    BY <1>8 DEF HandlerSends, HandlerDrops, reqVars
  <2> QED BY <1>1, <1>3, <1>8, <2>1, HandlerSendsStreamInv, HandlerDropsStreamInv
<1>9. CASE UNCHANGED vars
  BY <1>3, <1>9
  DEF vars, reqVars, StreamInv, IdsDistinct, PendingExact, InStep, OwnTraffic,
      SingleFile, Holds, Registered, Honest, Quiet
<1> QED BY <1>2, <1>4, <1>5, <1>6, <1>7, <1>8, <1>9 DEF Next, Quiescent

\* The invariant that the results below rest on.
LEMMA IndInvHolds == Spec => []IndInv
<1>1. Init => IndInv
  BY InitTypeOK, InitStreamInv DEF IndInv
<1> QED BY <1>1, NextIndInv, PTL DEF Spec

-----------------------------------------------------------------------------
(* The results.                                                            *)

\* OpenStream succeeds only after the exit relay confirmed this very stream.
THEOREM OpenIsConfirmed == Spec => []OpenMeansConfirmed
<1>1. IndInv => OpenMeansConfirmed
  BY DEF IndInv, StreamInv, InStep, OpenMeansConfirmed
<1> QED BY <1>1, IndInvHolds, PTL

\* c.pending holds exactly the streams in use and those that were refused:
\* no interleaving of closes, timeouts and registrations leaves another.
THEOREM PendingIsOwned == Spec => []PendingOwned
<1>1. IndInv => PendingOwned
  BY ChannelFacts DEF IndInv, StreamInv, PendingExact, PendingOwned, Holds
<1> QED BY <1>1, IndInvHolds, PTL

\* The channel of one slot that OpenStream makes loses no answer and returns
\* no stray confirmation, however many streams there are.
THEOREM OneSlotIsEnough == Spec => []OneSlotEnough
<1>1. IndInv => OneSlotEnough
  <2> SUFFICES ASSUME IndInv, ~wrapped PROVE OneSlotEnough
    BY DEF OneSlotEnough
  <2>1. \A r \in Requests : rchan[r] = OpenChan(r)
    BY DEF IndInv, StreamInv, PendingExact
  <2>2. ASSUME NEW h \in handlers, MaxCopies[h.msg.owner] = 1
        PROVE  Len(buf[h.ch]) < Cap(h.ch)
    <3>1. h.msg.owner \in Requests /\ h.ch = OpenChan(h.msg.owner)
      BY DEF IndInv, StreamInv, OwnTraffic, TypeOK, Handlers, Messages
    <3>2. buf[h.ch] = <<>> /\ Cap(h.ch) = 1
      BY <2>2, <3>1, ChannelFacts DEF IndInv, StreamInv, SingleFile
    <3> QED BY <3>2
  <2>3. \A r \in Requests : got[r] # <<>> /\ MaxCopies[r] = 1 => got[r][1].kind = "data"
    BY DEF IndInv, StreamInv, SingleFile
  <2> QED BY <2>1, <2>2, <2>3 DEF OneSlotEnough
<1> QED BY <1>1, IndInvHolds, PTL

-----------------------------------------------------------------------------
(* The refinement of ProxyClient.                                          *)

Stages  == [r \in Requests |-> Stage(r)]
Replies == [r \in Requests |-> IF got[r] = <<>> THEN "none" ELSE got[r][1].owner]

\* The stage that a value of the program counter stands for.
StageAt(p) ==
  CASE p \in {"idle", "register", "connect", "connecting"} -> "new"
    [] p = "sending" -> "open" [] p \in {"load", "receiving"} -> "sent"
    [] OTHER -> "over"

\* A request that moves on changes its own stage only.
LEMMA StageMoves ==
  ASSUME TypeOK, NEW r \in Requests, NEW p \in PC, pc' = [pc EXCEPT ![r] = p]
  PROVE  /\ Stages[r] = StageAt(pc[r])
         /\ Stages' = [Stages EXCEPT ![r] = StageAt(p)]
         /\ StageAt(pc[r]) = StageAt(p) => Stages' = Stages
<1>1. /\ Stages = [q \in Requests |-> StageAt(pc[q])]
      /\ Stages' = [q \in Requests |-> StageAt(pc'[q])]
  BY DEF Stages, Stage, StageAt
<1>2. \A q \in Requests : pc'[q] = IF q = r THEN p ELSE pc[q]
  BY DEF TypeOK
<1> QED BY <1>1, <1>2

\* The stages of the program counter's values.
LEMMA StageTable ==
  /\ \A p \in {"idle", "register", "connect", "connecting"} : StageAt(p) = "new"
  /\ StageAt("sending") = "open"
  /\ StageAt("load") = "sent" /\ StageAt("receiving") = "sent"
  /\ \A p \in {"closing", "done", "refused", "conflict"} : StageAt(p) = "over"
BY DEF StageAt

\* A step that keeps stages, replies and the wrap-around is a stutter.
LEMMA ContractStutters ==
  ASSUME Stages' = Stages, UNCHANGED <<got, wrapped>>
  PROVE  UNCHANGED Contract!vars
BY DEF Contract!vars, Stages

\* A request that gives up on its way is a failure in the contract.
LEMMA ContractFails ==
  ASSUME TypeOK, NEW r \in Requests, NEW p \in {"closing", "done", "refused", "conflict"},
         StageAt(pc[r]) \in {"new", "open", "sent"},
         pc' = [pc EXCEPT ![r] = p], UNCHANGED <<got, wrapped>>
  PROVE  Contract!Next
<1>1. Stages' = [Stages EXCEPT ![r] = "over"] /\ Stages[r] = StageAt(pc[r])
  <2>1. p \in PC
    BY DEF PC
  <2> QED BY <2>1, StageMoves, StageTable
<1>2. Contract!Fail(r)
  BY <1>1 DEF Contract!Fail, Contract!Move, Stages
<1> QED BY <1>2 DEF Contract!Next

\* The initial states of the streams are initial states of the contract.
LEMMA InitContract == Init => Contract!Init
BY DEF Init, Contract!Init, Contract!NoReply, Stage

\* Every step of the streams is a step of the contract or a stutter.
LEMMA NextContract == IndInv /\ [Next]_vars => [Contract!Next]_(Contract!vars)
<1> SUFFICES ASSUME IndInv, [Next]_vars
             PROVE  Contract!Next \/ UNCHANGED Contract!vars
  OBVIOUS
<1> USE StageTable DEF IndInv
<1>1. ASSUME NEW r \in Requests, NextStreamID(r)
      PROVE  Contract!Next \/ UNCHANGED Contract!vars
  <2>1. Stages' = Stages
    BY <1>1, StageMoves DEF NextStreamID, PC
  <2>2. CASE wrapped' = wrapped
    BY <1>1, <2>1, <2>2, ContractStutters DEF NextStreamID
  <2>3. CASE wrapped' = TRUE
    <3>1. Contract!Exhaust
      BY <1>1, <2>1, <2>3 DEF Contract!Exhaust, NextStreamID, Stages
    <3> QED BY <3>1 DEF Contract!Next
  <2> QED BY <1>1, <2>2, <2>3, NewId
<1>2. ASSUME NEW r \in Requests, Register(r)
      PROVE  Contract!Next \/ UNCHANGED Contract!vars
  <2>1. CASE pending[sid[r]] = NoChan
    <3>1. Stages' = Stages
      BY <1>2, <2>1, StageMoves DEF Register, PC
    <3> QED BY <1>2, <3>1, ContractStutters DEF Register
  <2>2. CASE pending[sid[r]] # NoChan
    BY <1>2, <2>2, ContractFails DEF Register
  <2> QED BY <2>1, <2>2
<1>3. ASSUME NEW r \in Requests, SendConnect(r) \/ RecvLoad(r) \/ CloseStream(r)
      PROVE  UNCHANGED Contract!vars
  <2>1. Stages' = Stages
    BY <1>3, StageMoves DEF SendConnect, RecvLoad, CloseStream, PC
  <2> QED BY <1>3, <2>1, ContractStutters DEF SendConnect, RecvLoad, CloseStream
<1>4. ASSUME NEW r \in Requests, OpenFails(r) \/ Fails(r) PROVE Contract!Next
  BY <1>4, ContractFails DEF OpenFails, Fails
<1>5. ASSUME NEW r \in Requests, ConnectResponse(r) PROVE Contract!Next
  <2>1. CASE pc' = [pc EXCEPT ![r] = "sending"]
    <3>1. Stages[r] = "new" /\ Stages' = [Stages EXCEPT ![r] = "open"]
      <4>1. pc[r] = "connecting" /\ "sending" \in PC
        BY <1>5 DEF ConnectResponse, PC
      <4> QED BY <2>1, <4>1, StageMoves
    <3>2. Contract!OpenStream(r)
      BY <1>5, <3>1 DEF ConnectResponse, Contract!OpenStream, Contract!Move, Stages
    <3> QED BY <3>2 DEF Contract!Next
  <2>2. CASE pc' = [pc EXCEPT ![r] = "refused"]
    BY <1>5, <2>2, ContractFails DEF ConnectResponse
  <2> QED BY <1>5, <2>1, <2>2 DEF ConnectResponse
<1>6. ASSUME NEW r \in Requests, SendData(r) PROVE Contract!Next
  <2>1. Stages[r] = "open" /\ Stages' = [Stages EXCEPT ![r] = "sent"]
    BY <1>6, StageMoves DEF SendData, PC
  <2>2. Contract!SendData(r)
    BY <1>6, <2>1 DEF SendData, Contract!SendData, Contract!Move, Stages
  <2> QED BY <2>2 DEF Contract!Next
<1>7. ASSUME NEW r \in Requests, RecvReturns(r) PROVE Contract!Next
  <2> DEFINE m == Head(buf[rchan[r]])
  <2>1. Stages[r] = "sent" /\ Stages' = [Stages EXCEPT ![r] = "over"]
    BY <1>7, StageMoves DEF RecvReturns, PC
  <2>2. buf[rchan[r]] \in Seq(Messages) /\ buf[rchan[r]] # <<>>
    BY <1>7 DEF RecvReturns, TypeOK
  <2>3. m \in Messages
    BY <2>2
  <2>4. PICK q \in Requests : q = m.owner
    BY <2>3 DEF Messages
  <2>5. q = r \/ wrapped
    <3> SUFFICES ASSUME ~wrapped PROVE q = r
      OBVIOUS
    <3>1. rchan[r] = OpenChan(r)
      BY DEF StreamInv, PendingExact
    <3>2. OpenChan(r) = OpenChan(q)
      BY <2>2, <2>4, <3>1, ChannelFacts DEF StreamInv, OwnTraffic
    <3> QED BY <3>2, ChannelFacts
  <2>6. Replies' = [Replies EXCEPT ![r] = q]
    <3>1. got' = [got EXCEPT ![r] = <<m>>]
      BY <1>7 DEF RecvReturns
    <3> HIDE DEF m
    <3> QED BY <2>4, <3>1 DEF Replies, TypeOK
  <2>7. wrapped' = wrapped
    BY <1>7 DEF RecvReturns
  <2>8. Contract!RecvData(r, q)
    BY <2>1, <2>5, <2>6, <2>7
    DEF Contract!RecvData, Contract!Move, Stages, Replies
  <2> QED BY <2>8 DEF Contract!Next
<1>8. ASSUME UNCHANGED reqVars PROVE UNCHANGED Contract!vars
  <2>1. Stages' = Stages
    BY <1>8 DEF reqVars, Stages, Stage
  <2> QED BY <1>8, <2>1, ContractStutters DEF reqVars
<1>9. ASSUME NEW r \in Requests, NEW n \in 1..MaxCopies[r],
             RelayConnects(r, n) \/ RelayResponds(r, n)
      PROVE  UNCHANGED Contract!vars
  BY <1>8, <1>9 DEF RelayConnects, RelayResponds
<1>10. ASSUME NEW m \in net, HandleResponse(m) PROVE UNCHANGED Contract!vars
  BY <1>8, <1>10 DEF HandleResponse
<1>11. ASSUME NEW h \in handlers, HandlerSends(h) \/ HandlerDrops(h)
       PROVE  UNCHANGED Contract!vars
  BY <1>8, <1>11 DEF HandlerSends, HandlerDrops
<1>12. CASE UNCHANGED vars
  BY <1>8, <1>12 DEF vars
<1> QED BY <1>1, <1>2, <1>3, <1>4, <1>5, <1>6, <1>7, <1>9, <1>10, <1>11, <1>12
        DEF Next, Quiescent

\* A circuit implements the interface ProxyClient: a reply was sent in answer
\* to the request that gets it, until stream ids have come around.
THEOREM StreamsImplementClient == Spec => ImplementsClient
<1>1. Spec => []IndInv
  BY IndInvHolds
<1> QED BY <1>1, InitContract, NextContract, PTL
        DEF Spec, ImplementsClient, Contract!Spec
=============================================================================
