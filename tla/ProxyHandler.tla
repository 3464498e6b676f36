---------------------------- MODULE ProxyHandler ----------------------------
(***************************************************************************)
(* The HTTP handler of internal/proxy/handler.go together with the process *)
(* life cycle of cmd/main.go, in circuit mode: request goroutines that     *)
(* lease the current backend, the rotation goroutine that swaps it, one    *)
(* drain goroutine per replaced backend, and the shutdown sequence.        *)
(*                                                                         *)
(* Timers count down: a value is the number of ticks left.  A request that *)
(* is inside a backend call cannot outlive its context (handler.go:204),   *)
(* so RequestTimeout stands for requestTimeout plus the delay until the    *)
(* blocked call notices that its context is done.  Serializing the request *)
(* reads its body, which the server's ReadTimeout of 30 s bounds.          *)
(***************************************************************************)
EXTENDS Integers, FiniteSets

CONSTANTS
  Requests,         \* the HTTP requests, one goroutine each
  MaxCircuits,      \* bound: circuits built in the life of the process
  RequestTimeout,   \* handler.go:29, 60 s
  DrainTimeout,     \* handler.go:338, 2 min
  ShutdownTimeout   \* main.go:429, 10 s

ASSUME RequestsFinite == IsFiniteSet(Requests)
ASSUME MaxCircuitsPos == MaxCircuits \in Nat \ {0}
ASSUME TimeoutsNat    == /\ RequestTimeout \in Nat
                         /\ DrainTimeout \in Nat
                         /\ ShutdownTimeout \in Nat
ASSUME DrainOutlastsRequest == RequestTimeout < DrainTimeout

VARIABLES
  backend, backendWg,  \* ProxyHandler.backend and .backendWg, under backendMu
  built,               \* circuits 1..built exist, WaitGroups 1..built too
  wgCount,             \* counter of each WaitGroup
  pc, lease, leaseWg,  \* request: program counter, captured backend and wg
  left,                \* request: ticks left in its context
  rot,                 \* rotation goroutine
  drain,               \* drain goroutine of each replaced circuit
  destroys,            \* CircuitDestroy messages sent for each circuit
  main, mainLeft,      \* main goroutine, ticks left in its shutdown context
  closing,             \* what handler.Backend() returned to shutdown()
  ctxDone              \* the signal context is cancelled

leaseVars == <<backend, backendWg, wgCount, pc, lease, leaseWg, left>>
rotVars   == <<built, rot, drain>>
mainVars  == <<main, mainLeft, closing, ctxDone>>
vars == <<leaseVars, rotVars, destroys, mainVars>>

Circuits == 1..MaxCircuits
NoDrain  == [stage |-> "none", wg |-> 1, left |-> 0]
Drains   == [stage: {"none", "waiting", "closing", "closed"},
             wg: Circuits, left: 0..DrainTimeout]
PC == {"idle", "resolving", "opening", "sending", "receiving", "writing",
       "done"}

\* The request counts in its WaitGroup (between Add and the deferred Done).
InFlight(r) == pc[r] \in {"opening", "sending", "receiving", "writing"}

\* The request is in, or has yet to make, a call that needs the circuit:
\* OpenStream, SendData, RecvData.  While it copies the response to the
\* browser only CloseStream is left, which does not touch the network.
UsesBackend(r) == pc[r] \in {"opening", "sending", "receiving"}

Running  == main # "exited"      \* all goroutines end with the process
GateOpen == main \in {"serving", "stopping", "closing"}

Init ==
  /\ backend = 1 /\ backendWg = 1 /\ built = 1
  /\ wgCount = [w \in Circuits |-> 0]
  /\ pc = [r \in Requests |-> "idle"]
  /\ lease = [r \in Requests |-> 1] /\ leaseWg = [r \in Requests |-> 1]
  /\ left = [r \in Requests |-> 0]
  /\ rot = "sleeping"
  /\ drain = [c \in Circuits |-> NoDrain]
  /\ destroys = [c \in Circuits |-> 0]
  /\ main = "serving" /\ mainLeft = 0 /\ closing = 1 /\ ctxDone = FALSE

-----------------------------------------------------------------------------
(* ServeHTTP.                                                              *)

\* The server reads a request and calls the handler; the domain check and
\* the multi-chain resolution happen before a backend is captured.  On a
\* connection that is already open a request may still arrive after Shutdown
\* was called or the listener failed.
Accept(r) ==
  /\ Running /\ pc[r] = "idle"
  /\ pc' = [pc EXCEPT ![r] = "resolving"]
  /\ UNCHANGED <<backend, backendWg, wgCount, lease, leaseWg, left>>
  /\ UNCHANGED <<rotVars, destroys, mainVars>>

\* Unsupported domain, failed resolution or CONNECT: answered at once.
Reject(r) ==
  /\ Running /\ pc[r] = "resolving"
  /\ pc' = [pc EXCEPT ![r] = "done"]
  /\ UNCHANGED <<backend, backendWg, wgCount, lease, leaseWg, left>>
  /\ UNCHANGED <<rotVars, destroys, mainVars>>

\* Mutant: the request is not registered with the WaitGroup.
CaptureWithoutAdd(r) ==
  /\ Running /\ pc[r] = "resolving"
  /\ lease' = [lease EXCEPT ![r] = backend]
  /\ leaseWg' = [leaseWg EXCEPT ![r] = backendWg]
  /\ left' = [left EXCEPT ![r] = RequestTimeout]
  /\ pc' = [pc EXCEPT ![r] = "opening"]
  /\ UNCHANGED <<backend, backendWg, wgCount, rotVars, destroys, mainVars>>

\* backend, wg and wg.Add(1) under one read lock (handler.go:186-190).  The
\* context is made at handler.go:204: only local work lies between the two,
\* and RequestTimeout counts it in.
Capture(r) ==
  /\ Running /\ pc[r] = "resolving"
  /\ lease' = [lease EXCEPT ![r] = backend]
  /\ leaseWg' = [leaseWg EXCEPT ![r] = backendWg]
  /\ wgCount' = [wgCount EXCEPT ![backendWg] = @ + 1]
  /\ left' = [left EXCEPT ![r] = RequestTimeout]
  /\ pc' = [pc EXCEPT ![r] = "opening"]
  /\ UNCHANGED <<backend, backendWg, rotVars, destroys, mainVars>>

\* OpenStream, SendData, RecvData return without an error.
Advance(r) ==
  /\ Running /\ UsesBackend(r)
  /\ pc' = [pc EXCEPT ![r] = CASE pc[r] = "opening"   -> "sending"
                               [] pc[r] = "sending"   -> "receiving"
                               [] pc[r] = "receiving" -> "writing"]
  /\ UNCHANGED <<backend, backendWg, wgCount, lease, leaseWg, left>>
  /\ UNCHANGED <<rotVars, destroys, mainVars>>

\* ServeHTTP returns: its context is cancelled and its locals are gone.
Returns(r) ==
  /\ lease' = [lease EXCEPT ![r] = 1] /\ leaseWg' = [leaseWg EXCEPT ![r] = 1]
  /\ left' = [left EXCEPT ![r] = 0]

\* Mutant: Done on h.backendWg instead of the captured WaitGroup.
FinishCurrentWg(r) ==
  /\ Running /\ InFlight(r)
  /\ wgCount' = [wgCount EXCEPT ![backendWg] = @ - 1]
  /\ pc' = [pc EXCEPT ![r] = "done"]
  /\ Returns(r)
  /\ UNCHANGED <<backend, backendWg, rotVars, destroys, mainVars>>

\* Any error (502, 500), the context's deadline, or the end of the response:
\* the deferred CloseStream, cancel and wg.Done run.
Finish(r) ==
  /\ Running /\ InFlight(r)
  /\ wgCount' = [wgCount EXCEPT ![leaseWg[r]] = @ - 1]
  /\ pc' = [pc EXCEPT ![r] = "done"]
  /\ Returns(r)
  /\ UNCHANGED <<backend, backendWg, rotVars, destroys, mainVars>>

-----------------------------------------------------------------------------
(* StartRotation and RotateCircuit.                                        *)

RotationTimer ==
  /\ Running /\ rot = "sleeping"
  /\ rot' = "building"
  /\ UNCHANGED <<leaseVars, built, drain, destroys, mainVars>>

\* Error from buildCircuit: the current circuit is kept.
BuildFails ==
  /\ Running /\ rot = "building"
  /\ rot' = "sleeping"
  /\ UNCHANGED <<leaseVars, built, drain, destroys, mainVars>>

\* Every query of the build ran under the signal context.
BuildSucceeds ==
  /\ Running /\ rot = "building" /\ ~ctxDone /\ built < MaxCircuits
  /\ rot' = "built" /\ built' = built + 1
  /\ UNCHANGED <<leaseVars, drain, destroys, mainVars>>

\* Mutant: the new circuit keeps the WaitGroup of the old one.
SwapKeepsWg ==
  /\ Running /\ rot = "built"
  /\ backend' = built
  /\ drain' = [drain EXCEPT ![backend] =
                 [stage |-> "waiting", wg |-> backendWg, left |-> DrainTimeout]]
  /\ rot' = "sleeping"
  /\ UNCHANGED <<backendWg, wgCount, pc, lease, leaseWg, left, built>>
  /\ UNCHANGED <<destroys, mainVars>>

\* Mutant: oldBackend is read after the assignment of the new circuit.
SwapDrainsNew ==
  /\ Running /\ rot = "built"
  /\ backend' = built /\ backendWg' = built
  /\ drain' = [drain EXCEPT ![built] =
                 [stage |-> "waiting", wg |-> backendWg, left |-> DrainTimeout]]
  /\ rot' = "sleeping"
  /\ UNCHANGED <<wgCount, pc, lease, leaseWg, left, built, destroys, mainVars>>

\* Swap under the write lock, then start the drain goroutine.
Swap ==
  /\ Running /\ rot = "built"
  /\ backend' = built /\ backendWg' = built
  /\ drain' = [drain EXCEPT ![backend] =
                 [stage |-> "waiting", wg |-> backendWg, left |-> DrainTimeout]]
  /\ rot' = "sleeping"
  /\ UNCHANGED <<wgCount, pc, lease, leaseWg, left, built, destroys, mainVars>>

RotationStops ==
  /\ Running /\ rot = "sleeping" /\ ctxDone
  /\ rot' = "stopped"
  /\ UNCHANGED <<leaseVars, built, drain, destroys, mainVars>>

\* Mutant: the drain waits for the WaitGroup only.
DrainWithoutTimeout(c) ==
  /\ Running /\ drain[c].stage = "waiting"
  /\ wgCount[drain[c].wg] = 0
  /\ drain' = [drain EXCEPT ![c].stage = "closing",
                          ![c].left = 0]
  /\ UNCHANGED <<leaseVars, built, rot, destroys, mainVars>>

\* Mutant: the drain does not wait at all.
DrainWithoutWait(c) ==
  /\ Running /\ drain[c].stage = "waiting"
  /\ drain' = [drain EXCEPT ![c].stage = "closing",
                          ![c].left = 0]
  /\ UNCHANGED <<leaseVars, built, rot, destroys, mainVars>>

\* oldWg.Wait returns, or time.After(2 * time.Minute) fires.
DrainEnds(c) ==
  /\ Running /\ drain[c].stage = "waiting"
  /\ wgCount[drain[c].wg] = 0 \/ drain[c].left = 0
  /\ drain' = [drain EXCEPT ![c].stage = "closing",
                          ![c].left = 0]
  /\ UNCHANGED <<leaseVars, built, rot, destroys, mainVars>>

\* Close sends CircuitDestroy; once the gateway is closed the send fails.
Destroy(c) == destroys' = IF GateOpen THEN [destroys EXCEPT ![c] = @ + 1]
                                      ELSE destroys

DrainCloses(c) ==
  /\ Running /\ drain[c].stage = "closing"
  /\ Destroy(c)
  /\ drain' = [drain EXCEPT ![c].stage = "closed"]
  /\ UNCHANGED <<leaseVars, built, rot, mainVars>>

-----------------------------------------------------------------------------
(* main: signal, graceful shutdown, release of the resources, exit.        *)

Signal ==
  /\ main = "serving"
  /\ main' = "stopping" /\ ctxDone' = TRUE /\ mainLeft' = ShutdownTimeout
  /\ UNCHANGED <<leaseVars, rotVars, destroys, closing>>

\* Mutant: server.Shutdown with a context that has no deadline.
ShutdownWithoutTimeout ==
  /\ main = "stopping"
  /\ \A r \in Requests : pc[r] \in {"idle", "done"}
  /\ main' = "closing" /\ closing' = backend /\ mainLeft' = 0
  /\ UNCHANGED <<leaseVars, rotVars, destroys, ctxDone>>

\* server.Shutdown returns when no request is active or its context is done;
\* the context is no longer looked at; shutdown() then reads the backend through handler.Backend().
ShutdownReturns ==
  /\ main = "stopping"
  /\ mainLeft = 0 \/ \A r \in Requests : pc[r] \in {"idle", "done"}
  /\ main' = "closing" /\ closing' = backend /\ mainLeft' = 0
  /\ UNCHANGED <<leaseVars, rotVars, destroys, ctxDone>>

\* ListenAndServe failed: the same shutdown(), without a signal.
ServerFails ==
  /\ main = "serving"
  /\ main' = "closing" /\ closing' = backend
  /\ UNCHANGED <<leaseVars, rotVars, destroys, mainLeft, ctxDone>>

\* b.Close(), then gate.Close() and the resolvers.
CloseResources ==
  /\ main = "closing"
  /\ Destroy(closing)
  /\ main' = "released"
  /\ UNCHANGED <<leaseVars, rotVars, mainLeft, closing, ctxDone>>

Exit ==
  /\ main = "released"
  /\ main' = "exited"
  /\ UNCHANGED <<leaseVars, rotVars, destroys, mainLeft, closing, ctxDone>>

\* One unit of time: no backend call outlives its context.
Tick ==
  /\ Running
  /\ \A r \in Requests : UsesBackend(r) => left[r] > 0
  /\ left' = [r \in Requests |-> IF left[r] > 0 THEN left[r] - 1 ELSE 0]
  /\ drain' = [c \in Circuits |->
                 [drain[c] EXCEPT !.left = IF @ > 0 THEN @ - 1 ELSE 0]]
  /\ mainLeft' = IF mainLeft > 0 THEN mainLeft - 1 ELSE 0
  /\ UNCHANGED <<backend, backendWg, wgCount, pc, lease, leaseWg, built, rot>>
  /\ UNCHANGED <<destroys, main, closing, ctxDone>>

Terminated == ~Running /\ UNCHANGED vars

Next ==
  \/ \E r \in Requests : Accept(r) \/ Reject(r) \/ Capture(r)
                           \/ Advance(r) \/ Finish(r)
  \/ RotationTimer \/ BuildFails \/ BuildSucceeds \/ Swap \/ RotationStops
  \/ \E c \in Circuits : DrainEnds(c) \/ DrainCloses(c)
  \/ Signal \/ ShutdownReturns \/ ServerFails \/ CloseResources \/ Exit
  \/ Tick \/ Terminated

Spec == Init /\ [][Next]_vars

\* Timers fire and goroutines that can run do run.  A backend call returns
\* when its context is done; nothing obliges a client to send a request or to
\* read its response, a resolution to end or an operator to send a signal.
Fairness ==
  /\ WF_vars(Tick)
  /\ \A r \in Requests : WF_vars(Finish(r) /\ UsesBackend(r))
  /\ \A c \in Circuits : WF_vars(DrainEnds(c)) /\ WF_vars(DrainCloses(c))
  /\ WF_vars(ShutdownReturns) /\ WF_vars(CloseResources) /\ WF_vars(Exit)

FairSpec == Spec /\ Fairness

-----------------------------------------------------------------------------
(* Properties.                                                             *)

\* Every variable has its type: the type invariant of the handler's fields,
\* the goroutines' local variables and the timers.
TypeOK ==
  /\ backend \in Circuits /\ backendWg \in Circuits /\ built \in Circuits
  /\ wgCount \in [Circuits -> Nat]
  /\ pc \in [Requests -> PC]
  /\ lease \in [Requests -> Circuits] /\ leaseWg \in [Requests -> Circuits]
  /\ left \in [Requests -> 0..RequestTimeout]
  /\ rot \in {"sleeping", "building", "built", "stopped"}
  /\ drain \in [Circuits -> Drains]
  /\ destroys \in [Circuits -> Nat]
  /\ main \in {"serving", "stopping", "closing", "released", "exited"}
  /\ mainLeft \in 0..ShutdownTimeout
  /\ closing \in Circuits /\ ctxDone \in BOOLEAN

\* The requests that registered with WaitGroup w and have not left it.
Members(w) == {r \in Requests : InFlight(r) /\ leaseWg[r] = w}

\* Each WaitGroup counts exactly the requests that captured it and are still
\* running, whatever rotations happen meanwhile (handler.go:186-191, the
\* deferred Done, and the WaitGroup replaced by RotateCircuit): the counter
\* never goes negative, which panics, and never stays above zero.
WaitGroupCounts == \A w \in Circuits : wgCount[w] = Cardinality(Members(w))

\* RotateCircuit never closes a circuit that a request is still opening a
\* stream on, sending through or receiving from, even when the drain ends by
\* its two minutes and not by the WaitGroup (handler.go:183-185, 329-343).
RotationNeverClosesInUse ==
  \A c \in Circuits, r \in Requests :
    drain[c].stage \in {"closing", "closed"} /\ UsesBackend(r)
      => lease[r] # c

\* Exactly the circuits that rotation replaced have a drain goroutine: the
\* current one and the one about to be swapped in do not, so no rotation
\* forgets a circuit or takes down the one in service (handler.go:322-341).
ReplacedAreDrained ==
  \A c \in 1..built :
    drain[c].stage = "none" <=> c = backend \/ (rot = "built" /\ c = built)

\* A circuit and its WaitGroup go together, in the handler, in the requests
\* and in the drain goroutines.
Paired ==
  /\ backendWg = backend
  /\ \A r \in Requests : leaseWg[r] = lease[r]
  /\ \A c \in Circuits : drain[c].stage # "none" => drain[c].wg = c

\* Circuits replace each other in the order they were built, and requests
\* lease circuits that were or are current.
InOrder ==
  /\ built = IF rot = "built" THEN backend + 1 ELSE backend
  /\ \A r \in Requests : lease[r] <= backend
  /\ \A c \in Circuits : drain[c].stage = "none" <=> c >= backend

\* A request that uses a circuit being drained has less time left than the
\* drain: the reason why its two minutes never cut a request off.
DrainLeads ==
  \A c \in Circuits, r \in Requests :
    drain[c].stage = "waiting" /\ UsesBackend(r) /\ lease[r] = c
      => left[r] < drain[c].left

\* The inductive invariant behind RotationNeverClosesInUse: the counters, the
\* pairing, the order of rotation and the race of the timers together.
IndInv ==
  /\ TypeOK /\ WaitGroupCounts /\ Paired /\ InOrder /\ DrainLeads
  /\ RotationNeverClosesInUse

\* Once RotateCircuit has started to drain a WaitGroup no request joins it
\* (Add after Wait has started on a counter of zero is a misuse of
\* sync.WaitGroup): capture and swap exclude each other by backendMu.
NoLateJoin ==
  [][\A c \in Circuits : drain[c].stage # "none"
       => wgCount'[drain[c].wg] <= wgCount[drain[c].wg]]_vars

\* A replaced circuit is eventually closed, or the process ends, even if a
\* browser never reads its response (handler.go:336-341).
DrainTerminates ==
  \A c \in Circuits :
    drain[c].stage = "waiting" ~> drain[c].stage = "closed" \/ main = "exited"

\* After a signal the process ends, even if a request never does: a slow
\* browser, a resolution that hangs (main.go:427-434).
SignalTerminates == main = "stopping" ~> main = "exited"

\* "shutdown closes all backend resources in a deterministic order"
\* (main.go:407): when the process has ended, CircuitDestroy was sent for
\* every circuit it built.
AllClosedAtExit ==
  main = "exited" => \A c \in 1..built : destroys[c] > 0

\* The requests that use circuit c.
UsersOf(c) == {r \in Requests : UsesBackend(r) /\ lease[r] = c}

\* What rotation promises about circuits: see BackendLease.
Lease == INSTANCE BackendLease WITH
  Users   <- Requests,
  current <- backend,
  closed  <- {c \in Circuits : drain[c].stage \in {"closing", "closed"}},
  holds   <- [c \in Circuits |-> UsersOf(c)]

\* Every step of the handler, the rotation and the shutdown is a step of the
\* abstract lease of the backend or leaves it alone (handler.go:183-346).
RefinesLease == Lease!Spec
=============================================================================
