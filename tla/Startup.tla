------------------------------- MODULE Startup ------------------------------
(***************************************************************************)
(* The life of the process, run() of cmd/main.go: flags and file are       *)
(* merged and checked, the resolvers start, a backend is made for the      *)
(* mode, the rotation goroutine and the server start, and a signal or an   *)
(* error of the server ends it all.  Composes Settings, ResolverInit,      *)
(* AdnlRecord and RotationTimer; requests and drains are in ProxyHandler,  *)
(* the build of a circuit in CircuitBuild: here it takes one step.         *)
(***************************************************************************)
EXTENDS Settings, ResolverInit, AdnlRecord, RotationTimer

CONSTANTS
  Inputs,    \* the command lines and files the process is started with
  Records,   \* for each TLD, the records its domains may have
  Randoms    \* what cryptorand yields, read as int64

\* --polygon-rpc is one flag for all of its TLDs, the mode flags are Booleans,
\* and "none" is no URL.
ASSUME InputsOK ==
  \A i \in Inputs : /\ \A t, u \in SharedTLDs : i.cli.rpc[t] = i.cli.rpc[u]
                    /\ DOMAIN i.cli = DOMAIN NoFlags
                    /\ DOMAIN i.file = DOMAIN EmptyFile
                    /\ {i.cli.auto, i.cli.direct} \subseteq {{}, {TRUE}, {FALSE}}
                    /\ "none" \notin i.cli.directory \union {i.file.directory}
ASSUME RecordsOK == /\ DOMAIN Records = TLDs
                    /\ \A t \in TLDs : Records[t] \subseteq RecordsOf(Kind[t])
ASSUME RandomsOK == Randoms \subseteq MinInt..MaxInt

VARIABLES
  phase,      \* how far run() has come
  input,      \* the command line and the file
  settings,   \* what they are merged into
  gate,       \* the ADNL gateway of circuit mode: none, started, closed
  dir,        \* the relay directory: none or the URL it was fetched from
  backend,    \* none, direct, circuit, closed
  lookup      \* a resolution for a request: its record and the host

runVars == <<phase, input, settings, gate, dir, backend, lookup>>
vars    == <<runVars, initVars, timerVars>>

NoLookup == [tld |-> "none", record |-> <<>>, host |-> NoAddress]

Init ==
  /\ phase = "config" /\ input \in Inputs
  /\ settings = Merged(NoFlags, EmptyFile)
  /\ gate = "none" /\ dir = "none" /\ backend = "none" /\ lookup = NoLookup
  /\ ResolversInit
  /\ rotateInterval = 0 /\ rot = "off" /\ delay = 0 /\ drawn = 0
  /\ ctxDone = FALSE

-----------------------------------------------------------------------------
(* Start-up.                                                               *)

\* The process has ended: by os.Exit(1) in start-up, which closes nothing, at
\* the end of shutdown, or by a panic.
Dead == phase \in {"failed", "stopped"} \/ rot = "panicked"

\* The file is read and merged.
LoadConfig ==
  /\ phase = "config"
  /\ IF input.file.readable
       THEN phase' = "checks" /\ settings' = Merged(input.cli, input.file)
       ELSE phase' = "failed" /\ UNCHANGED settings
  /\ UNCHANGED <<input, gate, dir, backend, lookup, initVars, timerVars>>

\* The rotation interval is checked; then signals are caught and the
\* resolvers started.
CheckRotation ==
  /\ phase = "checks"
  /\ IF Consistent(settings)
       THEN /\ phase' = "resolvers"
            /\ rotateInterval' = Interval(settings)
            /\ InitAll(settings.rpc, settings.disabled)
       ELSE phase' = "failed" /\ UNCHANGED <<rotateInterval, initVars>>
  /\ UNCHANGED <<input, settings, gate, dir, backend, lookup>>
  /\ UNCHANGED <<rot, delay, drawn, ctxDone>>

ResolverStep(t) ==
  /\ phase = "resolvers" /\ InitStep(t) /\ UNCHANGED <<runVars, timerVars>>

\* InitAll returns.  Direct mode is looked at before the others.
InitAllReturns ==
  /\ phase = "resolvers" /\ InitReturned
  /\ phase' = IF settings.direct THEN "direct" ELSE "gateway"
  /\ UNCHANGED <<input, settings, gate, dir, backend, lookup, initVars, timerVars>>

\* A step of start-up ends the process with an error message.
StartFails ==
  /\ phase \in {"direct", "gateway", "fetch", "build"}
  /\ phase' = "failed"
  /\ UNCHANGED <<input, settings, gate, dir, backend, lookup, initVars, timerVars>>

\* NewDirectClient: gateway, DHT, lite servers and DNS root, one after the
\* other; the client owns what it opens.
NewDirectClient ==
  /\ phase = "direct"
  /\ backend' = "direct" /\ phase' = "listen"
  /\ UNCHANGED <<input, settings, gate, dir, lookup, initVars, timerVars>>

\* gate.StartClient; then auto mode, or the three relays given by hand.
StartGateway ==
  /\ phase = "gateway"
  /\ gate' = "started"
  /\ phase' = IF settings.auto THEN "fetch"
              ELSE IF \A i \in 1..3 : RelayParses(settings.relays[i]) THEN "build"
              ELSE "failed"
  /\ UNCHANGED <<input, settings, dir, backend, lookup, initVars, timerVars>>

\* directory.Fetch: an empty URL is the default one.
Fetch ==
  /\ phase = "fetch"
  /\ dir' = IF settings.directory = "" THEN "default" ELSE settings.directory
  /\ phase' = "build"
  /\ UNCHANGED <<input, settings, gate, backend, lookup, initVars, timerVars>>

\* buildCircuitWithRetry, which needs a retry, or NewClientCircuit.
Build ==
  /\ phase = "build" /\ (settings.auto => settings.retries > 0)
  /\ backend' = "circuit" /\ phase' = "listen"
  /\ UNCHANGED <<input, settings, gate, dir, lookup, initVars, timerVars>>

\* The handler is made, the rotation goroutine and the server are started.
Listen ==
  /\ phase = "listen" /\ phase' = "serving"
  /\ IF rotateInterval > 0 /\ ~settings.direct
       THEN StartRotation ELSE UNCHANGED timerVars
  /\ UNCHANGED <<input, settings, gate, dir, backend, lookup, initVars>>

-----------------------------------------------------------------------------
(* Serving, rotation, shutdown.                                            *)

\* MultiResolver.Resolve: the resolver registered for the domain's suffix.
Resolve(t, r) ==
  CASE Kind[t] = "ens" -> ResolveENS(r) [] Kind[t] = "sid" -> ResolveSpaceID(r)
    [] Kind[t] = "sns" -> ResolveSNS(r) [] Kind[t] = "bns" -> ResolveBNS(r)
    [] Kind[t] = "ud"  -> ResolveUD(r)

\* A request for a domain of t that has record r; ResolveToADNL decodes what
\* the chain gave.  (ProxyHandler and ResolverCache have the rest of it.)
Lookup(t, r) ==
  /\ phase = "serving" /\ ~Dead /\ lookup = NoLookup /\ t \in resolvers
  /\ lookup' = [tld |-> t, record |-> r, host |->
       IF Resolve(t, r) = NoAddress THEN NoAddress ELSE HostOf(Resolve(t, r))]
  /\ UNCHANGED <<phase, input, settings, gate, dir, backend, initVars, timerVars>>

LookupDone ==
  /\ phase = "serving" /\ ~Dead /\ lookup # NoLookup
  /\ lookup' = NoLookup
  /\ UNCHANGED <<phase, input, settings, gate, dir, backend, initVars, timerVars>>

RotationStep ==
  /\ phase \in {"serving", "stopping"}
  /\ \/ \E r \in Randoms : Draw(r)
     \/ TimeRuns \/ TimerFires \/ Rotated \/ Cancelled
  /\ UNCHANGED <<runVars, initVars>>

\* SIGINT or SIGTERM, caught from the end of the checks on.
Signal ==
  /\ ~ctxDone /\ ~Dead /\ phase \notin {"config", "checks"}
  /\ ctxDone' = TRUE
  /\ UNCHANGED <<runVars, initVars, rotateInterval, rot, delay, drawn>>

\* Mutant: the main goroutine waits for the server only.
StopOnError ==
  /\ phase = "serving" /\ ~Dead /\ ~ctxDone
  /\ phase' = "stopping" /\ lookup' = NoLookup
  /\ UNCHANGED <<input, settings, gate, dir, backend, initVars, timerVars>>

\* The select of the main goroutine: the signal, or an error of the server
\* (a port that is in use).  Requests under way are in ProxyHandler.
Stop ==
  /\ phase = "serving" /\ ~Dead
  /\ phase' = "stopping" /\ lookup' = NoLookup
  /\ UNCHANGED <<input, settings, gate, dir, backend, initVars, timerVars>>

\* shutdown: the backend, the gateway, the resolvers, the shared client; then
\* run() returns, or exits after a server error.  There is one backend here:
\* replaced circuits that drain and a rotation under way are in ProxyHandler.
Shutdown ==
  /\ phase = "stopping" /\ ~Dead
  /\ backend' = "closed" /\ gate' = IF gate = "started" THEN "closed" ELSE gate
  /\ CloseResolvers
  /\ phase' = "stopped"
  /\ UNCHANGED <<input, settings, dir, lookup, timerVars>>

Ended == Dead /\ UNCHANGED vars

Next ==
  \/ LoadConfig \/ CheckRotation
  \/ \E t \in TLDs : ResolverStep(t) \/ \E r \in Records[t] : Lookup(t, r)
  \/ InitAllReturns \/ StartFails \/ NewDirectClient \/ StartGateway \/ Fetch
  \/ Build \/ Listen \/ LookupDone \/ RotationStep
  \/ Signal \/ Stop \/ Shutdown \/ Ended

Spec == Init /\ [][Next]_vars

\* The main goroutine gets on, each dial, fetch and build ends, and a signal
\* that has come is noticed; that one comes is not assumed.
Starting == \/ LoadConfig \/ CheckRotation \/ InitAllReturns \/ StartFails
            \/ NewDirectClient \/ StartGateway \/ Fetch \/ Build \/ Listen
FairSpec ==
  /\ Spec
  /\ WF_vars(Starting) /\ WF_vars(Shutdown) /\ WF_vars(ctxDone /\ Stop)
  /\ \A t \in TLDs : WF_vars(ResolverStep(t))

-----------------------------------------------------------------------------
(* Properties.                                                             *)

\* Traffic goes without a circuit only if the user asked for it: with --direct,
\* or with "mode: direct" in the file and no mode flag on the command line
\* (main.go:138-145, 281-291).
NoSilentDirect ==
  backend = "direct" =>
    \/ input.cli.direct = {TRUE}
    \/ /\ input.cli.direct = {} /\ input.cli.auto = {}
       /\ input.file.mode = "direct"

\* The rotation goroutine runs only where RotateCircuit has what it uses: a
\* gateway, a relay directory to draw from and a retry (main.go:187-194,
\* 384-386; handler.go:311-318).
RotationHasDirectory ==
  rot \notin {"off", "returned"} =>
    /\ gate # "none" /\ dir # "none" /\ settings.retries > 0
    /\ backend \in {"circuit", "closed"}

\* After an orderly shutdown nothing that was opened is left open: not the
\* gateway, not the client of a resolver, not the shared client (main.go:407-417).
CleanShutdown ==
  phase = "stopped" => live = {} /\ gate # "started" /\ backend = "closed"

\* The host a domain is resolved to is the address that its record stands
\* for.  Where the record is a text: with each way to write the prefix, and
\* every other text is an error.  Account data of .sol may be a text with
\* blanks or zero bytes around it, or raw bytes with zero bytes after them
\* (resolver.go:255-266, 286-305, 317-335; the Resolve methods).
RecordExact ==
  \A a \in Addresses : lookup # NoLookup =>
    IF Kind[lookup.tld] = "sns"
      THEN IsPayloadOf(lookup.record, a) => lookup.host = SerializeADNLAddress(a)
      ELSE lookup.host = SerializeADNLAddress(a)
             <=> TextIn(Kind[lookup.tld], lookup.record) \in TextsOf(a)

\* Start-up comes to an end, whichever endpoints answer: InitAll returns,
\* although goroutines wait for a mutex that is held while dialling.
StartupEnds == <>(phase \in {"serving", "stopping", "stopped", "failed"})

\* A signal ends the process, also during start-up, unless a panic of the
\* rotation goroutine does it first (main.go:201, 419-434).
SignalEnds == ctxDone ~> Dead

\* "If data is raw 32 bytes (not hex-encoded), convert to hex" (sns.go:110):
\* the bytes of other texts are not taken for an address.
RawOnlyIfRaw ==
  /\ lookup # NoLookup /\ Kind[lookup.tld] = "sns"
  /\ lookup.host # NoAddress
  => \E a \in Addresses : IsPayloadOf(lookup.record, a)
=============================================================================
