# tonnet-proxy: TLA+ models, checks and proofs

tonnet-proxy is a local HTTP proxy for TON sites.  A browser talks plain HTTP
to it; the proxy carries each request either through a circuit of three relays
with one layer of encryption per hop (`--auto`, or relays given by hand) or
straight to the site over RLDP (`--direct`).  Domains of other chains (.eth,
.sol, ...) are first resolved to an ADNL address.

This directory models the parts of the program that have state and
concurrency, checks them with TLC on small instances and proves every safety
property with TLAPS for every instance.

## 1. Inventory

| part | state | operations | works with |
|---|---|---|---|
| HTTP handler (`internal/proxy/handler.go`) | current backend and its WaitGroup under `backendMu`; per request: captured backend, WaitGroup, context | `ServeHTTP`, `StartRotation`, `RotateCircuit`, drain goroutine, `Backend` | backend interface, resolver, circuit builder |
| life cycle (`cmd/main.go`) | settings, signal context, server, gateway, directory, backend | `run()`: merge, checks, start of each part, signal, `server.Shutdown`, `shutdown()`, exit | all |
| rotation interval (`internal/proxy/handler.go`) | the timer of the rotation goroutine | `StartRotation` | handler, signal context |
| circuit construction (`cmd/main.go`, `internal/client/circuit.go`) | attempt, circuit id, shared keys | `buildCircuitWithRetry`, `NewClientCircuit`, `createCircuit`, `extendCircuit`, `extendCircuitViaRelay` | directory, relays |
| directory (`internal/directory`) | list of relays | `Fetch`, `FilterByRole`, `SelectCircuit`, `ToRelayInfo` | construction |
| circuit streams (`internal/client/circuit.go`) | `nextStream`, `pending` (sync.Map of channels) | `OpenStream`, `SendData`, `RecvData`, `CloseStream`, `HandleResponse` | handler, entry relay (callbacks) |
| chunk reassembly (same file) | `chunks` under `chunksMu` | `handleChunk` | streams, entry relay |
| direct client (`internal/direct/client.go`) | `streams`, `requestWg` | `OpenStream`, `SendData`, `processRequest`, `RecvData`, `CloseStream`, `Close` | handler, RLDP |
| resolution cache (`internal/resolver/resolver.go`) | `cacheMap` under `cacheMu` | `ResolveToADNL`, `evictIfNeeded`, `cleanupLoop`, `Close` | handler, chain resolvers |
| chain resolvers (`internal/resolver/*.go`) | RPC clients; one client shared by the Unstoppable Domains, with a mutex | `InitAll`, `NewResolver`, `Resolve`, `Close`, `CloseSharedUDClient` | RPC endpoints |
| address encoding (`internal/resolver/resolver.go`) | none | `ParseADNLAddress`, `SerializeADNLAddress` | chain resolvers, cache |
| configuration (`internal/config`, `cmd/main.go`) | flags and YAML file, read once | `Load`, the merge in `run()` | life cycle |
| backend interface (`internal/client/interface.go`) | none | `OpenStream`, `SendData`, `RecvData`, `CloseStream`, `Close` | handler; implemented by circuit and direct client |
| logger, protocol messages | types | | all |

Behaviour that is hard here: request goroutines against rotation, drains and
shutdown; response callbacks against opening, timing out and closing streams;
messages that are lost, late, out of order or repeated; a lock held during a
send that may block; a build of several remote steps any of which may fail
after the relay has acted; a key that handlers read while the build writes it;
check-then-act on the cache; a mutex held while endpoints are dialled; integer
arithmetic with a signed remainder; signals at any time.  `PROJECT.json` lists
these hazards at their lines, each with the properties that watch it.

What makes each part correct:

* handler and rotation: a circuit is not closed under a request that uses it,
  WaitGroups count right, every replaced circuit is closed in the end, a signal
  ends the process;
* streams: a request gets its own answer, no registration is lost or left;
* chunks: what is delivered is the whole response, memory is bounded, a stream
  without a reader does not stop the others;
* construction: layers that open in path order, each hop with a session of its
  own, every circuit that is given up torn down and no other, termination;
* cache: bounded (by one above its limit), fresh, evicts what expires first;
* direct client: own result, no fetch or stream left, `Close` returns;
* resolvers: one shared client, every chain started or warned of, an override
  that fails never replaced by a public endpoint, a record read as the address
  it means;
* life cycle: no traffic without a circuit unless asked for, rotation only with
  what it needs, start-up and a signal come to an end, shutdown leaves nothing
  open;
* rotation interval: a delay that is positive and in proportion.

## 2. Modules

| module | models | run modules and configurations |
|---|---|---|
| `ProxyHandler` | handler, rotation, drains, shutdown | `MCProxyHandler`: `ProxyHandler_pass`, `_exit` |
| `BackendLease` | abstract: what rotation promises | refined by `ProxyHandler` |
| `ProxyHandlerProofs` | theorems about `ProxyHandler` | |
| `ProxyClient` | abstract: what a backend promises `ServeHTTP` | refined by `CircuitStreams` and `DirectClient` |
| `CircuitStreams` | streams of a built circuit | `MCCircuitStreams`: `CircuitStreams_pass` |
| `CircuitStreamsProofs` | theorems about `CircuitStreams` | |
| `ChunkAssembly` | `handleChunk` | `MCChunkAssembly`: `ChunkAssembly_pass`, `_timeout` |
| `ChunkAssemblyProofs` | theorems about `ChunkAssembly` | |
| `CircuitBuild` | construction and selection of relays | `MCCircuitBuild`: `CircuitBuild_pass` |
| `CircuitBuildProofs` | theorems about `CircuitBuild` | |
| `ResolverCache` | the cache | `MCResolverCache`: `ResolverCache_pass` |
| `ResolverCacheProofs` | theorems about `ResolverCache` | |
| `DirectClient` | direct mode | `MCDirectClient`: `DirectClient_pass` |
| `DirectClientProofs` | theorems about `DirectClient` | |
| `Startup` | `run()`; composes the five below | `MCStartup`: `Startup_pass`, `_rpc`, `_jitter`, `_sns` |
| `ChainRegistry` | the registered chains (constants) | |
| `Settings` | flags and file, merge and checks (operators) | |
| `ResolverInit` | `InitAll`, constructors of the resolvers, shared client, closing | |
| `AdnlRecord` | records, texts and addresses (operators) | |
| `RotationTimer` | `StartRotation` | |
| `AdnlRecordProofs` | theorems about the operators of `AdnlRecord` | |
| `StartupProofs` | theorems about `Startup` and its parts | |

Each module says in its head comment what it abstracts.  Operators whose
comment begins with "Mutant:" are never part of `Next`: they are faulty
versions of the operator after them, kept to show that each property can fail.

### ProxyHandler

Each request is a goroutine with a program counter that follows `ServeHTTP`:
`resolving` (domain check and resolution), `opening`, `sending`, `receiving`
(the three backend calls) and `writing` (copy to the browser).  `Capture` is
the critical section under the read lock, with `wg.Add`; `Finish` is every way
out, with the deferred `wg.Done`; the locals of a request that is over are
forgotten (`Returns`), as is the timer of a drain that has ended.  `Swap` is the critical section of
`RotateCircuit`; `DrainEnds` and `DrainCloses` are the drain goroutine.
Circuits are numbered in the order in which they are built, and so are the
WaitGroups made with them.  `Signal`, `ShutdownReturns`, `ServerFails`,
`CloseResources` and `Exit` are the end of `run()`.

Timers count down.  `Tick` cannot happen while a request is in a backend call
and its time is up: every backend call selects on the request's context.
Copying the response is not bound by that context, nor is a resolution, so
both may take as long as they like.

`BackendLease` says it without WaitGroups or timers: requests lease the
current circuit, and a replaced one is closed when nobody holds it.  In the
refinement mapping a request holds a circuit while it is in a backend call, and
a circuit is closed once its drain has ended.

### CircuitStreams

The map `pending` is shared by request goroutines and by the response
handlers.  A handler takes two steps: it looks the channel up, then sends into
what it found, which by then may belong to a stream that is gone.  The relay
answers a connect and a request at most once each, and each answer is
delivered up to `MaxCopies` times in any order, or never.  Stream ids are
integers modulo `IdSpace` (2^32 in the code).

`ProxyClient` is the contract of the interface: a request opens, sends and gets
one reply, to itself, or fails.  The mapping takes the program counters to four
stages; a promise about replies ends when ids have come around (`wrapped`).

### ChunkAssembly

A chunk is a record of stream, index, total, size and circuit.  `exitKey` is
`SharedKeys[2]`: the handler is registered before it is written, without a
lock.  As long as it is unset nothing decrypts; a read during the write may see
the new length with a nil pointer and ends the process (`TornRead`).  If two
circuits have the same entry relay they have one peer, and the younger one's
handler gets what is left for the older one.  `HandleChunk` is one
critical section of `chunksMu` with all its early returns; when the response is
complete the handler keeps the lock (`sending`) until the channel takes the
response (`Dispatch`) or five seconds have passed (`Drop`).  `failed` is a
history variable that records why a response need not arrive.

### CircuitBuild

A shared key is the pair of the public keys it comes from, a ciphertext a
record that only its key opens.  A relay that accepts a message opens a
session, also when its answer is lost (`ExtendFails`).  Teardown is a message
without an answer whose send may fail, an error the code discards (`TearDown`),
and which may get lost on its way (`DestroyLost`); the history variable `lost`
has the circuits to which that happened.  A directory entry has the text of a
key and the key it decodes to, so that two spellings of one key are two entries.

### ResolverCache

Time is relative: an entry has the ticks left until `expiresAt` and the ticks
since its address was read on chain.  `Evicted(kept)` is `evictIfNeeded`, a
relation since several entries may be oldest and Go iterates maps in any order.

### Startup and its parts

`phase` follows `run()` from the flags to the exit.  The command line and the
file are chosen in `Init`; `Settings` merges them.  `CheckRotation` starts
`InitAll`, whose goroutines (`ResolverStep`) dial one endpoint per step while
the main goroutine waits for as many results as there are active chains.  A
dial succeeds or fails; a client is named by its URL and the TLD that dialled.
The eight TLDs of the Unstoppable Domains look for the shared client under its
mutex, and the one that finds none keeps the mutex while it dials.

Then `run()` makes the backend of the mode, or ends (`StartFails`), and serves:
`Lookup` reads a record of a chain that was registered and takes it through
the chain's `Resolve` and `ResolveToADNL` (`AdnlRecord`: texts are sequences of
characters of a small alphabet, a byte is a character, an address has
`ADNLAddressSize` bytes).  The rotation goroutine is `RotationTimer`, with
integers that wrap around at `MaxInt`, division that truncates and a remainder
with the sign of its dividend.  The requests themselves are in `ProxyHandler`,
the build of a circuit in `CircuitBuild`: here each takes one step.

### DirectClient

A stream object is named by the request it was made for; a worker is a
`processRequest` goroutine.  `CloseCalled` and `CloseReturns` are the two ends
of `Close`, which runs while requests that `server.Shutdown` gave up on go on.

## 3. Runs

Passing runs:

| run | bounds | shows |
|---|---|---|
| `handler` | 2 requests, 3 circuits, timeouts 1/2/1 | `RotationNeverClosesInUse`, `WaitGroupCounts`, `ReplacedAreDrained`, `NoLateJoin`, `RefinesLease` (implements `BackendLease`), `TypeOK` (a WaitGroup never below zero), `DrainTerminates`, `SignalTerminates` |
| `streams` | 3 requests, ids modulo 3 (the third wraps), answers to one of them up to 2 times | `TypeOK` (no stream has id 0, also after the wraparound), `OpenMeansConfirmed`, `PendingOwned`, `OneSlotEnough`, `ImplementsClient` (implements `ProxyClient`) |
| `chunks` | 2 streams, 8 chunks (3 of them invalid or oversized, one of an older circuit), 2 copies of the chunks of one stream | `Intact`, `SizeBounded`, `NoLeftover`, `OwnChunksOnly`, `EventuallyDelivered` |
| `cache_bounds` | 4 domains, 2 callers, limit 2 | `AtMostOneOver`, `Fresh`, `EvictsOldest`, `CachedForTTL` |
| `build_circuit` | 6 directory entries, two of them one relay, 3 attempts | `OnionOrder`, `NoOrphanSessions`, `BuildEnds` |
| `direct_client` | 3 requests, ids modulo 3 (wraps) | `NothingLeft`, `CloseTerminates`, `CloseWaits`, `ImplementsClient` |
| `startup` | 343 combinations of flags and file; 6 chains, of every kind, at most 4 of them at once, two with the shared client; 2 endpoints at most; addresses of 1 byte, about 400 records; integers of 11 bits, intervals 0, 1, 10, 17 and negative | `OneSharedClient`, `OverrideHonoured`, `AllReported`, `NoSilentDirect`, `RotationHasDirectory`, `CleanShutdown`, `RecordExact`, `DelayBounds`, `StartupEnds`, `SignalEnds` |

Why the bounds are enough to meet the interesting cases: three circuits are
two rotations, so two drains overlap and an older request meets a second
rotation; a request timeout one tick below the drain timeout is the
tightest the assumption `DrainOutlastsRequest` allows; two copies of each message are
enough for a repeat to come before, during and after the use of the original;
four domains and a cache of two reach the limit, the limit plus one and an
eviction with a choice; three attempts leave sessions of one build behind while
the next is under way; two TLDs on the shared client, with two endpoints, are
enough for one to wait while the other fails, fails over or succeeds; three hex
digits tell texts, prefixes and padding apart, and a random number only counts
by its remainder, all of which occur with both signs.

Runs that TLC is expected to refute: each checks one sentence of a comment in
the code, and the trace is a run of the program that contradicts it.

| run | sentence | what happens |
|---|---|---|
| `handler_exit` | main.go:407 "shutdown closes all backend resources" | a circuit being drained or just built gets no `CircuitDestroy` |
| `chunks_timeout` | circuit.go:522 "Enforce reassembly timeout" | nothing removes an assembler that gets no further chunk |
| `overrides` | resolver.go:205-206 "per-chain RPC overrides", "rpcOverrides maps TLD ... to a custom RPC URL" | the first TLD of the Unstoppable Domains that dials decides for all eight (unstoppable.go:34) |
| `rotation_jitter` | handler.go:290 "±jitterPercent% jitter" | the remainder of a negative number is negative: the delay may be a tenth of the interval |
| `records_sns` | sns.go:110 "If data is raw 32 bytes (not hex-encoded)" | a text of another length is taken for raw bytes |

Smaller disagreements between comment and code that have no run of their own:
"maxCacheEntries is the maximum number of entries in the resolution cache"
(resolver.go:88), but the cache may hold one more, since `evictIfNeeded` returns
at `len <= maxCacheEntries` and the store adds its entry afterwards
(resolver.go:135 and 306-311; `AtMostOneOver` states the bound that holds); an assembler may hold more chunks
than `maxChunkCount`, since only `TotalChunks` is compared with it
(circuit.go:46 and 498); a stream id that is already pending is an error
although the comment says that its channel is used (circuit.go:328);
`SelectCircuit` "selects 3 different relays" (directory.go:103) but compares the
text of keys, so that one key in two spellings counts as two relays
(directory.go:126; `OnionOrder` leaves such circuits out, `Respelled`); "tear
down established hops on partial failure" (circuit.go:84) is one attempt at a
message whose error is discarded (circuit.go:91; `NoOrphanSessions` says what
remains when it gets lost); `ParseADNLAddress` "accepts with or without 0x
prefix" (resolver.go:318) and also takes `0X` and `0x0X` (`HexPrefixes`); a
`StreamConnected` that is delivered twice may be returned as data
(circuit.go:392 and 404; `OneSlotEnough` excludes repeats); a caller that
read an expired entry deletes by key and may delete a fresh one
(resolver.go:269 and 282; `CachedForTTL` excludes that step); `SendData` of the
direct client may start a fetch after `Close` has waited (client.go:352 and
177; `CloseWaits` says what `Wait` does guarantee).

In the settings: "CLI flags override file values" (main.go:123) has exceptions
that `Settings` models and no run contradicts.  `--no-<tld>=false` does not
enable a chain that the file disables (main.go:243-249), `--eth-rpc ""` does
not remove an override of the file (main.go:212), and relays given by flag are
not used if the file says `mode: auto` or `direct`.  With both `--auto` and
`--direct` the proxy is direct.  The help text gives 10m as the default of `--rotate` (main.go:487); without the
flag there is no rotation.  An interval of 1 ns is accepted and panics at the
first draw, which `DelayBounds` excludes (`Sound`) and `SignalEnds` allows.

### Fairness

* `ProxyHandler`: timers fire (`Tick`), drains and the main goroutine run when
  they can, and a backend call ends when its context is done.  Nothing obliges
  a browser to send or to read, a resolution to end, a rotation to happen or an
  operator to send a signal.
* `ChunkAssembly`: a handler that holds the lock gets on (its send has a
  timer), a chunk that is not lost is handled, time passes.
* `CircuitBuild`: the loop runs on and every query returns, with an answer or
  an error.  The last part is an assumption about the ADNL library.
* `Startup`: the main goroutine gets on, every dial, fetch and build ends (each
  has a timeout, or is assumed to as in `CircuitBuild`), a signal that has come
  is noticed.  Nothing obliges an operator to send one.
* `DirectClient`: a fetch ends (its context or the client's 60 s timeout), and
  `Wait` returns at zero.

The other runs check safety only and assume no fairness.

## 4. Proofs

Every invariant and every action property that a passing run checks, the two
refinements of `ProxyClient` and the one of `BackendLease` are theorems of the
specification, for every value of the constants that satisfies the named
assumptions.  Each proof module has the same layout: the inductive invariant
`IndInv` as a conjunction of named parts, lemmas about the operators, one lemma
or step per action, and the theorems.  TLC checked each inductive invariant on
the run's instance before it was proved.

### ProxyHandlerProofs

For every finite set of requests, every number of circuits and all timeouts
(`RequestsFinite`, `MaxCircuitsPos`, `TimeoutsNat`, `DrainOutlastsRequest`):

| theorem | statement |
|---|---|
| `TypeCorrect` | `Spec => []TypeOK` |
| `IndInvHolds` | `Spec => []IndInv` |
| `CountsCorrect` | `Spec => []WaitGroupCounts` |
| `RotationSafe` | `Spec => []RotationNeverClosesInUse` |
| `ReplacedDrained` | `Spec => []ReplacedAreDrained` |
| `NoLateJoinHolds` | `Spec => NoLateJoin` |
| `ImplementsLease` | `Spec => RefinesLease` |

`RotationNeverClosesInUse` is not inductive.  A drain ends in one of two ways.
If the WaitGroup is at zero no request uses the circuit, provided that the
counter is the number of its members (`WaitGroupCounts`) and that circuit and
WaitGroup go together in handler, requests and drains (`Paired`).  If the two
minutes are over no request uses it either, since each one that does has less
time left than the drain (`DrainLeads`): it captured the circuit before the
swap, when the drain got the longer timeout, and from then on both clocks run
together.  That no request captures a circuit after its swap follows from the
order of rotation (`InOrder`).  `DrainOutlastsRequest` is what the
code's constants give (60 s and 2 min) and is needed: with equal timeouts a
request and the drain of its circuit may run out in the same tick.

### ResolverCacheProofs

For every finite set of domains, every set of callers, limit, lifetime and
delay (`DomainsFinite`, `CacheBounds`):

| theorem | statement |
|---|---|
| `TypeCorrect` | `Spec => []TypeOK` |
| `AgeInvHolds` | `Spec => []AgeInv` |
| `FreshHolds` | `Spec => []Fresh` |
| `SizeBounded` | `Spec => []AtMostOneOver` |
| `EvictsOldestHolds` | `Spec => EvictsOldest` |
| `CachedForTTLHolds` | `Spec => CachedForTTL` |

`Fresh` is not inductive: a caller checks a copy of an entry, taken before it
was checked.  `AgeInv` adds that an entry that has not expired, in the map or
copied, is no older than `TTL + StoreDelay` less the ticks it has left
(`Young`), and that a caller about to store has waited at most `StoreDelay`.
`AtMostOneOver` needs only that eviction removes one entry from a cache that is one
above its limit (`EvictedBound`) before one is added (`OneMore`); no other step
adds a domain (`FewerCached`).  `CachedForTTL` needs that a caller about to
delete has read an entry that is expired by now (`DeletingExpired`).

### CircuitStreamsProofs

For every set of requests, number of repeats, id space and capacity of the
channel (`IdSpaceOK`, `MaxCopiesOK`, `RecvCapOK`):

| theorem | statement |
|---|---|
| `TypeCorrect` | `Spec => []TypeOK` |
| `OpenIsConfirmed` | `Spec => []OpenMeansConfirmed` |
| `PendingIsOwned` | `Spec => []PendingOwned` |
| `OneSlotIsEnough` | `Spec => []OneSlotEnough` |
| `StreamsImplementClient` | `Spec => ImplementsClient` |

That no stream has id 0 (`ControlStreamFree`, a part of `TypeOK`) holds also
after the ids have come around: `nextStreamID` never yields 0
(`NextControlStreamFree`).  Until they do, `IndInv` says: requests have ids of their own, below
the counter (`IdsDistinct`); `pending` is a function of the program counters
(`PendingExact`); what the relay has answered goes with how far the request is
(`InStep`); whatever is in a channel, on its way or in the hands of a handler
came from the request whose id it has (`OwnTraffic`), and without repeats there
is one such thing at a time (`SingleFile`).  The handler that sends into a
channel it looked up earlier makes `OwnTraffic` necessary: the stream may be
gone by then, and its id must not be another's.

### DirectClientProofs

For every set of requests and id space (`IdSpaceOK`; `RequestsOK`: the value
that stands for "no stream" is no request):

| theorem | statement |
|---|---|
| `TypeCorrect` | `Spec => []TypeOK` |
| `LeavesNothing` | `Spec => []NothingLeft` |
| `CloseWaitsForFetches` | `Spec => CloseWaits` |
| `DirectImplementsClient` | `Spec => ImplementsClient` |

`IndInv` adds to the types that a worker belongs to a request that has sent
(`WorkersSent`), that a receiver has found a stream (`RecvFound`) and, until the
ids come around, that the map is a function of the program counters
(`MapExact`) and that a stream is only used by the request it was made for
(`NoCrossTalk`).

### CircuitBuildProofs

For every finite directory and number of attempts (`RelaysOK`, `RetriesOK`):

| theorem | statement |
|---|---|
| `TypeCorrect` | `Spec => []TypeOK` |
| `NoOrphans` | `Spec => []NoOrphanSessions` |
| `LayersOpenInOrder` | `Spec => []OnionOrder` |

Sessions carry the number of their attempt (`Numbered`); the hops under way were
accepted (`Going`); the client's keys are those of the hops reached, in order
(`KeysInOrder`), and the sessions of this attempt are exactly those of the same
hops (`SessionsMatch`).  `OnionOrder` follows from the last two: the key with
which a relay opens a layer is the key the client has for that hop.
That each hop has one session rests on the selection: hops have different texts,
and where no two of them are spellings of one key (`Respelled`) different keys.
A relay that is drawn twice would have two sessions of one circuit
(directory.go:126).  For `NoOrphanSessions` the invariant follows the
`CircuitDestroy` of each given-up attempt: under way, arrived, or lost; nothing
obliges it to arrive.

### ChunkAssemblyProofs

For every set of chunks on the wire, of whatever indices, totals and sizes,
every number of repeats and every limit (`LimitsOK`, `WireOK`):

| theorem | statement |
|---|---|
| `TypeCorrect` | `Spec => []TypeOK` |
| `NoForeignChunks` | `Spec => []OwnChunksOnly` |
| `SizesAreBounded` | `Spec => []SizeBounded` |
| `ReadsAreIntact` | `OneResponse` implies `Spec => []Intact` |
| `AssemblersEnd` | `EntireResponses` implies `Spec => []NoLeftover` |

An assembler in the map was made by, and holds, acceptable chunks of its stream
and misses an index of its response (`Held`): the test of `handleChunk` counts
chunks, and `AllOrMissing` shows that together with the loop over the indices
it is the test for a missing one.  `Intact` is carried from the send to the
channel to the reader (`MailInv`), `NoLeftover` by the relation between
deliveries and chunks held (`ProgressInv`).  That `totalSize` is the sum over
the chunks held (`SizesAdd`) needs what a fold over a finite set gives when an
element is added; it is proved from least counterexamples, without the
library's induction rules.

The two hypotheses are about the exit relay.  `OneResponse`: the chunks of a
stream that `handleChunk` accepts belong to one response, up to chunks with
indices outside of it.  With two responses on one stream no reassembly by index
could tell them apart.  `EntireResponses`: where each chunk comes once, they are
the whole response and besides only chunks with a negative total.  Both
are assumptions of `MCChunkAssembly`, so TLC evaluates them on the instance of
the runs.

### AdnlRecordProofs and StartupProofs

`AdnlRecordProofs` is about the operators alone, for every text and every size
of an address (`SizeOK`):

| theorem | statement |
|---|---|
| `ParseExact` | `ParseADNLAddress(s) = a <=> s \in TextsOf(a)` |
| `SerializeExact` | hosts of different addresses differ, and none is the failure |
| `SnsExact` | `ResolveSNS` reads every payload that stands for an address |

`SerializeExact` follows the bits: bit `k` of the text, checksum and prefix
included, is bit `(k - 1) % 5` of a base32 character, and all but the first
five bits are in characters that are not cut off.

`StartupProofs`, for every registry, set of inputs, endpoints and records,
integer width and percentage (`ChainsOK`, `RPCsOK`, `NamesOK`, `DurationsOK`,
`InputsOK`, `RecordsOK`, `RandomsOK`, `MaxIntOK`, `PercentOK`):

| theorem | statement |
|---|---|
| `SharedClientIsUnique` | `Spec => []OneSharedClient` |
| `OverridesAreHonoured` | `Spec => []OverrideHonoured` (not `OverridePerTLD`, see `overrides`) |
| `InitAllIsComplete` | `Spec => []AllReported` |
| `DelaysAreBounded` | `Spec => []DelayBounds` |
| `DirectOnlyIfAsked` | `Spec => []NoSilentDirect` |
| `RotationIsEquipped` | `Spec => []RotationHasDirectory` |
| `ShutdownIsClean` | `Spec => []CleanShutdown` |
| `RecordsAreExact` | `Spec => []RecordExact` (for .sol one direction; see `records_sns` for the other) |

The part for the resolvers: what a goroutine of `InitAll` has handed over goes
with its program counter (`Goroutines`); the mutex belongs to the one that
dials, and then there is no shared client (`MutexInv`); a client was dialled by
an active TLD, at an endpoint its configuration gives (`ClientsInv`); the Unstoppable Domains have
the shared client (`SharingInv`); a client that is open can still be closed by
somebody (`LiveInv`), which is what `CleanShutdown` needs at the end.  The part
for `run()`: settings are the merge of the input (`SettingsInv`), each phase
has what its predecessors started (`ModeInv`), and rotation runs only while
the process serves (`RotationInv`).  `DelayBounds` rests on four lemmas about
machine arithmetic (`WrapId`, `RemBounds`, `RangeExact`, `DelayInRange`): for a
sound interval no product wraps and the remainder stays within its range.
`RecordExact` needs no further invariant: a look-up is one step, and
`ResolvesTextIn` takes each chain's `Resolve` to the text its record gives.

The assumptions on inputs are facts of the program: a flag of type bool has a
value or is absent, the text "none" is no URL and no TLD (a TLD begins with a
dot), default endpoints are texts, at least one per chain and the same for all
Unstoppable Domains,
records are texts.

### Only model-checked

`DrainTerminates`, `SignalTerminates`, `EventuallyDelivered`, `BuildEnds`,
`CloseTerminates`, `StartupEnds` and `SignalEnds`: liveness under fairness,
which TLAPS 1.4.5 does not reason about.  The five runs that refute a comment
have nothing to prove.

## 5. Not modelled

* The tonutils-go library (ADNL, RLDP, DHT, TL): external, not in the
  repository; modelled by what the code relies on (a query returns, messages
  may be lost or repeated).  Whether a query to a silent relay returns at all is
  its affair (circuit.go:168), and `BuildEnds` assumes it.
* The relays: external, modelled from the messages the client sends and the
  answers it parses.
* RPC and HTTP calls to chains, the hash of a name, the pattern of a TXT
  record: the record they yield is an input of `Lookup`.
* Header cleaning, URL rewriting and HTTP serialization: data, no control.
* `internal/protocol`: declarations of TL messages; they are records in the
  modules that exchange them.  `internal/logger`, banner, messages.
* Plain answers (`HandleResponse`) of an older circuit through the same peer:
  `ChunkAssembly` has the case for chunks; plain answers fail in the same
  `decryptPayload` before they touch any state.

## 6. Plan

Every part of the program that has state is modelled, and every safety
property that a run checks is proved.  Left:

1. Bounds that hold and are only implicit so far, as properties with theorems:
   what stays in `pending` once stream ids have come around, how many sessions
   of given-up circuits can exist at once.
2. `ProxyHandler` and `Startup` composed: the shutdown of `run()` with requests
   and drains under way is in the first, the resources it closes are in the
   second.
