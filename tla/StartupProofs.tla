---------------------------- MODULE StartupProofs ---------------------------
(***************************************************************************)
(* Proofs about Startup and the components it is made of, ResolverInit,    *)
(* RotationTimer and AdnlRecord: for every set of chains and of inputs,    *)
(* every order of the goroutines, integers of every width and every record.*)
(***************************************************************************)
EXTENDS Startup, AdnlRecordProofs

-----------------------------------------------------------------------------
(* The arithmetic of the rotation delay.                                   *)

\* Wrap leaves a number of the type's range alone.
LEMMA WrapId == ASSUME NEW x \in MinInt..MaxInt PROVE Wrap(x) = x
BY MaxIntOK DEF Wrap, MinInt

\* A remainder is smaller than the divisor, whatever the dividend's sign.
LEMMA RemBounds ==
  ASSUME NEW a \in Int, NEW b \in Nat, b > 0
  PROVE  Rem(a, b) \in Int /\ -b < Rem(a, b) /\ Rem(a, b) < b
BY DEF Rem

\* Without overflow the range of the jitter is twice the percentage.
LEMMA RangeExact ==
  ASSUME NEW d \in Nat, d <= MaxInt \div (2 * jitterPercent)
  PROVE  /\ d * jitterPercent \in Nat /\ d <= d * jitterPercent
         /\ 2 * (d * jitterPercent) <= MaxInt
         /\ jitterRange(d) = (2 * (d * jitterPercent)) \div 100
<1> DEFINE p == d * jitterPercent
<1>1. jitterPercent \in Nat /\ jitterPercent > 0 /\ MaxInt \in Nat
  BY PercentOK, MaxIntOK
<1>2. p \in Nat /\ d <= p
  BY <1>1
<1>3. d * (2 * jitterPercent) <= MaxInt
  <2> DEFINE k == 2 * jitterPercent
             q == MaxInt \div k
  <2>1. k \in Nat /\ k > 0
    BY <1>1
  <2>2. q \in Nat /\ q * k <= MaxInt
    BY <1>1, <2>1
  <2>3. d * k <= q * k
    BY <2>1, <2>2
  <2> QED BY <2>1, <2>2, <2>3, <1>1
<1>4. d * (2 * jitterPercent) = 2 * p /\ (d * 2) * jitterPercent = 2 * p
  BY <1>1
<1>5. 2 * p <= MaxInt
  BY <1>3, <1>4
<1>6. d * 2 \in MinInt..MaxInt /\ 2 * p \in MinInt..MaxInt
  BY <1>1, <1>2, <1>5 DEF MinInt
<1>7. jitterRange(d) = Quo(2 * p, 100)
  BY <1>4, <1>6, WrapId DEF jitterRange
<1> QED BY <1>2, <1>5, <1>7 DEF Quo

\* The delay that is drawn for a sound interval: positive and bounded.
LEMMA DelayInRange ==
  ASSUME NEW d \in Int, Sound(d), NEW r \in Int
  PROVE  /\ d * (100 - 3 * jitterPercent) < 100 * Delay(d, r)
         /\ 100 * Delay(d, r) < d * (100 + jitterPercent)
<1> DEFINE p == d * jitterPercent
           j == jitterRange(d)
           m == Rem(r, j)
           e == d - p \div 100
<1>1. d \in Nat /\ d > 0 /\ d <= MaxInt \div (2 * jitterPercent) /\ j > 0
  BY DEF Sound
<1>2. p \in Nat /\ d <= p /\ 2 * p <= MaxInt /\ j = (2 * p) \div 100
  BY <1>1, RangeExact
<1>3. j \in Nat /\ 100 * j <= 2 * p
  BY <1>2
<1>4. m \in Int /\ -j < m /\ m < j
  BY <1>1, <1>3, RemBounds
<1>5. e \in Int /\ 100 * e >= 100 * d - p /\ 100 * e <= 100 * d - p + 99
  BY <1>1, <1>2
<1>6. jitterPercent \in Nat /\ jitterPercent <= 33 /\ MaxInt \in Nat
  BY PercentOK, MaxIntOK
<1>7. p <= 33 * d
  BY <1>1, <1>6
<1>8. p \in MinInt..MaxInt /\ e \in MinInt..MaxInt /\ e + m \in MinInt..MaxInt
  BY <1>1, <1>2, <1>3, <1>4, <1>5, <1>6, <1>7 DEF MinInt
<1>9. Delay(d, r) = e + m
  <2>1. Quo(p, 100) = p \div 100
    BY <1>2 DEF Quo
  <2>2. Wrap(d - Quo(Wrap(p), 100)) = e
    BY <1>8, <2>1, WrapId
  <2> QED BY <1>8, <2>2, WrapId DEF Delay
<1>10. /\ d * (100 - 3 * jitterPercent) = 100 * d - 3 * p
       /\ d * (100 + jitterPercent) = 100 * d + p
  BY <1>1, <1>6
<1> HIDE DEF p, j, m, e
<1> QED BY <1>1, <1>2, <1>3, <1>4, <1>5, <1>9, <1>10

-----------------------------------------------------------------------------
(* The inductive invariant.                                                *)

\* run() has not got to InitAll; it has not made a backend; InitAll is over.
BeforeInit    == {"config", "checks"}
BeforeBackend == {"config", "checks", "resolvers", "direct", "gateway", "fetch",
                  "build", "failed"}
AfterInit     == {"direct", "gateway", "fetch", "build", "listen", "serving",
                  "stopping", "stopped"}

\* The goroutines of InitAll and what they have handed over.
Goroutines ==
  /\ init \in [TLDs -> {"off", "started", "dialling", "resolver", "warning", "collected"}]
  /\ DOMAIN client = TLDs /\ DOMAIN urls = TLDs
  /\ active \subseteq TLDs /\ \A t \in TLDs : init[t] # "off" <=> t \in active
  /\ resolvers \union warnings = {t \in TLDs : init[t] = "collected"}
  /\ resolvers \intersect warnings = {}

\* The mutex is held by the one Unstoppable Domains goroutine that dials, and
\* nobody dials when there is a client.
MutexInv ==
  /\ \A t \in SharedTLDs : init[t] = "dialling" => muHolder = t
  /\ \/ muHolder = Nobody
     \/ /\ muHolder \in SharedTLDs /\ init[muHolder] = "dialling"
        /\ sharedUDClient = NoClient

\* A client was dialled by an active TLD, at an endpoint of its own.
Dialled(c) == c.tld \in active /\ c.url \in Configured(c.tld)

\* The clients that resolvers have, and the shared one.
ClientsInv ==
  /\ \A t \in TLDs : client[t] # NoClient <=> init[t] = "resolver" \/ t \in resolvers
  /\ \A t \in TLDs : client[t] # NoClient =>
       /\ Dialled(client[t])
       /\ IF t \in SharedTLDs THEN client[t].tld \in SharedTLDs
                              ELSE client[t].tld = t
  /\ sharedUDClient # NoClient =>
       Dialled(sharedUDClient) /\ sharedUDClient.tld \in SharedTLDs
  /\ \A t \in TLDs : init[t] = "dialling"
                       => urls[t] \in Seq(Configured(t)) /\ urls[t] # <<>>

\* The resolvers of the Unstoppable Domains have the shared client, which
\* is forgotten at the end.
SharingInv ==
  /\ \A t, u \in SharedTLDs :
       client[t] # NoClient /\ client[u] # NoClient => client[t] = client[u]
  /\ phase # "stopped" =>
       \A t \in SharedTLDs : client[t] # NoClient => client[t] = sharedUDClient

\* What is open is the shared client or belongs to a resolver with a Close.
LiveInv ==
  \A c \in live : c # NoClient /\ (c = sharedUDClient \/ \E t \in ClosableTLDs : c = client[t])

ResolversInv == Goroutines /\ MutexInv /\ ClientsInv /\ SharingInv /\ LiveInv

\* The settings are those of the input, and were checked.
SettingsInv ==
  /\ phase \in {"config", "checks", "resolvers", "failed"} \union AfterInit
  /\ input \in Inputs
  /\ phase \notin {"config", "failed"} => settings = Merged(input.cli, input.file)
  /\ phase \notin BeforeInit \union {"failed"} =>
       Consistent(settings) /\ rotateInterval = Interval(settings)
  /\ phase \in BeforeInit => active = {}
  /\ phase \in AfterInit => InitReturned

\* The backend is that of the mode, with what it needs.
ModeInv ==
  /\ phase = "direct" => settings.direct
  /\ phase \in {"gateway", "fetch", "build"} => ~settings.direct
  /\ phase = "fetch" => settings.auto
  /\ phase \in {"fetch", "build"} => gate = "started"
  /\ phase = "build" /\ settings.auto => dir # "none"
  /\ phase \in BeforeBackend => backend = "none"
  /\ phase \in {"listen", "serving", "stopping"} =>
       \/ backend = "direct" /\ settings.direct
       \/ /\ backend = "circuit" /\ gate = "started"
          /\ settings.auto => dir # "none" /\ settings.retries > 0

\* The rotation goroutine runs while the process serves.
RotationInv ==
  /\ rot # "off" => phase \in {"serving", "stopping", "stopped"}
  /\ RotationHasDirectory /\ DelayBounds

IndInv == /\ ResolversInv /\ SettingsInv /\ ModeInv /\ RotationInv
          /\ CleanShutdown

-----------------------------------------------------------------------------
(* The resolvers' part.                                                    *)

\* InitAll returns when every goroutine has reported.
LEMMA ReportedAll == Goroutines /\ MutexInv => AllReported
<1> SUFFICES ASSUME Goroutines, MutexInv, InitReturned PROVE AllReported!2
  BY DEF AllReported
<1>1. resolvers \union warnings \subseteq active
  BY DEF Goroutines
<1>2. IsFiniteSet(active)
  BY FS_Subset, ChainsOK DEF Goroutines
<1>3. IsFiniteSet(resolvers) /\ IsFiniteSet(warnings) /\ IsFiniteSet(resolvers \union warnings)
  BY <1>1, <1>2, FS_Subset
<1>4. Cardinality(resolvers \union warnings) = Cardinality(resolvers) + Cardinality(warnings)
  <2>1. Cardinality(resolvers \intersect warnings) = 0
    BY FS_EmptySet DEF Goroutines
  <2>2. Cardinality(resolvers) \in Nat /\ Cardinality(warnings) \in Nat
    BY <1>3, FS_CardinalityType
  <2> QED BY <1>3, <2>1, <2>2, FS_Union
<1>5. resolvers \union warnings = active
  BY <1>1, <1>2, <1>4, FS_Subset DEF InitReturned
<1>6. \A t \in active : init[t] = "collected"
  BY <1>5 DEF Goroutines
<1>7. muHolder = Nobody
  BY <1>6 DEF MutexInv, Goroutines, SharedTLDs
<1> QED BY <1>5, <1>6, <1>7 DEF Goroutines

\* No resolver has been started.
LEMMA InitResolvers == Init => ResolversInv
<1> SUFFICES ASSUME Init PROVE ResolversInv
  OBVIOUS
<1> USE DEF Init, ResolversInit
<1>1. Goroutines
  BY DEF Goroutines
<1>2. MutexInv /\ ClientsInv
  BY DEF MutexInv, ClientsInv, SharedTLDs
<1>3. SharingInv /\ LiveInv
  BY DEF SharingInv, LiveInv, SharedTLDs
<1> QED BY <1>1, <1>2, <1>3 DEF ResolversInv

\* InitAll starts the goroutines: before it nothing was dialled.
LEMMA StartResolvers ==
  ASSUME ResolversInv, active = {}, phase \in BeforeInit, phase' # "stopped",
         NEW overrides, NEW disabled, InitAll(overrides, disabled)
  PROVE  ResolversInv'
<1> USE DEF ResolversInv
<1>1. \A t \in TLDs : init[t] = "off"
  BY DEF Goroutines
<1>2. resolvers = {} /\ warnings = {} /\ muHolder = Nobody
  BY <1>1 DEF Goroutines, MutexInv, SharedTLDs
<1>3. (\A t \in TLDs : client[t] = NoClient) /\ sharedUDClient = NoClient
  BY <1>1, <1>2 DEF ClientsInv, Dialled
<1>4. live = {}
  BY <1>3 DEF LiveInv, ClosableTLDs
<1>5. \A t \in TLDs : init'[t] \in {"off", "started"}
  BY DEF InitAll
<1>6. Goroutines'
  BY <1>2 DEF InitAll, Goroutines
<1>7. MutexInv' /\ SharingInv' /\ LiveInv'
  BY <1>2, <1>3, <1>4, <1>5 DEF InitAll, MutexInv, SharingInv, LiveInv, SharedTLDs
<1>8. ClientsInv'
  BY <1>2, <1>3, <1>5 DEF InitAll, ClientsInv
<1> QED BY <1>6, <1>7, <1>8

\* A goroutine dials what the configuration gives it, one endpoint at least.
LEMMA EndpointsConfigured ==
  ASSUME NEW t \in TLDs
  PROVE  Endpoints(t) \in Seq(Configured(t)) /\ Endpoints(t) # <<>>
<1>1. CASE rpcOverrides[t] # ""
  <2>1. <<rpcOverrides[t]>> \in Seq({rpcOverrides[t]}) /\ <<rpcOverrides[t]>> # <<>>
    OBVIOUS
  <2> QED BY <1>1, <2>1 DEF Endpoints, Configured
<1>2. CASE rpcOverrides[t] = ""
  <2> DEFINE s == DefaultRPCs[t]
             D == {s[i] : i \in DOMAIN s}
  <2>1. s \in Seq(STRING) /\ s # <<>>
    BY RPCsOK
  <2>2. s \in [1..Len(s) -> D] /\ Len(s) \in Nat
    BY <2>1
  <2>3. s \in Seq(D)
    BY <2>2, IsASeq
  <2> QED BY <1>2, <2>1, <2>3 DEF Endpoints, Configured
<1> QED BY <1>1, <1>2

\* After InitAll has been called the configuration does not change.
LEMMA ConfiguredKept ==
  ASSUME UNCHANGED rpcOverrides PROVE \A u : Configured(u)' = Configured(u)
BY DEF Configured

\* A goroutine of a chain with a client of its own starts to dial.
LEMMA NewResolverStep ==
  ASSUME ResolversInv, UNCHANGED phase, NEW t \in TLDs, NewResolver(t)
  PROVE  ResolversInv'
<1> USE DEF ResolversInv, NewResolver
<1>1. Goroutines'
  BY DEF Goroutines
<1>2. MutexInv'
  BY DEF MutexInv, Goroutines, SharedTLDs
<1>3. ClientsInv'
  <2>1. Endpoints(t) \in Seq(Configured(t)) /\ Endpoints(t) # <<>>
    BY EndpointsConfigured
  <2> QED BY <2>1, ConfiguredKept DEF ClientsInv, Goroutines, Dialled
<1>4. SharingInv' /\ LiveInv'
  BY DEF SharingInv, LiveInv
<1> QED BY <1>1, <1>2, <1>3, <1>4

\* A goroutine of the Unstoppable Domains gets the mutex: it finds the client
\* and returns, or it will dial.
LEMMA GetSharedStep ==
  ASSUME ResolversInv, phase # "stopped", UNCHANGED phase,
         NEW t \in TLDs, getSharedUDClient(t)
  PROVE  ResolversInv'
<1> USE DEF ResolversInv
<1>1. /\ init[t] = "started" /\ t \in SharedTLDs /\ muHolder = Nobody
      /\ UNCHANGED <<rpcOverrides, active, sharedUDClient, live, resolvers, warnings>>
  BY DEF getSharedUDClient
<1>2. t \notin resolvers /\ client[t] = NoClient
  BY <1>1 DEF Goroutines, ClientsInv
<1>3. \A u \in ClosableTLDs : u # t
  BY <1>1 DEF ClosableTLDs, SharedTLDs
<1>4. CASE sharedUDClient # NoClient
  <2>1. /\ init' = [init EXCEPT ![t] = "resolver"]
        /\ client' = [client EXCEPT ![t] = sharedUDClient]
        /\ UNCHANGED <<urls, muHolder>>
    BY <1>4 DEF getSharedUDClient
  <2>2. Goroutines' /\ MutexInv'
    BY <1>1, <2>1 DEF Goroutines, MutexInv, SharedTLDs
  <2>3. ClientsInv'
    BY <1>1, <1>4, <2>1, ConfiguredKept DEF ClientsInv, Goroutines, Dialled, SharedTLDs
  <2>4. SharingInv'
    BY <1>1, <1>4, <2>1 DEF SharingInv, Goroutines, SharedTLDs
  <2>5. LiveInv'
    BY <1>1, <1>3, <2>1 DEF LiveInv, Goroutines, ClosableTLDs
  <2> QED BY <2>2, <2>3, <2>4, <2>5
<1>5. CASE sharedUDClient = NoClient
  <2>1. /\ init' = [init EXCEPT ![t] = "dialling"]
        /\ urls' = [urls EXCEPT ![t] = Endpoints(t)] /\ muHolder' = t
        /\ UNCHANGED client
    BY <1>5 DEF getSharedUDClient
  <2>2. Goroutines' /\ MutexInv'
    BY <1>1, <1>5, <2>1, NamesOK DEF Goroutines, MutexInv, SharedTLDs
  <2>3. ClientsInv'
    <3>1. Endpoints(t) \in Seq(Configured(t)) /\ Endpoints(t) # <<>>
      BY EndpointsConfigured
    <3> QED BY <1>1, <2>1, <3>1, ConfiguredKept DEF ClientsInv, Goroutines, Dialled
  <2>4. SharingInv' /\ LiveInv'
    BY <1>1, <2>1 DEF SharingInv, LiveInv
  <2> QED BY <2>2, <2>3, <2>4
<1> QED BY <1>4, <1>5

\* An endpoint answers: the resolver has its client, and for the Unstoppable
\* Domains it is the first one, since the mutex was kept.
LEMMA DialSucceedsStep ==
  ASSUME ResolversInv, phase # "stopped", UNCHANGED phase,
         NEW t \in TLDs, DialSucceeds(t)
  PROVE  ResolversInv'
<1> USE DEF ResolversInv
<1> DEFINE c == [tld |-> t, url |-> Head(urls[t])]
<1>1. /\ init[t] = "dialling"
      /\ client' = [client EXCEPT ![t] = c]
      /\ live' = IF t \in SharedTLDs \union ClosableTLDs THEN live \union {c} ELSE live
      /\ sharedUDClient' = IF t \in SharedTLDs THEN c ELSE sharedUDClient
      /\ muHolder' = Unlocked(t)
      /\ init' = [init EXCEPT ![t] = "resolver"]
      /\ urls' = [urls EXCEPT ![t] = <<>>]
      /\ UNCHANGED <<rpcOverrides, active, resolvers, warnings>>
  BY DEF DialSucceeds
<1>2. t \notin resolvers /\ client[t] = NoClient /\ t \in active
  BY <1>1 DEF Goroutines, ClientsInv
<1>3. c.tld = t /\ c # NoClient /\ Dialled(c)
  <2>1. c.tld = t /\ c # NoClient
    BY NamesOK DEF NoClient
  <2>2. c.url \in Configured(t)
    <3>1. urls[t] \in Seq(Configured(t)) /\ urls[t] # <<>>
      BY <1>1 DEF ClientsInv
    <3>2. Head(urls[t]) \in Configured(t)
      BY <3>1
    <3> QED BY <3>2
  <2> QED BY <1>2, <2>1, <2>2 DEF Dialled
<1> HIDE DEF c
<1>4. t \in SharedTLDs =>
        /\ muHolder = t /\ sharedUDClient = NoClient
        /\ \A u \in SharedTLDs : client[u] = NoClient /\ (init[u] = "dialling" => u = t)
  BY <1>1, NamesOK DEF MutexInv, SharingInv, SharedTLDs
<1>5. Goroutines'
  BY <1>1, <1>2 DEF Goroutines
<1>6. MutexInv'
  <2>1. CASE t \in SharedTLDs
    BY <1>1, <1>4, <2>1 DEF MutexInv, Goroutines, Unlocked, SharedTLDs
  <2>2. CASE t \notin SharedTLDs
    BY <1>1, <2>2 DEF MutexInv, Goroutines, Unlocked, SharedTLDs
  <2> QED BY <2>1, <2>2
<1>7. ClientsInv'
  <2>1. /\ \A d : Dialled(d) => d.tld \in active' /\ d.url \in Configured(d.tld)'
        /\ \A u : Configured(u)' = Configured(u)
    BY <1>1 DEF Dialled, Configured
  <2>2. \A u \in TLDs : u # t => client'[u] = client[u] /\ init'[u] = init[u] /\ urls'[u] = urls[u]
    BY <1>1 DEF Goroutines
  <2>3. client'[t] = c /\ init'[t] = "resolver"
    BY <1>1 DEF Goroutines
  <2>4. \A u \in TLDs : client'[u] # NoClient <=> init'[u] = "resolver" \/ u \in resolvers'
    <3> TAKE u \in TLDs
    <3>1. CASE u = t
      BY <1>3, <2>3, <3>1
    <3>2. CASE u # t
      <4>1. client[u] # NoClient <=> init[u] = "resolver" \/ u \in resolvers
        BY DEF ClientsInv
      <4> QED BY <1>1, <2>2, <3>2, <4>1
    <3> QED BY <3>1, <3>2
  <2>5. \A u \in TLDs : client'[u] # NoClient =>
          /\ Dialled(client'[u])
          /\ IF u \in SharedTLDs THEN client'[u].tld \in SharedTLDs ELSE client'[u].tld = u
    <3> TAKE u \in TLDs
    <3>1. CASE u = t
      BY <1>3, <2>3, <3>1
    <3>2. CASE u # t
      <4>1. client[u] # NoClient =>
              /\ Dialled(client[u])
              /\ IF u \in SharedTLDs THEN client[u].tld \in SharedTLDs ELSE client[u].tld = u
        BY DEF ClientsInv
      <4> QED BY <2>2, <3>2, <4>1
    <3> QED BY <3>1, <3>2
  <2>6. sharedUDClient' # NoClient =>
          Dialled(sharedUDClient') /\ sharedUDClient'.tld \in SharedTLDs
    BY <1>1, <1>3 DEF ClientsInv
  <2>7. \A u \in TLDs : init'[u] = "dialling"
                          => urls'[u] \in Seq(Configured(u)) /\ urls'[u] # <<>>
    <3> TAKE u \in TLDs
    <3>1. CASE u = t
      BY <2>3, <3>1
    <3>2. CASE u # t
      <4>1. init[u] = "dialling" => urls[u] \in Seq(Configured(u)) /\ urls[u] # <<>>
        BY DEF ClientsInv
      <4> QED BY <2>2, <3>2, <4>1
    <3> QED BY <3>1, <3>2
  <2> QED BY <2>1, <2>4, <2>5, <2>6, <2>7 DEF ClientsInv, Dialled
<1>8. SharingInv'
  <2>1. CASE t \in SharedTLDs
    BY <1>1, <1>4, <2>1 DEF SharingInv, Goroutines, SharedTLDs
  <2>2. CASE t \notin SharedTLDs
    BY <1>1, <2>2 DEF SharingInv, Goroutines, SharedTLDs
  <2> QED BY <2>1, <2>2
<1>9. LiveInv'
  <2> SUFFICES ASSUME NEW d \in live'
               PROVE  d # NoClient /\ (d = sharedUDClient' \/ \E u \in ClosableTLDs : d = client'[u])
    BY DEF LiveInv
  <2>1. CASE d = c
    BY <1>1, <1>3, <2>1, <1>2 DEF LiveInv, Goroutines, ClosableTLDs, SharedTLDs
  <2>2. CASE d # c
    <3>1. d \in live
      BY <1>1, <2>2
    <3>2. d # NoClient /\ (d = sharedUDClient \/ \E u \in ClosableTLDs : d = client[u])
      BY <3>1 DEF LiveInv
    <3> QED BY <1>1, <1>2, <1>4, <3>2 DEF Goroutines, ClosableTLDs
  <2> QED BY <2>1, <2>2
<1> QED BY <1>5, <1>6, <1>7, <1>8, <1>9

\* An endpoint fails: the next one, or the goroutine gives up and unlocks.
LEMMA DialFailsStep ==
  ASSUME ResolversInv, UNCHANGED phase, NEW t \in TLDs, DialFails(t)
  PROVE  ResolversInv'
<1> USE DEF ResolversInv
<1>1. /\ init[t] = "dialling" /\ urls' = [urls EXCEPT ![t] = Tail(urls[t])]
      /\ UNCHANGED <<rpcOverrides, active, client, sharedUDClient, live, resolvers, warnings>>
  BY DEF DialFails
<1>2. CASE UNCHANGED <<init, muHolder>> /\ Tail(urls[t]) # <<>>
  <2>1. Tail(urls[t]) \in Seq(Configured(t))
    <3>1. urls[t] \in Seq(Configured(t)) /\ urls[t] # <<>>
      BY <1>1 DEF ClientsInv
    <3> QED BY <3>1
  <2>2. Goroutines' /\ MutexInv' /\ SharingInv' /\ LiveInv'
    BY <1>1, <1>2 DEF Goroutines, MutexInv, SharingInv, LiveInv
  <2>3. ClientsInv'
    BY <1>1, <1>2, <2>1, ConfiguredKept DEF ClientsInv, Goroutines, Dialled
  <2> QED BY <2>2, <2>3
<1>3. CASE init' = [init EXCEPT ![t] = "warning"] /\ muHolder' = Unlocked(t)
  <2>1. Goroutines'
    BY <1>1, <1>3 DEF Goroutines
  <2>2. MutexInv'
    BY <1>1, <1>3, NamesOK DEF MutexInv, Goroutines, Unlocked, SharedTLDs
  <2>3. ClientsInv'
    BY <1>1, <1>3, ConfiguredKept DEF ClientsInv, Goroutines, Dialled
  <2>4. SharingInv' /\ LiveInv'
    BY <1>1 DEF SharingInv, LiveInv
  <2> QED BY <2>1, <2>2, <2>3, <2>4
<1> QED BY <1>2, <1>3 DEF DialFails

\* A result is collected.
LEMMA CollectStep ==
  ASSUME ResolversInv, UNCHANGED phase, NEW t \in TLDs, Collect(t)
  PROVE  ResolversInv'
<1> USE DEF ResolversInv
<1>1. /\ init[t] \in {"resolver", "warning"} /\ init' = [init EXCEPT ![t] = "collected"]
      /\ IF init[t] = "resolver"
           THEN resolvers' = resolvers \union {t} /\ UNCHANGED warnings
           ELSE warnings' = warnings \union {t} /\ UNCHANGED resolvers
      /\ UNCHANGED <<rpcOverrides, active, urls, client, sharedUDClient, muHolder, live>>
  BY DEF Collect
<1>2. t \notin resolvers /\ t \notin warnings
  BY <1>1 DEF Goroutines
<1>3. Goroutines'
  BY <1>1, <1>2 DEF Goroutines
<1>4. MutexInv'
  BY <1>1 DEF MutexInv, Goroutines, SharedTLDs
<1>5. ClientsInv'
  <2>1. \A u \in TLDs : client'[u] # NoClient <=> init'[u] = "resolver" \/ u \in resolvers'
    <3> TAKE u \in TLDs
    <3>1. client[u] # NoClient <=> init[u] = "resolver" \/ u \in resolvers
      BY DEF ClientsInv
    <3>2. CASE u = t
      BY <1>1, <1>2, <3>1, <3>2 DEF Goroutines
    <3>3. CASE u # t
      BY <1>1, <3>1, <3>3 DEF Goroutines
    <3> QED BY <3>2, <3>3
  <2>2. \A u \in TLDs : init'[u] = "dialling" => init[u] = "dialling"
    BY <1>1 DEF Goroutines
  <2> QED BY <1>1, <2>1, <2>2, ConfiguredKept DEF ClientsInv, Dialled
<1>6. SharingInv' /\ LiveInv'
  BY <1>1 DEF SharingInv, LiveInv
<1> QED BY <1>3, <1>4, <1>5, <1>6

\* The end: when every goroutine has reported, nothing is left open.
LEMMA CloseStep ==
  ASSUME ResolversInv, InitReturned, phase # "stopped", phase' = "stopped", CloseResolvers
  PROVE  ResolversInv' /\ live' = {}
<1> USE DEF ResolversInv
<1>1. /\ live' = live \ ({client[t] : t \in resolvers \intersect ClosableTLDs}
                           \union {sharedUDClient})
      /\ sharedUDClient' = NoClient
      /\ UNCHANGED <<rpcOverrides, active, init, urls, client, muHolder, resolvers, warnings>>
  BY DEF CloseResolvers
<1>2. \A t \in active : init[t] = "collected"
  BY ReportedAll DEF AllReported
<1>3. \A t \in ClosableTLDs : client[t] # NoClient => t \in resolvers
  BY <1>2 DEF Goroutines, ClientsInv, ClosableTLDs
<1>4. live' = {}
  BY <1>1, <1>3 DEF LiveInv
<1>5. Goroutines' /\ MutexInv' /\ SharingInv' /\ LiveInv'
  BY <1>1, <1>4 DEF Goroutines, MutexInv, SharingInv, LiveInv
<1>6. ClientsInv'
  BY <1>1, ConfiguredKept DEF ClientsInv, Dialled
<1> QED BY <1>4, <1>5, <1>6

-----------------------------------------------------------------------------
(* IndInv is inductive.                                                    *)

\* The process has not begun to start.
LEMMA InitIndInv == Init => IndInv
<1> SUFFICES ASSUME Init PROVE IndInv
  OBVIOUS
<1>1. ResolversInv
  BY InitResolvers
<1>2. SettingsInv
  BY DEF Init, ResolversInit, SettingsInv, BeforeInit, AfterInit
<1>3. ModeInv /\ CleanShutdown
  BY DEF Init, ModeInv, CleanShutdown, BeforeBackend
<1>4. RotationInv
  BY DEF Init, RotationInv, RotationHasDirectory, DelayBounds
<1> QED BY <1>1, <1>2, <1>3, <1>4 DEF IndInv

\* The steps that leave the resolvers alone keep their part of the invariant.
LEMMA ResolversKept ==
  ASSUME ResolversInv, UNCHANGED initVars, phase = "stopped" => phase' = "stopped"
  PROVE  ResolversInv' /\ (InitReturned => InitReturned')
<1> USE DEF initVars, ResolversInv
<1>1. Goroutines' /\ MutexInv'
  BY DEF Goroutines, MutexInv
<1>2. ClientsInv'
  BY ConfiguredKept DEF ClientsInv, Dialled
<1>3. SharingInv' /\ LiveInv'
  BY DEF SharingInv, LiveInv
<1> QED BY <1>1, <1>2, <1>3 DEF InitReturned

\* So do the steps of the goroutines.
LEMMA ResolversStep ==
  ASSUME ResolversInv, phase = "resolvers", NEW t \in TLDs, InitStep(t), UNCHANGED phase
  PROVE  ResolversInv'
BY NewResolverStep, GetSharedStep, DialSucceedsStep, DialFailsStep, CollectStep
DEF InitStep

\* The steps of run() up to the checks.
LEMMA ConfigSteps == IndInv /\ (LoadConfig \/ CheckRotation) => IndInv'
<1> SUFFICES ASSUME IndInv, LoadConfig \/ CheckRotation PROVE IndInv'
  OBVIOUS
<1> USE DEF IndInv, BeforeInit, BeforeBackend, AfterInit
<1>1. CASE LoadConfig
  <2>1. /\ phase = "config" /\ phase' \in {"checks", "failed"}
        /\ phase' = "checks" => settings' = Merged(input.cli, input.file)
        /\ UNCHANGED <<input, gate, dir, backend, lookup, initVars, timerVars>>
    BY <1>1 DEF LoadConfig
  <2>2. ResolversInv'
    BY <2>1, ResolversKept
  <2>3. SettingsInv'
    BY <2>1 DEF SettingsInv, initVars
  <2>4. ModeInv' /\ CleanShutdown'
    BY <2>1 DEF ModeInv, CleanShutdown
  <2>5. RotationInv'
    BY <2>1 DEF RotationInv, RotationHasDirectory, DelayBounds, timerVars
  <2> QED BY <2>2, <2>3, <2>4, <2>5
<1>2. CASE CheckRotation /\ Consistent(settings)
  <2>1. /\ phase = "checks" /\ phase' = "resolvers"
        /\ rotateInterval' = Interval(settings)
        /\ InitAll(settings.rpc, settings.disabled)
        /\ UNCHANGED <<input, settings, gate, dir, backend, lookup>>
        /\ UNCHANGED <<rot, delay, drawn, ctxDone>>
    BY <1>2 DEF CheckRotation
  <2>2. ResolversInv'
    BY <2>1, StartResolvers DEF SettingsInv
  <2>3. SettingsInv'
    BY <1>2, <2>1 DEF SettingsInv, Consistent, Interval
  <2>4. ModeInv' /\ CleanShutdown'
    BY <2>1 DEF ModeInv, CleanShutdown
  <2>5. RotationInv'
    BY <2>1 DEF RotationInv, RotationHasDirectory, DelayBounds
  <2> QED BY <2>2, <2>3, <2>4, <2>5
<1>3. CASE CheckRotation /\ ~Consistent(settings)
  <2>1. /\ phase = "checks" /\ phase' = "failed"
        /\ UNCHANGED <<input, settings, gate, dir, backend, lookup, initVars, timerVars>>
    BY <1>3 DEF CheckRotation, timerVars
  <2>2. ResolversInv'
    BY <2>1, ResolversKept
  <2>3. SettingsInv'
    BY <2>1 DEF SettingsInv, initVars
  <2>4. ModeInv' /\ CleanShutdown'
    BY <2>1 DEF ModeInv, CleanShutdown
  <2>5. RotationInv'
    BY <2>1 DEF RotationInv, RotationHasDirectory, DelayBounds, timerVars
  <2> QED BY <2>2, <2>3, <2>4, <2>5
<1> QED BY <1>1, <1>2, <1>3

\* The steps from InitAll to the backend.
LEMMA BackendSteps ==
  ASSUME IndInv,
         \/ InitAllReturns \/ StartFails \/ NewDirectClient \/ StartGateway
         \/ Fetch \/ Build
  PROVE  IndInv'
<1> USE DEF IndInv, BeforeInit, BeforeBackend, AfterInit
<1>1. /\ UNCHANGED <<input, settings, lookup, initVars, timerVars>>
      /\ phase \in {"resolvers", "direct", "gateway", "fetch", "build"}
      /\ phase' \in {"direct", "gateway", "fetch", "build", "listen", "failed"}
      /\ phase = "resolvers" => InitReturned
  BY DEF InitAllReturns, StartFails, NewDirectClient, StartGateway, Fetch, Build
<1>2. ResolversInv' /\ (InitReturned => InitReturned')
  BY <1>1, ResolversKept
<1>3. SettingsInv'
  BY <1>1, <1>2 DEF SettingsInv, Consistent, Interval, initVars, timerVars
<1>4. ModeInv'
  <2>1. CASE InitAllReturns
    BY <2>1 DEF InitAllReturns, ModeInv
  <2>2. CASE StartFails
    BY <2>2 DEF StartFails, ModeInv
  <2>3. CASE NewDirectClient
    BY <2>3 DEF NewDirectClient, ModeInv
  <2>4. CASE StartGateway
    BY <2>4 DEF StartGateway, ModeInv
  <2>5. CASE Fetch
    <3>1. settings.directory # "none"
      <4>1. settings = Merged(input.cli, input.file) /\ input \in Inputs
        BY <2>5 DEF Fetch, SettingsInv
      <4>2. settings.directory = Text(input.cli.directory, input.file.directory, "default")
        BY <4>1 DEF Merged
      <4>3. "none" \notin input.cli.directory /\ input.file.directory # "none"
        BY <4>1, InputsOK
      <4> QED BY <4>2, <4>3 DEF Text, Value, Changed
    <3> QED BY <2>5, <3>1 DEF Fetch, ModeInv
  <2>6. CASE Build
    BY <2>6 DEF Build, ModeInv
  <2> QED BY <2>1, <2>2, <2>3, <2>4, <2>5, <2>6
<1>5. RotationInv' /\ CleanShutdown'
  <2>1. rot = "off" /\ rot' = "off"
    BY <1>1 DEF RotationInv, timerVars
  <2> QED BY <1>1, <2>1 DEF RotationInv, RotationHasDirectory, DelayBounds, CleanShutdown
<1> QED BY <1>2, <1>3, <1>4, <1>5

\* The server starts, and with a positive interval the rotation: then the
\* checks have made sure of auto mode.
LEMMA ListenStep == IndInv /\ Listen => IndInv'
<1> SUFFICES ASSUME IndInv, Listen PROVE IndInv'
  OBVIOUS
<1> USE DEF IndInv, BeforeInit, BeforeBackend, AfterInit
<1>1. /\ phase = "listen" /\ phase' = "serving"
      /\ UNCHANGED <<input, settings, gate, dir, backend, lookup, initVars>>
  BY DEF Listen
<1>2. rotateInterval' = rotateInterval
  BY DEF Listen, StartRotation, timerVars
<1>3. ResolversInv' /\ (InitReturned => InitReturned')
  BY <1>1, ResolversKept
<1>4. SettingsInv'
  BY <1>1, <1>2, <1>3 DEF SettingsInv, Consistent, Interval, initVars
<1>5. ModeInv' /\ CleanShutdown'
  BY <1>1 DEF ModeInv, CleanShutdown
<1>6. RotationInv'
  <2>1. rot = "off"
    BY <1>1 DEF RotationInv
  <2>2. CASE rotateInterval > 0 /\ ~settings.direct
    <3>1. settings.auto
      BY <1>1, <2>2 DEF SettingsInv, Consistent
    <3>2. rot' \in {"draw", "returned"}
      BY <2>2 DEF Listen, StartRotation
    <3> QED BY <1>1, <2>2, <3>1, <3>2
            DEF RotationInv, RotationHasDirectory, DelayBounds, ModeInv
  <2>3. CASE ~(rotateInterval > 0 /\ ~settings.direct)
    <3>1. rot' = "off"
      BY <2>1, <2>3 DEF Listen, timerVars
    <3> QED BY <3>1 DEF RotationInv, RotationHasDirectory, DelayBounds
  <2> QED BY <2>2, <2>3
<1> QED BY <1>3, <1>4, <1>5, <1>6

\* A step of the rotation goroutine.
LEMMA RotationSteps == IndInv /\ RotationStep => IndInv'
<1> SUFFICES ASSUME IndInv, RotationStep PROVE IndInv'
  OBVIOUS
<1> USE DEF IndInv, BeforeInit, BeforeBackend, AfterInit
<1>1. /\ phase \in {"serving", "stopping"}
      /\ UNCHANGED <<phase, input, settings, gate, dir, backend, lookup, initVars>>
  BY DEF RotationStep, runVars
<1>2. rotateInterval' = rotateInterval /\ rot \notin {"off", "returned"}
  BY DEF RotationStep, Draw, TimeRuns, TimerFires, Rotated, Cancelled
<1>3. ResolversInv' /\ (InitReturned => InitReturned')
  BY <1>1, ResolversKept
<1>4. SettingsInv'
  BY <1>1, <1>2, <1>3 DEF SettingsInv, Consistent, Interval, initVars
<1>5. ModeInv' /\ CleanShutdown'
  BY <1>1 DEF ModeInv, CleanShutdown
<1>6. DelayBounds'
  <2>1. Sound(rotateInterval)' <=> Sound(rotateInterval)
    BY <1>2 DEF Sound
  <2>2. CASE \E r \in Randoms : Draw(r)
    <3>1. PICK r \in Randoms : Draw(r)
      BY <2>2
    <3>2. r \in Int
      BY RandomsOK, MaxIntOK DEF MinInt
    <3> SUFFICES ASSUME Sound(rotateInterval) PROVE DelayBounds'
      BY <2>1 DEF DelayBounds
    <3>3. jitterRange(rotateInterval) # 0
      BY DEF Sound
    <3>4. rot' = "waiting" /\ drawn' = Delay(rotateInterval, r)
      BY <3>1, <3>3 DEF Draw
    <3>5. rotateInterval \in Int
      BY <1>1, DurationsOK DEF SettingsInv, Interval
    <3> QED BY <1>2, <3>2, <3>4, <3>5, DelayInRange DEF DelayBounds
  <2>3. CASE TimeRuns \/ TimerFires \/ Rotated \/ Cancelled
    <3>1. /\ rot' # "panicked"
          /\ rot' = "waiting" => rot = "waiting" /\ drawn' = drawn
      BY <2>3 DEF TimeRuns, TimerFires, Rotated, Cancelled
    <3> QED BY <1>2, <2>1, <3>1 DEF RotationInv, DelayBounds
  <2> QED BY <2>2, <2>3 DEF RotationStep
<1>7. RotationInv'
  BY <1>1, <1>2, <1>6 DEF RotationInv, RotationHasDirectory
<1> QED BY <1>3, <1>4, <1>5, <1>7

\* Requests, a signal, and the end of serving.
LEMMA ServingSteps ==
  ASSUME IndInv,
         \/ \E t \in TLDs : \E r \in Records[t] : Lookup(t, r)
         \/ LookupDone \/ Signal \/ Stop \/ UNCHANGED vars
  PROVE  IndInv'
<1> USE DEF IndInv, BeforeInit, BeforeBackend, AfterInit
<1>1. /\ UNCHANGED <<input, settings, gate, dir, backend, initVars>>
      /\ UNCHANGED <<rotateInterval, rot, delay, drawn>>
      /\ phase' = phase \/ (phase = "serving" /\ phase' = "stopping")
  BY DEF Lookup, LookupDone, Signal, Stop, vars, runVars, timerVars
<1>2. ResolversInv' /\ (InitReturned => InitReturned')
  BY <1>1, ResolversKept
<1>3. SettingsInv'
  BY <1>1, <1>2 DEF SettingsInv, Consistent, Interval, initVars
<1>4. ModeInv' /\ CleanShutdown'
  BY <1>1 DEF ModeInv, CleanShutdown, initVars
<1>5. RotationInv'
  BY <1>1 DEF RotationInv, RotationHasDirectory, DelayBounds, Sound
<1> QED BY <1>2, <1>3, <1>4, <1>5

\* The orderly end.
LEMMA ShutdownStep == IndInv /\ Shutdown => IndInv'
<1> SUFFICES ASSUME IndInv, Shutdown PROVE IndInv'
  OBVIOUS
<1> USE DEF IndInv, BeforeInit, BeforeBackend, AfterInit
<1>1. /\ phase = "stopping" /\ phase' = "stopped" /\ backend' = "closed"
      /\ gate' = IF gate = "started" THEN "closed" ELSE gate
      /\ CloseResolvers
      /\ UNCHANGED <<input, settings, dir, lookup, timerVars>>
  BY DEF Shutdown
<1>2. InitReturned /\ InitReturned'
  BY <1>1 DEF SettingsInv, InitReturned, CloseResolvers
<1>3. ResolversInv' /\ live' = {}
  BY <1>1, <1>2, CloseStep
<1>4. SettingsInv'
  BY <1>1, <1>2 DEF SettingsInv, Consistent, Interval, timerVars
<1>5. ModeInv' /\ CleanShutdown'
  BY <1>1, <1>3 DEF ModeInv, CleanShutdown
<1>6. RotationInv'
  BY <1>1 DEF RotationInv, RotationHasDirectory, DelayBounds, Sound, timerVars
<1> QED BY <1>3, <1>4, <1>5, <1>6

\* Every step preserves the invariant.
LEMMA NextIndInv == IndInv /\ [Next]_vars => IndInv'
<1> SUFFICES ASSUME IndInv, [Next]_vars PROVE IndInv'
  OBVIOUS
<1>1. ASSUME NEW t \in TLDs, ResolverStep(t) PROVE IndInv'
  <2> USE DEF IndInv, BeforeInit, BeforeBackend, AfterInit
  <2>1. /\ phase = "resolvers" /\ InitStep(t)
        /\ UNCHANGED <<phase, input, settings, gate, dir, backend, lookup>>
        /\ UNCHANGED <<rotateInterval, rot, delay, drawn, ctxDone>>
    BY <1>1 DEF ResolverStep, runVars, timerVars
  <2>2. ResolversInv'
    BY <2>1, ResolversStep
  <2>3. SettingsInv'
    BY <2>1 DEF SettingsInv, Consistent, Interval
  <2>4. ModeInv' /\ CleanShutdown'
    BY <2>1 DEF ModeInv, CleanShutdown
  <2>5. RotationInv'
    BY <2>1 DEF RotationInv, RotationHasDirectory, DelayBounds
  <2> QED BY <2>2, <2>3, <2>4, <2>5
<1>2. CASE UNCHANGED vars \/ Ended
  BY <1>2, ServingSteps DEF Ended
<1> QED BY <1>1, <1>2, ConfigSteps, BackendSteps, ListenStep, RotationSteps,
           ServingSteps, ShutdownStep DEF Next

\* The invariant holds in every reachable state.
LEMMA IndInvHolds == Spec => []IndInv
BY InitIndInv, NextIndInv, PTL DEF Spec

-----------------------------------------------------------------------------
(* The theorems.                                                           *)

\* The resolvers of the Unstoppable Domains hold one client, and no second
\* one is opened, for every number of them and of endpoints.
THEOREM SharedClientIsUnique == Spec => []OneSharedClient
<1>1. ASSUME IndInv PROVE OneSharedClient
  <2>1. \A t, u \in resolvers \intersect SharedTLDs : client[t] = client[u]
    <3>1. \A t \in resolvers \intersect SharedTLDs : client[t] # NoClient
      BY <1>1 DEF IndInv, ResolversInv, ClientsInv, SharedTLDs
    <3> QED BY <1>1, <3>1 DEF IndInv, ResolversInv, SharingInv
  <2>2. {c \in live : c.tld \in SharedTLDs} \subseteq {sharedUDClient}
    <3> SUFFICES ASSUME NEW c \in live, c.tld \in SharedTLDs, c # sharedUDClient
                 PROVE  FALSE
      OBVIOUS
    <3>1. PICK t \in ClosableTLDs : c = client[t] /\ c # NoClient
      BY <1>1 DEF IndInv, ResolversInv, LiveInv
    <3>2. t \in TLDs /\ t \notin SharedTLDs
      BY DEF ClosableTLDs, SharedTLDs
    <3>3. c.tld = t
      BY <1>1, <3>1, <3>2 DEF IndInv, ResolversInv, ClientsInv
    <3> QED BY <3>2, <3>3
  <2>3. Cardinality({c \in live : c.tld \in SharedTLDs}) <= 1
    <3>1. IsFiniteSet({sharedUDClient}) /\ Cardinality({sharedUDClient}) = 1
      BY FS_Singleton
    <3> QED BY <2>2, <3>1, FS_Subset
  <2> QED BY <2>1, <2>3 DEF OneSharedClient
<1> QED BY <1>1, IndInvHolds, PTL

\* A chain is only resolved through an endpoint that its configuration gives
\* or, for the Unstoppable Domains, that of one of the TLDs it shares with.
THEOREM OverridesAreHonoured == Spec => []OverrideHonoured
<1>1. ASSUME IndInv PROVE OverrideHonoured
  <2> SUFFICES ASSUME NEW t \in resolvers
               PROVE  \E u \in Sharing(t) : client[t].url \in Configured(u)
    BY DEF OverrideHonoured
  <2>1. t \in TLDs
    BY <1>1 DEF IndInv, ResolversInv, Goroutines
  <2>2. /\ client[t].tld \in active /\ client[t].url \in Configured(client[t].tld)
        /\ IF t \in SharedTLDs THEN client[t].tld \in SharedTLDs ELSE client[t].tld = t
    BY <1>1, <2>1 DEF IndInv, ResolversInv, ClientsInv, Dialled
  <2> QED BY <2>2 DEF Sharing
<1> QED BY <1>1, IndInvHolds, PTL

\* When InitAll returns every active chain has been reported, and no
\* goroutine is left behind.
THEOREM InitAllIsComplete == Spec => []AllReported
<1>1. IndInv => AllReported
  BY ReportedAll DEF IndInv, ResolversInv
<1> QED BY <1>1, IndInvHolds, PTL

\* The rotation delay is within its bounds and the goroutine does not panic,
\* for every sound interval and every width of the integers.
THEOREM DelaysAreBounded == Spec => []DelayBounds
<1>1. IndInv => DelayBounds
  BY DEF IndInv, RotationInv
<1> QED BY <1>1, IndInvHolds, PTL

\* Traffic goes without a circuit only if the user asked for it.
THEOREM DirectOnlyIfAsked == Spec => []NoSilentDirect
<1>1. ASSUME IndInv PROVE NoSilentDirect
  <2> SUFFICES ASSUME backend = "direct" PROVE NoSilentDirect
    BY DEF NoSilentDirect
  <2>1. phase \in {"listen", "serving", "stopping"}
    BY <1>1 DEF IndInv, ModeInv, SettingsInv, CleanShutdown, BeforeBackend, AfterInit
  <2>2. settings.direct /\ settings = Merged(input.cli, input.file) /\ input \in Inputs
    BY <1>1, <2>1 DEF IndInv, ModeInv, SettingsInv
  <2>3. directModeOf(input.cli, input.file)
    BY <2>2 DEF Merged
  <2>4. input.cli.direct \in {{}, {TRUE}, {FALSE}}
    BY <2>2, InputsOK
  <2> QED BY <2>3, <2>4 DEF NoSilentDirect, directModeOf, FileDecides, Value, Changed
<1> QED BY <1>1, IndInvHolds, PTL

\* Where the rotation goroutine runs, RotateCircuit has what it uses.
THEOREM RotationIsEquipped == Spec => []RotationHasDirectory
<1>1. IndInv => RotationHasDirectory
  BY DEF IndInv, RotationInv
<1> QED BY <1>1, IndInvHolds, PTL

\* An orderly shutdown leaves nothing open.
THEOREM ShutdownIsClean == Spec => []CleanShutdown
<1>1. IndInv => CleanShutdown
  BY DEF IndInv
<1> QED BY <1>1, IndInvHolds, PTL

-----------------------------------------------------------------------------
(* Records.                                                                *)

\* The position of the first _adnl entry of a zone.
LEMMA FirstEntry ==
  ASSUME NEW zone, NEW n \in Nat, DOMAIN zone = 1..n,
         NEW K, K = {i \in DOMAIN zone : zone[i].name = "_adnl"}, K # {}
  PROVE  /\ Min(K) \in K
         /\ Min(K) = CHOOSE i \in DOMAIN zone :
                       /\ zone[i].name = "_adnl"
                       /\ \A j \in 1..(i - 1) : zone[j].name # "_adnl"
<1> DEFINE First(i) == zone[i].name = "_adnl" /\ \A j \in 1..(i - 1) : zone[j].name # "_adnl"
<1>1. Min(K) \in K /\ \A i \in K : Min(K) <= i
  BY Extremes
<1>2. ASSUME NEW i \in DOMAIN zone PROVE First(i) <=> i = Min(K)
  <2>1. i \in Nat /\ Min(K) \in Nat /\ Min(K) \in 1..n /\ i \in 1..n /\ i <= n
    BY <1>1
  <2>2. ASSUME First(i) PROVE i = Min(K)
    <3>1. Min(K) <= i /\ Min(K) \notin 1..(i - 1)
      BY <1>1, <2>2
    <3> QED BY <1>1, <2>1, <3>1
  <2>3. ASSUME i = Min(K) PROVE First(i)
    <3>1. ASSUME NEW j \in 1..(i - 1), zone[j].name = "_adnl" PROVE FALSE
      <4>1. j \in DOMAIN zone /\ j < i /\ j \in Nat
        BY <2>1
      <4>2. j \in K
        BY <3>1, <4>1
      <4>3. i <= j
        BY <1>1, <2>3, <4>2
      <4> QED BY <2>1, <4>1, <4>3
    <3> QED BY <1>1, <2>3, <3>1
  <2> QED BY <2>2, <2>3
<1>3. Min(K) \in DOMAIN zone
  BY <1>1
<1>4. (CHOOSE i \in DOMAIN zone : First(i)) = Min(K)
  BY <1>2, <1>3
<1> QED BY <1>1, <1>4

\* A text record: what Resolve checks is the text the record gives.
LEMMA ResolvesTextIn ==
  ASSUME NEW t \in TLDs, Kind[t] # "sns", NEW r \in Records[t]
  PROVE  /\ TextIn(Kind[t], r) \in Seq(Chars)
         /\ Resolve(t, r) = Checked(TextIn(Kind[t], r))
<1>1. r \in RecordsOf(Kind[t]) /\ Kind[t] \in {"ens", "sid", "bns", "ud"}
  BY RecordsOK, ChainsOK DEF Kinds
<1>2. <<>> \in Seq(Chars) /\ Checked(<<>>) = NoAddress
  BY EmptyParses DEF Checked
<1>3. CASE Kind[t] \in {"ens", "sid"}
  <2>1. r \in Seq(Chars) /\ TextIn(Kind[t], r) = r
    BY <1>1, <1>3 DEF RecordsOf, TextIn
  <2>2. Resolve(t, r) = IF r # <<>> /\ ParseADNLAddress(r) # NoAddress THEN r ELSE NoAddress
    BY <1>3 DEF Resolve, ResolveENS, ResolveSpaceID
  <2> QED BY <1>2, <2>1, <2>2 DEF Checked
<1>4. CASE Kind[t] = "ud"
  <2>1. r \in Seq(Seq(Chars)) /\ TextIn(Kind[t], r) = IF r = <<>> THEN <<>> ELSE r[1]
    BY <1>1, <1>4 DEF RecordsOf, TextIn
  <2>2. Resolve(t, r) = ResolveUD(r)
    BY <1>4 DEF Resolve
  <2>3. CASE r = <<>>
    BY <1>2, <2>1, <2>2, <2>3 DEF ResolveUD
  <2>4. CASE r # <<>>
    <3>1. Head(r) = r[1] /\ r[1] \in Seq(Chars)
      BY <2>1, <2>4
    <3> QED BY <2>1, <2>2, <2>4, <3>1 DEF ResolveUD, Checked
  <2> QED BY <2>3, <2>4
<1>5. CASE Kind[t] = "bns"
  <2> DEFINE K == {i \in DOMAIN r : r[i].name = "_adnl"}
  <2>1. r \in Seq([name: STRING, txt: Seq(Chars)])
    BY <1>1, <1>5 DEF RecordsOf
  <2>2. Resolve(t, r) = ResolveBNS(r)
    BY <1>5 DEF Resolve
  <2>3. CASE K = {}
    <3>1. TextIn(Kind[t], r) = <<>>
      BY <1>5, <2>3 DEF TextIn
    <3>2. ResolveBNS(r) = NoAddress
      BY <2>3 DEF ResolveBNS
    <3> QED BY <1>2, <2>2, <3>1, <3>2
  <2>4. CASE K # {}
    <3>1. DOMAIN r = 1..Len(r) /\ Len(r) \in Nat
      BY <2>1
    <3>2. /\ Min(K) \in K
          /\ Min(K) = CHOOSE i \in DOMAIN r :
                        /\ r[i].name = "_adnl"
                        /\ \A j \in 1..(i - 1) : r[j].name # "_adnl"
      BY <2>4, <3>1, FirstEntry
    <3>3. ~ \A i \in DOMAIN r : r[i].name # "_adnl"
      BY <2>4
    <3>4. TextIn(Kind[t], r) = r[Min(K)].txt
      BY <1>5, <3>2, <3>3 DEF TextIn
    <3>5. r[Min(K)].txt \in Seq(Chars)
      <4>1. Min(K) \in 1..Len(r)
        BY <3>1, <3>2
      <4>2. r[Min(K)] \in [name: STRING, txt: Seq(Chars)]
        BY <2>1, <4>1, ElementOfSeq
      <4> QED BY <4>2
    <3>6. ResolveBNS(r) = Checked(r[Min(K)].txt)
      BY <2>4 DEF ResolveBNS, Checked
    <3> QED BY <2>2, <3>4, <3>5, <3>6
  <2> QED BY <2>3, <2>4
<1> QED BY <1>1, <1>3, <1>4, <1>5

\* Every record of every chain is resolved to the address it stands for, and
\* a text that stands for none to none.
THEOREM RecordsAreExact == Spec => []RecordExact
<1>1. Init => RecordExact
  BY DEF Init, RecordExact
<1>2. RecordExact /\ [Next]_vars => RecordExact'
  <2> SUFFICES ASSUME RecordExact, [Next]_vars PROVE RecordExact'
    OBVIOUS
  <2>1. ASSUME NEW t \in TLDs, NEW r \in Records[t], Lookup(t, r) PROVE RecordExact'
    <3>1. lookup' = [tld |-> t, record |-> r, host |-> HostFrom(Resolve(t, r))]
      BY <2>1 DEF Lookup, HostFrom
    <3>2. lookup'.tld = t /\ lookup'.record = r /\ lookup'.host = HostFrom(Resolve(t, r))
      BY <3>1
    <3>3. CASE Kind[t] = "sns"
      <4>1. r \in Seq(Chars) /\ Resolve(t, r) = ResolveSNS(r)
        BY <3>3, RecordsOK DEF RecordsOf, Resolve
      <4>2. ASSUME NEW a \in Addresses, IsPayloadOf(r, a)
            PROVE  HostFrom(Resolve(t, r)) = SerializeADNLAddress(a)
        BY <4>1, <4>2, SnsExact, AddressIsText
      <4> QED BY <3>2, <3>3, <4>2 DEF RecordExact
    <3>4. CASE Kind[t] # "sns"
      <4>1. ASSUME NEW a \in Addresses
            PROVE  HostFrom(Resolve(t, r)) = SerializeADNLAddress(a)
                     <=> TextIn(Kind[t], r) \in TextsOf(a)
        BY <3>4, ResolvesTextIn, TextHost
      <4> QED BY <3>2, <3>4, <4>1 DEF RecordExact
    <3> QED BY <3>3, <3>4
  <2>2. CASE LookupDone \/ Stop
    BY <2>2 DEF LookupDone, Stop, RecordExact
  <2>3. ASSUME lookup' = lookup PROVE RecordExact'
    BY <2>3 DEF RecordExact
  <2>4. ASSUME \/ LoadConfig \/ CheckRotation \/ \E t \in TLDs : ResolverStep(t)
               \/ InitAllReturns \/ StartFails \/ NewDirectClient \/ StartGateway \/ Fetch
               \/ Build \/ Listen \/ RotationStep \/ Signal \/ Shutdown \/ Ended
               \/ UNCHANGED vars
        PROVE  lookup' = lookup
    <3>1. CASE LoadConfig \/ CheckRotation
      BY <3>1 DEF LoadConfig, CheckRotation
    <3>2. CASE \E t \in TLDs : ResolverStep(t)
      BY <3>2 DEF ResolverStep, runVars
    <3>3. CASE InitAllReturns \/ StartFails \/ NewDirectClient \/ StartGateway
      BY <3>3 DEF InitAllReturns, StartFails, NewDirectClient, StartGateway
    <3>4. CASE Fetch \/ Build \/ Listen
      BY <3>4 DEF Fetch, Build, Listen
    <3>5. CASE RotationStep \/ Signal
      BY <3>5 DEF RotationStep, Signal, runVars
    <3>6. CASE Shutdown \/ Ended \/ UNCHANGED vars
      BY <3>6 DEF Shutdown, Ended, vars, runVars
    <3> QED BY <2>4, <3>1, <3>2, <3>3, <3>4, <3>5, <3>6
  <2> QED BY <2>1, <2>2, <2>3, <2>4 DEF Next
<1> QED BY <1>1, <1>2, PTL DEF Spec
=============================================================================
