---------------------------- MODULE ResolverInit ----------------------------
(***************************************************************************)
(* Start and end of the chain resolvers: InitAll (internal/resolver/       *)
(* resolver.go) runs one goroutine per active TLD, which dials RPC         *)
(* endpoints in turn (evm.go, sns.go, bns.go) and puts its result into a   *)
(* channel.  The TLDs of the Unstoppable Domains share one client, made    *)
(* under a mutex that is held while dialling (unstoppable.go).             *)
(*                                                                         *)
(* The endpoints are external: each dial, with its check of the chain id,  *)
(* succeeds or fails.  A client is named by its URL and the TLD that       *)
(* dialled it.                                                             *)
(***************************************************************************)
EXTENDS Integers, Sequences, FiniteSets, ChainRegistry

VARIABLES
  rpcOverrides,    \* argument of InitAll: "" is no override
  active,          \* the chains that are not disabled
  init,            \* state of the goroutine of each TLD
  urls,            \* endpoints it has still to dial
  client,          \* the client of its resolver
  sharedUDClient,  \* package variable
  muHolder,        \* the goroutine that holds sharedUDClientMu
  live,            \* clients that are open
  resolvers,       \* MultiResolver.resolvers: the TLDs registered
  warnings         \* TLDs that InitAll warns of

initVars == <<rpcOverrides, active, init, urls, client, sharedUDClient,
              muHolder, live, resolvers, warnings>>

NoClient == [tld |-> "none", url |-> "none"]
Nobody   == "nobody"

\* A TLD begins with a dot.
ASSUME NamesOK == {NoClient.tld, Nobody} \intersect TLDs = {}

ResolversInit ==
  /\ rpcOverrides = [t \in TLDs |-> ""] /\ active = {}
  /\ init = [t \in TLDs |-> "off"] /\ urls = [t \in TLDs |-> <<>>]
  /\ client = [t \in TLDs |-> NoClient]
  /\ sharedUDClient = NoClient /\ muHolder = Nobody /\ live = {}
  /\ resolvers = {} /\ warnings = {}

-----------------------------------------------------------------------------
(* InitAll.                                                                *)

\* Chains that are not disabled get a goroutine each.
InitAll(overrides, disabled) ==
  /\ rpcOverrides' = overrides
  /\ active' = TLDs \ disabled
  /\ init' = [t \in TLDs |-> IF t \in disabled THEN "off" ELSE "started"]
  /\ UNCHANGED <<urls, client, sharedUDClient, muHolder, live, resolvers, warnings>>

\* Mutant: the defaults are tried when the override does not answer.
EndpointsWithFallback(t) ==
  IF rpcOverrides[t] # "" THEN <<rpcOverrides[t]>> \o DefaultRPCs[t]
                          ELSE DefaultRPCs[t]

\* What a goroutine dials: the override alone, or else the defaults in order.
\* (The shared client is dialled with the defaults of .crypto, which are those
\* of every UD TLD.)
Endpoints(t) ==
  IF rpcOverrides[t] # "" THEN <<rpcOverrides[t]>> ELSE DefaultRPCs[t]

\* NewResolver of a chain with a client of its own.
NewResolver(t) ==
  /\ init[t] = "started" /\ t \notin SharedTLDs
  /\ init' = [init EXCEPT ![t] = "dialling"]
  /\ urls' = [urls EXCEPT ![t] = Endpoints(t)]
  /\ UNCHANGED <<rpcOverrides, active, client, sharedUDClient, muHolder, live,
                 resolvers, warnings>>

\* Mutant: the client is looked up and dialled without the mutex.
GetSharedUDClientUnlocked(t) ==
  /\ init[t] = "started" /\ t \in SharedTLDs
  /\ IF sharedUDClient # NoClient
       THEN /\ init' = [init EXCEPT ![t] = "resolver"]
            /\ client' = [client EXCEPT ![t] = sharedUDClient]
            /\ UNCHANGED urls
       ELSE /\ init' = [init EXCEPT ![t] = "dialling"]
            /\ urls' = [urls EXCEPT ![t] = Endpoints(t)]
            /\ UNCHANGED client
  /\ UNCHANGED <<rpcOverrides, active, sharedUDClient, muHolder, live,
                 resolvers, warnings>>

\* newUDResolver: getSharedUDClient takes the mutex and returns the client if
\* there is one; if not, the goroutine dials, and keeps the mutex.
getSharedUDClient(t) ==
  /\ init[t] = "started" /\ t \in SharedTLDs /\ muHolder = Nobody
  /\ IF sharedUDClient # NoClient
       THEN /\ init' = [init EXCEPT ![t] = "resolver"]
            /\ client' = [client EXCEPT ![t] = sharedUDClient]
            /\ UNCHANGED <<urls, muHolder>>
       ELSE /\ init' = [init EXCEPT ![t] = "dialling"]
            /\ urls' = [urls EXCEPT ![t] = Endpoints(t)]
            /\ muHolder' = t
            /\ UNCHANGED client
  /\ UNCHANGED <<rpcOverrides, active, sharedUDClient, live, resolvers, warnings>>

Unlocked(t) == IF muHolder = t THEN Nobody ELSE muHolder

\* An endpoint answers with the right chain id.
DialSucceeds(t) ==
  /\ init[t] = "dialling"
  /\ LET c == [tld |-> t, url |-> Head(urls[t])] IN
       /\ client' = [client EXCEPT ![t] = c]
       /\ live' = IF t \in SharedTLDs \union ClosableTLDs THEN live \union {c}
                                                          ELSE live
       /\ sharedUDClient' = IF t \in SharedTLDs THEN c ELSE sharedUDClient
  /\ muHolder' = Unlocked(t)
  /\ init' = [init EXCEPT ![t] = "resolver"]
  /\ urls' = [urls EXCEPT ![t] = <<>>]
  /\ UNCHANGED <<rpcOverrides, active, resolvers, warnings>>

\* Mutant: the failing path returns without Unlock.
DialFailsLocked(t) ==
  /\ init[t] = "dialling"
  /\ urls' = [urls EXCEPT ![t] = Tail(@)]
  /\ IF Tail(urls[t]) # <<>>
       THEN UNCHANGED <<init, muHolder>>
       ELSE init' = [init EXCEPT ![t] = "warning"] /\ UNCHANGED muHolder
  /\ UNCHANGED <<rpcOverrides, active, client, sharedUDClient, live, resolvers,
                 warnings>>

\* It does not answer in time, or is of another chain: what was opened is
\* closed, and the next endpoint is dialled if there is one.
DialFails(t) ==
  /\ init[t] = "dialling"
  /\ urls' = [urls EXCEPT ![t] = Tail(@)]
  /\ IF Tail(urls[t]) # <<>>
       THEN UNCHANGED <<init, muHolder>>
       ELSE init' = [init EXCEPT ![t] = "warning"] /\ muHolder' = Unlocked(t)
  /\ UNCHANGED <<rpcOverrides, active, client, sharedUDClient, live, resolvers,
                 warnings>>

\* The collecting loop takes a result from the channel.
Collect(t) ==
  /\ init[t] \in {"resolver", "warning"}
  /\ IF init[t] = "resolver"
       THEN resolvers' = resolvers \union {t} /\ UNCHANGED warnings
       ELSE warnings' = warnings \union {t} /\ UNCHANGED resolvers
  /\ init' = [init EXCEPT ![t] = "collected"]
  /\ UNCHANGED <<rpcOverrides, active, urls, client, sharedUDClient, muHolder, live>>

InitStep(t) == \/ NewResolver(t) \/ getSharedUDClient(t)
               \/ DialSucceeds(t) \/ DialFails(t) \/ Collect(t)

\* Mutant: off by one in the number of results.
InitReturnedEarly ==
  Cardinality(resolvers) + Cardinality(warnings) >= Cardinality(active) - 1

\* InitAll returns after as many results as there are active chains.
InitReturned == Cardinality(resolvers) + Cardinality(warnings) = Cardinality(active)

-----------------------------------------------------------------------------
(* Shutdown.                                                               *)

\* Mutant: the shared client is taken to be closed by the resolvers' Close.
CloseResolversOnly ==
  /\ live' = live \ {client[t] : t \in resolvers \intersect ClosableTLDs}
  /\ UNCHANGED <<rpcOverrides, active, init, urls, client, sharedUDClient,
                 muHolder, resolvers, warnings>>

\* MultiResolver.Close, which closes the clients of .eth and .bnb only, and
\* then CloseSharedUDClient.
CloseResolvers ==
  /\ live' = live \ ({client[t] : t \in resolvers \intersect ClosableTLDs}
                       \union {sharedUDClient})
  /\ sharedUDClient' = NoClient
  /\ UNCHANGED <<rpcOverrides, active, init, urls, client, muHolder,
                 resolvers, warnings>>

-----------------------------------------------------------------------------
(* Properties.                                                             *)

\* All resolvers of the Unstoppable Domains hold one and the same client and
\* no second one was opened, in whatever order their goroutines dial, fail
\* and retry (unstoppable.go:26-47).
OneSharedClient ==
  /\ \A t, u \in resolvers \intersect SharedTLDs : client[t] = client[u]
  /\ Cardinality({c \in live : c.tld \in SharedTLDs}) <= 1

\* The endpoints the configuration gives a TLD, and the TLDs whose goroutine
\* may have dialled its client.
Configured(t) == IF rpcOverrides[t] # "" THEN {rpcOverrides[t]}
                 ELSE {DefaultRPCs[t][i] : i \in DOMAIN DefaultRPCs[t]}
Sharing(t) == IF t \in SharedTLDs THEN active \intersect SharedTLDs ELSE {t}

\* Nothing is resolved through an endpoint the configuration does not give: an
\* override that fails is never replaced by a public default, neither that of
\* a chain with its own client nor those of the Unstoppable Domains, whose
\* client comes from the configuration of one of them (evm.go:54-58,
\* unstoppable.go:34-44, main.go:227-232).
OverrideHonoured ==
  \A t \in resolvers : \E u \in Sharing(t) : client[t].url \in Configured(u)

\* "InitAll initializes all registered chains with optional per-chain RPC
\* overrides.  rpcOverrides maps TLD (e.g. ".eth") to a custom RPC URL."
\* (resolver.go:205-206): a TLD that has an override is resolved through it.
OverridePerTLD ==
  \A t \in resolvers : rpcOverrides[t] # "" => client[t].url = rpcOverrides[t]

\* When InitAll returns every active chain is registered or warned of, none
\* is both, and no goroutine is left that dials or holds the mutex
\* (resolver.go:225-250).
AllReported ==
  InitReturned =>
    /\ resolvers \union warnings = active /\ resolvers \intersect warnings = {}
    /\ muHolder = Nobody
    /\ \A t \in active : init[t] = "collected"
=============================================================================
