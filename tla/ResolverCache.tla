---------------------------- MODULE ResolverCache ---------------------------
(***************************************************************************)
(* The resolution cache of MultiResolver (internal/resolver/resolver.go):  *)
(* ResolveToADNL called by many requests at once, the eviction it does     *)
(* before it stores, and the cleanup goroutine.                            *)
(*                                                                         *)
(* Time is relative: an entry keeps the ticks left until expiresAt, from   *)
(* TTL down to -1 ("after" it), and the ticks since its address was read   *)
(* on chain.  The address itself is abstracted away.                       *)
(***************************************************************************)
EXTENDS Integers, FiniteSets

CONSTANTS
  Domains,          \* domain names
  Requests,         \* calls of ResolveToADNL
  maxCacheEntries,  \* 10000
  TTL,              \* resolveCacheTTL
  StoreDelay        \* bound: ticks from the chain's answer to its use

ASSUME DomainsFinite == IsFiniteSet(Domains)
ASSUME CacheBounds   == /\ maxCacheEntries \in Nat \ {0}
                        /\ TTL \in Nat \ {0} /\ StoreDelay \in Nat

VARIABLES
  cacheMap,   \* domain -> entry or NoEntry, under cacheMu
  pc, dom,    \* request: program counter, the domain it resolves
  entry,      \* request: the copy of a cache entry, or what it resolved
  cleaner     \* cleanupLoop: "running", or "stopped" by Close

vars == <<cacheMap, pc, dom, entry, cleaner>>

MaxAge  == TTL + StoreDelay + 1    \* ages are counted up to here
Entries == [ttl: -1..TTL, age: 0..MaxAge]
NoEntry == [ttl |-> -1, age |-> -1]
PC == {"idle", "checking", "deleting", "resolving", "storing", "answered",
       "failed"}

Cached  == {d \in Domains : cacheMap[d] # NoEntry}
Expired == {d \in Cached : cacheMap[d].ttl < 0}    \* now.After(expiresAt)

Init ==
  /\ cacheMap = [d \in Domains |-> NoEntry]
  /\ pc = [r \in Requests |-> "idle"]
  /\ dom \in [Requests -> Domains]
  /\ entry = [r \in Requests |-> NoEntry]
  /\ cleaner = "running"

-----------------------------------------------------------------------------
(* ResolveToADNL.                                                          *)

\* The read under cacheMu.RLock.
Lookup(r) ==
  /\ pc[r] = "idle"
  /\ entry' = [entry EXCEPT ![r] = cacheMap[dom[r]]]
  /\ pc' = [pc EXCEPT ![r] = IF cacheMap[dom[r]] = NoEntry THEN "resolving"
                                                           ELSE "checking"]
  /\ UNCHANGED <<cacheMap, dom, cleaner>>

\* Mutant: a hit renews the entry.
CheckRenews(r) ==
  /\ pc[r] = "checking"
  /\ pc' = [pc EXCEPT ![r] = IF entry[r].ttl > 0 THEN "answered"
                                                 ELSE "deleting"]
  /\ cacheMap' = IF entry[r].ttl > 0 /\ cacheMap[dom[r]] # NoEntry
                   THEN [cacheMap EXCEPT ![dom[r]].ttl = TTL] ELSE cacheMap
  /\ UNCHANGED <<dom, entry, cleaner>>

\* time.Now().Before(entry.expiresAt), on the copy, with no lock held.
Check(r) ==
  /\ pc[r] = "checking"
  /\ pc' = [pc EXCEPT ![r] = IF entry[r].ttl > 0 THEN "answered"
                                                 ELSE "deleting"]
  /\ UNCHANGED <<cacheMap, dom, entry, cleaner>>

\* The expired entry is deleted by its key, whatever is there now.
DeleteExpired(r) ==
  /\ pc[r] = "deleting"
  /\ cacheMap' = [cacheMap EXCEPT ![dom[r]] = NoEntry]
  /\ pc' = [pc EXCEPT ![r] = "resolving"]
  /\ UNCHANGED <<dom, entry, cleaner>>

\* m.Resolve answers with 32 bytes in hexadecimal.
Resolves(r) ==
  /\ pc[r] = "resolving"
  /\ entry' = [entry EXCEPT ![r] = [ttl |-> TTL, age |-> 0]]
  /\ pc' = [pc EXCEPT ![r] = "storing"]
  /\ UNCHANGED <<cacheMap, dom, cleaner>>

\* m.Resolve fails, or its result is no ADNL address: nothing is cached.
ResolveFails(r) ==
  /\ pc[r] = "resolving"
  /\ pc' = [pc EXCEPT ![r] = "failed"]
  /\ UNCHANGED <<cacheMap, dom, entry, cleaner>>

\* Mutant: no eviction.
EvictedNever(kept) == kept = Cached

\* Mutant: eviction does not spare the entries that expire later.
EvictedAny(kept) ==
  IF Cardinality(Cached) <= maxCacheEntries THEN kept = Cached
  ELSE \E d \in Cached : kept = Cached \ {d}

\* evictIfNeeded: what it keeps.  Above the limit, the expired entries go;
\* if that is not enough, one entry with the earliest expiresAt.
Evicted(kept) ==
  IF Cardinality(Cached) <= maxCacheEntries THEN kept = Cached
  ELSE IF Cardinality(Cached \ Expired) <= maxCacheEntries
         THEN kept = Cached \ Expired
  ELSE \E d \in Cached \ Expired :
         /\ \A e \in Cached \ Expired : cacheMap[d].ttl <= cacheMap[e].ttl
         /\ kept = (Cached \ Expired) \ {d}

\* Eviction and store under one cacheMu.Lock; the domain may be there again.
StoreResult(r) ==
  /\ pc[r] = "storing"
  /\ \E kept \in SUBSET Cached :
       /\ Evicted(kept)
       /\ cacheMap' = [d \in Domains |->
            IF d = dom[r] THEN [entry[r] EXCEPT !.ttl = TTL]
            ELSE IF d \in kept THEN cacheMap[d] ELSE NoEntry]
  /\ pc' = [pc EXCEPT ![r] = "answered"]
  /\ UNCHANGED <<dom, entry, cleaner>>

\* The caller has its answer or its error; another call may start.
Return(r) ==
  /\ pc[r] \in {"answered", "failed"}
  /\ pc' = [pc EXCEPT ![r] = "idle"]
  /\ entry' = [entry EXCEPT ![r] = NoEntry]
  /\ \E d \in Domains : dom' = [dom EXCEPT ![r] = d]
  /\ UNCHANGED <<cacheMap, cleaner>>

-----------------------------------------------------------------------------
(* cleanupLoop, Close and time.                                            *)

\* Mutant: entries that expire before the next turn go as well.
CleanupEager ==
  /\ cleaner = "running"
  /\ cacheMap' = [d \in Domains |-> IF d \in Cached /\ cacheMap[d].ttl < 2
                                       THEN NoEntry ELSE cacheMap[d]]
  /\ UNCHANGED <<pc, dom, entry, cleaner>>

\* Every minute, under cacheMu.Lock.
Cleanup ==
  /\ cleaner = "running"
  /\ cacheMap' = [d \in Domains |-> IF d \in Expired THEN NoEntry
                                                     ELSE cacheMap[d]]
  /\ UNCHANGED <<pc, dom, entry, cleaner>>

Close ==
  /\ cleaner = "running"
  /\ cleaner' = "stopped"
  /\ UNCHANGED <<cacheMap, pc, dom, entry>>

Older(e) ==
  IF e = NoEntry THEN e
  ELSE [ttl |-> IF e.ttl > -1 THEN e.ttl - 1 ELSE -1,
        age |-> IF e.age < MaxAge THEN e.age + 1 ELSE MaxAge]

\* A caller is not suspended for more than StoreDelay ticks between the
\* answer of the chain, or of the cache, and its use.
Tick ==
  /\ \A r \in Requests : /\ pc[r] = "storing" => entry[r].age < StoreDelay
                         /\ pc[r] # "answered"
  /\ cacheMap' = [d \in Domains |-> Older(cacheMap[d])]
  /\ entry' = [r \in Requests |-> Older(entry[r])]
  /\ UNCHANGED <<pc, dom, cleaner>>

Next ==
  \/ \E r \in Requests :
       \/ Lookup(r) \/ Check(r) \/ DeleteExpired(r) \/ Resolves(r)
       \/ ResolveFails(r) \/ StoreResult(r) \/ Return(r)
  \/ Cleanup \/ Close \/ Tick

Spec == Init /\ [][Next]_vars

-----------------------------------------------------------------------------
(* Properties.                                                             *)

\* Every variable has its type: the map, the calls and the goroutine.
TypeOK ==
  /\ cacheMap \in [Domains -> Entries \union {NoEntry}]
  /\ pc \in [Requests -> PC] /\ dom \in [Requests -> Domains]
  /\ entry \in [Requests -> Entries \union {NoEntry}]
  /\ cleaner \in {"running", "stopped"}

\* However many calls store at once, the cache never holds more than one
\* entry above maxCacheEntries.  It does hold that one, although
\* "maxCacheEntries is the maximum number of entries in the resolution cache"
\* (resolver.go:88): evictIfNeeded returns early when len(cacheMap) <=
\* maxCacheEntries, so that a full cache is not full for it, and the store
\* adds its entry after the eviction (resolver.go:135, 306-311).
AtMostOneOver == Cardinality(Cached) <= maxCacheEntries + 1

\* An address given to a caller was on chain at most the TTL and the delay of
\* one store ago, whatever concurrent calls stored, deleted or evicted
\* meanwhile (resolver.go:277-280, 306-312).
Fresh ==
  \A r \in Requests : pc[r] = "answered" => entry[r].age <= TTL + StoreDelay

\* A store at the limit sacrifices no entry while an expired one could go,
\* and never one that expires later than another that it keeps; the cleanup
\* removes expired entries only (resolver.go:117-125, 138-160).
EvictsOldest ==
  [][\A d \in Cached, e \in Cached :
       /\ cacheMap'[d] = NoEntry /\ cacheMap'[e] = cacheMap[e]
       /\ \A r \in Requests : pc[r] = "deleting" => pc'[r] = "deleting"
       => cacheMap[d].ttl <= cacheMap[e].ttl]_vars

\* "Results are cached for resolveCacheTTL" (resolver.go:269): an entry that
\* has not expired leaves the map only by eviction from a cache above its
\* limit, or when a caller that read its predecessor, expired by then, deletes
\* by key what has been stored in between (resolver.go:282-284).
CachedForTTL ==
  [][\A d \in Cached :
       cacheMap[d].ttl > 0 /\ cacheMap'[d] = NoEntry =>
         \/ Cardinality(Cached) > maxCacheEntries
         \/ \E r \in Requests : /\ pc[r] = "deleting" /\ dom[r] = d
                               /\ entry[r].ttl <= 0]_vars
=============================================================================
