------------------------- MODULE ResolverCacheProofs ------------------------
(***************************************************************************)
(* Proofs about ResolverCache for every finite set of domains, every set   *)
(* of callers, every limit, lifetime and delay.                            *)
(***************************************************************************)
EXTENDS ResolverCache, FiniteSetTheorems, TLAPS

\* An entry that has not expired has an address that is no older than the
\* lifetime it has used up and the delay of the store that wrote it.
Young(e) == e.ttl >= 0 => e.age + e.ttl <= TTL + StoreDelay

\* Cached entries and the copies that callers check are young, and a caller
\* about to store got its address at most StoreDelay ticks ago.
YoungAll ==
  /\ \A d \in Domains : Young(cacheMap[d])
  /\ \A r \in Requests :
       /\ pc[r] = "checking" => Young(entry[r])
       /\ pc[r] = "storing" => entry[r] \in Entries /\ entry[r].age <= StoreDelay

\* The inductive invariant behind Fresh.
AgeInv == TypeOK /\ YoungAll /\ Fresh

\* Time keeps an entry an entry, the absence of one its absence, and a young
\* entry young.
LEMMA OlderEntry ==
  ASSUME NEW e \in Entries \union {NoEntry}
  PROVE  /\ Older(e) \in Entries \union {NoEntry}
         /\ Older(e) = NoEntry <=> e = NoEntry
         /\ e \in Entries => /\ Older(e) \in Entries
                             /\ Older(e).age <= e.age + 1
         /\ Young(e) => Young(Older(e))
<1> USE CacheBounds
<1>1. CASE e = NoEntry
  BY <1>1 DEF Older, NoEntry, Entries
<1>2. CASE e \in Entries
  <2>1. e # NoEntry
    BY <1>2 DEF NoEntry, Entries
  <2> QED BY <1>2, <2>1 DEF Older, Entries, NoEntry, MaxAge, Young
<1> QED BY <1>1, <1>2

\* The types hold at the start.
LEMMA InitTypeOK == Init => TypeOK
BY DEF Init, TypeOK, PC

\* Every step preserves the types; what a caller is about to store is an
\* entry.
LEMMA NextTypeOK == TypeOK /\ YoungAll /\ [Next]_vars => TypeOK'
<1> SUFFICES ASSUME TypeOK, YoungAll, [Next]_vars PROVE TypeOK'
  OBVIOUS
<1> USE DEF TypeOK, PC
<1>1. ASSUME NEW r \in Requests, Lookup(r) PROVE TypeOK'
  BY <1>1 DEF Lookup
<1>2. ASSUME NEW r \in Requests, Check(r) PROVE TypeOK'
  BY <1>2 DEF Check
<1>3. ASSUME NEW r \in Requests, DeleteExpired(r) PROVE TypeOK'
  BY <1>3 DEF DeleteExpired
<1>4. ASSUME NEW r \in Requests, Resolves(r) PROVE TypeOK'
  <2>1. [ttl |-> TTL, age |-> 0] \in Entries
    BY CacheBounds DEF Entries, MaxAge
  <2> QED BY <1>4, <2>1 DEF Resolves
<1>5. ASSUME NEW r \in Requests, ResolveFails(r) PROVE TypeOK'
  BY <1>5 DEF ResolveFails
<1>6. ASSUME NEW r \in Requests, StoreResult(r) PROVE TypeOK'
  <2>1. entry[r] \in Entries
    BY <1>6 DEF StoreResult, YoungAll
  <2>2. [entry[r] EXCEPT !.ttl = TTL] \in Entries
    BY <2>1, CacheBounds DEF Entries
  <2> QED BY <1>6, <2>2 DEF StoreResult
<1>7. ASSUME NEW r \in Requests, Return(r) PROVE TypeOK'
  BY <1>7 DEF Return
<1>8. CASE Cleanup
  BY <1>8 DEF Cleanup
<1>9. CASE Close
  BY <1>9 DEF Close
<1>10. CASE Tick
  BY <1>10, OlderEntry DEF Tick
<1>11. CASE UNCHANGED vars
  BY <1>11 DEF vars
<1> QED BY <1>1, <1>2, <1>3, <1>4, <1>5, <1>6, <1>7, <1>8, <1>9, <1>10, <1>11
        DEF Next

\* Every step keeps entries young and answers fresh.
LEMMA NextYoung ==
  AgeInv /\ [Next]_vars => YoungAll' /\ Fresh'
<1> SUFFICES ASSUME AgeInv, [Next]_vars PROVE YoungAll' /\ Fresh'
  OBVIOUS
<1> USE CacheBounds DEF AgeInv, TypeOK
<1>0. Young(NoEntry)
  BY DEF Young, NoEntry
<1>1. ASSUME NEW r \in Requests, Lookup(r) PROVE YoungAll' /\ Fresh'
  BY <1>1 DEF Lookup, YoungAll, Fresh, Young
<1>2. ASSUME NEW r \in Requests, Check(r) PROVE YoungAll' /\ Fresh'
  <2>1. YoungAll'
    BY <1>2 DEF Check, YoungAll, Young
  <2>2. entry[r].ttl > 0 => entry[r].age <= TTL + StoreDelay
    <3>1. CASE entry[r] \in Entries
      BY <1>2, <3>1 DEF Check, YoungAll, Young, Entries
    <3>2. CASE entry[r] = NoEntry
      BY <3>2 DEF NoEntry
    <3> QED BY <3>1, <3>2
  <2>3. Fresh'
    BY <1>2, <2>2 DEF Check, Fresh
  <2> QED BY <2>1, <2>3
<1>3. ASSUME NEW r \in Requests, DeleteExpired(r) PROVE YoungAll' /\ Fresh'
  BY <1>0, <1>3 DEF DeleteExpired, YoungAll, Fresh
<1>4. ASSUME NEW r \in Requests, Resolves(r) PROVE YoungAll' /\ Fresh'
  <2>1. [ttl |-> TTL, age |-> 0] \in Entries
    BY DEF Entries, MaxAge
  <2> QED BY <1>4, <2>1 DEF Resolves, YoungAll, Fresh
<1>5. ASSUME NEW r \in Requests, ResolveFails(r) PROVE YoungAll' /\ Fresh'
  BY <1>5 DEF ResolveFails, YoungAll, Fresh
<1>6. ASSUME NEW r \in Requests, StoreResult(r) PROVE YoungAll' /\ Fresh'
  <2>1. entry[r] \in Entries /\ entry[r].age <= StoreDelay
    BY <1>6 DEF StoreResult, YoungAll
  <2>2. Young([entry[r] EXCEPT !.ttl = TTL])
    BY <2>1 DEF Young, Entries
  <2>3. entry[r].age <= TTL + StoreDelay
    BY <2>1 DEF Entries
  <2>4. \A d \in Domains : Young(cacheMap'[d])
    BY <1>0, <1>6, <2>2 DEF StoreResult, YoungAll
  <2>5. YoungAll'
    BY <1>6, <2>4 DEF StoreResult, YoungAll
  <2>6. Fresh'
    BY <1>6, <2>3 DEF StoreResult, Fresh
  <2> QED BY <2>5, <2>6
<1>7. ASSUME NEW r \in Requests, Return(r) PROVE YoungAll' /\ Fresh'
  BY <1>7 DEF Return, YoungAll, Fresh
<1>8. CASE Cleanup
  BY <1>0, <1>8 DEF Cleanup, YoungAll, Fresh
<1>9. CASE Close
  BY <1>9 DEF Close, YoungAll, Fresh
<1>10. CASE Tick
  <2>1. \A d \in Domains : Young(cacheMap'[d])
    BY <1>10, OlderEntry DEF Tick, YoungAll
  <2>2. ASSUME NEW r \in Requests, pc[r] = "checking" PROVE Young(entry'[r])
    BY <1>10, <2>2, OlderEntry DEF Tick, YoungAll
  <2>3. ASSUME NEW r \in Requests, pc[r] = "storing"
        PROVE  entry'[r] \in Entries /\ entry'[r].age <= StoreDelay
    <3>1. entry[r] \in Entries /\ entry[r].age < StoreDelay
      BY <1>10, <2>3 DEF Tick, YoungAll
    <3>2. entry'[r] = Older(entry[r])
      BY <1>10 DEF Tick
    <3>3. entry'[r] \in Entries /\ entry'[r].age <= entry[r].age + 1
      BY <3>1, <3>2, OlderEntry
    <3> QED BY <3>1, <3>3 DEF Entries
  <2>4. pc' = pc /\ \A r \in Requests : pc[r] # "answered"
    BY <1>10 DEF Tick
  <2> QED BY <2>1, <2>2, <2>3, <2>4 DEF YoungAll, Fresh
<1>11. CASE UNCHANGED vars
  BY <1>11 DEF vars, YoungAll, Fresh
<1> QED BY <1>1, <1>2, <1>3, <1>4, <1>5, <1>6, <1>7, <1>8, <1>9, <1>10, <1>11
        DEF Next

\* The inductive invariant holds.
THEOREM AgeInvHolds == Spec => []AgeInv
<1>1. Init => AgeInv
  <2> SUFFICES ASSUME Init PROVE AgeInv
    OBVIOUS
  <2>1. YoungAll /\ Fresh
    BY DEF Init, YoungAll, Young, NoEntry, Fresh
  <2> QED BY <2>1, InitTypeOK DEF AgeInv
<1>2. AgeInv /\ [Next]_vars => AgeInv'
  BY NextTypeOK, NextYoung DEF AgeInv
<1> QED BY <1>1, <1>2, PTL DEF Spec

\* Map, calls and cleanup goroutine keep their types.
THEOREM TypeCorrect == Spec => []TypeOK
<1>1. AgeInv => TypeOK
  BY DEF AgeInv
<1> QED BY <1>1, AgeInvHolds, PTL

\* No caller is given an address older than the lifetime of an entry and the
\* delay of one store (resolver.go:277-280, 306-312).
THEOREM FreshHolds == Spec => []Fresh
<1>1. AgeInv => Fresh
  BY DEF AgeInv
<1> QED BY <1>1, AgeInvHolds, PTL

\* What eviction keeps is within the limit, if the cache was at most one entry
\* above it.
LEMMA EvictedBound ==
  ASSUME AtMostOneOver, NEW kept \in SUBSET Cached, Evicted(kept)
  PROVE  IsFiniteSet(kept) /\ Cardinality(kept) <= maxCacheEntries
<1> USE CacheBounds
<1>1. IsFiniteSet(Cached) /\ IsFiniteSet(Cached \ Expired) /\ IsFiniteSet(kept)
  <2>1. Cached \subseteq Domains /\ Cached \ Expired \subseteq Domains
        /\ kept \subseteq Domains
    BY DEF Cached
  <2> QED BY <2>1, DomainsFinite, FS_Subset
<1>2. /\ Cardinality(Cached) \in Nat /\ Cardinality(Cached \ Expired) \in Nat
      /\ Cardinality(Cached \ Expired) <= Cardinality(Cached)
  <2>1. Cached \ Expired \subseteq Cached
    OBVIOUS
  <2> QED BY <1>1, <2>1, FS_CardinalityType, FS_Subset
<1>3. CASE kept = Cached /\ Cardinality(Cached) <= maxCacheEntries
  BY <1>1, <1>3
<1>4. CASE kept = Cached \ Expired
           /\ Cardinality(Cached \ Expired) <= maxCacheEntries
  BY <1>1, <1>4
<1>5. CASE \E d \in Cached \ Expired : kept = (Cached \ Expired) \ {d}
  <2>1. PICK d \in Cached \ Expired : kept = (Cached \ Expired) \ {d}
    BY <1>5
  <2>2. Cardinality(kept) = Cardinality(Cached \ Expired) - 1
    BY <1>1, <2>1, FS_RemoveElement
  <2> QED BY <1>1, <1>2, <2>2 DEF AtMostOneOver
<1> QED BY <1>3, <1>4, <1>5 DEF Evicted

\* One more domain in a set within the limit.
LEMMA OneMore ==
  ASSUME NEW S, IsFiniteSet(S), Cardinality(S) <= maxCacheEntries, NEW x
  PROVE  /\ IsFiniteSet(S \union {x})
         /\ Cardinality(S \union {x}) <= maxCacheEntries + 1
         /\ Cardinality(S \union {x}) \in Nat
<1>1. Cardinality(S) \in Nat
  BY FS_CardinalityType
<1>2. CASE x \in S
  <2>1. S \union {x} = S
    BY <1>2
  <2>2. /\ IsFiniteSet(S \union {x})
        /\ Cardinality(S \union {x}) = Cardinality(S)
    BY <2>1, Zenon
  <2> QED BY <1>1, <2>2, CacheBounds
<1>3. CASE x \notin S
  <2>1. /\ IsFiniteSet(S \union {x})
        /\ Cardinality(S \union {x}) = Cardinality(S) + 1
    BY <1>3, FS_AddElement
  <2> QED BY <1>1, <2>1, CacheBounds
<1> QED BY <1>2, <1>3

\* A step that adds no domain to the cache keeps it within its bound.
LEMMA FewerCached ==
  ASSUME AtMostOneOver, Cached' \subseteq Cached
  PROVE  AtMostOneOver'
<1>1. IsFiniteSet(Cached)
  BY DomainsFinite, FS_Subset DEF Cached
<1>2. Cardinality(Cached') <= Cardinality(Cached)
  BY <1>1, FS_Subset
<1>3. Cardinality(Cached) \in Nat /\ Cardinality(Cached') \in Nat
  BY <1>1, FS_Subset, FS_CardinalityType
<1> QED BY <1>2, <1>3, CacheBounds DEF AtMostOneOver

\* However many callers store at once, the cache is never more than one entry
\* above its limit (resolver.go:132-161, 306-312).
THEOREM SizeBounded == Spec => []AtMostOneOver
<1>1. Init => AtMostOneOver
  <2> SUFFICES ASSUME Init PROVE AtMostOneOver
    OBVIOUS
  <2>1. Cached = {}
    BY DEF Init, Cached
  <2> QED BY <2>1, FS_EmptySet, CacheBounds DEF AtMostOneOver
<1>2. TypeOK /\ AtMostOneOver /\ [Next]_vars => AtMostOneOver'
  <2> SUFFICES ASSUME TypeOK, AtMostOneOver, [Next]_vars PROVE AtMostOneOver'
    OBVIOUS
  <2>1. ASSUME NEW r \in Requests, StoreResult(r) PROVE AtMostOneOver'
    <3>1. PICK kept \in SUBSET Cached :
            /\ Evicted(kept)
            /\ cacheMap' = [d \in Domains |->
                 IF d = dom[r] THEN [entry[r] EXCEPT !.ttl = TTL]
                 ELSE IF d \in kept THEN cacheMap[d] ELSE NoEntry]
      BY <2>1 DEF StoreResult
    <3>2. Cached' \subseteq kept \union {dom[r]}
      BY <3>1 DEF Cached
    <3>3. IsFiniteSet(kept) /\ Cardinality(kept) <= maxCacheEntries
          /\ Cardinality(kept) \in Nat
      BY <3>1, EvictedBound, FS_CardinalityType
    <3>4. /\ IsFiniteSet(kept \union {dom[r]})
          /\ Cardinality(kept \union {dom[r]}) <= maxCacheEntries + 1
          /\ Cardinality(kept \union {dom[r]}) \in Nat
      BY <3>3, OneMore
    <3>5. /\ Cardinality(Cached') <= Cardinality(kept \union {dom[r]})
          /\ Cardinality(Cached') \in Nat
      BY <3>2, <3>4, FS_Subset, FS_CardinalityType
    <3> QED BY <3>4, <3>5, CacheBounds DEF AtMostOneOver
  <2>2. CASE \E r \in Requests : Lookup(r) \/ Check(r) \/ Resolves(r)
                                 \/ ResolveFails(r) \/ Return(r)
    <3>1. cacheMap' = cacheMap
      BY <2>2 DEF Lookup, Check, Resolves, ResolveFails, Return
    <3> QED BY <3>1, FewerCached DEF Cached
  <2>3. ASSUME NEW r \in Requests, DeleteExpired(r) PROVE AtMostOneOver'
    <3>1. Cached' \subseteq Cached
      BY <2>3 DEF DeleteExpired, Cached, TypeOK
    <3> QED BY <3>1, FewerCached
  <2>4. CASE Cleanup
    <3>1. Cached' \subseteq Cached
      BY <2>4 DEF Cleanup, Cached
    <3> QED BY <3>1, FewerCached
  <2>5. CASE Close \/ UNCHANGED vars
    BY <2>5, FewerCached DEF Close, vars, Cached
  <2>6. CASE Tick
    <3>1. Cached' \subseteq Cached
      BY <2>6, OlderEntry DEF Tick, Cached, TypeOK
    <3> QED BY <3>1, FewerCached
  <2> QED BY <2>1, <2>2, <2>3, <2>4, <2>5, <2>6 DEF Next
<1> QED BY <1>1, <1>2, TypeCorrect, PTL DEF Spec

\* One step of EvictsOldest.
EvictsOldestStep ==
  \A d \in Cached, e \in Cached :
    /\ cacheMap'[d] = NoEntry /\ cacheMap'[e] = cacheMap[e]
    /\ \A r \in Requests : pc[r] = "deleting" => pc'[r] = "deleting"
    => cacheMap[d].ttl <= cacheMap[e].ttl

\* Eviction and cleanup remove an entry only if every entry they keep expires
\* no earlier (resolver.go:117-125, 138-160).
THEOREM EvictsOldestHolds == Spec => EvictsOldest
<1>1. AgeInv /\ [Next]_vars => [EvictsOldestStep]_vars
  <2> SUFFICES ASSUME TypeOK, YoungAll, Next, NEW d \in Cached, NEW e \in Cached,
                      cacheMap'[d] = NoEntry, cacheMap'[e] = cacheMap[e],
                      \A r \in Requests : pc[r] = "deleting" => pc'[r] = "deleting"
               PROVE  cacheMap[d].ttl <= cacheMap[e].ttl
    BY DEF EvictsOldestStep, AgeInv
  <2> USE CacheBounds
  <2>1. /\ d \in Domains /\ cacheMap[d] \in Entries /\ cacheMap[d] # NoEntry
        /\ e \in Domains /\ cacheMap[e] \in Entries
        /\ cacheMap[d].ttl \in -1..TTL /\ cacheMap[e].ttl \in -1..TTL
    BY DEF Cached, TypeOK, Entries
  <2>2. CASE d \in Expired
    BY <2>1, <2>2 DEF Expired
  <2>3. ASSUME NEW r \in Requests, StoreResult(r), d \notin Expired
        PROVE  cacheMap[d].ttl <= cacheMap[e].ttl
    <3>1. PICK kept \in SUBSET Cached :
            /\ Evicted(kept)
            /\ cacheMap' = [x \in Domains |->
                 IF x = dom[r] THEN [entry[r] EXCEPT !.ttl = TTL]
                 ELSE IF x \in kept THEN cacheMap[x] ELSE NoEntry]
      BY <2>3 DEF StoreResult
    <3>2. entry[r] \in Entries
      BY <2>3 DEF StoreResult, YoungAll, TypeOK, Young, NoEntry
    <3>3. /\ [entry[r] EXCEPT !.ttl = TTL] \in Entries
          /\ [entry[r] EXCEPT !.ttl = TTL].ttl = TTL
          /\ [entry[r] EXCEPT !.ttl = TTL] # NoEntry
      BY <3>2 DEF Entries, NoEntry, MaxAge
    <3>4. d \notin kept
      BY <2>1, <3>1, <3>3
    <3>5. cacheMap[e].ttl = TTL \/ e \in kept
      BY <2>1, <3>1, <3>3 DEF Cached
    <3>6. CASE e \in kept
      <4>1. PICK x \in Cached \ Expired :
              /\ \A y \in Cached \ Expired : cacheMap[x].ttl <= cacheMap[y].ttl
              /\ kept = (Cached \ Expired) \ {x}
        BY <2>3, <3>1, <3>4 DEF Evicted
      <4>2. d = x /\ e \in Cached \ Expired
        BY <2>3, <3>4, <3>6, <4>1
      <4> QED BY <4>1, <4>2
    <3> QED BY <2>1, <3>5, <3>6
  <2>4. ASSUME NEW r \in Requests, DeleteExpired(r) PROVE FALSE
    BY <2>4 DEF DeleteExpired, TypeOK
  <2>5. CASE \E r \in Requests : Lookup(r) \/ Check(r) \/ Resolves(r)
                                 \/ ResolveFails(r) \/ Return(r)
    <3>1. cacheMap' = cacheMap
      BY <2>5 DEF Lookup, Check, Resolves, ResolveFails, Return
    <3> QED BY <2>1, <3>1
  <2>6. CASE Cleanup
    BY <2>1, <2>2, <2>6 DEF Cleanup
  <2>7. CASE Close
    BY <2>1, <2>7 DEF Close
  <2>8. CASE Tick
    BY <2>1, <2>8, OlderEntry DEF Tick
  <2> QED BY <2>2, <2>3, <2>4, <2>5, <2>6, <2>7, <2>8 DEF Next
<1> QED BY <1>1, AgeInvHolds, PTL DEF Spec, EvictsOldest, EvictsOldestStep

-----------------------------------------------------------------------------
(* What may remove an entry that has not expired.                          *)

\* A caller about to delete has read an entry that is expired for good.
DeletingExpired ==
  \A r \in Requests : pc[r] = "deleting" => entry[r].ttl <= 0

\* Time does not make an expired entry valid again.
LEMMA OlderExpired ==
  ASSUME NEW e \in Entries \union {NoEntry}, e.ttl <= 0
  PROVE  Older(e).ttl <= 0
<1>1. CASE e = NoEntry
  BY <1>1 DEF Older, NoEntry
<1>2. CASE e \in Entries
  <2>1. e # NoEntry /\ e.ttl \in -1..TTL
    BY <1>2 DEF NoEntry, Entries
  <2> QED BY <2>1, CacheBounds DEF Older
<1> QED BY <1>1, <1>2

\* Only Check sends a caller to the deletion, and only time touches what the
\* caller has read.
LEMMA NextDeletingExpired ==
  TypeOK /\ DeletingExpired /\ [Next]_vars => DeletingExpired'
<1> SUFFICES ASSUME TypeOK, DeletingExpired, [Next]_vars PROVE DeletingExpired'
  OBVIOUS
<1> USE DEF TypeOK, PC, DeletingExpired
<1>1. ASSUME NEW r \in Requests, Check(r) PROVE DeletingExpired'
  <2>1. entry[r].ttl \in Int
    BY CacheBounds DEF Entries, NoEntry
  <2> QED BY <1>1, <2>1 DEF Check
<1>2. ASSUME NEW r \in Requests,
             Lookup(r) \/ DeleteExpired(r) \/ Resolves(r) \/ ResolveFails(r)
             \/ StoreResult(r) \/ Return(r)
      PROVE  DeletingExpired'
  BY <1>2 DEF Lookup, DeleteExpired, Resolves, ResolveFails, StoreResult, Return
<1>3. CASE Cleanup \/ Close \/ UNCHANGED vars
  BY <1>3 DEF Cleanup, Close, vars
<1>4. CASE Tick
  BY <1>4, OlderExpired DEF Tick
<1> QED BY <1>1, <1>2, <1>3, <1>4 DEF Next

\* One step of CachedForTTL.
CachedForTTLStep ==
  \A d \in Cached :
    cacheMap[d].ttl > 0 /\ cacheMap'[d] = NoEntry =>
      \/ Cardinality(Cached) > maxCacheEntries
      \/ \E r \in Requests : /\ pc[r] = "deleting" /\ dom[r] = d
                            /\ entry[r].ttl <= 0

\* An entry that has not expired is lost only to eviction above the limit or
\* to a caller that had read an expired one (resolver.go:269, 282-284).
THEOREM CachedForTTLHolds == Spec => CachedForTTL
<1>1. Init => DeletingExpired
  BY DEF Init, DeletingExpired
<1>2. AgeInv /\ DeletingExpired /\ [Next]_vars => [CachedForTTLStep]_vars
  <2> SUFFICES ASSUME TypeOK, YoungAll, DeletingExpired, Next,
                      NEW d \in Cached, cacheMap[d].ttl > 0,
                      cacheMap'[d] = NoEntry,
                      Cardinality(Cached) \in Nat,
                      ~(Cardinality(Cached) > maxCacheEntries)
               PROVE  \E r \in Requests : /\ pc[r] = "deleting" /\ dom[r] = d
                                         /\ entry[r].ttl <= 0
    <3>1. Cached \subseteq Domains
      BY DEF Cached
    <3>2. Cardinality(Cached) \in Nat
      BY <3>1, DomainsFinite, FS_Subset, FS_CardinalityType
    <3> QED BY <3>2 DEF CachedForTTLStep, AgeInv
  <2> USE CacheBounds
  <2>1. /\ d \in Domains /\ cacheMap[d] \in Entries /\ cacheMap[d] # NoEntry
        /\ cacheMap[d].ttl \in -1..TTL
    BY DEF Cached, TypeOK, Entries
  <2>2. ASSUME NEW r \in Requests, StoreResult(r) PROVE FALSE
    <3>1. PICK kept \in SUBSET Cached :
            /\ Evicted(kept)
            /\ cacheMap' = [x \in Domains |->
                 IF x = dom[r] THEN [entry[r] EXCEPT !.ttl = TTL]
                 ELSE IF x \in kept THEN cacheMap[x] ELSE NoEntry]
      BY <2>2 DEF StoreResult
    <3>2. kept = Cached
      BY <3>1 DEF Evicted
    <3>3. entry[r] \in Entries
      BY <2>2 DEF StoreResult, YoungAll
    <3>4. [entry[r] EXCEPT !.ttl = TTL] # NoEntry
      BY <3>3 DEF Entries, NoEntry
    <3> QED BY <2>1, <3>1, <3>2, <3>4
  <2>3. ASSUME NEW r \in Requests, DeleteExpired(r)
        PROVE  pc[r] = "deleting" /\ dom[r] = d /\ entry[r].ttl <= 0
    BY <2>1, <2>3 DEF DeleteExpired, DeletingExpired, TypeOK
  <2>4. CASE \E r \in Requests : Lookup(r) \/ Check(r) \/ Resolves(r)
                                 \/ ResolveFails(r) \/ Return(r)
    <3>1. cacheMap' = cacheMap
      BY <2>4 DEF Lookup, Check, Resolves, ResolveFails, Return
    <3> QED BY <2>1, <3>1
  <2>5. CASE Cleanup
    <3>1. d \notin Expired
      BY <2>1 DEF Expired
    <3> QED BY <2>1, <2>5, <3>1 DEF Cleanup
  <2>6. CASE Close
    BY <2>1, <2>6 DEF Close
  <2>7. CASE Tick
    BY <2>1, <2>7, OlderEntry DEF Tick
  <2> QED BY <2>2, <2>3, <2>4, <2>5, <2>6, <2>7 DEF Next
<1>3. AgeInv => TypeOK
  BY DEF AgeInv
<1> QED BY <1>1, <1>2, <1>3, NextDeletingExpired, AgeInvHolds, PTL
        DEF Spec, CachedForTTL, CachedForTTLStep
=============================================================================
