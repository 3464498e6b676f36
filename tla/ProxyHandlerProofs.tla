------------------------- MODULE ProxyHandlerProofs -------------------------
(***************************************************************************)
(* Proofs about ProxyHandler for every set of requests, every number of    *)
(* rotations and every choice of timeouts with RequestTimeout below        *)
(* DrainTimeout.                                                           *)
(***************************************************************************)
EXTENDS ProxyHandler, FiniteSetTheorems, TLAPS

\* The members of a WaitGroup are finitely many.
LEMMA MembersFinite ==
  ASSUME NEW w
  PROVE  IsFiniteSet(Members(w))
<1>1. Members(w) \subseteq Requests
  BY DEF Members
<1> QED BY <1>1, RequestsFinite, FS_Subset

\* A WaitGroup counter counts from its finitely many members: it is a natural
\* number, and positive while a member is in flight.
LEMMA CounterPositive ==
  ASSUME WaitGroupCounts, NEW w \in Circuits, NEW r \in Members(w)
  PROVE  wgCount[w] \in Nat /\ wgCount[w] > 0
<1>1. IsFiniteSet(Members(w))
  BY MembersFinite
<1>2. Members(w) # {}
  OBVIOUS
<1>3. Cardinality(Members(w)) \in Nat /\ Cardinality(Members(w)) # 0
  BY <1>1, <1>2, FS_CardinalityType, FS_EmptySet
<1> QED BY <1>3 DEF WaitGroupCounts

\* The types hold at the start.
LEMMA InitTypeOK == Init => TypeOK
<1> SUFFICES ASSUME Init PROVE TypeOK
  OBVIOUS
<1>1. 1 \in Circuits
  BY MaxCircuitsPos DEF Circuits
<1>2. NoDrain \in Drains
  BY <1>1, TimeoutsNat DEF NoDrain, Drains
<1>3. drain \in [Circuits -> Drains] /\ wgCount \in [Circuits -> Nat]
      /\ destroys \in [Circuits -> Nat]
  BY <1>2 DEF Init
<1>4. /\ pc \in [Requests -> PC] /\ lease \in [Requests -> Circuits]
      /\ leaseWg \in [Requests -> Circuits]
      /\ left \in [Requests -> 0..RequestTimeout] /\ mainLeft \in 0..ShutdownTimeout
  BY <1>1, TimeoutsNat DEF Init, PC
<1>5. ctxDone \in BOOLEAN
  BY Zenon DEF Init
<1> QED BY <1>1, <1>3, <1>4, <1>5 DEF Init, TypeOK

\* Finish forgets the locals of its own request and no other.
LEMMA FinishLocals ==
  ASSUME TypeOK, NEW r \in Requests, Finish(r)
  PROVE  /\ pc'[r] = "done" /\ lease'[r] = 1 /\ leaseWg'[r] = 1 /\ left'[r] = 0
         /\ \A q \in Requests \ {r} :
              /\ pc'[q] = pc[q] /\ lease'[q] = lease[q]
              /\ leaseWg'[q] = leaseWg[q] /\ left'[q] = left[q]
BY DEF Finish, Returns, TypeOK

\* Every step preserves the types; the counter of a WaitGroup stays natural
\* because it counts its members.
LEMMA NextTypeOK == TypeOK /\ WaitGroupCounts /\ [Next]_vars => TypeOK'
<1> SUFFICES ASSUME TypeOK, WaitGroupCounts, [Next]_vars PROVE TypeOK'
  OBVIOUS
<1> USE DEF TypeOK, rotVars, mainVars, leaseVars, PC
<1>1. ASSUME NEW r \in Requests, Accept(r) PROVE TypeOK'
  BY <1>1 DEF Accept
<1>2. ASSUME NEW r \in Requests, Reject(r) PROVE TypeOK'
  BY <1>2 DEF Reject
<1>3. ASSUME NEW r \in Requests, Capture(r) PROVE TypeOK'
  BY <1>3, TimeoutsNat DEF Capture
<1>4. ASSUME NEW r \in Requests, Advance(r) PROVE TypeOK'
  BY <1>4 DEF Advance, UsesBackend
<1>5. ASSUME NEW r \in Requests, Finish(r) PROVE TypeOK'
  <2>1. r \in Members(leaseWg[r]) /\ leaseWg[r] \in Circuits
    BY <1>5 DEF Finish, Members
  <2>2. wgCount[leaseWg[r]] - 1 \in Nat
    BY <2>1, CounterPositive
  <2>3. 1 \in Circuits /\ 0 \in 0..RequestTimeout
    BY MaxCircuitsPos, TimeoutsNat DEF Circuits
  <2> QED BY <1>5, <2>1, <2>2, <2>3 DEF Finish, Returns
<1>6. CASE RotationTimer
  BY <1>6 DEF RotationTimer
<1>7. CASE BuildFails
  BY <1>7 DEF BuildFails
<1>8. CASE BuildSucceeds
  BY <1>8, MaxCircuitsPos DEF BuildSucceeds, Circuits
<1>9. CASE Swap
  <2>1. [stage |-> "waiting", wg |-> backendWg, left |-> DrainTimeout] \in Drains
    BY TimeoutsNat DEF Drains
  <2> QED BY <1>9, <2>1 DEF Swap
<1>10. CASE RotationStops
  BY <1>10 DEF RotationStops
<1>11. ASSUME NEW c \in Circuits, DrainEnds(c) PROVE TypeOK'
  <2>1. 0 \in 0..DrainTimeout
    BY TimeoutsNat
  <2> QED BY <1>11, <2>1 DEF DrainEnds, Drains
<1>12. ASSUME NEW c \in Circuits, DrainCloses(c) PROVE TypeOK'
  <2>1. drain' \in [Circuits -> Drains]
    BY <1>12 DEF DrainCloses, Drains
  <2>2. destroys' \in [Circuits -> Nat]
    BY <1>12 DEF DrainCloses, Destroy
  <2> QED BY <1>12, <2>1, <2>2 DEF DrainCloses
<1>13. CASE Signal
  BY <1>13, TimeoutsNat DEF Signal
<1>14. CASE ShutdownReturns
  BY <1>14, TimeoutsNat DEF ShutdownReturns
<1>15. CASE ServerFails
  BY <1>15 DEF ServerFails
<1>16. CASE CloseResources
  BY <1>16 DEF CloseResources, Destroy
<1>17. CASE Exit
  BY <1>17 DEF Exit
<1>18. CASE Tick
  <2>1. left' \in [Requests -> 0..RequestTimeout]
    BY <1>18, TimeoutsNat DEF Tick
  <2>2. drain' \in [Circuits -> Drains]
    <3> DEFINE older(d) == [d EXCEPT !.left = IF @ > 0 THEN @ - 1 ELSE 0]
    <3>1. ASSUME NEW d \in Drains PROVE older(d) \in Drains
      <4>1. (IF d.left > 0 THEN d.left - 1 ELSE 0) \in 0..DrainTimeout
        BY TimeoutsNat DEF Drains
      <4>2. ASSUME NEW n \in 0..DrainTimeout PROVE [d EXCEPT !.left = n] \in Drains
        BY DEF Drains
      <4> QED BY <4>1, <4>2
    <3>2. drain' = [c \in Circuits |-> older(drain[c])]
      BY <1>18 DEF Tick
    <3> HIDE DEF older
    <3> QED BY <3>1, <3>2
  <2>3. mainLeft' \in 0..ShutdownTimeout
    BY <1>18, TimeoutsNat DEF Tick
  <2> QED BY <1>18, <2>1, <2>2, <2>3 DEF Tick
<1>19. CASE UNCHANGED vars
  BY <1>19 DEF vars
<1> QED BY <1>1, <1>2, <1>3, <1>4, <1>5, <1>6, <1>7, <1>8, <1>9, <1>10,
           <1>11, <1>12, <1>13, <1>14, <1>15, <1>16, <1>17, <1>18, <1>19
        DEF Next, Terminated

\* A step that changes neither the program counters nor the captured
\* WaitGroups keeps every WaitGroup as it is.
LEMMA MembersKept ==
  ASSUME UNCHANGED <<pc, leaseWg>>, NEW w
  PROVE  Members(w)' = Members(w)
BY DEF Members, InFlight

\* Every step keeps the counters equal to the numbers of members.
LEMMA NextCounts ==
  TypeOK /\ WaitGroupCounts /\ [Next]_vars => WaitGroupCounts'
<1> SUFFICES ASSUME TypeOK, WaitGroupCounts, [Next]_vars,
                    NEW w \in Circuits
             PROVE  wgCount'[w] = Cardinality(Members(w)')
  BY DEF WaitGroupCounts
<1> USE DEF rotVars, mainVars, leaseVars
<1>1. CASE UNCHANGED <<wgCount, pc, leaseWg>>
  BY <1>1, MembersKept DEF WaitGroupCounts
<1>2. ASSUME NEW r \in Requests, Accept(r) \/ Reject(r) \/ Advance(r)
      PROVE  wgCount'[w] = Cardinality(Members(w)')
  <2>1. Members(w)' = Members(w)
    BY <1>2 DEF Accept, Reject, Advance, Members, InFlight, UsesBackend, TypeOK
  <2>2. wgCount' = wgCount
    BY <1>2 DEF Accept, Reject, Advance
  <2> QED BY <2>1, <2>2 DEF WaitGroupCounts
<1>3. ASSUME NEW r \in Requests, Capture(r)
      PROVE  wgCount'[w] = Cardinality(Members(w)')
  <2>1. r \notin Members(w)
    BY <1>3 DEF Capture, Members, InFlight
  <2>2. CASE w = backendWg
    <3>1. Members(w)' = Members(w) \union {r}
      BY <1>3, <2>2 DEF Capture, Members, InFlight, TypeOK
    <3>2. Cardinality(Members(w)') = Cardinality(Members(w)) + 1
      BY <2>1, <3>1, MembersFinite, FS_AddElement
    <3> QED BY <1>3, <2>2, <3>2 DEF Capture, WaitGroupCounts, TypeOK
  <2>3. CASE w # backendWg
    <3>1. Members(w)' = Members(w)
      BY <1>3, <2>3 DEF Capture, Members, InFlight, TypeOK
    <3> QED BY <1>3, <2>3, <3>1 DEF Capture, WaitGroupCounts, TypeOK
  <2> QED BY <2>2, <2>3
<1>4. ASSUME NEW r \in Requests, Finish(r)
      PROVE  wgCount'[w] = Cardinality(Members(w)')
  <2>1. CASE w = leaseWg[r]
    <3>1. Members(w)' = Members(w) \ {r} /\ r \in Members(w)
      BY <1>4, <2>1, FinishLocals DEF Finish, Members, InFlight
    <3>2. Cardinality(Members(w)') = Cardinality(Members(w)) - 1
      BY <3>1, MembersFinite, FS_RemoveElement
    <3> QED BY <1>4, <2>1, <3>2 DEF Finish, WaitGroupCounts, TypeOK
  <2>2. CASE w # leaseWg[r]
    <3>1. Members(w)' = Members(w)
      BY <1>4, <2>2, FinishLocals DEF Finish, Members, InFlight
    <3> QED BY <1>4, <2>2, <3>1 DEF Finish, WaitGroupCounts, TypeOK
  <2> QED BY <2>1, <2>2
<1>5. CASE RotationTimer \/ BuildFails \/ BuildSucceeds \/ Swap \/ RotationStops
  BY <1>1, <1>5 DEF RotationTimer, BuildFails, BuildSucceeds, Swap, RotationStops
<1>6. ASSUME NEW c \in Circuits, DrainEnds(c) \/ DrainCloses(c)
      PROVE  wgCount'[w] = Cardinality(Members(w)')
  BY <1>1, <1>6 DEF DrainEnds, DrainCloses
<1>7. CASE Signal \/ ShutdownReturns \/ ServerFails \/ CloseResources \/ Exit
  BY <1>1, <1>7 DEF Signal, ShutdownReturns, ServerFails, CloseResources, Exit
<1>8. CASE Tick
  BY <1>1, <1>8 DEF Tick
<1>9. CASE UNCHANGED vars
  BY <1>1, <1>9 DEF vars
<1> QED BY <1>2, <1>3, <1>4, <1>5, <1>6, <1>7, <1>8, <1>9 DEF Next, Terminated

\* Every step keeps circuits and WaitGroups paired.
LEMMA NextPaired == TypeOK /\ Paired /\ [Next]_vars => Paired'
<1> SUFFICES ASSUME TypeOK, Paired, [Next]_vars PROVE Paired'
  OBVIOUS
<1> USE DEF Paired, rotVars, mainVars, leaseVars
<1>1. ASSUME NEW r \in Requests, Accept(r) \/ Reject(r) \/ Advance(r) \/ Finish(r)
      PROVE  Paired'
  <2>1. CASE Accept(r) \/ Reject(r) \/ Advance(r)
    BY <2>1 DEF Accept, Reject, Advance
  <2>2. CASE Finish(r)
    <3>1. \A q \in Requests : leaseWg'[q] = lease'[q]
      <4>1. leaseWg'[r] = lease'[r]
        BY <2>2, FinishLocals
      <4>2. \A q \in Requests \ {r} : leaseWg'[q] = lease'[q]
        BY <2>2, FinishLocals
      <4> QED BY <4>1, <4>2
    <3> QED BY <2>2, <3>1 DEF Finish
  <2> QED BY <1>1, <2>1, <2>2
<1>2. ASSUME NEW r \in Requests, Capture(r) PROVE Paired'
  BY <1>2 DEF Capture, TypeOK
<1>3. CASE RotationTimer \/ BuildFails \/ BuildSucceeds \/ RotationStops
  BY <1>3 DEF RotationTimer, BuildFails, BuildSucceeds, RotationStops
<1>4. CASE Swap
  BY <1>4 DEF Swap, TypeOK
<1>5. ASSUME NEW c \in Circuits, DrainEnds(c) \/ DrainCloses(c) PROVE Paired'
  BY <1>5 DEF DrainEnds, DrainCloses, TypeOK, Drains
<1>6. CASE Signal \/ ShutdownReturns \/ ServerFails \/ CloseResources \/ Exit
  BY <1>6 DEF Signal, ShutdownReturns, ServerFails, CloseResources, Exit
<1>7. CASE Tick
  <2>1. \A c \in Circuits : drain'[c].stage = drain[c].stage /\ drain'[c].wg = drain[c].wg
    BY <1>7 DEF Tick, TypeOK, Drains
  <2> QED BY <1>7, <2>1 DEF Tick
<1>8. CASE UNCHANGED vars
  BY <1>8 DEF vars
<1> QED BY <1>1, <1>2, <1>3, <1>4, <1>5, <1>6, <1>7, <1>8 DEF Next, Terminated

\* Every step keeps the order in which circuits replace each other.
LEMMA NextInOrder == TypeOK /\ InOrder /\ [Next]_vars => InOrder'
<1> SUFFICES ASSUME TypeOK, InOrder, [Next]_vars PROVE InOrder'
  OBVIOUS
<1> USE DEF InOrder, rotVars, mainVars, leaseVars
<1>1. ASSUME NEW r \in Requests,
             Accept(r) \/ Reject(r) \/ Capture(r) \/ Advance(r) \/ Finish(r)
      PROVE  InOrder'
  <2>1. CASE Capture(r)
    <3>1. ASSUME NEW q \in Requests PROVE lease'[q] <= backend
      <4>1. lease'[q] = lease[q] \/ lease'[q] = backend
        BY <2>1 DEF Capture, TypeOK
      <4>2. backend \in Int
        BY DEF TypeOK, Circuits
      <4> QED BY <4>1, <4>2
    <3> QED BY <2>1, <3>1 DEF Capture
  <2>2. CASE Accept(r) \/ Reject(r) \/ Advance(r)
    BY <2>2 DEF Accept, Reject, Advance
  <2>3. CASE Finish(r)
    <3>1. \A q \in Requests : lease'[q] <= backend
      <4>1. lease'[r] <= backend
        <5>1. lease'[r] = 1
          BY <2>3, FinishLocals
        <5> QED BY <5>1 DEF TypeOK, Circuits
      <4>2. \A q \in Requests \ {r} : lease'[q] <= backend
        BY <2>3, FinishLocals
      <4> QED BY <4>1, <4>2
    <3> QED BY <2>3, <3>1 DEF Finish
  <2> QED BY <1>1, <2>1, <2>2, <2>3
<1>2. CASE RotationTimer \/ BuildFails \/ RotationStops
  BY <1>2 DEF RotationTimer, BuildFails, RotationStops
<1>3. CASE BuildSucceeds
  BY <1>3 DEF BuildSucceeds
<1>4. CASE Swap
  <2>1. built = backend + 1 /\ backend' = built /\ rot' = "sleeping" /\ built' = built
    BY <1>4 DEF Swap
  <2>2. ASSUME NEW c \in Circuits
        PROVE  drain'[c].stage = "none" <=> c >= backend + 1
    <3>1. CASE c = backend
      BY <1>4, <3>1 DEF Swap, TypeOK, Circuits
    <3>2. CASE c # backend
      <4>1. drain'[c] = drain[c]
        BY <1>4, <3>2 DEF Swap, TypeOK
      <4>2. c >= backend <=> c >= backend + 1
        BY <3>2, MaxCircuitsPos DEF TypeOK, Circuits
      <4> QED BY <4>1, <4>2
    <3> QED BY <3>1, <3>2
  <2>3. ASSUME NEW r \in Requests PROVE lease'[r] <= built
    <3>1. lease'[r] = lease[r] /\ lease[r] <= backend
      BY <1>4 DEF Swap
    <3>2. lease[r] \in Int /\ backend \in Int
      BY DEF TypeOK, Circuits
    <3> QED BY <2>1, <3>1, <3>2
  <2> QED BY <2>1, <2>2, <2>3
<1>5. ASSUME NEW c \in Circuits, DrainEnds(c) \/ DrainCloses(c) PROVE InOrder'
  <2>1. ASSUME NEW d \in Circuits
        PROVE  drain'[d].stage = "none" <=> drain[d].stage = "none"
    <3>1. CASE d = c
      BY <1>5, <3>1 DEF DrainEnds, DrainCloses, TypeOK, Drains
    <3>2. CASE d # c
      BY <1>5, <3>2 DEF DrainEnds, DrainCloses, TypeOK
    <3> QED BY <3>1, <3>2
  <2> QED BY <1>5, <2>1 DEF DrainEnds, DrainCloses
<1>6. CASE Signal \/ ShutdownReturns \/ ServerFails \/ CloseResources \/ Exit
  BY <1>6 DEF Signal, ShutdownReturns, ServerFails, CloseResources, Exit
<1>7. CASE Tick
  <2>1. \A c \in Circuits : drain'[c].stage = drain[c].stage
    BY <1>7 DEF Tick, TypeOK, Drains
  <2> QED BY <1>7, <2>1 DEF Tick
<1>8. CASE UNCHANGED vars
  BY <1>8 DEF vars
<1> QED BY <1>1, <1>2, <1>3, <1>4, <1>5, <1>6, <1>7, <1>8 DEF Next, Terminated

\* The circuit in service is not being drained.
LEMMA CurrentNotDrained ==
  ASSUME TypeOK, InOrder
  PROVE  drain[backend].stage = "none"
<1>1. backend \in Circuits /\ backend >= backend
  BY DEF TypeOK, Circuits
<1> QED BY <1>1 DEF InOrder

\* Every step keeps the drain's timer behind those of the requests it waits
\* for: a swap starts it above them, and time lowers both.
LEMMA NextDrainLeads ==
  TypeOK /\ InOrder /\ DrainLeads /\ [Next]_vars => DrainLeads'
<1> SUFFICES ASSUME TypeOK, InOrder, DrainLeads, [Next]_vars,
                    NEW c \in Circuits, NEW r \in Requests,
                    drain'[c].stage = "waiting", UsesBackend(r)', lease'[r] = c
             PROVE  left'[r] < drain'[c].left
  BY DEF DrainLeads
<1> USE DEF rotVars, mainVars, leaseVars
<1>1. CASE /\ drain'[c].stage = drain[c].stage /\ drain'[c].left = drain[c].left
           /\ lease'[r] = lease[r] /\ left'[r] = left[r] /\ UsesBackend(r)
  BY <1>1 DEF DrainLeads
<1>2. ASSUME NEW q \in Requests, Accept(q) \/ Reject(q) \/ Advance(q) \/ Finish(q)
      PROVE  left'[r] < drain'[c].left
  <2>1. UsesBackend(r)
    BY <1>2 DEF Accept, Reject, Advance, Finish, UsesBackend, InFlight, TypeOK
  <2>2. CASE Finish(q)
    <3>1. r # q
      BY <2>2, FinishLocals DEF UsesBackend
    <3> QED BY <1>1, <2>1, <2>2, <3>1, FinishLocals DEF Finish
  <2> QED BY <1>1, <1>2, <2>1, <2>2 DEF Accept, Reject, Advance
<1>3. ASSUME NEW q \in Requests, Capture(q) PROVE left'[r] < drain'[c].left
  <2>1. CASE q = r
    <3>1. c = backend /\ drain' = drain
      BY <1>3, <2>1 DEF Capture, TypeOK
    <3>2. drain[backend].stage = "none"
      BY CurrentNotDrained
    <3> QED BY <3>1, <3>2
  <2>2. CASE q # r
    BY <1>1, <1>3, <2>2 DEF Capture, UsesBackend, TypeOK
  <2> QED BY <2>1, <2>2
<1>4. CASE RotationTimer \/ BuildFails \/ BuildSucceeds \/ RotationStops
  BY <1>1, <1>4
  DEF RotationTimer, BuildFails, BuildSucceeds, RotationStops, UsesBackend
<1>5. CASE Swap
  <2>1. CASE c = backend
    <3>1. drain'[c].left = DrainTimeout /\ left'[r] = left[r]
      BY <1>5, <2>1 DEF Swap, TypeOK
    <3>2. left[r] \in 0..RequestTimeout
      BY DEF TypeOK
    <3> QED BY <3>1, <3>2, TimeoutsNat, DrainOutlastsRequest
  <2>2. CASE c # backend
    BY <1>1, <1>5, <2>2 DEF Swap, UsesBackend, TypeOK
  <2> QED BY <2>1, <2>2
<1>6. ASSUME NEW d \in Circuits, DrainEnds(d) \/ DrainCloses(d)
      PROVE  left'[r] < drain'[c].left
  <2>1. c # d
    BY <1>6 DEF DrainEnds, DrainCloses, TypeOK, Drains
  <2> QED BY <1>1, <1>6, <2>1 DEF DrainEnds, DrainCloses, UsesBackend, TypeOK
<1>7. CASE Signal \/ ShutdownReturns \/ ServerFails \/ CloseResources \/ Exit
  BY <1>1, <1>7
  DEF Signal, ShutdownReturns, ServerFails, CloseResources, Exit, UsesBackend
<1>8. CASE Tick
  <2>1. drain[c].stage = "waiting" /\ UsesBackend(r) /\ lease[r] = c
    BY <1>8 DEF Tick, UsesBackend, TypeOK, Drains
  <2>2. left[r] < drain[c].left /\ left[r] > 0
    BY <1>8, <2>1 DEF Tick, DrainLeads
  <2>3. left'[r] = left[r] - 1 /\ left[r] \in Nat
    BY <1>8, <2>2, TimeoutsNat DEF Tick, TypeOK
  <2>4. drain[c] \in Drains /\ drain[c].left \in Nat
    BY TimeoutsNat DEF TypeOK, Drains
  <2>5. drain'[c].left = drain[c].left - 1
    BY <1>8, <2>2, <2>3, <2>4 DEF Tick, Drains
  <2> QED BY <2>2, <2>3, <2>4, <2>5
<1>9. CASE UNCHANGED vars
  BY <1>1, <1>9 DEF vars, UsesBackend
<1> QED BY <1>2, <1>3, <1>4, <1>5, <1>6, <1>7, <1>8, <1>9 DEF Next, Terminated

\* No step closes a circuit in use: a drain that ends because its WaitGroup
\* is empty has no user left, one that ends by its timer cannot have one.
LEMMA NextNeverClosesInUse ==
  IndInv /\ [Next]_vars => RotationNeverClosesInUse'
<1> SUFFICES ASSUME IndInv, [Next]_vars, NEW c \in Circuits, NEW r \in Requests,
                    drain'[c].stage \in {"closing", "closed"}, UsesBackend(r)'
             PROVE  lease'[r] # c
  BY DEF RotationNeverClosesInUse
<1> USE DEF rotVars, mainVars, leaseVars
<1>1. CASE drain'[c].stage = drain[c].stage /\ lease'[r] = lease[r] /\ UsesBackend(r)
  BY <1>1 DEF IndInv, RotationNeverClosesInUse
<1>2. ASSUME NEW q \in Requests, Accept(q) \/ Reject(q) \/ Advance(q) \/ Finish(q)
      PROVE  lease'[r] # c
  <2>1. UsesBackend(r)
    BY <1>2 DEF Accept, Reject, Advance, Finish, UsesBackend, InFlight, IndInv, TypeOK
  <2>2. CASE Finish(q)
    <3>1. TypeOK
      BY DEF IndInv
    <3>2. r # q
      BY <2>2, <3>1, FinishLocals DEF UsesBackend
    <3> QED BY <1>1, <2>1, <2>2, <3>1, <3>2, FinishLocals DEF Finish
  <2> QED BY <1>1, <1>2, <2>1, <2>2 DEF Accept, Reject, Advance
<1>3. ASSUME NEW q \in Requests, Capture(q) PROVE lease'[r] # c
  <2>1. CASE q = r
    <3>1. lease'[r] = backend /\ drain' = drain
      BY <1>3, <2>1 DEF Capture, IndInv, TypeOK
    <3>2. drain[backend].stage = "none"
      BY CurrentNotDrained DEF IndInv
    <3> QED BY <3>1, <3>2
  <2>2. CASE q # r
    BY <1>1, <1>3, <2>2 DEF Capture, UsesBackend, IndInv, TypeOK
  <2> QED BY <2>1, <2>2
<1>4. CASE RotationTimer \/ BuildFails \/ BuildSucceeds \/ RotationStops
  BY <1>1, <1>4
  DEF RotationTimer, BuildFails, BuildSucceeds, RotationStops, UsesBackend
<1>5. CASE Swap
  <2>1. c # backend
    BY <1>5 DEF Swap, IndInv, TypeOK
  <2> QED BY <1>1, <1>5, <2>1 DEF Swap, UsesBackend, IndInv, TypeOK
<1>6. ASSUME NEW d \in Circuits, DrainEnds(d) PROVE lease'[r] # c
  <2>1. CASE c # d
    BY <1>1, <1>6, <2>1 DEF DrainEnds, UsesBackend, IndInv, TypeOK
  <2>2. CASE c = d
    <3>1. UsesBackend(r) /\ lease' = lease /\ drain[c].stage = "waiting"
      BY <1>6, <2>2 DEF DrainEnds, UsesBackend
    <3>2. SUFFICES ASSUME lease[r] = c PROVE FALSE
      BY <3>1
    <3>3. r \in Members(c)
      BY <3>1, <3>2 DEF Members, InFlight, UsesBackend, IndInv, Paired
    <3>4. wgCount[drain[c].wg] # 0
      BY <3>1, <3>3, CounterPositive DEF IndInv, Paired
    <3>5. drain[c].left # 0
      <4>1. left[r] < drain[c].left
        BY <3>1, <3>2 DEF IndInv, DrainLeads
      <4>2. left[r] \in Nat
        BY TimeoutsNat DEF IndInv, TypeOK
      <4> QED BY <4>1, <4>2
    <3> QED BY <1>6, <2>2, <3>4, <3>5 DEF DrainEnds
  <2> QED BY <2>1, <2>2
<1>7. ASSUME NEW d \in Circuits, DrainCloses(d) PROVE lease'[r] # c
  <2>1. drain[c].stage \in {"closing", "closed"}
    BY <1>7 DEF DrainCloses, IndInv, TypeOK, Drains
  <2>2. lease' = lease /\ UsesBackend(r)
    BY <1>7 DEF DrainCloses, UsesBackend
  <2> QED BY <2>1, <2>2 DEF IndInv, RotationNeverClosesInUse
<1>8. CASE Signal \/ ShutdownReturns \/ ServerFails \/ CloseResources \/ Exit
  BY <1>1, <1>8
  DEF Signal, ShutdownReturns, ServerFails, CloseResources, Exit, UsesBackend
<1>9. CASE Tick
  <2>1. drain'[c].stage = drain[c].stage
    BY <1>9 DEF Tick, IndInv, TypeOK, Drains
  <2> QED BY <1>1, <1>9, <2>1 DEF Tick, UsesBackend
<1>10. CASE UNCHANGED vars
  BY <1>1, <1>10 DEF vars, UsesBackend
<1> QED BY <1>2, <1>3, <1>4, <1>5, <1>6, <1>7, <1>8, <1>9, <1>10
        DEF Next, Terminated

\* The inductive invariant holds at the start.
LEMMA InitIndInv == Init => IndInv
<1> SUFFICES ASSUME Init PROVE IndInv
  OBVIOUS
<1>1. TypeOK
  BY InitTypeOK
<1>2. WaitGroupCounts
  <2>1. \A w \in Circuits : Members(w) = {}
    BY DEF Init, Members, InFlight
  <2> QED BY <2>1, FS_EmptySet DEF Init, WaitGroupCounts
<1>3. Paired /\ InOrder
  BY MaxCircuitsPos DEF Init, Paired, InOrder, NoDrain, Circuits
<1>4. DrainLeads /\ RotationNeverClosesInUse
  BY DEF Init, DrainLeads, RotationNeverClosesInUse, NoDrain
<1> QED BY <1>1, <1>2, <1>3, <1>4 DEF IndInv

\* The inductive invariant of the handler: counters, pairing, order and
\* timers, for every number of requests, rotations and ticks.
THEOREM IndInvHolds == Spec => []IndInv
<1>1. IndInv /\ [Next]_vars => IndInv'
  BY NextTypeOK, NextCounts, NextPaired, NextInOrder, NextDrainLeads,
     NextNeverClosesInUse DEF IndInv
<1> QED BY <1>1, InitIndInv, PTL DEF Spec

\* Types: in particular no WaitGroup counter is ever negative.
THEOREM TypeCorrect == Spec => []TypeOK
<1>1. IndInv => TypeOK
  BY DEF IndInv
<1> QED BY <1>1, IndInvHolds, PTL

\* Each WaitGroup counts exactly its members.
THEOREM CountsCorrect == Spec => []WaitGroupCounts
<1>1. IndInv => WaitGroupCounts
  BY DEF IndInv
<1> QED BY <1>1, IndInvHolds, PTL

\* Rotation never closes a circuit that a request still uses.
THEOREM RotationSafe == Spec => []RotationNeverClosesInUse
<1>1. IndInv => RotationNeverClosesInUse
  BY DEF IndInv
<1> QED BY <1>1, IndInvHolds, PTL

\* Exactly the replaced circuits have a drain goroutine.
THEOREM ReplacedDrained == Spec => []ReplacedAreDrained
<1>1. IndInv => ReplacedAreDrained
  <2> SUFFICES ASSUME IndInv, NEW c \in 1..built
               PROVE  drain[c].stage = "none"
                        <=> c = backend \/ (rot = "built" /\ c = built)
    BY DEF ReplacedAreDrained
  <2>1. c \in Circuits /\ built \in Int /\ backend \in Int /\ c \in Int
    BY MaxCircuitsPos DEF IndInv, TypeOK, Circuits
  <2>2. drain[c].stage = "none" <=> c >= backend
    BY <2>1 DEF IndInv, InOrder
  <2>3. c >= backend <=> c = backend \/ (rot = "built" /\ c = built)
    BY <2>1 DEF IndInv, InOrder
  <2> QED BY <2>2, <2>3
<1> QED BY <1>1, IndInvHolds, PTL

\* No request joins a WaitGroup after its drain has started.
THEOREM NoLateJoinHolds == Spec => NoLateJoin
<1> DEFINE A == \A c \in Circuits : drain[c].stage # "none"
                  => wgCount'[drain[c].wg] <= wgCount[drain[c].wg]
<1>1. IndInv /\ [Next]_vars => [A]_vars
  <2> SUFFICES ASSUME IndInv, Next, NEW c \in Circuits, drain[c].stage # "none"
               PROVE  wgCount'[drain[c].wg] <= wgCount[drain[c].wg]
    BY Zenon
  <2>1. drain[c].wg = c /\ c # backendWg /\ wgCount[c] \in Nat
    <3>1. drain[c].wg = c /\ backendWg = backend
      BY DEF IndInv, Paired
    <3>2. ~(c >= backend)
      BY DEF IndInv, InOrder
    <3>3. backend \in Circuits /\ wgCount[c] \in Nat
      BY DEF IndInv, TypeOK
    <3>4. c # backend
      BY <3>2, <3>3, MaxCircuitsPos DEF Circuits
    <3> QED BY <3>1, <3>3, <3>4
  <2>2. CASE wgCount' = wgCount
    BY <2>1, <2>2
  <2> USE DEF rotVars, mainVars, leaseVars
  <2>3. ASSUME NEW r \in Requests, Capture(r)
        PROVE  wgCount'[drain[c].wg] <= wgCount[drain[c].wg]
    BY <2>1, <2>3 DEF Capture, IndInv, TypeOK
  <2>4. ASSUME NEW r \in Requests, Finish(r)
        PROVE  wgCount'[drain[c].wg] <= wgCount[drain[c].wg]
    BY <2>1, <2>4 DEF Finish, IndInv, TypeOK
  <2>5. ASSUME NEW r \in Requests, Accept(r) \/ Reject(r) \/ Advance(r)
        PROVE  wgCount' = wgCount
    BY <2>5 DEF Accept, Reject, Advance
  <2>6. ASSUME NEW d \in Circuits, DrainEnds(d) \/ DrainCloses(d)
        PROVE  wgCount' = wgCount
    BY <2>6 DEF DrainEnds, DrainCloses
  <2>7. CASE RotationTimer \/ BuildFails \/ BuildSucceeds \/ Swap \/ RotationStops
    BY <2>2, <2>7 DEF RotationTimer, BuildFails, BuildSucceeds, Swap, RotationStops
  <2>8. CASE Signal \/ ShutdownReturns \/ ServerFails \/ CloseResources \/ Exit
    BY <2>2, <2>8 DEF Signal, ShutdownReturns, ServerFails, CloseResources, Exit
  <2>9. CASE Tick \/ Terminated
    BY <2>2, <2>9 DEF Tick, Terminated, vars
  <2> QED BY <2>2, <2>3, <2>4, <2>5, <2>6, <2>7, <2>8, <2>9 DEF Next
<1> HIDE DEF A
<1>2. Spec => [][A]_vars
  BY <1>1, IndInvHolds, PTL DEF Spec
<1> QED BY <1>2 DEF NoLateJoin, A

-----------------------------------------------------------------------------
(* ProxyHandler implements BackendLease.                                   *)

\* The circuits that rotation has closed, the abstract variable "closed".
ClosedSet == {c \in Circuits : drain[c].stage \in {"closing", "closed"}}

\* A step that leaves the users, the current circuit and the closed circuits
\* alone is a stuttering step of the lease.
LEMMA LeaseStutters ==
  ASSUME UNCHANGED <<pc, lease, backend>>, ClosedSet' = ClosedSet
  PROVE  [Lease!Next]_(Lease!vars)
<1>1. \A c \in Circuits : UsersOf(c)' = UsersOf(c)
  BY DEF UsersOf, UsesBackend
<1> QED BY <1>1 DEF Lease!vars, ClosedSet

\* The initial states of the handler are initial states of the lease.
LEMMA InitLease == Init => Lease!Init
<1> SUFFICES ASSUME Init PROVE Lease!Init
  OBVIOUS
<1>1. backend \in Circuits
  BY InitTypeOK DEF TypeOK
<1>2. ClosedSet = {}
  BY DEF Init, NoDrain, ClosedSet
<1>3. \A c \in Circuits : UsersOf(c) = {}
  BY DEF Init, UsersOf, UsesBackend
<1> QED BY <1>1, <1>2, <1>3 DEF Lease!Init, ClosedSet

\* A request that stops using its circuit releases it.
LEMMA LeavingReleases ==
  ASSUME TypeOK, NEW r \in Requests, UsesBackend(r), ~UsesBackend(r)',
         \A q \in Requests \ {r} : pc'[q] = pc[q] /\ lease'[q] = lease[q],
         UNCHANGED <<backend, drain>>
  PROVE  Lease!Release(r)
<1>1. r \in UsersOf(lease[r]) /\ lease[r] \in Circuits
  BY DEF UsersOf, TypeOK
<1>2. \A c \in Circuits : UsersOf(c)' = UsersOf(c) \ {r}
  BY DEF UsersOf, UsesBackend
<1> QED BY <1>1, <1>2 DEF Lease!Release

\* Every step of the handler is a step of the lease or leaves it alone.
LEMMA NextLease ==
  IndInv /\ IndInv' /\ [Next]_vars => [Lease!Next]_(Lease!vars)
<1> SUFFICES ASSUME IndInv, IndInv', [Next]_vars
             PROVE  [Lease!Next]_(Lease!vars)
  OBVIOUS
<1> USE DEF rotVars, mainVars, leaseVars
<1>1. TypeOK
  BY DEF IndInv
<1>2. ASSUME NEW r \in Requests, Accept(r) \/ Reject(r)
      PROVE  [Lease!Next]_(Lease!vars)
  <2>1. \A c \in Circuits : UsersOf(c)' = UsersOf(c)
    BY <1>1, <1>2 DEF Accept, Reject, UsersOf, UsesBackend, TypeOK
  <2> QED BY <1>2, <2>1 DEF Accept, Reject, Lease!vars
<1>3. ASSUME NEW r \in Requests, Capture(r) PROVE [Lease!Next]_(Lease!vars)
  <2>1. \A c \in Circuits : r \notin UsersOf(c)
    BY <1>3 DEF Capture, UsersOf, UsesBackend
  <2>2. \A c \in Circuits :
          UsersOf(c)' = IF c = backend THEN UsersOf(c) \union {r} ELSE UsersOf(c)
    BY <1>1, <1>3 DEF Capture, UsersOf, UsesBackend, TypeOK
  <2>3. UNCHANGED <<backend, drain>>
    BY <1>3 DEF Capture
  <2>4. Lease!Acquire(r)
    BY <2>1, <2>2, <2>3 DEF Lease!Acquire
  <2> QED BY <2>4 DEF Lease!Next
<1>4. ASSUME NEW r \in Requests, Advance(r) PROVE [Lease!Next]_(Lease!vars)
  <2>1. CASE pc[r] = "receiving"
    <3>1. UsesBackend(r) /\ ~UsesBackend(r)'
      BY <1>1, <1>4, <2>1 DEF Advance, UsesBackend, TypeOK
    <3>2. \A q \in Requests \ {r} : pc'[q] = pc[q] /\ lease'[q] = lease[q]
      BY <1>1, <1>4 DEF Advance, TypeOK
    <3>3. UNCHANGED <<backend, drain>>
      BY <1>4 DEF Advance
    <3>4. Lease!Release(r)
      BY <1>1, <3>1, <3>2, <3>3, LeavingReleases
    <3> QED BY <3>4 DEF Lease!Next
  <2>2. CASE pc[r] # "receiving"
    <3>1. \A c \in Circuits : UsersOf(c)' = UsersOf(c)
      BY <1>1, <1>4, <2>2 DEF Advance, UsersOf, UsesBackend, TypeOK
    <3> QED BY <1>4, <3>1 DEF Advance, Lease!vars
  <2> QED BY <2>1, <2>2
<1>5. ASSUME NEW r \in Requests, Finish(r) PROVE [Lease!Next]_(Lease!vars)
  <2>1. CASE UsesBackend(r)
    <3>1. ~UsesBackend(r)'
      BY <1>1, <1>5 DEF Finish, UsesBackend, TypeOK
    <3>2. \A q \in Requests \ {r} : pc'[q] = pc[q] /\ lease'[q] = lease[q]
      BY <1>1, <1>5, FinishLocals
    <3>3. UNCHANGED <<backend, drain>>
      BY <1>5 DEF Finish
    <3>4. Lease!Release(r)
      BY <1>1, <2>1, <3>1, <3>2, <3>3, LeavingReleases
    <3> QED BY <3>4 DEF Lease!Next
  <2>2. CASE ~UsesBackend(r)
    <3>1. \A c \in Circuits : UsersOf(c)' = UsersOf(c)
      BY <1>1, <1>5, <2>2, FinishLocals DEF UsersOf, UsesBackend
    <3> QED BY <1>5, <3>1 DEF Finish, Lease!vars
  <2> QED BY <2>1, <2>2
<1>6. CASE RotationTimer \/ BuildFails \/ BuildSucceeds \/ RotationStops
  BY <1>6, LeaseStutters
  DEF RotationTimer, BuildFails, BuildSucceeds, RotationStops, ClosedSet
<1>7. CASE Swap
  <2>1. built = backend + 1 /\ backend' = built /\ built \in Circuits
        /\ backend \in Circuits
    BY <1>1, <1>7 DEF Swap, IndInv, InOrder, TypeOK
  <2>2. built # backend /\ built >= backend
    BY <2>1 DEF Circuits
  <2>3. built \notin ClosedSet
    BY <2>1, <2>2 DEF IndInv, InOrder, ClosedSet
  <2>4. UsersOf(built) = {}
    <3>1. ASSUME NEW r \in Requests PROVE lease[r] # built
      <4>1. lease[r] <= backend /\ lease[r] \in Circuits
        BY <1>1 DEF IndInv, InOrder, TypeOK
      <4> QED BY <2>1, <4>1 DEF Circuits
    <3> QED BY <3>1 DEF UsersOf
  <2>5. ClosedSet' = ClosedSet
    <3>1. drain[backend].stage = "none"
      BY CurrentNotDrained DEF IndInv
    <3>2. ASSUME NEW c \in Circuits
          PROVE  drain'[c].stage \in {"closing", "closed"}
                   <=> drain[c].stage \in {"closing", "closed"}
      BY <1>1, <1>7, <3>1 DEF Swap, TypeOK
    <3> QED BY <3>2 DEF ClosedSet
  <2>6. \A c \in Circuits : UsersOf(c)' = UsersOf(c)
    BY <1>7 DEF Swap, UsersOf, UsesBackend
  <2>7. Lease!Replace(built)
    BY <2>1, <2>2, <2>3, <2>4, <2>5, <2>6 DEF Lease!Replace, ClosedSet
  <2> QED BY <2>1, <2>7 DEF Lease!Next
<1>8. ASSUME NEW c \in Circuits, DrainEnds(c) PROVE [Lease!Next]_(Lease!vars)
  <2>1. drain[c].stage = "waiting" /\ c # backend
    <3>1. drain[c].stage = "waiting"
      BY <1>8 DEF DrainEnds
    <3>2. drain[backend].stage = "none"
      BY CurrentNotDrained DEF IndInv
    <3> QED BY <3>1, <3>2
  <2>2. c \notin ClosedSet
    BY <2>1 DEF ClosedSet
  <2>3. \A d \in Circuits : UsersOf(d)' = UsersOf(d)
    BY <1>8 DEF DrainEnds, UsersOf, UsesBackend
  <2>4. drain'[c].stage = "closing"
    BY <1>1, <1>8 DEF DrainEnds, TypeOK, Drains
  <2>5. UsersOf(c)' = {}
    BY <2>4 DEF IndInv, RotationNeverClosesInUse, UsersOf
  <2>6. ClosedSet' = ClosedSet \union {c}
    <3>1. \A d \in Circuits \ {c} : drain'[d] = drain[d]
      BY <1>1, <1>8 DEF DrainEnds, TypeOK
    <3> QED BY <2>4, <3>1 DEF ClosedSet
  <2>7. Lease!CloseCircuit(c)
    BY <1>8, <2>1, <2>2, <2>3, <2>5, <2>6
    DEF Lease!CloseCircuit, ClosedSet, DrainEnds
  <2> QED BY <2>7 DEF Lease!Next
<1>9. ASSUME NEW c \in Circuits, DrainCloses(c) PROVE [Lease!Next]_(Lease!vars)
  <2>1. ASSUME NEW d \in Circuits
        PROVE  drain'[d].stage \in {"closing", "closed"}
                 <=> drain[d].stage \in {"closing", "closed"}
    BY <1>1, <1>9 DEF DrainCloses, TypeOK, Drains
  <2>2. ClosedSet' = ClosedSet
    BY <2>1 DEF ClosedSet
  <2> QED BY <1>9, <2>2, LeaseStutters DEF DrainCloses
<1>10. CASE Signal \/ ShutdownReturns \/ ServerFails \/ CloseResources \/ Exit
  BY <1>10, LeaseStutters
  DEF Signal, ShutdownReturns, ServerFails, CloseResources, Exit, ClosedSet
<1>11. CASE Tick
  <2>1. \A d \in Circuits : drain'[d].stage = drain[d].stage
    BY <1>1, <1>11 DEF Tick, TypeOK, Drains
  <2>2. ClosedSet' = ClosedSet
    BY <2>1 DEF ClosedSet
  <2> QED BY <1>11, <2>2, LeaseStutters DEF Tick
<1>12. CASE UNCHANGED vars
  BY <1>12, LeaseStutters DEF vars, ClosedSet
<1> QED BY <1>2, <1>3, <1>4, <1>5, <1>6, <1>7, <1>8, <1>9, <1>10, <1>11, <1>12
        DEF Next, Terminated

\* The handler with its rotation implements the lease of the backend.
THEOREM ImplementsLease == Spec => RefinesLease
<1>1. Spec => []IndInv
  BY IndInvHolds
<1> QED BY <1>1, InitLease, NextLease, PTL DEF Spec, RefinesLease, Lease!Spec
=============================================================================
