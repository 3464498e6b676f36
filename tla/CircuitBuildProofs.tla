-------------------------- MODULE CircuitBuildProofs ------------------------
(***************************************************************************)
(* Proofs about CircuitBuild for every relay directory and every number of *)
(* retries.                                                                *)
(***************************************************************************)
EXTENDS CircuitBuild, SequenceTheorems, TLAPS

-----------------------------------------------------------------------------
(* The inductive invariant.                                                *)

\* An attempt is being made, or has succeeded.
Active == pc \in {"connect", "create", "extend", "relay", "built"}

\* The key of hop h, and the hops that have one.
Key(h) == SharedKey(ClientPub(h), RelayPub(hops[h].key))
Agreed == CASE pc = "extend" -> {1} [] pc = "relay" -> {1, 2}
            [] pc = "built" -> {1, 2, 3} [] OTHER -> {}

\* Circuits are numbered by the attempts made: the next one is fresh.
Numbered ==
  /\ attempt \in 0..maxRetries
  /\ pc \in {"select", "connect", "create", "extend", "relay", "built", "failed"}
  /\ hops \in {<<>>} \union Draws
  /\ destroys \subseteq 1..attempt /\ lost \subseteq 1..attempt
  /\ \A s \in sessions : s.circuit \in 1..attempt

\* The hops of an attempt were accepted, and it has not been given up.
Going == Active => /\ hops \in Draws /\ Accepted(hops)
                   /\ attempt > 0 /\ attempt \notin destroys \union lost

\* The client has the keys of the hops it has reached, in path order.
KeysInOrder ==
  /\ Len(SharedKeys) <= 3
  /\ pc \in {"connect", "create"} => SharedKeys = <<>>
  /\ pc = "extend" => SharedKeys = <<Key(1)>>
  /\ pc = "relay"  => SharedKeys = <<Key(1), Key(2)>>
  /\ pc = "built"  => SharedKeys = <<Key(1), Key(2), Key(3)>>

\* The relays have the sessions of these hops, each with the client's key.
SessionsMatch ==
  Active => \A s : (s \in sessions /\ s.circuit = attempt)
                     <=> \E h \in Agreed : s = Session(h, ClientPub(h))

IndInv == Numbered /\ Going /\ KeysInOrder /\ SessionsMatch /\ NoOrphanSessions

-----------------------------------------------------------------------------
(* IndInv is inductive.                                                    *)

\* Nothing has been tried at the start.
LEMMA InitIndInv == Init => IndInv
BY RetriesOK
DEF Init, IndInv, Numbered, Going, KeysInOrder, SessionsMatch, NoOrphanSessions, Active

\* The three steps of a build: the place of the next hop, the client's key
\* that reaches it, and the program counter after it.
LEMMA StepFacts ==
  ASSUME IndInv, pc \in {"create", "extend", "relay"}
  PROVE  /\ pc = "create" => Step = 1
         /\ pc = "extend" => Step = 2
         /\ pc = "relay"  => Step = 3
         /\ Step \in 1..3 /\ Carried = ClientPub(Step) /\ Step \notin Agreed
         /\ Session(Step, Carried).circuit = attempt
<1>1. /\ pc = "create" => Step = 1
      /\ pc = "extend" => Step = 2
      /\ pc = "relay"  => Step = 3
  BY DEF Step
<1>2. Step \in 1..3 /\ Step \notin Agreed
  BY <1>1 DEF Agreed
<1>3. Carried = ClientPub(Step)
  BY <1>1 DEF Carried, CircuitCreate, CircuitExtend, CircuitRelay, CircuitRelayInner,
              encryptPayload
<1>4. Session(Step, Carried).circuit = attempt
  BY DEF Session
<1> QED BY <1>1, <1>2, <1>3, <1>4

\* A new attempt: three relays that were accepted, a fresh number.
LEMMA SelectIndInv == IndInv /\ Select => IndInv'
<1> SUFFICES ASSUME IndInv, Select PROVE IndInv'
  OBVIOUS
<1> USE DEF IndInv
<1>1. /\ pc = "select" /\ attempt < maxRetries /\ attempt' = attempt + 1
      /\ pc' = "connect" /\ SharedKeys' = <<>> /\ UNCHANGED <<sessions, destroys, lost>>
      /\ hops' \in Draws /\ Accepted(hops')
  BY DEF Select
<1>2. attempt \in Nat /\ attempt' \in Nat
  BY <1>1 DEF Numbered
<1>3. Numbered'
  BY <1>1, <1>2, RetriesOK DEF Numbered
<1>4. \A s \in sessions : s.circuit # attempt'
  BY <1>1, <1>2 DEF Numbered
<1>5. attempt' \notin destroys' \union lost'
  BY <1>1, <1>2 DEF Numbered
<1>6. Going'
  BY <1>1, <1>2, <1>5 DEF Going, Accepted
<1>7. KeysInOrder'
  BY <1>1 DEF KeysInOrder
<1>8. Agreed' = {}
  BY <1>1 DEF Agreed
<1>9. SessionsMatch'
  BY <1>1, <1>4, <1>8 DEF SessionsMatch
<1>10. NoOrphanSessions'
  BY <1>1, <1>5 DEF NoOrphanSessions
<1> QED BY <1>3, <1>6, <1>7, <1>9, <1>10

\* A short sequence with one more element, written out.
LEMMA AppendShort ==
  ASSUME NEW a, NEW b, NEW c
  PROVE  Append(<<a>>, b) = <<a, b>> /\ Append(<<a, b>>, c) = <<a, b, c>>
<1> DEFINE S == {a, b, c}
           s == Append(<<a>>, b)
           t == Append(<<a, b>>, c)
<1>1. /\ <<a>> \in Seq(S) /\ <<a, b>> \in Seq(S) /\ <<a, b, c>> \in Seq(S)
      /\ b \in S /\ c \in S
  OBVIOUS
<1>2. s \in Seq(S) /\ Len(s) = 2 /\ s[1] = a /\ s[2] = b
  BY <1>1, AppendProperties
<1>3. t \in Seq(S) /\ Len(t) = 3 /\ t[1] = a /\ t[2] = b /\ t[3] = c
  BY <1>1, AppendProperties
<1> HIDE DEF S, s, t
<1>4. s = <<a, b>>
  <2>1. Len(s) = Len(<<a, b>>) /\ \A i \in 1..Len(s) : s[i] = <<a, b>>[i]
    BY <1>2
  <2> QED BY <1>1, <1>2, <2>1, SeqEqual
<1>5. t = <<a, b, c>>
  <2>1. Len(t) = Len(<<a, b, c>>) /\ \A i \in 1..Len(t) : t[i] = <<a, b, c>>[i]
    BY <1>3
  <2> QED BY <1>1, <1>3, <2>1, SeqEqual
<1> QED BY <1>4, <1>5 DEF s, t

\* A hop more: its key on both sides.
LEMMA ExtendIndInv == IndInv /\ Extend => IndInv'
<1> SUFFICES ASSUME IndInv, Extend PROVE IndInv'
  OBVIOUS
<1> USE DEF IndInv
<1>1. /\ pc \in {"create", "extend", "relay"}
      /\ sessions' = sessions \union {Session(Step, Carried)}
      /\ SharedKeys' = Append(SharedKeys, Key(Step))
      /\ UNCHANGED <<attempt, hops, destroys, lost>>
  BY DEF Extend, Key
<1>2. /\ pc = "create" => pc' = "extend"
      /\ pc = "extend" => pc' = "relay"
      /\ pc = "relay" => pc' = "built"
  BY DEF Extend
<1>3. Active /\ Active'
  BY <1>1, <1>2 DEF Active
<1>4. /\ attempt \in 1..attempt
      /\ Session(Step, Carried) = Session(Step, ClientPub(Step))
      /\ Session(Step, Carried).circuit = attempt
      /\ pc = "create" => Step = 1
      /\ pc = "extend" => Step = 2
      /\ pc = "relay"  => Step = 3
  BY <1>1, <1>3, StepFacts DEF Numbered, Going
<1>5. Numbered'
  BY <1>1, <1>2, <1>4 DEF Numbered
<1>6. Going'
  BY <1>1, <1>3 DEF Going, Accepted
<1>7. \A h : Key(h)' = Key(h) /\ Session(h, ClientPub(h))' = Session(h, ClientPub(h))
  BY <1>1 DEF Key, Session, ClientPub, RelayPub
<1>8. KeysInOrder'
  <2>1. CASE pc = "create"
    <3>1. SharedKeys' = <<Key(1)>>
      BY <1>1, <1>4, <2>1 DEF KeysInOrder
    <3>2. pc' = "extend" /\ Key(1)' = Key(1)
      BY <1>2, <1>7, <2>1
    <3> QED BY <3>1, <3>2 DEF KeysInOrder
  <2>2. CASE pc = "extend"
    <3>1. SharedKeys' = <<Key(1), Key(2)>>
      BY <1>1, <1>4, <2>2, AppendShort DEF KeysInOrder
    <3>2. pc' = "relay" /\ Key(1)' = Key(1) /\ Key(2)' = Key(2)
      BY <1>2, <1>7, <2>2
    <3> QED BY <3>1, <3>2 DEF KeysInOrder
  <2>3. CASE pc = "relay"
    <3>1. SharedKeys' = <<Key(1), Key(2), Key(3)>>
      BY <1>1, <1>4, <2>3, AppendShort DEF KeysInOrder
    <3>2. pc' = "built" /\ Key(1)' = Key(1) /\ Key(2)' = Key(2) /\ Key(3)' = Key(3)
      BY <1>2, <1>7, <2>3
    <3> QED BY <3>1, <3>2 DEF KeysInOrder
  <2> QED BY <1>1, <2>1, <2>2, <2>3
<1>9. Agreed' = Agreed \union {Step}
  BY <1>1, <1>2, <1>4 DEF Agreed
<1>10. SessionsMatch'
  BY <1>1, <1>3, <1>4, <1>7, <1>9 DEF SessionsMatch
<1>11. NoOrphanSessions'
  BY <1>1, <1>2, <1>4 DEF NoOrphanSessions
<1> QED BY <1>5, <1>6, <1>8, <1>10, <1>11

\* Every step preserves the invariant.
LEMMA NextIndInv == IndInv /\ [Next]_vars => IndInv'
<1> SUFFICES ASSUME IndInv, [Next]_vars PROVE IndInv'
  OBVIOUS
<1> USE DEF IndInv
<1>1. CASE SelectFails
  <2>1. attempt \in Nat /\ attempt' = attempt + 1 /\ attempt' \in 0..maxRetries
    BY <1>1, RetriesOK DEF SelectFails, Numbered
  <2>2. Numbered'
    BY <1>1, <2>1 DEF SelectFails, Numbered
  <2>3. Going' /\ KeysInOrder' /\ SessionsMatch' /\ NoOrphanSessions'
    BY <1>1 DEF SelectFails, Going, KeysInOrder, SessionsMatch, NoOrphanSessions, Active
  <2> QED BY <2>2, <2>3
<1>2. CASE GiveUp
  BY <1>2 DEF GiveUp, Numbered, Going, KeysInOrder, SessionsMatch, NoOrphanSessions, Active
<1>3. CASE Connect
  <2>1. /\ pc = "connect" /\ pc' \in {"create", "select"} /\ Agreed = {} /\ Agreed' = {}
        /\ UNCHANGED <<attempt, hops, SharedKeys, sessions, destroys, lost>>
    BY <1>3 DEF Connect, Agreed
  <2>2. Numbered' /\ Going' /\ KeysInOrder'
    BY <2>1 DEF Numbered, Going, KeysInOrder, Active, Accepted
  <2>3. \A s \in sessions : s.circuit # attempt
    BY <2>1 DEF SessionsMatch, Active
  <2>4. SessionsMatch' /\ NoOrphanSessions'
    BY <2>1, <2>3 DEF SessionsMatch, NoOrphanSessions, Active
  <2> QED BY <2>2, <2>4
<1>4. CASE ExtendFails
  <2>1. /\ pc \in {"create", "extend", "relay"} /\ pc' = "select"
        /\ sessions' \subseteq sessions \union {Session(Step, Carried)}
        /\ destroys' \union lost' = destroys \union lost \union {attempt}
        /\ UNCHANGED <<attempt, hops, SharedKeys>>
    BY <1>4 DEF ExtendFails, TearDown
  <2>2. attempt \in 1..attempt /\ Session(Step, Carried).circuit = attempt
    BY <2>1, StepFacts DEF Numbered, Going, Active
  <2>3. Numbered'
    BY <2>1, <2>2 DEF Numbered
  <2>4. NoOrphanSessions'
    BY <2>1, <2>2 DEF NoOrphanSessions
  <2>5. Going' /\ KeysInOrder' /\ SessionsMatch'
    BY <2>1 DEF Going, KeysInOrder, SessionsMatch, Active
  <2> QED BY <2>3, <2>4, <2>5
<1>5. ASSUME NEW c \in destroys, DestroyArrives(c) PROVE IndInv'
  <2>1. /\ destroys' = destroys \ {c}
        /\ sessions' = {s \in sessions : s.circuit # c}
        /\ UNCHANGED <<attempt, pc, hops, SharedKeys, lost>>
    BY <1>5 DEF DestroyArrives
  <2>2. Numbered' /\ NoOrphanSessions'
    BY <2>1 DEF Numbered, NoOrphanSessions
  <2>3. Going' /\ KeysInOrder'
    BY <2>1 DEF Going, KeysInOrder, Active, Accepted, Key, ClientPub, RelayPub
  <2>4. SessionsMatch'
    <3>1. Active => c # attempt
      BY DEF Going
    <3>2. \A h : Session(h, ClientPub(h))' = Session(h, ClientPub(h))
      BY <2>1 DEF Session, ClientPub, RelayPub
    <3>3. Agreed' = Agreed
      BY <2>1 DEF Agreed
    <3> QED BY <2>1, <3>1, <3>2, <3>3 DEF SessionsMatch, Active
  <2> QED BY <2>2, <2>3, <2>4
<1>6. ASSUME NEW c \in destroys, DestroyLost(c) PROVE IndInv'
  <2>1. /\ destroys' = destroys \ {c} /\ lost' = lost \union {c}
        /\ UNCHANGED <<attempt, pc, hops, SharedKeys, sessions>>
    BY <1>6 DEF DestroyLost
  <2>2. Numbered' /\ NoOrphanSessions'
    BY <2>1 DEF Numbered, NoOrphanSessions
  <2>3. Going' /\ KeysInOrder'
    BY <2>1 DEF Going, KeysInOrder, Active, Accepted, Key, ClientPub, RelayPub
  <2>4. SessionsMatch'
    BY <2>1 DEF SessionsMatch, Active, Agreed, Session, ClientPub, RelayPub
  <2> QED BY <2>2, <2>3, <2>4
<1>7. CASE UNCHANGED vars
  <2>1. UNCHANGED <<attempt, pc, hops, SharedKeys, sessions, destroys, lost>>
    BY <1>7 DEF vars
  <2>2. Numbered' /\ NoOrphanSessions' /\ Going' /\ KeysInOrder'
    BY <2>1 DEF Numbered, NoOrphanSessions, Going, KeysInOrder, Active, Accepted,
                Key, ClientPub, RelayPub
  <2>3. SessionsMatch'
    BY <2>1 DEF SessionsMatch, Active, Agreed, Session, ClientPub, RelayPub
  <2> QED BY <2>2, <2>3
<1> QED BY <1>1, <1>2, <1>3, <1>4, <1>5, <1>6, <1>7, SelectIndInv, ExtendIndInv
        DEF Next, Returned

\* The invariant that the results below rest on.
LEMMA IndInvHolds == Spec => []IndInv
BY InitIndInv, NextIndInv, PTL DEF Spec

-----------------------------------------------------------------------------
(* The results.                                                            *)

\* The variables of a build have their types.
THEOREM TypeCorrect == Spec => []TypeOK
<1>1. IndInv => TypeOK
  BY RetriesOK DEF IndInv, Numbered, KeysInOrder, TypeOK
<1> QED BY <1>1, IndInvHolds, PTL

\* A relay keeps a session of a circuit that was given up only while its
\* CircuitDestroy is under way, or if that message failed or was lost; the
\* circuit in use is not torn down.
THEOREM NoOrphans == Spec => []NoOrphanSessions
BY IndInvHolds, PTL DEF IndInv

-----------------------------------------------------------------------------
(* The order of the layers.                                                *)

\* The least of some of the three places.
LEMMA MinOf ==
  ASSUME NEW s \in SUBSET {1, 2, 3}, s # {}
  PROVE  Min(s) = IF 1 \in s THEN 1 ELSE IF 2 \in s THEN 2 ELSE 3
<1> DEFINE m == IF 1 \in s THEN 1 ELSE IF 2 \in s THEN 2 ELSE 3
<1>1. m \in s /\ \A y \in s : m =< y
  <2>1. \A y \in s : y = 1 \/ y = 2 \/ y = 3
    OBVIOUS
  <2>2. m \in s
    BY <2>1
  <2> QED BY <2>1, <2>2
<1>2. \A x \in s : (\A y \in s : x =< y) => x = m
  BY <1>1
<1> QED BY <1>1, <1>2 DEF Min

\* Folding three keys: the loop of encryptLayers, unfolded.  The recursive
\* function inside FoldRight is a CHOOSE; that one exists is shown by giving it.
LEMMA FoldRightThree ==
  ASSUME NEW k1, NEW k2, NEW k3, NEW d
  PROVE  FoldRight(LAMBDA k, c : encryptPayload(c, k), <<k1, k2, k3>>, d)
           = encryptPayload(encryptPayload(encryptPayload(d, k3), k2), k1)
<1> DEFINE q == <<k1, k2, k3>>
           S == DOMAIN q
           step(g, s) == IF s = {} THEN d ELSE encryptPayload(g[s \ {Min(s)}], q[Min(s)])
           iter == CHOOSE g : g = [s \in SUBSET S |-> step(g, s)]
           a(s) == IF 3 \in s THEN encryptPayload(d, k3) ELSE d
           b(s) == IF 2 \in s THEN encryptPayload(a(s), k2) ELSE a(s)
           val(s) == IF 1 \in s THEN encryptPayload(b(s), k1) ELSE b(s)
           w == [s \in SUBSET S |-> val(s)]
<1>1. S = {1, 2, 3}
  OBVIOUS
<1>2. FoldRight(LAMBDA k, c : encryptPayload(c, k), q, d) = iter[S]
  BY DEF FoldRight, MapThenFoldSet
<1>3. ASSUME NEW s \in SUBSET S PROVE val(s) = step(w, s)
  <2>1. CASE s = {}
    BY <2>1
  <2>2. CASE 1 \in s
    <3>1. Min(s) = 1 /\ s \ {1} \in SUBSET S
      BY <1>1, <2>2, MinOf
    <3>2. w[s \ {1}] = b(s)
      BY <3>1
    <3> QED BY <2>2, <3>1, <3>2
  <2>3. CASE 1 \notin s /\ 2 \in s
    <3>1. Min(s) = 2 /\ s \ {2} \in SUBSET S
      BY <1>1, <2>3, MinOf
    <3>2. w[s \ {2}] = a(s)
      BY <2>3, <3>1
    <3> QED BY <2>3, <3>1, <3>2
  <2>4. CASE 1 \notin s /\ 2 \notin s /\ s # {}
    <3>1. Min(s) = 3 /\ s \ {3} \in SUBSET S /\ 3 \in s
      BY <1>1, <2>4, MinOf
    <3>2. w[s \ {3}] = d
      BY <2>4, <3>1
    <3> QED BY <2>4, <3>1, <3>2
  <2> QED BY <2>1, <2>2, <2>3, <2>4
<1> HIDE DEF step
<1>4. w = [s \in SUBSET S |-> step(w, s)]
  BY <1>3
<1>5. iter = [s \in SUBSET S |-> step(iter, s)]
  BY <1>4
<1> HIDE DEF iter
<1> USE DEF step
<1>6. iter[{}] = d
  BY <1>5
<1>7. iter[{3}] = encryptPayload(d, k3)
  <2>1. Min({3}) = 3 /\ {3} \ {3} = {} /\ {3} \in SUBSET S
    BY <1>1, MinOf
  <2> QED BY <1>5, <1>6, <2>1
<1>8. iter[{2, 3}] = encryptPayload(encryptPayload(d, k3), k2)
  <2>1. Min({2, 3}) = 2 /\ {2, 3} \ {2} = {3} /\ {2, 3} \in SUBSET S
    BY <1>1, MinOf
  <2> QED BY <1>5, <1>7, <2>1
<1>9. iter[{1, 2, 3}] = encryptPayload(encryptPayload(encryptPayload(d, k3), k2), k1)
  <2>1. Min({1, 2, 3}) = 1 /\ {1, 2, 3} \ {1} = {2, 3} /\ {1, 2, 3} \in SUBSET S
    BY <1>1, MinOf
  <2> QED BY <1>5, <1>8, <2>1
<1> QED BY <1>1, <1>2, <1>9

\* On a built circuit a relay's session key is the key the client has for its
\* hop: the sessions of other hops and of other circuits are not taken for it.
LEMMA SessionKeys ==
  ASSUME ~Respelled, IndInv, pc = "built", NEW h \in 1..3
  PROVE  SessionKey(h) = Key(h)
<1> DEFINE P(s) == s.circuit = attempt /\ s.relay = hops[h].key
           mine == Session(h, ClientPub(h))
<1>1. hops \in Draws /\ Accepted(hops) /\ Agreed = {1, 2, 3} /\ Active
  BY DEF IndInv, Going, Active, Agreed
<1>2. \A i, j \in 1..3 : i # j => hops[i].text # hops[j].text
  BY <1>1 DEF Accepted
<1>3. \A i, j \in 1..3 : hops[i].key = hops[j].key => i = j
  BY <1>2 DEF Respelled
<1>4. mine \in sessions /\ P(mine) /\ mine.shared = Key(h)
  BY <1>1 DEF IndInv, SessionsMatch, Session, Key
<1>5. ASSUME NEW s \in sessions, P(s) PROVE s = mine
  <2>1. PICK i \in 1..3 : s = Session(i, ClientPub(i))
    BY <1>1, <1>5 DEF IndInv, SessionsMatch
  <2>2. hops[i].key = hops[h].key
    BY <1>5, <2>1 DEF Session
  <2>3. i = h
    BY <1>3, <2>2
  <2> QED BY <2>1, <2>3
<1>6. (CHOOSE s \in sessions : P(s)) = mine
  BY <1>4, <1>5
<1> QED BY <1>4, <1>6 DEF SessionKey

\* What encryptLayers produces on a built circuit is opened by the entry, the
\* middle and the exit relay in this order, and only the exit finds the
\* payload: for every directory, unless one relay was drawn in two spellings.
THEOREM LayersOpenInOrder == Spec => []OnionOrder
<1>1. ASSUME IndInv, pc = "built", ~Respelled PROVE OnionOrder
  <2> DEFINE c3 == encryptPayload("payload", Key(3))
             c2 == encryptPayload(c3, Key(2))
             c1 == encryptPayload(c2, Key(1))
  <2>1. encryptLayers("payload") = c1
    <3>1. SharedKeys = <<Key(1), Key(2), Key(3)>>
      BY <1>1 DEF IndInv, KeysInOrder
    <3> QED BY <3>1, FoldRightThree DEF encryptLayers
  <2>2. SessionKey(1) = Key(1) /\ SessionKey(2) = Key(2) /\ SessionKey(3) = Key(3)
    BY <1>1, SessionKeys
  <2>3. \A d, k : Opens(encryptPayload(d, k), k) /\ encryptPayload(d, k).data = d
    BY DEF Opens, encryptPayload
  <2>4. /\ Opens(c1, Key(1)) /\ c1.data = c2 /\ Opens(c2, Key(2))
        /\ c2.data = c3 /\ Opens(c3, Key(3)) /\ c3.data = "payload"
    BY <2>3
  <2> HIDE DEF c1, c2, c3
  <2> QED BY <2>1, <2>2, <2>4 DEF OnionOrder
<1>2. IndInv => OnionOrder
  BY <1>1 DEF OnionOrder
<1> QED BY <1>2, IndInvHolds, PTL
=============================================================================
