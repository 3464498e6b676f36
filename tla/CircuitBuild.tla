---------------------------- MODULE CircuitBuild ----------------------------
(***************************************************************************)
(* Building a circuit: buildCircuitWithRetry (cmd/main.go), the choice of  *)
(* relays (internal/directory/directory.go) and NewClientCircuit with its  *)
(* key exchanges (internal/client/circuit.go), against relays (external)   *)
(* that keep a session per circuit.                                        *)
(*                                                                         *)
(* Keys and ciphertexts are symbolic: a shared key is the pair of the two  *)
(* public keys it was computed from, and a ciphertext opens only with the  *)
(* key it was made with.  A relay answers a query at once or not at all;   *)
(* a CircuitDestroy may be late or lost.                                   *)
(***************************************************************************)
EXTENDS Integers, Sequences, FiniteSets, SequencesExt

CONSTANTS
  Relays,      \* Directory.Relays: records with text, key, roles
  maxRetries   \* attempts of buildCircuitWithRetry

\* A relay is named in the directory by the text of its public key; key is
\* what the text decodes to, NoKey when it is no key.
NoKey == "none"
ASSUME RelaysOK  == IsFiniteSet(Relays)
ASSUME RetriesOK == maxRetries \in Nat

VARIABLES
  attempt,     \* attempts made; it also stands for the circuit's random ID
  pc,          \* of the building goroutine
  hops,        \* the relays of this attempt: entry, middle, exit
  SharedKeys,  \* the keys agreed so far, in path order
  sessions,    \* relays (external): the circuits they know
  destroys,    \* circuits whose CircuitDestroy is on its way to the entry
  lost         \* history: circuits whose CircuitDestroy failed or was lost

vars == <<attempt, pc, hops, SharedKeys, sessions, destroys, lost>>

Init ==
  /\ attempt = 0 /\ pc = "select"
  /\ hops = <<>> /\ SharedKeys = <<>>
  /\ sessions = {} /\ destroys = {} /\ lost = {}

-----------------------------------------------------------------------------
(* Crypto helpers.                                                         *)

ClientPub(h) == <<"client", attempt, h>>
RelayPub(k)  == <<"relay", attempt, k>>

\* computeSharedKey: both sides derive it from the same two public keys.
SharedKey(c, r) == <<c, r>>

encryptPayload(data, key) == [key |-> key, data |-> data]

\* Mutant: entry layer first.
encryptLayersForward(data) ==
  FoldLeft(LAMBDA c, k : encryptPayload(c, k), data, SharedKeys)

\* Exit key first, then middle, then entry.
encryptLayers(data) ==
  FoldRight(LAMBDA k, c : encryptPayload(c, k), SharedKeys, data)

\* decryptPayload: with another key it fails.
Opens(cipher, key) == DOMAIN cipher = {"key", "data"} /\ cipher.key = key

-----------------------------------------------------------------------------
(* SelectCircuitRelays.                                                    *)

FilterByRole(role) == {r \in Relays : role \in r.roles}

Draws == FilterByRole("entry") \X FilterByRole("middle") \X FilterByRole("exit")

\* What SelectCircuit accepts of its random draws, and ToRelayInfo decodes.
Accepted(d) ==
  /\ d[2].text # d[1].text
  /\ d[3].text # d[1].text /\ d[3].text # d[2].text
  /\ \A i \in 1..3 : d[i].key # NoKey

\* One turn of the loop: three relays are drawn.
Select ==
  /\ pc = "select" /\ attempt < maxRetries
  /\ attempt' = attempt + 1
  /\ \E d \in Draws : Accepted(d) /\ hops' = d
  /\ pc' = "connect" /\ SharedKeys' = <<>>
  /\ UNCHANGED <<sessions, destroys, lost>>

\* No relay for a role, a hundred unlucky draws, or an invalid public key.
SelectFails ==
  /\ pc = "select" /\ attempt < maxRetries
  /\ Draws = {} \/ \E d \in Draws : ~Accepted(d)
  /\ attempt' = attempt + 1
  /\ UNCHANGED <<pc, hops, SharedKeys, sessions, destroys, lost>>

GiveUp ==
  /\ pc = "select" /\ attempt = maxRetries
  /\ pc' = "failed"
  /\ UNCHANGED <<attempt, hops, SharedKeys, sessions, destroys, lost>>

-----------------------------------------------------------------------------
(* NewClientCircuit.                                                       *)

\* Mutant: an attempt that does not reach the entry relay is not counted.
ConnectUncounted ==
  /\ pc = "connect"
  /\ \/ pc' = "create" /\ UNCHANGED attempt
     \/ pc' = "select" /\ attempt' = attempt - 1
  /\ UNCHANGED <<hops, SharedKeys, sessions, destroys, lost>>

\* RegisterClient; on an error there is nothing to tear down yet.
Connect ==
  /\ pc = "connect"
  /\ pc' \in {"create", "select"}
  /\ UNCHANGED <<attempt, hops, SharedKeys, sessions, destroys, lost>>

\* Relay side (external): hop h opens a session when the message for it
\* carries the client's key, wrapped for the hops before it.
Session(h, clientKey) ==
  [circuit |-> attempt, relay |-> hops[h].key,
   shared |-> SharedKey(clientKey, RelayPub(hops[h].key))]
SessionKey(h) ==
  (CHOOSE s \in sessions : s.circuit = attempt /\ s.relay = hops[h].key).shared

\* The messages of the three steps.  NextRelay is in the clear inside them.
CircuitCreate     == ClientPub(1)
CircuitExtend     == encryptPayload(ClientPub(2), SharedKeys[1])
CircuitRelayInner == encryptPayload(ClientPub(3), SharedKeys[2])

CircuitRelay == encryptPayload(CircuitRelayInner, SharedKeys[1])

\* The next step of the build, and whether the relays accept its message:
\* the entry opens CircuitExtend; the entry opens CircuitRelay and the middle
\* what was inside.
Step == CASE pc = "create" -> 1 [] pc = "extend" -> 2 [] pc = "relay" -> 3

RelaysAccept ==
  CASE pc = "create" -> TRUE
    [] pc = "extend" -> Opens(CircuitExtend, SessionKey(1))
    [] pc = "relay"  -> /\ Opens(CircuitRelay, SessionKey(1))
                        /\ Opens(CircuitRelay.data, SessionKey(2))

\* The client's key that arrives at the relay of this step.
Carried ==
  CASE pc = "create" -> CircuitCreate
    [] pc = "extend" -> CircuitExtend.data
    [] pc = "relay"  -> CircuitRelay.data.data

\* createCircuit, extendCircuit or extendCircuitViaRelay succeeds: both ends
\* have the key of this hop.
Extend ==
  /\ pc \in {"create", "extend", "relay"} /\ RelaysAccept
  /\ sessions' = sessions \union {Session(Step, Carried)}
  /\ SharedKeys' = Append(SharedKeys,
                     SharedKey(ClientPub(Step), RelayPub(hops[Step].key)))
  /\ pc' = CASE pc = "create" -> "extend" [] pc = "extend" -> "relay"
             [] pc = "relay" -> "built"
  /\ UNCHANGED <<attempt, hops, destroys, lost>>

\* Mutant: no CircuitDestroy after a failed first hop.
ExtendFailsQuietly ==
  /\ pc \in {"create", "extend", "relay"}
  /\ sessions' \in {sessions} \union
       (IF RelaysAccept THEN {sessions \union {Session(Step, Carried)}}
                        ELSE {})
  /\ destroys' = IF pc = "create" THEN destroys ELSE destroys \union {attempt}
  /\ pc' = "select"
  /\ UNCHANGED <<attempt, hops, SharedKeys, lost>>

\* The deferred function of NewClientCircuit: CircuitDestroy goes out, or
\* SendCustomMessage fails within its 5 s and the error is discarded.
TearDown ==
  \/ destroys' = destroys \union {attempt} /\ UNCHANGED lost
  \/ lost' = lost \union {attempt} /\ UNCHANGED destroys

\* The query fails, its answer is lost after the relay has acted on it, or
\* the relay's key is rejected; then the circuit is torn down.
ExtendFails ==
  /\ pc \in {"create", "extend", "relay"}
  /\ sessions' \in {sessions} \union
       (IF RelaysAccept THEN {sessions \union {Session(Step, Carried)}}
                        ELSE {})
  /\ TearDown
  /\ pc' = "select"
  /\ UNCHANGED <<attempt, hops, SharedKeys>>

\* External: the entry relay gets CircuitDestroy and passes it on.
DestroyArrives(c) ==
  /\ c \in destroys
  /\ destroys' = destroys \ {c}
  /\ sessions' = {s \in sessions : s.circuit # c}
  /\ UNCHANGED <<attempt, pc, hops, SharedKeys, lost>>

\* External: CircuitDestroy is a message without an answer, and may get lost.
DestroyLost(c) ==
  /\ c \in destroys
  /\ destroys' = destroys \ {c} /\ lost' = lost \union {c}
  /\ UNCHANGED <<attempt, pc, hops, SharedKeys, sessions>>

Returned == pc \in {"built", "failed"} /\ UNCHANGED vars

Next ==
  \/ Select \/ SelectFails \/ GiveUp
  \/ Connect \/ Extend \/ ExtendFails
  \/ \E c \in destroys : DestroyArrives(c) \/ DestroyLost(c)
  \/ Returned

Spec == Init /\ [][Next]_vars

\* The loop runs on, and every query returns in the end, with an answer or
\* an error.
FairSpec ==
  /\ Spec
  /\ WF_vars(Select \/ SelectFails \/ GiveUp \/ Connect \/ Extend \/ ExtendFails)

-----------------------------------------------------------------------------
(* Properties.                                                             *)

\* Every variable has its type; circuits under way have numbers of attempts.
TypeOK ==
  /\ attempt \in 0..maxRetries
  /\ pc \in {"select", "connect", "create", "extend", "relay", "built", "failed"}
  /\ hops \in {<<>>} \union Draws
  /\ Len(SharedKeys) <= 3
  /\ destroys \subseteq 1..maxRetries /\ lost \subseteq 1..maxRetries
  /\ \A s \in sessions : s.circuit \in 1..maxRetries

\* Two hops are one relay, which the directory lists in two spellings of its
\* key: SelectCircuit, "selects 3 different relays" (directory.go:103),
\* compares the texts.
Respelled == \E i, j \in 1..3 : /\ hops[i].key = hops[j].key
                                 /\ hops[i].text # hops[j].text

\* On a built circuit, what encryptLayers produces is opened by the entry, the
\* middle and the exit relay in this order, each with its own session key, and
\* only the exit finds the payload: whatever earlier attempts left behind, and
\* although relays may have several roles.  One relay at two places would have
\* two sessions of one circuit; that happens only if its key has two spellings
\* (circuit.go:415-430, 221-289; directory.go:103-147).
OnionOrder ==
  pc = "built" /\ ~Respelled =>
    LET c1 == encryptLayers("payload") IN
      /\ Opens(c1, SessionKey(1)) /\ Opens(c1.data, SessionKey(2))
      /\ Opens(c1.data.data, SessionKey(3))
      /\ c1.data.data.data = "payload"

\* The client tears down what it gives up and nothing else.  A relay keeps a
\* session of a circuit that was given up only while the CircuitDestroy for it
\* is under way, or if that one message failed or was lost: also when an answer
\* was lost after the relay had acted.  And for the circuit that is being built
\* or was returned none has been sent (circuit.go:84-95, "Finding #2").
NoOrphanSessions ==
  LET current == pc \notin {"select", "failed"} IN
    /\ \A s \in sessions : \/ s.circuit \in destroys \union lost
                           \/ s.circuit = attempt /\ current
    /\ current => attempt \notin destroys \union lost

\* buildCircuitWithRetry returns, whatever the directory holds and the
\* relays answer (main.go:80-104).
BuildEnds == <>(pc \in {"built", "failed"})
=============================================================================
