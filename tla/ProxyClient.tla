----------------------------- MODULE ProxyClient ----------------------------
(***************************************************************************)
(* What the interface ProxyClient (internal/client/interface.go) promises  *)
(* ServeHTTP, whatever the backend: a request opens a stream, sends on it  *)
(* and receives one reply, which is to this request, or fails at any point *)
(* and receives none.  CircuitStreams and DirectClient implement it.       *)
(*                                                                         *)
(* The promise ends when the stream counter has issued every id once.      *)
(***************************************************************************)
CONSTANT Requests

VARIABLES
  stage,      \* of each request: new, open, sent, over
  reply,      \* the request that its reply answers
  exhausted   \* stream ids have come around

vars == <<stage, reply, exhausted>>

NoReply == "none"

Init ==
  /\ stage = [r \in Requests |-> "new"]
  /\ reply = [r \in Requests |-> NoReply]
  /\ exhausted = FALSE

Move(r, from, to) == stage[r] = from /\ stage' = [stage EXCEPT ![r] = to]

OpenStream(r) ==
  /\ Move(r, "new", "open")
  /\ exhausted' \in {exhausted, TRUE} /\ UNCHANGED reply

SendData(r) ==
  /\ Move(r, "open", "sent")
  /\ UNCHANGED <<reply, exhausted>>

\* The reply is to request q: another one than r only if ids have come around.
RecvData(r, q) ==
  /\ Move(r, "sent", "over")
  /\ q = r \/ exhausted
  /\ reply' = [reply EXCEPT ![r] = q]
  /\ UNCHANGED exhausted

Fail(r) ==
  /\ \E s \in {"new", "open", "sent"} : Move(r, s, "over")
  /\ UNCHANGED <<reply, exhausted>>

Exhaust ==
  /\ exhausted' = TRUE
  /\ UNCHANGED <<stage, reply>>

Next ==
  \/ \E r \in Requests : \/ OpenStream(r) \/ SendData(r) \/ Fail(r)
                         \/ \E q \in Requests : RecvData(r, q)
  \/ Exhaust

Spec == Init /\ [][Next]_vars
=============================================================================
