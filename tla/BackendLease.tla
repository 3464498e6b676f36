---------------------------- MODULE BackendLease ----------------------------
(***************************************************************************)
(* What circuit rotation promises its users, without WaitGroups, timers or *)
(* goroutines: a request leases the circuit that is current, one circuit   *)
(* replaces another, and a replaced circuit is closed only after the last  *)
(* request that leased it has let go.  ProxyHandler implements it.         *)
(***************************************************************************)
EXTENDS Integers

CONSTANTS Circuits, Users

VARIABLES
  current,   \* the circuit that new requests lease
  closed,    \* the replaced circuits that were closed
  holds      \* holds[c]: the requests that lease circuit c

vars == <<current, closed, holds>>

Init ==
  /\ current \in Circuits
  /\ closed = {}
  /\ holds = [c \in Circuits |-> {}]

\* A request leases the current circuit, and no other.
Acquire(u) ==
  /\ \A c \in Circuits : u \notin holds[c]
  /\ holds' = [holds EXCEPT ![current] = @ \union {u}]
  /\ UNCHANGED <<current, closed>>

Release(u) ==
  /\ \E c \in Circuits : u \in holds[c]
  /\ holds' = [c \in Circuits |-> holds[c] \ {u}]
  /\ UNCHANGED <<current, closed>>

\* A fresh circuit takes over: nobody holds it and it was never closed.
Replace(c) ==
  /\ c # current /\ c \notin closed /\ holds[c] = {}
  /\ current' = c
  /\ UNCHANGED <<closed, holds>>

\* A replaced circuit that nobody holds any more.
CloseCircuit(c) ==
  /\ c # current /\ c \notin closed /\ holds[c] = {}
  /\ closed' = closed \union {c}
  /\ UNCHANGED <<current, holds>>

Next ==
  \/ \E u \in Users : Acquire(u) \/ Release(u)
  \/ \E c \in Circuits : Replace(c) \/ CloseCircuit(c)

Spec == Init /\ [][Next]_vars
=============================================================================
