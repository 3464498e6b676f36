--------------------------- MODULE RotationTimer ----------------------------
(***************************************************************************)
(* StartRotation (internal/proxy/handler.go): the loop of the rotation     *)
(* goroutine and the arithmetic of its delay on signed machine integers.   *)
(* RotateCircuit itself is in ProxyHandler; here it takes one step.        *)
(***************************************************************************)
EXTENDS Integers

CONSTANTS
  MaxInt,         \* the largest signed integer, 2^63 - 1 in the code
  jitterPercent   \* 30

ASSUME MaxIntOK  == MaxInt \in Nat /\ MaxInt > 200
ASSUME PercentOK == jitterPercent \in 1..33

VARIABLES
  rotateInterval,  \* ProxyHandler.rotateInterval
  rot,             \* program counter of the goroutine
  delay,           \* time left on its timer
  drawn,           \* history: the delay the timer was made with
  ctxDone          \* the signal context is cancelled

timerVars == <<rotateInterval, rot, delay, drawn, ctxDone>>

-----------------------------------------------------------------------------
(* Go's integers: operations wrap around, division truncates toward zero,  *)
(* and a remainder has the sign of the dividend.                           *)

MinInt    == -MaxInt - 1
Wrap(x)   == ((x - MinInt) % (MaxInt - MinInt + 1)) + MinInt
Quo(a, b) == IF a >= 0 THEN a \div b ELSE -((-a) \div b)
Rem(a, b) == LET n == IF b > 0 THEN b ELSE -b
             IN IF a >= 0 THEN a % n ELSE -((-a) % n)

\* int64(h.rotateInterval) * 2 * jitterPercent / 100
jitterRange(d) == Quo(Wrap(Wrap(d * 2) * jitterPercent), 100)

\* Mutant: the jitter is added to the interval less its whole range.
DelayTooShort(d, random) ==
  Wrap(Wrap(d - jitterRange(d)) + Rem(random, jitterRange(d)))

\* The delay for a random number, the bytes of which are taken as int64.
Delay(d, random) ==
  Wrap(Wrap(d - Quo(Wrap(d * jitterPercent), 100)) + Rem(random, jitterRange(d)))

-----------------------------------------------------------------------------
(* The goroutine.                                                          *)

\* StartRotation is called: at once it returns unless the interval is positive.
StartRotation ==
  /\ rot = "off"
  /\ rot' = IF rotateInterval <= 0 THEN "returned" ELSE "draw"
  /\ UNCHANGED <<rotateInterval, delay, drawn, ctxDone>>

\* A delay is drawn and the timer made; a jitterRange of 0 is a division by
\* zero, and the panic ends the process.
Draw(random) ==
  /\ rot = "draw"
  /\ IF jitterRange(rotateInterval) = 0
       THEN rot' = "panicked" /\ UNCHANGED <<delay, drawn>>
       ELSE /\ rot' = "waiting"
            /\ delay' = Delay(rotateInterval, random) /\ drawn' = delay'
  /\ UNCHANGED <<rotateInterval, ctxDone>>

TimeRuns ==
  /\ rot = "waiting" /\ delay > 0
  /\ delay' = delay - 1
  /\ UNCHANGED <<rotateInterval, rot, drawn, ctxDone>>

\* The timer fires; select may choose it even if the context is done too.
TimerFires ==
  /\ rot = "waiting" /\ delay <= 0
  /\ rot' = "rotating"
  /\ UNCHANGED <<rotateInterval, delay, drawn, ctxDone>>

\* RotateCircuit returns, with a new circuit or without.
Rotated ==
  /\ rot = "rotating"
  /\ rot' = "draw"
  /\ UNCHANGED <<rotateInterval, delay, drawn, ctxDone>>

Cancelled ==
  /\ rot = "waiting" /\ ctxDone
  /\ rot' = "returned"
  /\ UNCHANGED <<rotateInterval, delay, drawn, ctxDone>>

-----------------------------------------------------------------------------
(* Properties.                                                             *)

\* Intervals whose arithmetic neither vanishes nor overflows: from two
\* nanoseconds to almost five years.
Sound(d) == /\ 0 < d /\ d <= MaxInt \div (2 * jitterPercent)
            /\ jitterRange(d) > 0

\* A delay lies between a tenth and thirteen tenths of the interval and is
\* never zero or negative: circuits are not rotated in a hot loop, and the
\* goroutine does not panic (handler.go:290-299).
DelayBounds ==
  Sound(rotateInterval) =>
    /\ rot # "panicked"
    /\ rot = "waiting" =>
         /\ rotateInterval * (100 - 3 * jitterPercent) < 100 * drawn
         /\ 100 * drawn < rotateInterval * (100 + jitterPercent)

\* "Add plus or minus jitterPercent% jitter" (handler.go:290): every delay is
\* within that percentage of the interval, up to rounding.
PlusMinusJitter ==
  rot = "waiting" /\ Sound(rotateInterval) =>
    /\ 100 * (drawn + 1) >= rotateInterval * (100 - jitterPercent)
    /\ 100 * (drawn - 1) <= rotateInterval * (100 + jitterPercent)
=============================================================================
