------------------------------- MODULE Millis -------------------------------
(***************************************************************************)
(* The clock every firmware module reads: millis(), a uint32_t that counts *)
(* from 0 at power-up and wraps to 0 after U32 (2^32) units, 49.7 days of  *)
(* milliseconds.  A unit of the model stands for one pass of the           *)
(* controller's 20 ms loop.                                                *)
(***************************************************************************)
EXTENDS Integers

CONSTANT U32            \* the modulus of uint32_t arithmetic

ASSUME U32Assumption == U32 \in Nat \ {0}

VARIABLE now            \* what millis() returns

Millis == 0 .. U32 - 1

\* uint32_t addition.  It agrees with (t + d) % U32 for the operands the
\* firmware uses: t a millis() value, d a constant below the modulus.
Plus(t, d) == IF t + d < U32 THEN t + d ELSE t + d - U32

\* uint32_t subtraction  t - u  of two millis() values.
Minus(t, u) == IF t >= u THEN t - u ELSE t - u + U32

MillisPasses == now' = Plus(now, 1)

\* A true duration counted down to 0, or counted up to a cap: how history
\* variables measure time without the clock's wrap-around.
CountDown(d) == IF d > 0 THEN d - 1 ELSE 0
CountUp(d, cap) == IF d < cap THEN d + 1 ELSE cap
=============================================================================
