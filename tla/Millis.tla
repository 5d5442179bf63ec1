------------------------------- MODULE Millis -------------------------------
(***************************************************************************)
(* Arithmetic on millis(), the Arduino uptime counter.  It is an unsigned  *)
(* 32-bit number of milliseconds that restarts from 0 after about 49 days  *)
(* and at every reset.  A model counts in coarser ticks, so the modulus is *)
(* the parameter Wrap and every duration is given in ticks.                *)
(***************************************************************************)
EXTENDS Integers

CONSTANT Wrap  \* The modulus of the counter: 2^32 in the program.

ASSUME WrapAssumption == Wrap \in Nat \ {0}

MillisValue == 0 .. Wrap - 1

\* Slip: a sum computed in a wider type.
WidePlus(a, b) == a + b

\* The unsigned sum a + b of a reading and a duration shorter than Wrap.
Plus(a, b) == IF a + b < Wrap THEN a + b ELSE a + b - Wrap

\* The unsigned difference to - from: the ticks since `from', modulo Wrap.
Elapsed(from, to) == IF from <= to THEN to - from ELSE to - from + Wrap

=============================================================================
