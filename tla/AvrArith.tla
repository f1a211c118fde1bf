------------------------------ MODULE AvrArith ------------------------------
(***************************************************************************)
(* The two integer conversions the firmware's timers depend on, as the AVR *)
(* build of the Arduino core performs them: subtraction of unsigned longs, *)
(* and the silent narrowing of an unsigned long into an int.  The widths   *)
(* are parameters, so that a small clock can be model-checked and every    *)
(* clock can be proved about.                                              *)
(***************************************************************************)
EXTENDS Integers

CONSTANTS
    ClockMod,   \* number of values of an unsigned long, 2^32 on the board
    IntHalf     \* number of non-negative values of an int, 2^15 on the board

ASSUME ClockAssumption == ClockMod \in Nat \ {0}
ASSUME IntAssumption   == IntHalf \in Nat \ {0} /\ 2 * IntHalf <= ClockMod

Millis == 0 .. (ClockMod - 1)

\* a - b on two unsigned longs.
USub(a, b) == IF a >= b THEN a - b ELSE a - b + ClockMod

\* A slip in AsInt: the narrowed value taken as unsigned.
AsUnsignedInt(x) == x % (2 * IntHalf)

\* The int that results from storing the unsigned long x in it.
AsInt(x) ==
    LET low == x % (2 * IntHalf)
    IN  IF low < IntHalf THEN low ELSE low - 2 * IntHalf

\* One tick of the counter behind millis().
Succ(now) == IF now = ClockMod - 1 THEN 0 ELSE now + 1
=============================================================================
