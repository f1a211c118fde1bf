------------------------------- MODULE Pacer --------------------------------
(***************************************************************************)
(* What a millis() timer of the firmware promises, with no counter in      *)
(* sight: between two transmissions of one kind, and between power-up and  *)
(* the first of them, at least Wait ticks of real time go by.              *)
(***************************************************************************)
EXTENDS Integers

CONSTANTS
    Wait,   \* least time between the starts of two transmissions
    AgeCap  \* ages are counted up to here

VARIABLES
    phase,  \* "boot" from power-up to the first pass, "tx" while sending
    age     \* real time since the last start of a transmission or power-up

vars == <<phase, age>>

Older(a) == IF a < AgeCap THEN a + 1 ELSE a

Init == phase = "boot" /\ age = 0

Elapse == age' = Older(age) /\ UNCHANGED phase

Boot == phase = "boot" /\ phase' = "idle" /\ UNCHANGED age

Start == /\ phase = "idle"
         /\ age >= Wait
         /\ phase' = "tx"
         /\ age' = 0

Finish == phase = "tx" /\ phase' = "idle" /\ UNCHANGED age

PowerCycle == phase' = "boot" /\ age' = 0

Next == Elapse \/ Boot \/ Start \/ Finish \/ PowerCycle

Spec == Init /\ [][Next]_vars
=============================================================================
