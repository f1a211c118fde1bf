---------------------------- MODULE ByteChannel ------------------------------
(***************************************************************************)
(* What a FIFO between two threads promises: it holds up to Capacity bytes *)
(* and hands them on once each, unchanged and in the order they were given.*)
(***************************************************************************)
EXTENDS Integers, Sequences

CONSTANTS
    Bytes,      \* the bytes that may be put in
    Capacity    \* how many of them it can hold

VARIABLES
    given,      \* all bytes put in so far
    taken       \* all bytes taken out so far

vars == <<given, taken>>

Init == given = <<>> /\ taken = <<>>

Put ==
    /\ Len(given) - Len(taken) < Capacity
    /\ \E b \in Bytes: given' = Append(given, b)
    /\ UNCHANGED taken

Take ==
    /\ Len(taken) < Len(given)
    /\ taken' = Append(taken, given[Len(taken) + 1])
    /\ UNCHANGED given

Next == Put \/ Take

Spec == Init /\ [][Next]_vars

\* Bytes do not stay in it for good.
FairSpec == Spec /\ WF_vars(Take)
=============================================================================
