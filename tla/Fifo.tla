-------------------------------- MODULE Fifo ---------------------------------
(***************************************************************************)
(* The lock-free FIFOs of the emulator (DECLARE_FIFO and DEFINE_FIFO),     *)
(* through which the thread of the processor and the thread of the         *)
(* pseudo-terminal pass the bytes of the serial port.  One thread writes,  *)
(* the other reads; nothing but the order of their loads and stores, which *)
(* __sync_synchronize keeps, stands between them.                          *)
(*                                                                         *)
(* A step is one access to what the threads share.  A thread's own cursor  *)
(* changes by its own hand only and is not reloaded.                       *)
(***************************************************************************)
EXTENDS Integers, Sequences

CONSTANTS
    Bytes,      \* the bytes that are written, 0 among them
    Size,       \* _fifo_size; a power of two, so that the mask is a modulo
    MaxGiven    \* writes that are tried

ASSUME BytesAssumption == 0 \in Bytes
ASSUME SizeAssumption  == Size \in Nat \ {0}
ASSUME GivenAssumption == MaxGiven \in Nat

VARIABLES
    buffer, read, write,    \* the FIFO
    writing,    \* where the writer is: "idle", "store" or "publish"
    reading,    \* where the reader is: "idle", "load" or "release"
    b, res,     \* the writer's byte and the reader's result
    given,      \* the bytes whose writes returned 1 ...
    taken,      \* ... and those that reads returned, in order
    tries       \* writes so far

shared == <<buffer, read, write>>
vars   == <<shared, writing, reading, b, res, given, taken, tries>>

After(cursor) == (cursor + 1) % Size

Init ==
    /\ buffer = [i \in 0 .. Size - 1 |-> 0]
    /\ read = 0 /\ write = 0
    /\ writing = "idle" /\ reading = "idle"
    /\ b = 0 /\ res = 0
    /\ given = <<>> /\ taken = <<>>
    /\ tries = 0

-----------------------------------------------------------------------------
(* _write.                                                                 *)

Tries ==
    /\ writing = "idle"
    /\ tries < MaxGiven
    /\ tries' = tries + 1
    /\ b' \in Bytes

\* A slip in _write: the room not looked at.
BeginWriteUnchecked ==
    /\ Tries
    /\ writing' = "store"
    /\ UNCHANGED <<shared, reading, res, given, taken>>

\* There is room, or the byte is refused.
BeginWrite ==
    /\ Tries
    /\ writing' = IF read # After(write) THEN "store" ELSE "idle"
    /\ UNCHANGED <<shared, reading, res, given, taken>>

Store ==
    /\ writing = "store"
    /\ buffer' = [buffer EXCEPT ![write] = b]
    /\ writing' = "publish"
    /\ UNCHANGED <<read, write, reading, b, res, given, taken, tries>>

Publish ==
    /\ writing = "publish"
    /\ write' = After(write)
    /\ given' = Append(given, b)
    /\ writing' = "idle"
    /\ UNCHANGED <<buffer, read, reading, b, res, taken, tries>>

Writer == BeginWrite \/ Store \/ Publish

-----------------------------------------------------------------------------
(* _isempty and _read.                                                     *)

\* A slip in _read: the slot given back before its byte is copied.
BeginReadReleased ==
    /\ reading = "idle"
    /\ read # write
    /\ read' = After(read)
    /\ reading' = "load"
    /\ UNCHANGED <<buffer, write, writing, b, res, given, taken, tries>>

\* The reader finds a byte.  (When it finds none nothing changes.)
BeginRead ==
    /\ reading = "idle"
    /\ read # write
    /\ reading' = "load"
    /\ UNCHANGED <<shared, writing, b, res, given, taken, tries>>

Load ==
    /\ reading = "load"
    /\ res' = buffer[read]
    /\ reading' = "release"
    /\ UNCHANGED <<shared, writing, b, given, taken, tries>>

Release ==
    /\ reading = "release"
    /\ read' = After(read)
    /\ taken' = Append(taken, res)
    /\ reading' = "idle"
    /\ UNCHANGED <<buffer, write, writing, b, res, given, tries>>

Reader == BeginRead \/ Load \/ Release

Next == Writer \/ Reader

Spec == Init /\ [][Next]_vars

\* The thread that reads comes around again: the processor's with every flush, the
\* terminal's with every turn of its loop.  Both finish the calls they begin.
FairSpec == Spec /\ WF_vars(Reader) /\ WF_vars(Store \/ Publish)

-----------------------------------------------------------------------------
(* Properties.                                                             *)

TypeOK ==
    /\ buffer \in [0 .. Size - 1 -> Bytes]
    /\ read \in 0 .. Size - 1 /\ write \in 0 .. Size - 1
    /\ writing \in {"idle", "store", "publish"}
    /\ reading \in {"idle", "load", "release"}
    /\ b \in Bytes /\ res \in Bytes
    /\ given \in Seq(Bytes) /\ taken \in Seq(Bytes)
    /\ tries \in Nat

\* The cursors are the numbers of bytes given and taken, modulo the size, and never
\* more than a slot short of a whole turn apart.
Cursors ==
    /\ write = Len(given) % Size
    /\ read = Len(taken) % Size
    /\ Len(taken) <= Len(given) /\ Len(given) - Len(taken) < Size

\* Every byte that was given and not taken stands in its slot ...
SlotsHold ==
    \A k \in Len(taken) + 1 .. Len(given): buffer[(k - 1) % Size] = given[k]

\* ... and what each thread has found out or copied still holds: there is a slot
\* for the byte being written, and it is in it; there is a byte to be read, and the
\* copy is that byte, although the other thread has gone on since.
InFlight ==
    /\ writing # "idle" => Len(given) - Len(taken) < Size - 1
    /\ writing = "publish" => buffer[write] = b
    /\ reading # "idle" => Len(taken) < Len(given)
    /\ reading = "release" => res = given[Len(taken) + 1]

\* No interleaving of a write and a read damages the FIFO, at any number of turns
\* of the cursors, full or empty.  (Inductive.)
FifoInv == TypeOK /\ Cursors /\ SlotsHold /\ InFlight

Channel == INSTANCE ByteChannel WITH Capacity <- Size - 1

\* The FIFO is a channel for one byte less than its size, and the bytes in it are
\* read in the end.
IsChannel == Channel!FairSpec
=============================================================================
