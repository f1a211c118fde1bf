----------------------------- MODULE BurnNodeId -----------------------------
(***************************************************************************)
(* How a node gets its address: the sketch burn_node_id asks for a number, *)
(* has it confirmed and writes it to the EEPROM one byte after the other;  *)
(* the firmware, flashed in its place, reads the two bytes back when it    *)
(* boots.  Power may fail at any step, between the two writes as well.     *)
(*                                                                         *)
(* The line buffer of the sketch is a local that nothing initializes: it   *)
(* starts with anything in it, and the loop that fills it tests each byte  *)
(* before it is written.                                                   *)
(***************************************************************************)
EXTENDS Integers, SequencesExt

CONSTANTS
    Digits,     \* the digits the operator types, numbers from 0 to 9
    MaxBurns,   \* how many numbers the operator confirms
    Stale       \* bytes that may be left in the uninitialized buffer

\* Bytes that are no digits.
NL     == -1
Minus  == -2
Letter == -3

Typable    == Digits \union {NL, Minus, Letter}
IsDigit(b) == b >= 0

ASSUME BurnAssumption == Digits \subseteq 0 .. 9 /\ Stale \subseteq Typable
ASSUME BoundAssumption == MaxBurns \in Nat

VARIABLES
    pc,             \* the statement about to run, or "off"
    incomingByte,   \* the buffer, and the byte behind it that the code uses
    i,              \* index of the next byte
    number,         \* what the sketch made of the line
    low, high,      \* bytes 2 and 3 of the EEPROM
    node_address,   \* what the firmware read at boot, or NoAddress
    line,           \* the bytes the sketch has read for its number
    was,            \* the node id before the last one was confirmed
    confirmed,      \* the last number confirmed
    whole,          \* has it been written completely?
    burns           \* how many numbers have been confirmed

eeprom  == <<low, high>>
history == <<was, confirmed, whole, burns>>
vars == <<pc, incomingByte, i, number, eeprom, node_address, line, history>>

NoAddress == -1
Bytes     == 0 .. 255
NodeIds   == 0 .. 256 * 256 - 1
Numbers   == -999 .. 9999   \* on a line of four bytes

\* What the firmware and the sketch read: byte 2 | byte 3 << 8, as 16 bits.
node_address_read(lo, hi) == lo + 256 * hi

\* atoi: a sign, then digits up to the first byte that is none.  The sketch gives it
\* four bytes at most.
atoi(bytes) ==
    LET signed == bytes # <<>> /\ bytes[1] = Minus
        first  == IF signed THEN 2 ELSE 1
        InNumber(k) == /\ first <= k /\ k <= Len(bytes)
                       /\ \A j \in first .. k: IsDigit(bytes[j])
        Add(sum, k) == IF InNumber(k) THEN 10 * sum + bytes[k] ELSE sum
        value == Add(Add(Add(Add(0, 1), 2), 3), 4)
    IN  IF signed THEN -value ELSE value

LineTypes ==
    /\ pc \in {"off", "read", "confirm", "write_low", "write_high", "finish", "node"}
    /\ incomingByte \in [0 .. 4 -> Typable]
    /\ i \in 0 .. 4
    /\ number \in Numbers
    /\ line \in Seq(Typable)

NameTypes ==
    /\ low \in Bytes /\ high \in Bytes
    /\ node_address = NoAddress \/ node_address \in NodeIds
    /\ was \in NodeIds
    /\ confirmed \in NodeIds \/ confirmed \in Numbers
    /\ burns \in 0 .. MaxBurns

TypeOK == LineTypes /\ NameTypes /\ whole \in BOOLEAN

\* A new EEPROM reads 255 everywhere.
Init ==
    /\ pc = "off"
    /\ incomingByte \in [0 .. 4 -> Stale]
    /\ i = 0 /\ number = 0
    /\ low = 255 /\ high = 255
    /\ node_address = NoAddress
    /\ line = <<>>
    /\ was = node_address_read(255, 255) /\ confirmed = was /\ whole = TRUE /\ burns = 0

\* The line is not looked at again.
ForgetLine ==
    /\ incomingByte' = [k \in 0 .. 4 |-> Letter]
    /\ i' = 0
    /\ line' = <<>>

-----------------------------------------------------------------------------
(* Power.                                                                  *)

PowerOff ==
    /\ pc # "off"
    /\ pc' = "off"
    /\ number' = 0
    /\ node_address' = NoAddress
    /\ ForgetLine
    /\ UNCHANGED <<eeprom, history>>

\* The sketch starts, with stale bytes where its buffer comes to lie.
StartSketch ==
    /\ pc = "off"
    /\ pc' = "read"
    /\ incomingByte' \in [0 .. 4 -> Stale]
    /\ UNCHANGED <<i, number, eeprom, node_address, line, history>>

\* A slip in the driver: the bytes in the other order.
BootFirmwareSwapped ==
    /\ pc = "off"
    /\ pc' = "node"
    /\ node_address' = node_address_read(high, low)
    /\ UNCHANGED <<incomingByte, i, number, eeprom, line, history>>

\* The firmware starts: <gen>_board_setup reads the node address.
BootFirmware ==
    /\ pc = "off"
    /\ pc' = "node"
    /\ node_address' = node_address_read(low, high)
    /\ UNCHANGED <<incomingByte, i, number, eeprom, line, history>>

-----------------------------------------------------------------------------
(* The sketch.                                                             *)

\* A slip in the sketch: the line ended one byte early.
ShowShort(buffer) ==
    /\ pc' = "confirm"
    /\ number' = atoi([k \in 1 .. i - 1 |-> buffer[k - 1]])

\* The buffer ends at i and is taken for a number, which is shown.
Show(buffer) ==
    /\ pc' = "confirm"
    /\ number' = atoi([k \in 1 .. i |-> buffer[k - 1]])

\* The byte the loop is about to fill ends the line before it was typed.
SkipStale ==
    /\ pc = "read"
    /\ incomingByte[i] = NL
    /\ Show(incomingByte)
    /\ UNCHANGED <<incomingByte, i, eeprom, node_address, line, history>>

\* A slip in the sketch: no second limit, a line is invalid behind the buffer only.
ReadByteUnlimited ==
    /\ pc = "read"
    /\ incomingByte[i] # NL
    /\ \E b \in Typable:
          /\ incomingByte' = [incomingByte EXCEPT ![i] = b]
          /\ line' = Append(line, b)
          /\ \/ b = NL /\ Show(incomingByte) /\ UNCHANGED i
             \/ b # NL /\ i > 4 /\ pc' = "finish" /\ UNCHANGED <<i, number>>
             \/ b # NL /\ i <= 4 /\ i' = i + 1 /\ UNCHANGED <<pc, number>>
    /\ UNCHANGED <<eeprom, node_address, history>>

\* A byte is read; a fifth one that is not NL makes the line invalid.
ReadByte ==
    /\ pc = "read"
    /\ incomingByte[i] # NL
    /\ \E b \in Typable:
          /\ incomingByte' = [incomingByte EXCEPT ![i] = b]
          /\ line' = Append(line, b)
          /\ \/ b = NL /\ Show(incomingByte) /\ UNCHANGED i
             \/ b # NL /\ i > 3 /\ pc' = "finish" /\ UNCHANGED <<i, number>>
             \/ b # NL /\ i <= 3 /\ i' = i + 1 /\ UNCHANGED <<pc, number>>
    /\ UNCHANGED <<eeprom, node_address, history>>

\* The operator answers N.
Cancel ==
    /\ pc = "confirm"
    /\ pc' = "finish"
    /\ ForgetLine
    /\ UNCHANGED <<number, eeprom, node_address, history>>

\* The operator answers Y.
Confirm ==
    /\ pc = "confirm"
    /\ burns < MaxBurns
    /\ burns' = burns + 1
    /\ pc' = "write_low"
    /\ was' = node_address_read(low, high)
    /\ confirmed' = number
    /\ whole' = FALSE
    /\ ForgetLine
    /\ UNCHANGED <<number, eeprom, node_address>>

WriteLow ==
    /\ pc = "write_low"
    /\ pc' = "write_high"
    /\ low' = number % 256
    /\ UNCHANGED <<incomingByte, i, number, high, node_address, line, history>>

\* A slip in the sketch: the high byte not shifted down.
WriteHighUnshifted ==
    /\ pc = "write_high"
    /\ pc' = "finish"
    /\ high' = number % 256
    /\ whole' = TRUE
    /\ UNCHANGED <<incomingByte, i, number, low, node_address, was, confirmed, burns,
                   line>>

WriteHigh ==
    /\ pc = "write_high"
    /\ pc' = "finish"
    /\ high' = (number \div 256) % 256
    /\ whole' = TRUE
    /\ UNCHANGED <<incomingByte, i, number, low, node_address, was, confirmed, burns,
                   line>>

Sketch == SkipStale \/ ReadByte \/ Cancel \/ Confirm \/ WriteLow \/ WriteHigh

Next == PowerOff \/ StartSketch \/ BootFirmware \/ Sketch

Spec == Init /\ [][Next]_vars

-----------------------------------------------------------------------------
\* Once the sketch has written the number its operator confirmed, a node that
\* boots names itself by that number (as 16 bits), however often power failed
\* before, and whatever numbers were typed, refused or cancelled since.
NodeNamedAsConfirmed ==
    pc = "node" /\ whole => node_address = confirmed % 65536

\* A power failure during the writes leaves a node with its old name, or with
\* the low byte of the new one and the high byte of the old; never with a
\* name whose high byte is new and whose low byte is old.
TornOneWay ==
    pc = "node" /\ ~whole =>
        node_address \in {was, 256 * (was \div 256) + (confirmed % 256)}

\* The number the sketch shows, and asks to burn, is the number on the line
\* whenever the operator has ended the line: with a sign, with letters in it,
\* at any length the buffer takes.
NumberOfLine ==
    pc = "confirm" /\ line # <<>> /\ Last(line) = NL => number = atoi(line)
=============================================================================
