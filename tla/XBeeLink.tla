------------------------------ MODULE XBeeLink -------------------------------
(***************************************************************************)
(* The two halves of the XBee library, back to back: a node sends packets  *)
(* as API frames with XBee::send, byte by byte, and a receiver that calls  *)
(* XBee::readPacket whenever it likes takes them apart again.  The radios  *)
(* in between are a serial line that may lose a byte; the node may lose    *)
(* its power in the middle of a frame.                                     *)
(*                                                                         *)
(* readPacket returns when no byte is available, so that a call may end    *)
(* anywhere in a frame, between the two bytes of an escape sequence too.   *)
(***************************************************************************)
EXTENDS Integers, SequencesExt

CONSTANTS
    Payloads,   \* the packets the node may send, sequences of bytes
    MaxFrames,  \* packets it sends
    MaxFaults,  \* bytes lost and power failures
    LineCap     \* bytes the receiver may fall behind

ASSUME LinkAssumption ==
    /\ \A p \in Payloads: p \in Seq(0 .. 255) /\ Len(p) <= 90
    /\ MaxFrames \in Nat /\ MaxFaults \in Nat /\ LineCap \in Nat \ {0, 1}

VARIABLES
    out,        \* what is left of the frame being sent
    line,       \* bytes that are available to the receiver
    reading,    \* is the receiver in readPacket?
    pos, escape, checksumTotal,         \* _pos, _escape and _checksumTotal
    msbLength, lsbLength, frameData,    \* of _response
    status,     \* of _response: "none", "available", or its error code
    sent,       \* the payloads given to send, in order
    received,   \* the frame data of the responses the receiver was given
    faults,
    weak        \* has the line lost a byte whose loss may go unnoticed?

sender   == <<out, sent, weak>>
receiver == <<reading, pos, escape, checksumTotal, msbLength, lsbLength,
              frameData, status, received>>
vars     == <<sender, line, receiver, faults>>

START_BYTE == 126
ESCAPE     == 125
XON        == 17
XOFF       == 19

MAX_FRAME_DATA_SIZE == 110
ZB_TX_REQUEST       == 16
DEFAULT_FRAME_ID    == 1

\* b ^ 0x20
Xor20(b) == IF (b \div 32) % 2 = 1 THEN b - 32 ELSE b + 32

-----------------------------------------------------------------------------
(* Sending.                                                                *)

\* ZBTxRequest::getFrameData: the coordinator's 64-bit address, the unknown
\* 16-bit one, any radius, unicast, and the payload.
FrameData(payload) == <<0, 0, 0, 0, 0, 0, 0, 0, 255, 254, 0, 0>> \o payload

SendByte(b) ==
    IF b \in {START_BYTE, ESCAPE, XON, XOFF} THEN <<ESCAPE, Xor20(b)>> ELSE <<b>>

\* The bytes behind the start byte, as they go out: the control bytes escaped.
Escaped(bytes) ==
    LET to[n \in 0 .. Len(bytes)] ==
            IF n = 0 THEN <<>> ELSE to[n - 1] \o SendByte(bytes[n])
    IN  to

\* The checksum of the first n of them.
Checksums(bytes) ==
    LET sum[n \in 0 .. Len(bytes)] ==
            IF n = 0 THEN 0 ELSE (sum[n - 1] + bytes[n]) % 256
    IN  sum

\* What the checksum is taken over: the API id, the frame id and the frame data.
Content(payload) == <<ZB_TX_REQUEST, DEFAULT_FRAME_ID>> \o FrameData(payload)

\* XBee::send: the length, the content and the checksum.
Unescaped(payload) ==
    LET content  == Content(payload)
        length   == Len(content)
        checksum == 255 - Checksums(content)[length]
    IN  <<length \div 256, length % 256>> \o content \o <<checksum>>

Frame(payload) ==
    LET bytes == Unescaped(payload)
    IN  <<START_BYTE>> \o Escaped(bytes)[Len(bytes)]

-----------------------------------------------------------------------------

Init ==
    /\ out = <<>>
    /\ line = <<>>
    /\ reading = FALSE
    /\ pos = 0 /\ escape = FALSE /\ checksumTotal = 0
    /\ msbLength = 0 /\ lsbLength = 0 /\ frameData = <<>>
    /\ status = "none"
    /\ sent = <<>>
    /\ received = <<>>
    /\ faults = 0
    /\ weak = FALSE

Send ==
    /\ out = <<>>
    /\ Len(sent) < MaxFrames
    /\ \E p \in Payloads: sent' = Append(sent, p) /\ out' = Frame(p)
    /\ UNCHANGED <<line, receiver, faults, weak>>

Write ==
    /\ out # <<>>
    /\ Len(line) < LineCap
    /\ line' = Append(line, Head(out))
    /\ out' = Tail(out)
    /\ UNCHANGED <<receiver, sent, faults, weak>>

\* A byte of the length, or the second half of an escape sequence.
AtWeakSpot ==
    LET frame == Frame(Last(sent))
        index == Len(frame) - Len(out) + 1
    IN  \/ index \in 2 .. IF frame[3] = ESCAPE THEN 4 ELSE 3
        \/ index > 1 /\ frame[index - 1] = ESCAPE

Lose ==
    /\ out # <<>>
    /\ faults < MaxFaults
    /\ faults' = faults + 1
    /\ weak' = (weak \/ AtWeakSpot)
    /\ out' = Tail(out)
    /\ UNCHANGED <<line, receiver, sent>>

PowerFails ==
    /\ out # <<>>
    /\ faults < MaxFaults
    /\ faults' = faults + 1
    /\ weak' = (weak \/ AtWeakSpot)
    /\ out' = <<>>
    /\ UNCHANGED <<line, receiver, sent>>

-----------------------------------------------------------------------------
(* Receiving.                                                              *)

\* A slip in readPacket: only an available response starts it afresh.
CallKeepsError ==
    /\ ~reading
    /\ line # <<>>
    /\ reading' = TRUE
    /\ IF status = "available"
       THEN /\ pos' = 0 /\ escape' = FALSE /\ checksumTotal' = 0
            /\ msbLength' = 0 /\ lsbLength' = 0
       ELSE UNCHANGED <<pos, escape, checksumTotal, msbLength, lsbLength>>
    /\ status' = "none"
    /\ UNCHANGED <<sender, line, frameData, received, faults>>

\* The receiver calls readPacket, which resets a response it has given before.
\* (Calls that find no byte are left out: a reset twice is a reset.)
Call ==
    /\ ~reading
    /\ line # <<>>
    /\ reading' = TRUE
    /\ IF status # "none"
       THEN /\ pos' = 0 /\ escape' = FALSE /\ checksumTotal' = 0
            /\ msbLength' = 0 /\ lsbLength' = 0
       ELSE UNCHANGED <<pos, escape, checksumTotal, msbLength, lsbLength>>
    /\ status' = "none"
    /\ UNCHANGED <<sender, line, frameData, received, faults>>

\* No byte is available.
Return ==
    /\ reading
    /\ line = <<>>
    /\ reading' = FALSE
    /\ UNCHANGED <<sender, line, pos, escape, checksumTotal, msbLength, lsbLength,
                   frameData, status, received, faults>>

\* A start byte inside a frame: an error, and the byte is gone.
UnexpectedStart ==
    /\ reading
    /\ line # <<>> /\ pos > 0 /\ Head(line) = START_BYTE
    /\ line' = Tail(line)
    /\ status' = "UNEXPECTED_START_BYTE"
    /\ reading' = FALSE
    /\ UNCHANGED <<sender, pos, escape, checksumTotal, msbLength, lsbLength,
                   frameData, received, faults>>

\* A slip in readPacket: an escape byte at the end of a call forgotten.
EscapeAloneForgotten ==
    /\ reading
    /\ Len(line) = 1 /\ pos > 0 /\ Head(line) = ESCAPE
    /\ line' = <<>>
    /\ UNCHANGED <<sender, reading, pos, escape, checksumTotal, msbLength,
                   lsbLength, frameData, status, received, faults>>

\* A slip in readPacket: the escape byte counted as a byte of the frame.
EscapeAloneCounted ==
    /\ reading
    /\ Len(line) = 1 /\ pos > 0 /\ Head(line) = ESCAPE
    /\ line' = <<>>
    /\ escape' = TRUE
    /\ pos' = pos + 1
    /\ UNCHANGED <<sender, reading, checksumTotal, msbLength, lsbLength,
                   frameData, status, received, faults>>

\* An escape byte is the last byte available: the next call has the other half.
EscapeAlone ==
    /\ reading
    /\ Len(line) = 1 /\ pos > 0 /\ Head(line) = ESCAPE
    /\ line' = <<>>
    /\ escape' = TRUE
    /\ UNCHANGED <<sender, reading, pos, checksumTotal, msbLength, lsbLength,
                   frameData, status, received, faults>>

\* getPacketLength: (_msbLength << 8) & 0xff is 0.
PacketLength == lsbLength

\* A slip in readPacket: the sum of the bytes not looked at.
ChecksumRight(total) == total >= 0

ChecksumOk(total) == total = 255

\* What the byte b is at the position pos of a frame.
Digest(b, total) ==
    CASE pos = 0 ->
           /\ pos' = IF b = START_BYTE THEN 1 ELSE 0
           /\ UNCHANGED <<reading, msbLength, lsbLength, frameData, status, received>>
      [] pos = 1 ->
           /\ msbLength' = b /\ pos' = 2
           /\ UNCHANGED <<reading, lsbLength, frameData, status, received>>
      [] pos = 2 ->
           /\ lsbLength' = b /\ pos' = 3
           /\ UNCHANGED <<reading, msbLength, frameData, status, received>>
      [] pos = 3 ->
           /\ pos' = 4 /\ frameData' = <<>>
           /\ UNCHANGED <<reading, msbLength, lsbLength, status, received>>
      [] pos > MAX_FRAME_DATA_SIZE ->
           /\ status' = "PACKET_EXCEEDS_BYTE_ARRAY_LENGTH" /\ reading' = FALSE
           /\ UNCHANGED <<pos, msbLength, lsbLength, frameData, received>>
      [] pos \in 4 .. MAX_FRAME_DATA_SIZE /\ pos = PacketLength + 3 ->
           /\ IF ChecksumOk(total)
              THEN status' = "available" /\ received' = Append(received, frameData)
              ELSE status' = "CHECKSUM_FAILURE" /\ UNCHANGED received
           /\ pos' = 0
           /\ reading' = FALSE
           /\ UNCHANGED <<msbLength, lsbLength, frameData>>
      [] OTHER ->
           /\ frameData' = Append(frameData, b) /\ pos' = pos + 1
           /\ UNCHANGED <<reading, msbLength, lsbLength, status, received>>

\* One turn of the loop of readPacket; of an escape sequence that has arrived as
\* a whole it reads both bytes.
Take ==
    /\ reading
    /\ line # <<>>
    /\ ~(pos > 0 /\ Head(line) = START_BYTE)
    /\ ~(pos > 0 /\ Head(line) = ESCAPE /\ Len(line) = 1)
    /\ LET pair  == pos > 0 /\ Head(line) = ESCAPE
           raw   == IF pair THEN Xor20(line[2]) ELSE Head(line)
           b     == IF escape THEN Xor20(raw) ELSE raw
           total == IF pos >= 3 THEN (checksumTotal + b) % 256 ELSE checksumTotal
       IN  /\ line' = IF pair THEN Tail(Tail(line)) ELSE Tail(line)
           /\ escape' = FALSE
           /\ checksumTotal' = total
           /\ Digest(b, total)
    /\ UNCHANGED <<sender, faults>>

Receive == Call \/ Return \/ UnexpectedStart \/ EscapeAlone \/ Take

Next == Send \/ Write \/ Lose \/ PowerFails \/ Receive

Spec == Init /\ [][Next]_vars

\* The node finishes the frames it begins, and the receiver goes on reading.
FairSpec == Spec /\ WF_vars(Write) /\ WF_vars(Receive)

-----------------------------------------------------------------------------
(* Properties.                                                             *)

\* The frame data are filled up to the place where the next byte goes.
TypeOK ==
    /\ out \in Seq(0 .. 255)
    /\ line \in Seq(0 .. 255) /\ Len(line) <= LineCap
    /\ reading \in BOOLEAN /\ escape \in BOOLEAN
    /\ pos \in 0 .. MAX_FRAME_DATA_SIZE + 1
    /\ checksumTotal \in 0 .. 255
    /\ msbLength \in 0 .. 255 /\ lsbLength \in 0 .. 255
    /\ frameData \in Seq(0 .. 255) /\ Len(frameData) <= MAX_FRAME_DATA_SIZE
    /\ pos >= 4 => Len(frameData) = pos - 4
    /\ status \in {"none", "available", "UNEXPECTED_START_BYTE", "CHECKSUM_FAILURE",
                   "PACKET_EXCEEDS_BYTE_ARRAY_LENGTH"}
    /\ sent \in Seq(Payloads) /\ Len(sent) <= MaxFrames
    /\ faults \in 0 .. MaxFaults /\ weak \in BOOLEAN

\* What a receiver should get for a payload: the frame id and the frame data.
Response(payload) == <<DEFAULT_FRAME_ID>> \o FrameData(payload)

\* Everything the receiver is given was sent, as it was sent, once and in order:
\* wherever the calls of readPacket begin and end, whichever control bytes the
\* packets, their lengths and checksums contain, and whatever one byte is lost (of
\* two, the sum may not tell: 0x11 and 0x7d without their escape bytes), but
\* - one of a length: the API id is taken for it, and the bytes before the payload
\*   add up so that a packet of a node whose address ends in 1 is accepted short;
\* - the second half of an escape sequence before another one: escape and escape
\*   make 0x5d, the next byte stays escaped, and the sum may be what it was.
ReceivedWereSent ==
    weak \/
    \E index \in [1 .. Len(received) -> 1 .. Len(sent)]:
        \A i \in 1 .. Len(received):
            /\ received[i] = Response(sent[index[i]])
            /\ \A j \in 1 .. i - 1: index[j] < index[i]

\* A fault costs two packets at most, the one it hit and the one after it, whose
\* start byte readPacket takes for an error and drops; three if it hit a length or
\* left half of an escape sequence, which takes the start byte for the other half.
\* When nothing is under way all other packets have been received.
Cost == IF weak THEN 3 * faults ELSE 2 * faults

FaultCost ==
    out = <<>> /\ line = <<>> /\ ~reading => Len(sent) <= Len(received) + Cost

\* Every packet is received in the end, but for what the faults cost.
PacketsArrive ==
    \A k \in 1 .. MaxFrames: Len(sent) >= k ~> Len(received) + Cost >= k
=============================================================================
