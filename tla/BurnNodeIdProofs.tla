-------------------------- MODULE BurnNodeIdProofs ---------------------------
(***************************************************************************)
(* Theorems about the naming of a node, for any number of numbers burned,  *)
(* whatever digits are typed, whatever was on the stack, and wherever      *)
(* power fails: what the sketch shows, and what a node is named after it.  *)
(***************************************************************************)
EXTENDS BurnNodeId, TLAPS

-----------------------------------------------------------------------------
(* Numbers of a line.                                                      *)

LEMMA TypableFacts == Typable \subseteq -3 .. 9 /\ Stale \subseteq Typable
  BY BurnAssumption DEF Typable, NL, Minus, Letter

\* At most three digits with a sign, and four without.
LEMMA AtoiRange ==
    ASSUME NEW bytes \in Seq(Typable)
    PROVE  atoi(bytes) \in Numbers
<1> USE DEF Numbers
<1> DEFINE signed == bytes # <<>> /\ bytes[1] = Minus
           first  == IF signed THEN 2 ELSE 1
           InNumber(k) == /\ first <= k /\ k <= Len(bytes)
                          /\ \A j \in first .. k: IsDigit(bytes[j])
           Add(sum, k) == IF InNumber(k) THEN 10 * sum + bytes[k] ELSE sum
           one   == Add(0, 1)
           two   == Add(one, 2)
           three == Add(two, 3)
           four  == Add(three, 4)
<1>1. ASSUME NEW k \in 1 .. 4, InNumber(k)
      PROVE  bytes[k] \in 0 .. 9
  <2>1. first \in {1, 2} /\ k \in first .. k /\ k \in 1 .. Len(bytes)
    BY <1>1
  <2>2. IsDigit(bytes[k])
    BY <1>1, <2>1
  <2>3. bytes[k] \in Typable
    BY <2>1
  <2>4. bytes[k] >= 0
    BY <2>2 DEF IsDigit
  <2>5. bytes[k] \in -3 .. 9
    BY <2>3, TypableFacts
  <2> QED
    BY <2>4, <2>5
<1>2. ASSUME NEW k \in 1 .. 4, NEW sum \in Nat
      PROVE  Add(sum, k) \in Nat /\ Add(sum, k) <= 10 * sum + 9
  <2> HIDE DEF InNumber
  <2>1. CASE InNumber(k)
    <3>1. Add(sum, k) = 10 * sum + bytes[k] /\ bytes[k] \in 0 .. 9
      BY <1>1, <2>1
    <3> HIDE DEF Add
    <3> QED
      BY <3>1
  <2>2. CASE ~InNumber(k)
    <3>1. Add(sum, k) = sum
      BY <2>2
    <3> HIDE DEF Add
    <3> QED
      BY <3>1
  <2> QED
    BY <2>1, <2>2
<1>3. atoi(bytes) = IF signed THEN -four ELSE four
  BY DEF atoi
<1>4. CASE signed
  <2>1. ~InNumber(1)
    BY <1>4
  <2>2. one \in 0 .. 0
    BY <2>1
  <2> HIDE DEF InNumber, Add, one
  <2>3. two \in 0 .. 9
    <3>1. one \in Nat
      BY <2>2
    <3>2. 2 \in 1 .. 4
      OBVIOUS
    <3>3. two \in Nat /\ two <= 10 * one + 9
      BY <3>1, <3>2, <1>2, Zenon
    <3> HIDE DEF two
    <3> QED
      BY <2>2, <3>3
  <2> HIDE DEF two
  <2>4. three \in 0 .. 99
    <3>1. two \in Nat
      BY <2>3
    <3>2. 3 \in 1 .. 4
      OBVIOUS
    <3>3. three \in Nat /\ three <= 10 * two + 9
      BY <3>1, <3>2, <1>2, Zenon
    <3> HIDE DEF three
    <3> QED
      BY <2>3, <3>3
  <2> HIDE DEF three
  <2>5. four \in 0 .. 999
    <3>1. three \in Nat
      BY <2>4
    <3>2. 4 \in 1 .. 4
      OBVIOUS
    <3>3. four \in Nat /\ four <= 10 * three + 9
      BY <3>1, <3>2, <1>2, Zenon
    <3> HIDE DEF four
    <3> QED
      BY <2>4, <3>3
  <2>6. atoi(bytes) = -four
    BY <1>3, <1>4
  <2> HIDE DEF four
  <2> QED
    BY <2>5, <2>6
<1>5. CASE ~signed
  <2> HIDE DEF InNumber, Add
  <2>1. one \in 0 .. 9
    <3>1. one \in Nat /\ one <= 10 * 0 + 9
      BY <1>2
    <3> HIDE DEF one
    <3> QED
      BY <3>1
  <2> HIDE DEF one
  <2>2. two \in 0 .. 99
    <3>1. one \in Nat
      BY <2>1
    <3>2. 2 \in 1 .. 4
      OBVIOUS
    <3>3. two \in Nat /\ two <= 10 * one + 9
      BY <3>1, <3>2, <1>2, Zenon
    <3> HIDE DEF two
    <3> QED
      BY <2>1, <3>3
  <2> HIDE DEF two
  <2>3. three \in 0 .. 999
    <3>1. two \in Nat
      BY <2>2
    <3>2. 3 \in 1 .. 4
      OBVIOUS
    <3>3. three \in Nat /\ three <= 10 * two + 9
      BY <3>1, <3>2, <1>2, Zenon
    <3> HIDE DEF three
    <3> QED
      BY <2>2, <3>3
  <2> HIDE DEF three
  <2>4. four \in 0 .. 9999
    <3>1. three \in Nat
      BY <2>3
    <3>2. 4 \in 1 .. 4
      OBVIOUS
    <3>3. four \in Nat /\ four <= 10 * three + 9
      BY <3>1, <3>2, <1>2, Zenon
    <3> HIDE DEF four
    <3> QED
      BY <2>3, <3>3
  <2>5. atoi(bytes) = four
    BY <1>3, <1>5
  <2> HIDE DEF four
  <2> QED
    BY <2>4, <2>5
<1> QED
  BY <1>4, <1>5

\* The end of the line is no part of its number.
LEMMA AtoiEndOfLine ==
    ASSUME NEW bytes \in Seq(Typable), Len(bytes) <= 4
    PROVE  atoi(Append(bytes, NL)) = atoi(bytes)
<1> DEFINE ended == Append(bytes, NL)
           signed(s) == s # <<>> /\ s[1] = Minus
           first(s)  == IF signed(s) THEN 2 ELSE 1
           InNumber(s, k) == /\ first(s) <= k /\ k <= Len(s)
                             /\ \A j \in first(s) .. k: IsDigit(s[j])
           Add(s, sum, k) == IF InNumber(s, k) THEN 10 * sum + s[k] ELSE sum
           four(s) == Add(s, Add(s, Add(s, Add(s, 0, 1), 2), 3), 4)
<1>1. /\ Len(ended) = Len(bytes) + 1 /\ ended[Len(bytes) + 1] = NL
      /\ \A k \in 1 .. Len(bytes): ended[k] = bytes[k]
      /\ ended # <<>> /\ Len(bytes) \in Nat
  OBVIOUS
<1>2. signed(ended) = signed(bytes) /\ first(ended) = first(bytes)
  BY <1>1 DEF NL, Minus
<1>3. ASSUME NEW k \in 1 .. 4
      PROVE  /\ InNumber(ended, k) = InNumber(bytes, k)
             /\ InNumber(bytes, k) => ended[k] = bytes[k]
  <2>1. CASE k <= Len(bytes)
    BY <1>1, <1>2, <2>1
  <2>2. CASE k = Len(bytes) + 1
    <3>1. ~IsDigit(ended[k])
      BY <1>1, <2>2 DEF IsDigit, NL
    <3> QED
      BY <1>1, <2>2, <3>1
  <2>3. CASE k > Len(bytes) + 1
    BY <1>1, <2>3
  <2> QED
    BY <1>1, <2>1, <2>2, <2>3
<1>4. four(ended) = four(bytes)
  <2> HIDE DEF InNumber
  <2>1. ASSUME NEW sum, NEW k \in 1 .. 4
        PROVE  Add(ended, sum, k) = Add(bytes, sum, k)
    BY <1>3
  <2> HIDE DEF Add
  <2> QED
    BY <2>1
<1>5. /\ atoi(ended) = IF signed(ended) THEN -four(ended) ELSE four(ended)
      /\ atoi(bytes) = IF signed(bytes) THEN -four(bytes) ELSE four(bytes)
  BY DEF atoi
<1> HIDE DEF four, signed, ended
<1> QED
  BY <1>2, <1>4, <1>5 DEF ended

-----------------------------------------------------------------------------
(* The inductive invariant.                                                *)

\* What was typed since the sketch started is in its buffer, and no byte of it
\* ends the line.
LineIsBuffer ==
    /\ pc = "off" => i = 0 /\ line = <<>>
    /\ pc = "read" =>
          /\ Len(line) = i
          /\ \A k \in 1 .. i: line[k] = incomingByte[k - 1] /\ line[k] # NL

\* What the EEPROM holds before, between and after the two writes.
EepromWritten ==
    /\ whole => node_address_read(low, high) = confirmed % 65536
    /\ ~whole => \/ node_address_read(low, high) = was
                 \/ low = confirmed % 256 /\ high = was \div 256
    /\ pc \in {"write_low", "write_high"} => ~whole /\ number = confirmed
    /\ pc = "write_low" => node_address_read(low, high) = was
    /\ pc = "write_high" => low = confirmed % 256 /\ high = was \div 256
    /\ pc = "node" => node_address = node_address_read(low, high)

BurnInv == TypeOK /\ LineIsBuffer /\ NumberOfLine /\ EepromWritten

\* The two bytes of a number, put together again, are its low 16 bits.
LEMMA BytesOfNumber ==
    ASSUME NEW x \in Int
    PROVE  /\ x % 256 \in Bytes /\ (x \div 256) % 256 \in Bytes
           /\ (x % 256) + 256 * ((x \div 256) % 256) = x % 65536
  BY DEF Bytes

\* The number of an EEPROM, and its bytes again.
LEMMA NumberOfBytes ==
    ASSUME NEW lo \in Bytes, NEW hi \in Bytes
    PROVE  /\ node_address_read(lo, hi) \in NodeIds
           /\ node_address_read(lo, hi) \div 256 = hi
           /\ node_address_read(lo, hi) % 256 = lo
           /\ node_address_read(lo, hi) % 65536 = node_address_read(lo, hi)
<1>1. lo \in Nat /\ lo < 256 /\ hi \in Nat /\ hi < 256
  BY DEF Bytes
<1>2. lo + 256 * hi \in NodeIds
  BY <1>1 DEF NodeIds
<1>3. (lo + 256 * hi) \div 256 = hi /\ (lo + 256 * hi) % 256 = lo
  BY <1>1
<1>4. (lo + 256 * hi) % 65536 = lo + 256 * hi
  BY <1>1
<1> QED
  BY <1>2, <1>3, <1>4 DEF node_address_read

\* What atoi is given is a sequence of bytes.
LEMMA BufferIsSequence ==
    ASSUME NEW buffer \in [0 .. 4 -> Typable], NEW n \in 0 .. 4
    PROVE  /\ [k \in 1 .. n |-> buffer[k - 1]] \in Seq(Typable)
           /\ Len([k \in 1 .. n |-> buffer[k - 1]]) = n
  OBVIOUS

LEMMA InitInv == Init => BurnInv
<1> SUFFICES ASSUME Init PROVE BurnInv
  OBVIOUS
<1> USE DEF Init, node_address_read
<1>1. incomingByte \in [0 .. 4 -> Typable]
  BY TypableFacts
<1>2. TypeOK
  <2>1. LineTypes
    BY <1>1 DEF LineTypes, Numbers
  <2>2. NameTypes
    BY BoundAssumption DEF NameTypes, Bytes, NodeIds, NoAddress
  <2>3. whole \in BOOLEAN
    OBVIOUS
  <2> QED
    BY <2>1, <2>2, <2>3 DEF TypeOK
<1>3. LineIsBuffer /\ NumberOfLine
  BY DEF LineIsBuffer, NumberOfLine
<1>4. EepromWritten
  BY DEF EepromWritten
<1> QED
  BY <1>2, <1>3, <1>4 DEF BurnInv

-----------------------------------------------------------------------------
(* The steps.                                                              *)

LEMMA ForgottenLine ==
    ASSUME ForgetLine
    PROVE  /\ incomingByte' \in [0 .. 4 -> Typable] /\ i' = 0 /\ line' = <<>>
           /\ line' \in Seq(Typable)
  BY DEF ForgetLine, Typable

LEMMA PowerOffStep == BurnInv /\ PowerOff => BurnInv'
<1> SUFFICES ASSUME BurnInv, PowerOff PROVE BurnInv'
  OBVIOUS
<1> USE DEF BurnInv, PowerOff, eeprom, history
<1>1. TypeOK'
  <2>1. LineTypes'
    BY ForgottenLine DEF TypeOK, LineTypes, Numbers
  <2>2. NameTypes'
    BY DEF TypeOK, NameTypes, NoAddress
  <2>3. whole' \in BOOLEAN
    BY DEF TypeOK
  <2> QED
    BY <2>1, <2>2, <2>3 DEF TypeOK
<1>2. LineIsBuffer' /\ NumberOfLine'
  BY ForgottenLine DEF LineIsBuffer, NumberOfLine
<1>3. EepromWritten'
  BY DEF EepromWritten
<1> QED
  BY <1>1, <1>2, <1>3

LEMMA StartSketchStep == BurnInv /\ StartSketch => BurnInv'
<1> SUFFICES ASSUME BurnInv, StartSketch PROVE BurnInv'
  OBVIOUS
<1> USE DEF BurnInv, StartSketch, eeprom, history
<1>1. TypeOK'
  <2>1. LineTypes'
    BY TypableFacts DEF TypeOK, LineTypes
  <2>2. NameTypes'
    BY DEF TypeOK, NameTypes
  <2>3. whole' \in BOOLEAN
    BY DEF TypeOK
  <2> QED
    BY <2>1, <2>2, <2>3 DEF TypeOK
<1>2. LineIsBuffer' /\ NumberOfLine'
  BY DEF LineIsBuffer, NumberOfLine
<1>3. EepromWritten'
  BY DEF EepromWritten
<1> QED
  BY <1>1, <1>2, <1>3

LEMMA BootStep == BurnInv /\ BootFirmware => BurnInv'
<1> SUFFICES ASSUME BurnInv, BootFirmware PROVE BurnInv'
  OBVIOUS
<1> USE DEF BurnInv, BootFirmware, eeprom, history
<1>1. TypeOK'
  <2>1. LineTypes'
    BY DEF TypeOK, LineTypes
  <2>2. NameTypes'
    <3>1. node_address' \in NodeIds
      <4>1. low \in Bytes /\ high \in Bytes
        BY DEF TypeOK, NameTypes
      <4> QED
        BY <4>1, NumberOfBytes
    <3> QED
      BY <3>1 DEF TypeOK, NameTypes
  <2>3. whole' \in BOOLEAN
    BY DEF TypeOK
  <2> QED
    BY <2>1, <2>2, <2>3 DEF TypeOK
<1>2. LineIsBuffer' /\ NumberOfLine'
  BY DEF LineIsBuffer, NumberOfLine
<1>3. EepromWritten'
  BY DEF EepromWritten
<1> QED
  BY <1>1, <1>2, <1>3

\* The stale byte that ends the line was not typed.
LEMMA SkipStaleStep == BurnInv /\ SkipStale => BurnInv'
<1> SUFFICES ASSUME BurnInv, SkipStale PROVE BurnInv'
  OBVIOUS
<1> USE DEF BurnInv, SkipStale, eeprom, history
<1>1. TypeOK'
  <2>1. LineTypes'
    <3>1. number' \in Numbers
      <4>1. incomingByte \in [0 .. 4 -> Typable] /\ i \in 0 .. 4
        BY DEF TypeOK, LineTypes
      <4> QED
        BY <4>1, BufferIsSequence, AtoiRange DEF Show
    <3> QED
      BY <3>1 DEF TypeOK, LineTypes, Show
  <2>2. NameTypes'
    BY DEF TypeOK, NameTypes
  <2>3. whole' \in BOOLEAN
    BY DEF TypeOK
  <2> QED
    BY <2>1, <2>2, <2>3 DEF TypeOK
<1>2. NumberOfLine'
  <2>1. CASE line = <<>>
    BY <2>1 DEF NumberOfLine
  <2>2. CASE line # <<>>
    <3>1. Len(line) \in 1 .. i
      BY <2>2 DEF TypeOK, LineTypes, LineIsBuffer
    <3>2. line[Len(line)] # NL
      BY <3>1 DEF LineIsBuffer
    <3> QED
      BY <3>2 DEF NumberOfLine, Last
  <2> QED
    BY <2>1, <2>2
<1>3. LineIsBuffer' /\ EepromWritten'
  BY DEF LineIsBuffer, EepromWritten, Show
<1> QED
  BY <1>1, <1>2, <1>3

LEMMA ReadByteStep == BurnInv /\ ReadByte => BurnInv'
<1> SUFFICES ASSUME BurnInv, ReadByte PROVE BurnInv'
  OBVIOUS
<1> USE DEF BurnInv
<1>1. PICK b \in Typable:
         /\ incomingByte' = [incomingByte EXCEPT ![i] = b]
         /\ line' = Append(line, b)
         /\ \/ b = NL /\ Show(incomingByte) /\ UNCHANGED i
            \/ b # NL /\ i > 3 /\ pc' = "finish" /\ UNCHANGED <<i, number>>
            \/ b # NL /\ i <= 3 /\ i' = i + 1 /\ UNCHANGED <<pc, number>>
  BY DEF ReadByte
<1>2. /\ pc = "read" /\ Len(line) = i /\ line \in Seq(Typable) /\ i \in 0 .. 4
      /\ \A k \in 1 .. i: line[k] = incomingByte[k - 1] /\ line[k] # NL
      /\ incomingByte \in [0 .. 4 -> Typable]
  BY DEF ReadByte, TypeOK, LineTypes, LineIsBuffer
<1>3. line' \in Seq(Typable) /\ incomingByte' \in [0 .. 4 -> Typable]
  BY <1>1, <1>2
<1>4. UNCHANGED <<low, high, node_address, was, confirmed, whole, burns>>
  BY DEF ReadByte, eeprom, history
<1>5. NameTypes' /\ whole' \in BOOLEAN
  <2>1. NameTypes'
    BY <1>4 DEF TypeOK, NameTypes
  <2>2. whole' \in BOOLEAN
    BY <1>4 DEF TypeOK
  <2> QED
    BY <2>1, <2>2
<1>6. CASE b = NL /\ Show(incomingByte) /\ UNCHANGED i
  <2> DEFINE given == [k \in 1 .. i |-> incomingByte[k - 1]]
  <2>1. given = line
    <3>1. given \in Seq(Typable) /\ Len(given) = Len(line)
      BY <1>2, BufferIsSequence
    <3>2. \A k \in 1 .. Len(line): given[k] = line[k]
      BY <1>2
    <3> QED
      BY <1>2, <3>1, <3>2
  <2>2. number' = atoi(line) /\ pc' = "confirm"
    BY <1>6, <2>1 DEF Show
  <2>3. TypeOK'
    <3>1. number' \in Numbers
      BY <1>2, <2>2, AtoiRange
    <3>2. LineTypes'
      BY <1>2, <1>3, <1>6, <2>2, <3>1 DEF LineTypes
    <3> QED
      BY <1>5, <3>2 DEF TypeOK
  <2>4. NumberOfLine'
    BY <1>1, <1>2, <1>6, <2>2, AtoiEndOfLine DEF NumberOfLine
  <2>5. LineIsBuffer' /\ EepromWritten'
    BY <1>2, <1>4, <2>2 DEF LineIsBuffer, EepromWritten
  <2> QED
    BY <2>3, <2>4, <2>5
<1>7. CASE b # NL /\ i > 3 /\ pc' = "finish" /\ UNCHANGED <<i, number>>
  <2>1. TypeOK'
    <3>1. LineTypes'
      BY <1>3, <1>7 DEF TypeOK, LineTypes
    <3> QED
      BY <1>5, <3>1 DEF TypeOK
  <2>2. LineIsBuffer' /\ NumberOfLine'
    BY <1>7 DEF LineIsBuffer, NumberOfLine
  <2>3. EepromWritten'
    BY <1>4, <1>7 DEF EepromWritten
  <2> QED
    BY <2>1, <2>2, <2>3
<1>8. CASE b # NL /\ i <= 3 /\ i' = i + 1 /\ UNCHANGED <<pc, number>>
  <2>1. TypeOK'
    <3>1. LineTypes'
      BY <1>2, <1>3, <1>8 DEF TypeOK, LineTypes
    <3> QED
      BY <1>5, <3>1 DEF TypeOK
  <2>2. LineIsBuffer'
    <3>1. Len(line') = i'
      BY <1>1, <1>2, <1>8
    <3>2. ASSUME NEW k \in 1 .. i'
          PROVE  line'[k] = incomingByte'[k - 1] /\ line'[k] # NL
      <4>1. CASE k = i + 1
        BY <1>1, <1>2, <1>8, <4>1
      <4>2. CASE k \in 1 .. i
        BY <1>1, <1>2, <1>8, <4>2
      <4> QED
        BY <1>2, <1>8, <4>1, <4>2
    <3> QED
      BY <1>2, <1>8, <3>1, <3>2 DEF LineIsBuffer
  <2>3. NumberOfLine' /\ EepromWritten'
    BY <1>2, <1>4, <1>8 DEF NumberOfLine, EepromWritten
  <2> QED
    BY <2>1, <2>2, <2>3
<1> QED
  BY <1>1, <1>6, <1>7, <1>8

LEMMA CancelStep == BurnInv /\ Cancel => BurnInv'
<1> SUFFICES ASSUME BurnInv, Cancel PROVE BurnInv'
  OBVIOUS
<1> USE DEF BurnInv, Cancel, eeprom, history
<1>1. TypeOK'
  <2>1. LineTypes'
    BY ForgottenLine DEF TypeOK, LineTypes
  <2>2. NameTypes'
    BY DEF TypeOK, NameTypes
  <2>3. whole' \in BOOLEAN
    BY DEF TypeOK
  <2> QED
    BY <2>1, <2>2, <2>3 DEF TypeOK
<1>2. LineIsBuffer' /\ NumberOfLine'
  BY DEF LineIsBuffer, NumberOfLine
<1>3. EepromWritten'
  BY DEF EepromWritten
<1> QED
  BY <1>1, <1>2, <1>3

LEMMA ConfirmStep == BurnInv /\ Confirm => BurnInv'
<1> SUFFICES ASSUME BurnInv, Confirm PROVE BurnInv'
  OBVIOUS
<1> USE DEF BurnInv, Confirm, eeprom
<1>1. TypeOK'
  <2>1. LineTypes'
    BY ForgottenLine DEF TypeOK, LineTypes
  <2>2. NameTypes'
    <3>1. was' \in NodeIds
      <4>1. low \in Bytes /\ high \in Bytes
        BY DEF TypeOK, NameTypes
      <4> QED
        BY <4>1, NumberOfBytes
    <3>2. confirmed' \in Numbers
      BY DEF TypeOK, LineTypes
    <3>3. burns' \in 0 .. MaxBurns
      BY BoundAssumption DEF TypeOK, NameTypes
    <3> QED
      BY <3>1, <3>2, <3>3 DEF TypeOK, NameTypes
  <2>3. whole' \in BOOLEAN
    OBVIOUS
  <2> QED
    BY <2>1, <2>2, <2>3 DEF TypeOK
<1>2. LineIsBuffer' /\ NumberOfLine'
  BY DEF LineIsBuffer, NumberOfLine
<1>3. EepromWritten'
  BY DEF EepromWritten
<1> QED
  BY <1>1, <1>2, <1>3

LEMMA WriteLowStep == BurnInv /\ WriteLow => BurnInv'
<1> SUFFICES ASSUME BurnInv, WriteLow PROVE BurnInv'
  OBVIOUS
<1> USE DEF BurnInv, WriteLow, history
<1>1. TypeOK'
  <2>1. LineTypes'
    BY DEF TypeOK, LineTypes
  <2>2. NameTypes'
    <3>1. number \in Int
      BY DEF TypeOK, LineTypes, Numbers
    <3>2. low' \in Bytes
      BY <3>1, BytesOfNumber
    <3> QED
      BY <3>2 DEF TypeOK, NameTypes
  <2>3. whole' \in BOOLEAN
    BY DEF TypeOK
  <2> QED
    BY <2>1, <2>2, <2>3 DEF TypeOK
<1>2. LineIsBuffer' /\ NumberOfLine'
  BY DEF LineIsBuffer, NumberOfLine
<1>3. EepromWritten'
  <2>1. low' = confirmed' % 256
    BY DEF EepromWritten
  <2>2. high' = was' \div 256
    <3>1. low \in Bytes /\ high \in Bytes
      BY DEF TypeOK, NameTypes
    <3>2. node_address_read(low, high) = was
      BY DEF EepromWritten
    <3> QED
      BY <3>1, <3>2, NumberOfBytes
  <2>3. number' = confirmed' /\ ~whole'
    BY DEF EepromWritten
  <2> QED
    BY <2>1, <2>2, <2>3 DEF EepromWritten
<1> QED
  BY <1>1, <1>2, <1>3

LEMMA WriteHighStep == BurnInv /\ WriteHigh => BurnInv'
<1> SUFFICES ASSUME BurnInv, WriteHigh PROVE BurnInv'
  OBVIOUS
<1> USE DEF BurnInv, WriteHigh
<1>1. TypeOK'
  <2>1. LineTypes'
    BY DEF TypeOK, LineTypes
  <2>2. NameTypes'
    <3>1. number \in Int
      BY DEF TypeOK, LineTypes, Numbers
    <3>2. high' \in Bytes
      BY <3>1, BytesOfNumber
    <3> QED
      BY <3>2 DEF TypeOK, NameTypes
  <2>3. whole' \in BOOLEAN
    OBVIOUS
  <2> QED
    BY <2>1, <2>2, <2>3 DEF TypeOK
<1>2. LineIsBuffer' /\ NumberOfLine'
  BY DEF LineIsBuffer, NumberOfLine
<1>3. EepromWritten'
  <2>1. low = number % 256 /\ number = confirmed
    BY DEF EepromWritten
  <2>2. number \in Int
    BY DEF TypeOK, LineTypes, Numbers
  <2>3. node_address_read(low', high') = confirmed' % 65536
    BY <2>1, <2>2, BytesOfNumber DEF node_address_read
  <2> QED
    BY <2>3 DEF EepromWritten
<1> QED
  BY <1>1, <1>2, <1>3

LEMMA StepInv == BurnInv /\ [Next]_vars => BurnInv'
<1> SUFFICES ASSUME BurnInv, [Next]_vars PROVE BurnInv'
  OBVIOUS
<1>1. CASE PowerOff \/ StartSketch \/ BootFirmware
  BY <1>1, PowerOffStep, StartSketchStep, BootStep
<1>2. CASE Sketch
  BY <1>2, SkipStaleStep, ReadByteStep, CancelStep, ConfirmStep, WriteLowStep,
     WriteHighStep DEF Sketch
<1>3. CASE UNCHANGED vars
  <2> USE <1>3 DEF vars, eeprom, history, BurnInv
  <2>1. LineTypes' /\ NameTypes'
    BY DEF TypeOK, LineTypes, NameTypes
  <2>2. whole' \in BOOLEAN
    BY DEF TypeOK
  <2>3. LineIsBuffer' /\ NumberOfLine'
    BY DEF LineIsBuffer, NumberOfLine
  <2>4. EepromWritten'
    BY DEF EepromWritten
  <2> QED
    BY <2>1, <2>2, <2>3, <2>4 DEF TypeOK
<1> QED
  BY <1>1, <1>2, <1>3 DEF Next

-----------------------------------------------------------------------------
(* The theorems.                                                           *)

\* The inductive invariant: the line is what the buffer holds (burn_node_id.ino:29), and the
\* EEPROM what each of the two writes leaves in it (:77).
THEOREM BurnInvariant == Spec => []BurnInv
  BY InitInv, StepInv, PTL DEF Spec

\* Everything keeps its type: the index of the line buffer stays within the four
\* bytes and the one behind them, what is written is bytes.
THEOREM Types == Spec => []TypeOK
<1>1. BurnInv => TypeOK
  BY DEF BurnInv
<1> QED
  BY <1>1, BurnInvariant, PTL

\* Whatever the operator typed and wherever power failed before: a number that
\* was written completely is the one the node names itself by.
THEOREM Named == Spec => []NodeNamedAsConfirmed
<1>1. BurnInv => NodeNamedAsConfirmed
  BY DEF BurnInv, EepromWritten, NodeNamedAsConfirmed
<1> QED
  BY <1>1, BurnInvariant, PTL

\* A torn write leaves the old name, or the new low byte under the old high one.
THEOREM Torn == Spec => []TornOneWay
<1>1. BurnInv => TornOneWay
  <2> SUFFICES ASSUME BurnInv, pc = "node", ~whole
               PROVE  node_address \in {was, 256 * (was \div 256) + (confirmed % 256)}
    BY DEF TornOneWay
  <2>1. node_address = node_address_read(low, high)
    BY DEF BurnInv, EepromWritten
  <2>2. CASE node_address_read(low, high) = was
    BY <2>1, <2>2
  <2>3. CASE low = confirmed % 256 /\ high = was \div 256
    BY <2>1, <2>3 DEF node_address_read
  <2> QED
    BY <2>2, <2>3 DEF BurnInv, EepromWritten
<1> QED
  BY <1>1, BurnInvariant, PTL

\* The number shown for confirmation is the number on the line, for lines of every
\* length and kind the buffer takes.
THEOREM Shown == Spec => []NumberOfLine
<1>1. BurnInv => NumberOfLine
  BY DEF BurnInv
<1> QED
  BY <1>1, BurnInvariant, PTL
=============================================================================
