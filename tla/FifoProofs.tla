----------------------------- MODULE FifoProofs ------------------------------
(***************************************************************************)
(* The FIFO of Fifo.tla is right for every size and every set of bytes:    *)
(* FifoInv is inductive as it stands, and from it every step of the two    *)
(* threads is a step of the channel or leaves it alone.                    *)
(***************************************************************************)
EXTENDS Fifo, SequenceTheorems, TLAPS

-----------------------------------------------------------------------------
(* Cursors are numbers of bytes modulo the size.                           *)

LEMMA Division ==
    ASSUME NEW x \in Nat, NEW n \in Nat \ {0}
    PROVE  x \div n \in Nat /\ x % n \in 0 .. n - 1 /\ x = n * (x \div n) + (x % n)
<1>1. x \div n \in Nat /\ x % n \in 0 .. n - 1
  OBVIOUS
<1>2. x = n * (x \div n) + (x % n)
  BY <1>1, Z3
<1> QED
  BY <1>1, <1>2

LEMMA Remainder ==
    ASSUME NEW n \in Nat \ {0}, NEW q \in Int, NEW r \in 0 .. n - 1
    PROVE  (n * q + r) % n = r
  OBVIOUS

\* A cursor moves with the number it stands for.
LEMMA CursorMoves ==
    ASSUME NEW x \in Nat, NEW n \in Nat \ {0}
    PROVE  ((x % n) + 1) % n = (x + 1) % n
<1> DEFINE q == x \div n
           r == x % n
<1>1. q \in Nat /\ r \in 0 .. n - 1 /\ x = n * q + r
  BY Division
<1> HIDE DEF q, r
<1>2. CASE r < n - 1
  <2>1. r + 1 \in 0 .. n - 1 /\ 0 \in Int /\ x + 1 = n * q + (r + 1)
    BY <1>1, <1>2
  <2>2. (n * q + (r + 1)) % n = r + 1 /\ (n * 0 + (r + 1)) % n = r + 1
    BY <1>1, <2>1, Remainder
  <2> QED
    BY <1>1, <2>1, <2>2 DEF r
<1>3. CASE r = n - 1
  <2>1. q + 1 \in Int /\ 0 \in 0 .. n - 1 /\ x + 1 = n * (q + 1) + 0
    BY <1>1, <1>3, Z3
  <2>2. (n * (q + 1) + 0) % n = 0 /\ (n * 1 + 0) % n = 0
    BY <2>1, Remainder
  <2>3. r + 1 = n * 1 + 0
    BY <1>3
  <2> QED
    BY <2>1, <2>2, <2>3 DEF r
<1> QED
  BY <1>1, <1>2, <1>3

\* After a whole turn it is where it was.
LEMMA CursorTurns ==
    ASSUME NEW x \in Nat, NEW n \in Nat \ {0}
    PROVE  (x + n) % n = x % n
<1> DEFINE q == x \div n
           r == x % n
<1>1. q \in Nat /\ r \in 0 .. n - 1 /\ x = n * q + r
  BY Division
<1> HIDE DEF q, r
<1>2. q + 1 \in Int /\ x + n = n * (q + 1) + r
  BY <1>1, Z3
<1>3. (n * (q + 1) + r) % n = r
  BY <1>1, <1>2, Remainder
<1> QED
  BY <1>2, <1>3 DEF r

\* Numbers less than a turn apart have cursors apart.
LEMMA CursorTells ==
    ASSUME NEW n \in Nat \ {0}, NEW x \in Nat, NEW y \in Nat,
           x <= y, y - x < n, x % n = y % n
    PROVE  x = y
<1> DEFINE p == x \div n
           q == y \div n
           r == x % n
<1>1. p \in Nat /\ q \in Nat /\ r \in 0 .. n - 1 /\ x = n * p + r /\ y = n * q + r
  BY Division
<1> HIDE DEF p, q, r
<1>2. n * (q - p) = y - x /\ q - p \in Int
  BY <1>1, Z3
<1>3. q - p = 0
  BY <1>1, <1>2, Z3
<1> QED
  BY <1>2, <1>3

-----------------------------------------------------------------------------
(* The inductive invariant.                                                *)

LEMMA FifoInit == Init => FifoInv
<1> SUFFICES ASSUME Init PROVE FifoInv
  OBVIOUS
<1> USE SizeAssumption, BytesAssumption DEF Init
<1>1. 0 \in 0 .. Size - 1 /\ 0 % Size = 0
  OBVIOUS
<1>2. <<>> \in Seq(Bytes) /\ Len(<<>>) = 0
  OBVIOUS
<1>3. TypeOK
  BY <1>1, <1>2 DEF TypeOK
<1>4. Cursors
  BY <1>1, <1>2 DEF Cursors
<1>5. SlotsHold
  BY <1>2 DEF SlotsHold
<1>6. InFlight
  BY DEF InFlight
<1> QED
  BY <1>3, <1>4, <1>5, <1>6 DEF FifoInv

LEMMA FifoTypes == FifoInv /\ [Next]_vars => TypeOK'
<1> SUFFICES ASSUME FifoInv, [Next]_vars PROVE TypeOK'
  OBVIOUS
<1> USE SizeAssumption DEF FifoInv, TypeOK
<1>1. /\ After(write) \in 0 .. Size - 1 /\ After(read) \in 0 .. Size - 1
  BY DEF After
<1>2. CASE BeginWrite
  BY <1>2 DEF BeginWrite, Tries, shared
<1>3. CASE Store
  BY <1>3 DEF Store
<1>4. CASE Publish
  BY <1>1, <1>4, AppendProperties DEF Publish
<1>5. CASE BeginRead
  BY <1>5 DEF BeginRead, shared
<1>6. CASE Load
  BY <1>6 DEF Load, shared
<1>7. CASE Release
  BY <1>1, <1>7, AppendProperties DEF Release
<1>8. CASE UNCHANGED vars
  BY <1>8 DEF vars, shared
<1> QED
  BY <1>2, <1>3, <1>4, <1>5, <1>6, <1>7, <1>8 DEF Next, Writer, Reader

\* The numbers behind the cursors, for the steps below.
LEMMA Numbers ==
    ASSUME FifoInv
    PROVE  /\ Len(given) \in Nat /\ Len(taken) \in Nat
           /\ After(write) = (Len(given) + 1) % Size
           /\ After(read) = (Len(taken) + 1) % Size
<1>1. Len(given) \in Nat /\ Len(taken) \in Nat
  BY DEF FifoInv, TypeOK
<1>2. write = Len(given) % Size /\ read = Len(taken) % Size
  BY DEF FifoInv, Cursors
<1> QED
  BY <1>1, <1>2, CursorMoves, SizeAssumption DEF After

\* If the writer finds room there is room, whatever the reader does meanwhile.
LEMMA RoomFound ==
    ASSUME FifoInv, read # After(write)
    PROVE  Len(given) - Len(taken) < Size - 1
<1> USE SizeAssumption
<1>1. Len(given) \in Nat /\ Len(taken) \in Nat /\ read = Len(taken) % Size
  BY Numbers DEF FifoInv, Cursors
<1>2. SUFFICES ASSUME Len(given) - Len(taken) = Size - 1 PROVE FALSE
  BY <1>1 DEF FifoInv, Cursors
<1>3. Len(given) + 1 = Len(taken) + Size
  BY <1>1, <1>2
<1>4. After(write) = (Len(taken) + Size) % Size
  BY <1>3, Numbers
<1>5. (Len(taken) + Size) % Size = Len(taken) % Size
  BY <1>1, CursorTurns
<1> QED
  BY <1>1, <1>4, <1>5

LEMMA FifoStep == FifoInv /\ [Next]_vars => FifoInv'
<1> SUFFICES ASSUME FifoInv, [Next]_vars PROVE FifoInv'
  OBVIOUS
<1>0. TypeOK'
  BY FifoTypes
<1>a. TypeOK /\ Cursors /\ SlotsHold /\ InFlight
  BY DEF FifoInv
<1>b. Len(given) \in Nat /\ Len(taken) \in Nat
  BY Numbers
<1>1. CASE BeginWrite
  <2>1. UNCHANGED <<buffer, read, write, reading, res, given, taken>>
    BY <1>1 DEF BeginWrite, shared
  <2>2. Cursors' /\ SlotsHold'
    BY <1>a, <2>1 DEF Cursors, SlotsHold
  <2>3. writing' # "idle" => Len(given) - Len(taken) < Size - 1
    BY <1>1, RoomFound DEF BeginWrite
  <2>4. writing' # "publish"
    BY <1>1 DEF BeginWrite
  <2>5. InFlight'
    BY <1>a, <2>1, <2>3, <2>4 DEF InFlight
  <2> QED
    BY <1>0, <2>2, <2>5 DEF FifoInv
<1>2. CASE Store
  <2>1. /\ UNCHANGED <<read, write, reading, b, res, given, taken>>
        /\ writing = "store" /\ writing' = "publish"
        /\ buffer' = [buffer EXCEPT ![write] = b]
    BY <1>2 DEF Store
  <2>2. Cursors'
    BY <1>a, <2>1 DEF Cursors
  <2>3. SlotsHold'
    <3> SUFFICES ASSUME NEW k \in Len(taken) + 1 .. Len(given)
                 PROVE  buffer'[(k - 1) % Size] = given[k]
      BY <2>1 DEF SlotsHold
    <3>1. /\ k - 1 \in Nat /\ k - 1 <= Len(given) /\ k - 1 # Len(given)
          /\ Len(given) - (k - 1) < Size
      BY <1>a, <1>b, SizeAssumption DEF Cursors
    <3>2. ASSUME (k - 1) % Size = Len(given) % Size PROVE FALSE
      <4> DEFINE x == k - 1
      <4>1. x \in Nat /\ x <= Len(given) /\ Len(given) - x < Size
        BY <3>1
      <4>2. x % Size = Len(given) % Size
        BY <3>2
      <4> HIDE DEF x
      <4>3. x = Len(given)
        BY <1>b, <4>1, <4>2, CursorTells, SizeAssumption
      <4> QED
        BY <3>1, <4>3 DEF x
    <3>3. (k - 1) % Size \in 0 .. Size - 1 /\ (k - 1) % Size # write
      BY <1>a, <3>1, <3>2, SizeAssumption DEF Cursors
    <3>4. buffer'[(k - 1) % Size] = buffer[(k - 1) % Size]
      BY <1>a, <2>1, <3>3 DEF TypeOK
    <3> QED
      BY <1>a, <3>4 DEF SlotsHold
  <2>4. buffer'[write] = b
    BY <1>a, <2>1 DEF TypeOK
  <2>5. InFlight'
    BY <1>a, <2>1, <2>4 DEF InFlight
  <2> QED
    BY <1>0, <2>2, <2>3, <2>5 DEF FifoInv
<1>3. CASE Publish
  <2>1. /\ UNCHANGED <<buffer, read, reading, b, res, taken>>
        /\ writing = "publish" /\ writing' = "idle"
        /\ write' = After(write) /\ given' = Append(given, b)
    BY <1>3 DEF Publish
  <2>2. /\ Len(given') = Len(given) + 1
        /\ given'[Len(given) + 1] = b
        /\ \A k \in 1 .. Len(given): given'[k] = given[k]
    BY <1>a, <2>1, AppendProperties DEF TypeOK
  <2>3. Len(given) - Len(taken) < Size - 1 /\ buffer[write] = b
    BY <1>a, <2>1 DEF InFlight
  <2>4. Cursors'
    BY <1>a, <1>b, <2>1, <2>2, <2>3, Numbers, SizeAssumption DEF Cursors
  <2>5. SlotsHold'
    <3> SUFFICES ASSUME NEW k \in Len(taken) + 1 .. Len(given) + 1
                 PROVE  buffer[(k - 1) % Size] = given'[k]
      BY <2>1, <2>2 DEF SlotsHold
    <3>1. CASE k = Len(given) + 1
      <4>1. (k - 1) % Size = write
        BY <1>a, <1>b, <3>1 DEF Cursors
      <4> QED
        BY <2>2, <2>3, <3>1, <4>1
    <3>2. CASE k # Len(given) + 1
      <4>1. k \in Len(taken) + 1 .. Len(given) /\ k \in 1 .. Len(given)
        BY <1>b, <3>2
      <4> QED
        BY <1>a, <2>2, <4>1 DEF SlotsHold
    <3> QED
      BY <3>1, <3>2
  <2>6. ASSUME reading # "idle"
        PROVE  given'[Len(taken) + 1] = given[Len(taken) + 1]
    <3>1. Len(taken) < Len(given)
      BY <1>a, <2>6 DEF InFlight
    <3>2. Len(taken) + 1 \in 1 .. Len(given)
      BY <1>b, <3>1
    <3> QED
      BY <2>2, <3>2
  <2>7. InFlight'
    BY <1>a, <1>b, <2>1, <2>2, <2>6 DEF InFlight
  <2> QED
    BY <1>0, <2>4, <2>5, <2>7 DEF FifoInv
<1>4. CASE BeginRead
  <2>1. /\ UNCHANGED <<buffer, read, write, writing, b, res, given, taken>>
        /\ read # write /\ reading' = "load"
    BY <1>4 DEF BeginRead, shared
  <2>2. Cursors' /\ SlotsHold'
    BY <1>a, <2>1 DEF Cursors, SlotsHold
  <2>3. Len(taken) < Len(given)
    BY <1>a, <1>b, <2>1 DEF Cursors
  <2>4. InFlight'
    BY <1>a, <2>1, <2>3 DEF InFlight
  <2> QED
    BY <1>0, <2>2, <2>4 DEF FifoInv
<1>5. CASE Load
  <2>1. /\ UNCHANGED <<buffer, read, write, writing, b, given, taken>>
        /\ reading = "load" /\ reading' = "release"
        /\ res' = buffer[read]
    BY <1>5 DEF Load, shared
  <2>2. Cursors' /\ SlotsHold'
    BY <1>a, <2>1 DEF Cursors, SlotsHold
  <2>3. Len(taken) < Len(given)
    BY <1>a, <2>1 DEF InFlight
  <2>4. res' = given[Len(taken) + 1]
    <3> DEFINE k == Len(taken) + 1
    <3>1. k \in Len(taken) + 1 .. Len(given) /\ k - 1 = Len(taken)
      BY <1>b, <2>3
    <3>2. buffer[(k - 1) % Size] = given[k]
      BY <1>a, <3>1 DEF SlotsHold
    <3>3. (k - 1) % Size = read
      BY <1>a, <3>1 DEF Cursors
    <3> QED
      BY <2>1, <3>2, <3>3
  <2>5. InFlight'
    BY <1>a, <2>1, <2>3, <2>4 DEF InFlight
  <2> QED
    BY <1>0, <2>2, <2>5 DEF FifoInv
<1>6. CASE Release
  <2>1. /\ UNCHANGED <<buffer, write, writing, b, res, given>>
        /\ reading = "release" /\ reading' = "idle"
        /\ read' = After(read) /\ taken' = Append(taken, res)
    BY <1>6 DEF Release
  <2>2. Len(taken') = Len(taken) + 1
    BY <1>a, <2>1, AppendProperties DEF TypeOK
  <2>3. Len(taken) < Len(given)
    BY <1>a, <2>1 DEF InFlight
  <2>4. Cursors'
    BY <1>a, <1>b, <2>1, <2>2, <2>3, Numbers, SizeAssumption DEF Cursors
  <2>5. SlotsHold'
    BY <1>a, <1>b, <2>1, <2>2 DEF SlotsHold
  <2>6. InFlight'
    BY <1>a, <1>b, <2>1, <2>2, SizeAssumption DEF InFlight
  <2> QED
    BY <1>0, <2>4, <2>5, <2>6 DEF FifoInv
<1>7. CASE UNCHANGED vars
  BY <1>0, <1>a, <1>7 DEF vars, shared, FifoInv, Cursors, SlotsHold, InFlight
<1> QED
  BY <1>1, <1>2, <1>3, <1>4, <1>5, <1>6, <1>7 DEF Next, Writer, Reader

\* No interleaving of a write and a read, each a few loads and stores, loses,
\* repeats or changes a byte of the FIFO, for any size and any number of turns.
THEOREM FifoCorrect == Spec => []FifoInv
  BY FifoInit, FifoStep, PTL DEF Spec

-----------------------------------------------------------------------------
(* Refinement.                                                             *)

LEMMA ChannelInit == Init => Channel!Init
  BY DEF Init, Channel!Init

LEMMA ChannelStep == FifoInv /\ [Next]_vars => [Channel!Next]_Channel!vars
<1> SUFFICES ASSUME FifoInv, [Next]_vars PROVE [Channel!Next]_Channel!vars
  OBVIOUS
<1>a. TypeOK /\ InFlight
  BY DEF FifoInv
<1>b. Len(given) \in Nat /\ Len(taken) \in Nat
  BY Numbers
<1>1. CASE Publish
  <2>1. Len(given) - Len(taken) < Size - 1 /\ b \in Bytes
    BY <1>a, <1>1 DEF Publish, InFlight, TypeOK
  <2>2. given' = Append(given, b) /\ UNCHANGED taken
    BY <1>1 DEF Publish
  <2> QED
    BY <2>1, <2>2 DEF Channel!Next, Channel!Put
<1>2. CASE Release
  <2>1. Len(taken) < Len(given) /\ res = given[Len(taken) + 1]
    BY <1>a, <1>2 DEF Release, InFlight
  <2>2. taken' = Append(taken, res) /\ UNCHANGED given
    BY <1>2 DEF Release
  <2> QED
    BY <2>1, <2>2 DEF Channel!Next, Channel!Take
<1>3. CASE BeginWrite \/ Store \/ BeginRead \/ Load \/ UNCHANGED vars
  BY <1>3 DEF BeginWrite, Store, BeginRead, Load, vars, Channel!vars
<1> QED
  BY <1>1, <1>2, <1>3 DEF Next, Writer, Reader

\* The lock-free FIFO implements the channel: what is read is what was written, in
\* order and once each, and one slot of the buffer is never used.
THEOREM FifoImplementsChannel == Spec => Channel!Spec
  BY FifoCorrect, ChannelInit, ChannelStep, PTL DEF Spec, Channel!Spec
=============================================================================
