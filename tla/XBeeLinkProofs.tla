---------------------------- MODULE XBeeLinkProofs ----------------------------
(***************************************************************************)
(* Theorems about the XBee library, for whatever packets are sent, however *)
(* many, and however far the receiver falls behind.                        *)
(*                                                                         *)
(* What is on its way between the two (the second half of an escape        *)
(* sequence that is due, the line, and what the sender has left) is what   *)
(* goes out for the packets that are not over yet, one behind the other,   *)
(* from the byte on that the receiver has read to: At.  At most one packet *)
(* is damaged, and what is left of it cannot be taken for a packet: Spoilt.*)
(* The order below is that of the argument: counting and octets, encoding, *)
(* types, packets that can be read, the invariant, the steps of the sender *)
(* and of the receiver, a packet that loses a byte, the fault, theorems.   *)
(***************************************************************************)
EXTENDS XBeeLink, SequenceTheorems, WellFoundedInduction, TLAPS

-----------------------------------------------------------------------------
(* Counting.                                                               *)

\* Natural numbers, one by one.
LEMMA Induction ==
    ASSUME NEW S \in SUBSET Nat, 0 \in S, \A n \in S: n + 1 \in S
    PROVE  S = Nat
<1> SUFFICES ASSUME Nat \ S # {} PROVE FALSE
  OBVIOUS
<1>1. PICK least \in Nat \ S: \A n \in Nat \ S: ~(<<n, least>> \in OpToRel(<, Nat))
  BY NatLessThanWellFounded, WFMin, Nat \ S \subseteq Nat
<1>2. \A n \in Nat \ S: ~(n < least)
  <2> TAKE n \in Nat \ S
  <2>1. n < least => <<n, least>> \in OpToRel(<, Nat)
    BY DEF OpToRel
  <2> QED
    BY <1>1, <2>1
<1>3. least # 0 /\ least - 1 \in Nat
  OBVIOUS
<1>4. least - 1 \in S
  BY <1>2, <1>3
<1>5. (least - 1) + 1 \in S
  BY <1>4
<1> QED
  BY <1>3, <1>5

\* The results of the steps 1 .. n, taken one after the other from a start.
Results(f, X, n, start, step) ==
    /\ f \in [0 .. n -> X] /\ f[0] = start
    /\ \A k \in 1 .. n: f[k] = step[k][f[k - 1]]

\* Steps can be taken one after the other.
LEMMA Recursion ==
    ASSUME NEW X, NEW n \in Nat, NEW start \in X,
           NEW step \in [1 .. n -> [X -> X]]
    PROVE  \E f: Results(f, X, n, start, step)
<1> DEFINE Goes(m, f) ==
        f[0] = start /\ (\A k \in 1 .. m: k <= n => f[k] = step[k][f[k - 1]])
           S == {m \in Nat: \E f \in [0 .. m -> X]: Goes(m, f)}
<1>1. 0 \in S
  <2>1. [i \in 0 .. 0 |-> start] \in [0 .. 0 -> X]
    OBVIOUS
  <2>2. Goes(0, [i \in 0 .. 0 |-> start])
    OBVIOUS
  <2> QED
    BY <2>1, <2>2
<1>2. ASSUME NEW m \in S PROVE m + 1 \in S
  <2>1. PICK f \in [0 .. m -> X]: Goes(m, f)
    BY <1>2
  <2>2. m \in Nat
    BY <1>2
  <2> DEFINE last == IF m + 1 <= n THEN step[m + 1][f[m]] ELSE start
             g == [i \in 0 .. m + 1 |-> IF i <= m THEN f[i] ELSE last]
  <2>3. f[m] \in X
    BY <2>2
  <2>4. last \in X
    <3>1. CASE m + 1 <= n
      <4>1. step[m + 1] \in [X -> X]
        BY <3>1, <2>2, <2>3
      <4> QED
        BY <3>1, <4>1
    <3> QED
      BY <3>1
  <2>5. g \in [0 .. m + 1 -> X]
    BY <2>2, <2>4
  <2>6. g[0] = start
    BY <2>1, <2>2
  <2>7. ASSUME NEW k \in 1 .. m + 1, k <= n PROVE g[k] = step[k][g[k - 1]]
    <3>1. CASE k <= m
      <4>1. g[k] = f[k] /\ g[k - 1] = f[k - 1] /\ k \in 1 .. m
        BY <3>1, <2>2
      <4> QED
        BY <4>1, <2>1, <2>7
    <3>2. CASE k = m + 1
      <4>1. g[k] = last /\ g[k - 1] = f[m]
        BY <3>2, <2>2
      <4> QED
        BY <4>1, <3>2, <2>7
    <3> QED
      BY <3>1, <3>2, <2>2
  <2>8. Goes(m + 1, g)
    BY <2>6, <2>7
  <2> HIDE DEF Goes, g
  <2> QED
    BY <2>2, <2>5, <2>8
<1> HIDE DEF Goes
<1>3. S = Nat
  <2> HIDE DEF S
  <2>1. S \in SUBSET Nat
    BY DEF S
  <2> QED
    BY <1>1, <1>2, <2>1, Induction
<1>4. PICK f \in [0 .. n -> X]: Goes(n, f)
  BY <1>3
<1> QED
  BY <1>4 DEF Goes, Results

\* A function whose values are what the steps make of the values before them,
\* as long as those are as they should be, is the results.
Chained(h, X, n, start, step) ==
    /\ h = [k \in 0 .. n |-> h[k]] /\ h[0] = start
    /\ \A k \in 1 .. n: h[k - 1] \in X => h[k] = step[k][h[k - 1]]

LEMMA ChainedResults ==
    ASSUME NEW X, NEW n \in Nat, NEW start \in X,
           NEW step \in [1 .. n -> [X -> X]],
           NEW h, Chained(h, X, n, start, step)
    PROVE  Results(h, X, n, start, step)
<1> DEFINE Good == {k \in Nat: k <= n => h[k] \in X}
<1>1. 0 \in Good
  BY DEF Chained
<1>2. ASSUME NEW k \in Good PROVE k + 1 \in Good
  <2>1. CASE k + 1 <= n
    <3>1. h[k] \in X /\ k + 1 \in 1 .. n /\ (k + 1) - 1 = k
      BY <2>1, <1>2
    <3>2. h[k + 1] = step[k + 1][h[k]]
      BY <3>1 DEF Chained
    <3>3. step[k + 1] \in [X -> X]
      BY <3>1
    <3>4. h[k + 1] \in X
      BY <3>1, <3>2, <3>3
    <3> QED
      BY <3>4, <1>2
  <2> QED
    BY <2>1, <1>2
<1>3. Good = Nat
  <2> HIDE DEF Good
  <2>1. Good \in SUBSET Nat
    BY DEF Good
  <2> QED
    BY <1>1, <1>2, <2>1, Induction
<1>4. ASSUME NEW k \in 0 .. n PROVE h[k] \in X
  BY <1>3
<1>5. h \in [0 .. n -> X] /\ h[0] = start
  BY <1>4 DEF Chained
<1>6. ASSUME NEW k \in 1 .. n PROVE h[k] = step[k][h[k - 1]]
  <2>1. h[k - 1] \in X
    BY <1>4
  <2> QED
    BY <2>1 DEF Chained
<1> QED
  BY <1>5, <1>6 DEF Results

-----------------------------------------------------------------------------
(* Bytes and their escapes.                                                *)

Octets == 0 .. 255

Controls == {START_BYTE, ESCAPE, XON, XOFF}

\* The library's fact for sequences of octets.
LEMMA Together ==
    ASSUME NEW a \in Seq(Octets), NEW b \in Seq(Octets), NEW c \in Seq(Octets)
    PROVE  (a \o b) \o c = a \o (b \o c)
<1> QED
  BY ConcatAssociative

LEMMA XorOctets ==
    ASSUME NEW b \in Octets
    PROVE  Xor20(b) \in Octets
<1>1. b \div 32 \in 0 .. 7 /\ b = 32 * (b \div 32) + (b % 32) /\ b % 32 \in 0 .. 31
  BY Z3 DEF Octets
<1>2. CASE (b \div 32) % 2 = 1
  <2>1. b \div 32 # 0
    BY <1>2
  <2>2. b >= 32
    BY <1>1, <2>1
  <2> QED
    BY <1>2, <2>2 DEF Xor20, Octets
<1>3. CASE (b \div 32) % 2 # 1
  <2>1. b \div 32 # 7
    BY <1>3
  <2>2. b <= 223
    BY <1>1, <2>1
  <2> QED
    BY <1>3, <2>2 DEF Xor20, Octets
<1> QED
  BY <1>2, <1>3

\* The second half of an escape sequence gives the byte back, and is no control
\* byte itself.
LEMMA XorControls ==
    ASSUME NEW b \in Controls
    PROVE  /\ b \in Octets /\ Xor20(b) \in Octets /\ Xor20(Xor20(b)) = b
           /\ Xor20(b) \notin Controls
<1>1. /\ START_BYTE = 126 /\ ESCAPE = 125 /\ XON = 17 /\ XOFF = 19
      /\ Xor20(126) = 94 /\ Xor20(94) = 126 /\ Xor20(125) = 93 /\ Xor20(93) = 125
      /\ Xor20(17) = 49 /\ Xor20(49) = 17 /\ Xor20(19) = 51 /\ Xor20(51) = 19
  BY DEF START_BYTE, ESCAPE, XON, XOFF, Xor20
<1> QED
  BY <1>1 DEF Controls, Octets

\* What goes out for a byte: itself, or an escape sequence.
LEMMA SendByteCases ==
    ASSUME NEW b \in Octets
    PROVE  /\ b \in Controls => SendByte(b) = <<ESCAPE, Xor20(b)>>
           /\ b \notin Controls => SendByte(b) = <<b>>
           /\ SendByte(b) \in Seq(Octets) /\ SendByte(b) # <<>>
<1>1. /\ b \in Controls => SendByte(b) = <<ESCAPE, Xor20(b)>>
      /\ b \notin Controls => SendByte(b) = <<b>>
  BY DEF SendByte, Controls
<1>2. ESCAPE \in Octets /\ Xor20(b) \in Octets
  <2>1. ESCAPE \in Octets
    BY DEF ESCAPE, Octets
  <2> QED
    BY <2>1, XorOctets
<1>3. <<ESCAPE, Xor20(b)>> \in Seq(Octets) /\ <<b>> \in Seq(Octets)
  BY <1>2
<1>4. <<ESCAPE, Xor20(b)>> # <<>> /\ <<b>> # <<>>
  OBVIOUS
<1> QED
  BY <1>1, <1>3, <1>4, Zenon

-----------------------------------------------------------------------------
(* What the sender computes.                                               *)

EscapedStep(bytes) ==
    [n \in 1 .. Len(bytes) |-> [to \in Seq(Octets) |-> to \o SendByte(bytes[n])]]

\* Escaped is the function its definition says it is: there is such a function.
LEMMA EscapedResults ==
    ASSUME NEW bytes \in Seq(Octets)
    PROVE  /\ Escaped(bytes) \in [0 .. Len(bytes) -> Seq(Octets)]
           /\ Escaped(bytes)[0] = <<>>
           /\ \A n \in 1 .. Len(bytes):
                  Escaped(bytes)[n] = Escaped(bytes)[n - 1] \o SendByte(bytes[n])
<1> DEFINE N == Len(bytes)
           step == EscapedStep(bytes)
           Body(f) == [n \in 0 .. N |->
                           IF n = 0 THEN <<>> ELSE f[n - 1] \o SendByte(bytes[n])]
<1>1. N \in Nat /\ <<>> \in Seq(Octets)
  OBVIOUS
<1>2. ASSUME NEW n \in 1 .. N, NEW to \in Seq(Octets)
      PROVE  to \o SendByte(bytes[n]) \in Seq(Octets)
  <2>1. SendByte(bytes[n]) \in Seq(Octets)
    BY SendByteCases
  <2> QED
    BY <2>1, ConcatProperties
<1>3. step \in [1 .. N -> [Seq(Octets) -> Seq(Octets)]]
  BY <1>2 DEF EscapedStep
<1>4. PICK f: Results(f, Seq(Octets), N, <<>>, step)
  <2> HIDE DEF step, N
  <2> QED
    BY <1>1, <1>3, Recursion
<1>5. f = Body(f)
  <2>1. f \in [0 .. N -> Seq(Octets)] /\ f[0] = <<>>
    BY <1>4 DEF Results
  <2>2. ASSUME NEW n \in 1 .. N PROVE f[n] = f[n - 1] \o SendByte(bytes[n])
    <3>1. f[n - 1] \in Seq(Octets)
      <4>1. n - 1 \in 0 .. N
        BY <1>1
      <4> QED
        BY <2>1, <4>1
    <3>2. f[n] = step[n][f[n - 1]]
      BY <1>4 DEF Results
    <3>3. step[n] = [to \in Seq(Octets) |-> to \o SendByte(bytes[n])]
      BY DEF EscapedStep
    <3> QED
      BY <3>1, <3>2, <3>3
  <2>3. ASSUME NEW n \in 0 .. N PROVE f[n] = Body(f)[n]
    <3>1. n = 0 \/ n \in 1 .. N
      BY <1>1
    <3> QED
      BY <2>1, <2>2, <3>1
  <2> QED
    BY <2>1, <2>3
<1>6. Escaped(bytes) = Body(Escaped(bytes))
  <2>1. Escaped(bytes) = (CHOOSE to: to = Body(to))
    BY DEF Escaped
  <2> HIDE DEF Body
  <2> QED
    BY <1>5, <2>1
<1> DEFINE to == Escaped(bytes)
<1>7. Chained(to, Seq(Octets), N, <<>>, step)
  <2>1. to = Body(to)
    BY <1>6
  <2> HIDE DEF to
  <2>2. /\ to = [n \in 0 .. N |-> to[n]] /\ to[0] = <<>>
        /\ \A n \in 1 .. N: to[n] = to[n - 1] \o SendByte(bytes[n])
    BY <1>1, <2>1
  <2>3. ASSUME NEW n \in 1 .. N, NEW x \in Seq(Octets)
        PROVE  step[n][x] = x \o SendByte(bytes[n])
    BY DEF EscapedStep
  <2>4. ASSUME NEW n \in 1 .. N, to[n - 1] \in Seq(Octets)
        PROVE  to[n] = step[n][to[n - 1]]
    <3> HIDE DEF step, Body, N
    <3> QED
      BY <2>2, <2>3, <2>4
  <2> QED
    BY <2>2, <2>4 DEF Chained
<1>8. Results(to, Seq(Octets), N, <<>>, step)
  <2> HIDE DEF to, step, N
  <2> QED
    BY <1>1, <1>3, <1>7, ChainedResults
<1>9. ASSUME NEW n \in 1 .. N PROVE to[n] = to[n - 1] \o SendByte(bytes[n])
  <2>1. to = Body(to)
    BY <1>6
  <2> HIDE DEF to
  <2> QED
    BY <1>1, <2>1
<1> QED
  BY <1>8, <1>9 DEF Results

ChecksumStep(bytes) ==
    [n \in 1 .. Len(bytes) |-> [sum \in Octets |-> (sum + bytes[n]) % 256]]

\* And so is Checksums.
LEMMA ChecksumsResults ==
    ASSUME NEW bytes \in Seq(Octets)
    PROVE  /\ Checksums(bytes) \in [0 .. Len(bytes) -> Octets]
           /\ Checksums(bytes)[0] = 0
           /\ \A n \in 1 .. Len(bytes):
                  Checksums(bytes)[n] = (Checksums(bytes)[n - 1] + bytes[n]) % 256
<1> DEFINE N == Len(bytes)
           step == ChecksumStep(bytes)
           Body(f) == [n \in 0 .. N |->
                           IF n = 0 THEN 0 ELSE (f[n - 1] + bytes[n]) % 256]
<1>1. N \in Nat /\ 0 \in Octets
  BY DEF Octets
<1>2. ASSUME NEW n \in 1 .. N, NEW sum \in Octets
      PROVE  (sum + bytes[n]) % 256 \in Octets
  <2>1. bytes[n] \in Octets
    OBVIOUS
  <2>2. ASSUME NEW x \in Nat PROVE x % 256 \in 0 .. 255
    OBVIOUS
  <2>3. sum + bytes[n] \in Nat
    <3>1. \A x \in Octets: x \in Nat
      BY DEF Octets
    <3>2. bytes[n] \in Nat /\ sum \in Nat
      BY <2>1, <3>1
    <3> QED
      BY <3>2
  <2> QED
    BY <2>2, <2>3 DEF Octets
<1>3. step \in [1 .. N -> [Octets -> Octets]]
  BY <1>2 DEF ChecksumStep
<1>4. PICK f: Results(f, Octets, N, 0, step)
  <2> HIDE DEF step, N
  <2> QED
    BY <1>1, <1>3, Recursion
<1>5. f = Body(f)
  <2>1. f \in [0 .. N -> Octets] /\ f[0] = 0
    BY <1>4 DEF Results
  <2>2. ASSUME NEW n \in 1 .. N PROVE f[n] = (f[n - 1] + bytes[n]) % 256
    <3>1. f[n - 1] \in Octets
      <4>1. n - 1 \in 0 .. N
        BY <1>1
      <4> QED
        BY <2>1, <4>1
    <3>2. f[n] = step[n][f[n - 1]]
      BY <1>4 DEF Results
    <3>3. step[n] = [sum \in Octets |-> (sum + bytes[n]) % 256]
      BY DEF ChecksumStep
    <3> QED
      BY <3>1, <3>2, <3>3
  <2>3. ASSUME NEW n \in 0 .. N PROVE f[n] = Body(f)[n]
    <3>1. n = 0 \/ n \in 1 .. N
      BY <1>1
    <3> QED
      BY <2>1, <2>2, <3>1
  <2> QED
    BY <2>1, <2>3
<1>6. Checksums(bytes) = Body(Checksums(bytes))
  <2>1. Checksums(bytes) = (CHOOSE sum: sum = Body(sum))
    BY DEF Checksums
  <2> HIDE DEF Body
  <2> QED
    BY <1>5, <2>1
<1> DEFINE sum == Checksums(bytes)
<1>7. Chained(sum, Octets, N, 0, step)
  <2>1. sum = Body(sum)
    BY <1>6
  <2> HIDE DEF sum
  <2>2. /\ sum = [n \in 0 .. N |-> sum[n]] /\ sum[0] = 0
        /\ \A n \in 1 .. N: sum[n] = (sum[n - 1] + bytes[n]) % 256
    BY <1>1, <2>1
  <2>3. ASSUME NEW n \in 1 .. N, NEW x \in Octets
        PROVE  step[n][x] = (x + bytes[n]) % 256
    BY DEF ChecksumStep
  <2>4. ASSUME NEW n \in 1 .. N, sum[n - 1] \in Octets
        PROVE  sum[n] = step[n][sum[n - 1]]
    <3> DEFINE x == sum[n - 1]
    <3>1. x \in Octets
      BY <2>4
    <3>2. sum[n] = (x + bytes[n]) % 256
      BY <2>2
    <3> HIDE DEF step, Body, N, x
    <3>3. step[n][x] = (x + bytes[n]) % 256
      BY <2>3, <3>1
    <3> QED
      BY <3>2, <3>3 DEF x
  <2> QED
    BY <2>2, <2>4 DEF Chained
<1>8. Results(sum, Octets, N, 0, step)
  <2> HIDE DEF sum, step, N
  <2> QED
    BY <1>1, <1>3, <1>7, ChainedResults
<1>9. ASSUME NEW n \in 1 .. N PROVE sum[n] = (sum[n - 1] + bytes[n]) % 256
  <2>1. sum = Body(sum)
    BY <1>6
  <2> HIDE DEF sum
  <2> QED
    BY <1>1, <2>1
<1> QED
  BY <1>8, <1>9 DEF Results

\* What is left of an escaped sequence after each byte.
Encodes(rest, bytes) ==
    /\ rest \in [0 .. Len(bytes) -> Seq(Octets)]
    /\ rest[Len(bytes)] = <<>>
    /\ \A n \in 1 .. Len(bytes): rest[n - 1] = SendByte(bytes[n]) \o rest[n]

LEMMA EscapedRests ==
    ASSUME NEW bytes \in Seq(Octets)
    PROVE  \E rest: Encodes(rest, bytes) /\ rest[0] = Escaped(bytes)[Len(bytes)]
<1> DEFINE N == Len(bytes)
           step == [m \in 1 .. N |->
                        [r \in Seq(Octets) |-> SendByte(bytes[N - m + 1]) \o r]]
           to == Escaped(bytes)
<1>1. N \in Nat /\ <<>> \in Seq(Octets)
  OBVIOUS
<1>2. ASSUME NEW n \in 1 .. N
      PROVE  SendByte(bytes[n]) \in Seq(Octets)
  BY SendByteCases
<1>3. step \in [1 .. N -> [Seq(Octets) -> Seq(Octets)]]
  <2>1. ASSUME NEW m \in 1 .. N, NEW r \in Seq(Octets)
        PROVE  SendByte(bytes[N - m + 1]) \o r \in Seq(Octets)
    <3>1. N - m + 1 \in 1 .. N
      BY <1>1
    <3> QED
      BY <1>2, <3>1, ConcatProperties
  <2> QED
    BY <2>1
<1>4. PICK f: Results(f, Seq(Octets), N, <<>>, step)
  <2> HIDE DEF step, N
  <2> QED
    BY <1>1, <1>3, Recursion
<1> DEFINE rest == [n \in 0 .. N |-> f[N - n]]
<1>5. f \in [0 .. N -> Seq(Octets)] /\ f[0] = <<>>
  BY <1>4 DEF Results
<1>6. rest \in [0 .. N -> Seq(Octets)] /\ rest[N] = <<>>
  <2>1. \A n \in 0 .. N: N - n \in 0 .. N
    BY <1>1
  <2> QED
    BY <1>1, <1>5, <2>1
<1>7. ASSUME NEW n \in 1 .. N PROVE rest[n - 1] = SendByte(bytes[n]) \o rest[n]
  <2> DEFINE m == N - n + 1
  <2>1. m \in 1 .. N /\ m - 1 = N - n /\ N - m + 1 = n /\ N - (n - 1) = m
        /\ n - 1 \in 0 .. N /\ N - n \in 0 .. N
    BY <1>1
  <2>2. rest[n - 1] = f[m] /\ rest[n] = f[m - 1]
    BY <2>1
  <2>3. f[m - 1] \in Seq(Octets)
    BY <2>1, <1>5
  <2>4. f[m] = step[m][f[m - 1]]
    <3> HIDE DEF m, step
    <3> QED
      BY <2>1, <1>4 DEF Results
  <2>5. step[m][f[m - 1]] = SendByte(bytes[N - m + 1]) \o f[m - 1]
    <3> HIDE DEF m
    <3> QED
      BY <2>1, <2>3
  <2> QED
    BY <2>1, <2>2, <2>4, <2>5
<1>8. /\ to \in [0 .. N -> Seq(Octets)] /\ to[0] = <<>>
      /\ \A n \in 1 .. N: to[n] = to[n - 1] \o SendByte(bytes[n])
  BY EscapedResults
<1> HIDE DEF rest, to, step
<1> DEFINE Whole(n) == to[n] \o rest[n] = rest[0]
           Same == {n \in Nat: n <= N => Whole(n)}
<1>9. Same = Nat
  <2>1. 0 \in Same
    <3>1. rest[0] \in Seq(Octets)
      BY <1>1, <1>6
    <3>2. <<>> \o rest[0] = rest[0]
      BY <3>1, ConcatEmptySeq
    <3> QED
      BY <1>8, <3>2
  <2>2. ASSUME NEW n \in Same PROVE n + 1 \in Same
    <3>1. CASE n + 1 <= N
      <4>1. n \in 0 .. N /\ n + 1 \in 1 .. N /\ (n + 1) - 1 = n /\ n + 1 \in 0 .. N
        BY <3>1, <2>2
      <4>2. /\ to[n] \in Seq(Octets) /\ rest[n + 1] \in Seq(Octets)
            /\ SendByte(bytes[n + 1]) \in Seq(Octets)
        BY <4>1, <1>2, <1>6, <1>8
      <4>3. to[n + 1] = to[n] \o SendByte(bytes[n + 1])
        BY <4>1, <1>8
      <4>4. rest[n] = SendByte(bytes[n + 1]) \o rest[n + 1]
        BY <4>1, <1>7
      <4>5. (to[n] \o SendByte(bytes[n + 1])) \o rest[n + 1]
            = to[n] \o (SendByte(bytes[n + 1]) \o rest[n + 1])
        <5> DEFINE a == to[n]
                   b == SendByte(bytes[n + 1])
                   c == rest[n + 1]
        <5>1. a \in Seq(Octets) /\ b \in Seq(Octets) /\ c \in Seq(Octets)
          BY <4>2
        <5> HIDE DEF a, b, c
        <5>2. (a \o b) \o c = a \o (b \o c)
          BY <5>1, Together, Zenon
        <5> QED
          BY <5>2 DEF a, b, c
      <4>6. Whole(n)
        <5> HIDE DEF Whole
        <5> QED
          BY <4>1, <2>2
      <4>7. Whole(n + 1)
        BY <4>3, <4>4, <4>5, <4>6
      <4> HIDE DEF Whole
      <4> QED
        BY <4>7, <2>2
    <3> HIDE DEF Whole
    <3> QED
      BY <3>1, <2>2
  <2> HIDE DEF Same
  <2>3. Same \in SUBSET Nat
    BY DEF Same
  <2> QED
    BY <2>1, <2>2, <2>3, Induction
<1>10. to[N] \o <<>> = rest[0]
  <2>1. Whole(N)
    <3> HIDE DEF Whole
    <3> QED
      BY <1>1, <1>9
  <2> QED
    BY <1>6, <2>1
<1>11. to[N] = rest[0]
  <2>1. to[N] \in Seq(Octets)
    BY <1>1, <1>8
  <2> QED
    BY <1>10, <2>1, ConcatEmptySeq
<1>12. Encodes(rest, bytes)
  BY <1>6, <1>7 DEF Encodes
<1> QED
  BY <1>11, <1>12 DEF to

-----------------------------------------------------------------------------
(* A frame: its bytes, and what is left of it when n of them are gone.     *)

ContentLength(p) == Len(p) + 14

LEMMA ContentBytes ==
    ASSUME NEW p \in Payloads
    PROVE  /\ p \in Seq(Octets) /\ ContentLength(p) \in Nat /\ 14 <= ContentLength(p) /\ ContentLength(p) <= 104
           /\ Content(p) \in Seq(Octets) /\ Len(Content(p)) = ContentLength(p)
           /\ Response(p) \in Seq(Octets) /\ Len(Response(p)) = ContentLength(p) - 1
           /\ \A i \in 1 .. ContentLength(p) - 1: Response(p)[i] = Content(p)[i + 1]
<1> DEFINE address == <<0, 0, 0, 0, 0, 0, 0, 0, 255, 254, 0, 0>>
           data == FrameData(p)
<1>1. p \in Seq(Octets) /\ Len(p) <= 90 /\ Len(p) \in Nat
  BY LinkAssumption DEF Octets
<1>2. address \in Seq(Octets) /\ Len(address) = 12
  <2>1. 0 \in Octets /\ 254 \in Octets /\ 255 \in Octets
    BY DEF Octets
  <2> QED
    BY <2>1
<1>3. data = address \o p
  BY DEF FrameData
<1> HIDE DEF address
<1>4. data \in Seq(Octets) /\ Len(data) = Len(p) + 12
  <2>1. address \o p \in Seq(Octets) /\ Len(address \o p) = Len(address) + Len(p)
    BY <1>1, <1>2, ConcatProperties
  <2> QED
    BY <1>1, <1>2, <1>3, <2>1
<1> HIDE DEF data
<1>5. ZB_TX_REQUEST \in Octets /\ DEFAULT_FRAME_ID \in Octets
  BY DEF ZB_TX_REQUEST, DEFAULT_FRAME_ID, Octets
<1>6. Content(p) = <<ZB_TX_REQUEST, DEFAULT_FRAME_ID>> \o data
  BY DEF Content, data
<1>7. Response(p) = <<DEFAULT_FRAME_ID>> \o data
  BY DEF Response, data
<1>8. Content(p) \in Seq(Octets) /\ Len(Content(p)) = Len(data) + 2
  BY <1>4, <1>5, <1>6
<1>9. Response(p) \in Seq(Octets) /\ Len(Response(p)) = Len(data) + 1
  BY <1>4, <1>5, <1>7
<1>10. ASSUME NEW i \in 1 .. Len(data) + 1 PROVE Response(p)[i] = Content(p)[i + 1]
  BY <1>4, <1>5, <1>6, <1>7
<1>11. ContentLength(p) \in Nat /\ 14 <= ContentLength(p) /\ ContentLength(p) <= 104
  BY <1>1 DEF ContentLength
<1> QED
  BY <1>1, <1>4, <1>8, <1>9, <1>10, <1>11 DEF ContentLength

\* The bytes behind the start byte.
LEMMA UnescapedBytes ==
    ASSUME NEW p \in Payloads
    PROVE  LET L == ContentLength(p)
               u == Unescaped(p)
           IN  /\ u \in Seq(Octets) /\ Len(u) = L + 3
               /\ u[1] = 0 /\ u[2] = L
               /\ \A i \in 1 .. L: u[i + 2] = Content(p)[i]
               /\ u[L + 3] = 255 - Checksums(Content(p))[L]
<1> DEFINE L == ContentLength(p)
           c == Content(p)
           s == 255 - Checksums(c)[L]
<1>1. /\ L \in Nat /\ 14 <= L /\ L <= 104 /\ c \in Seq(Octets) /\ Len(c) = L
  BY ContentBytes
<1>2. L \div 256 = 0 /\ L % 256 = L
  <2> HIDE DEF L
  <2> QED
    BY <1>1
<1>3. s \in Octets
  <2>1. Checksums(c)[L] \in Octets
    <3> HIDE DEF c
    <3> QED
      BY <1>1, ChecksumsResults
  <2> QED
    BY <2>1 DEF Octets
<1>4. Unescaped(p) = <<0, L>> \o c \o <<s>>
  BY <1>1, <1>2 DEF Unescaped
<1>5. 0 \in Octets /\ L \in Octets
  <2>1. \A x \in Nat: x <= 255 => x \in Octets
    BY DEF Octets
  <2> HIDE DEF L
  <2>2. L <= 255
    BY <1>1
  <2> QED
    BY <1>1, <2>1, <2>2
<1> HIDE DEF L, c, s
<1> QED
  BY <1>1, <1>3, <1>4, <1>5 DEF L, c, s

Rests(p) ==
    CHOOSE rest: /\ Encodes(rest, Unescaped(p))
                 /\ rest[0] = Escaped(Unescaped(p))[Len(Unescaped(p))]

Rest(p, n) == Rests(p)[n]

\* A frame is its start byte and what is left behind it, byte by byte.
LEMMA FrameRests ==
    ASSUME NEW p \in Payloads
    PROVE  LET N == ContentLength(p) + 3
           IN  /\ \A n \in 0 .. N: Rest(p, n) \in Seq(Octets)
               /\ Rest(p, N) = <<>>
               /\ \A n \in 1 .. N: Rest(p, n - 1) = SendByte(Unescaped(p)[n]) \o Rest(p, n)
               /\ Frame(p) = <<START_BYTE>> \o Rest(p, 0)
               /\ Frame(p) \in Seq(Octets)
               /\ Encodes(Rests(p), Unescaped(p))
<1> DEFINE u == Unescaped(p)
           N == ContentLength(p) + 3
<1>1. u \in Seq(Octets) /\ Len(u) = N /\ N \in Nat
  BY UnescapedBytes, ContentBytes
<1>2. Encodes(Rests(p), u) /\ Rests(p)[0] = Escaped(u)[Len(u)]
  <2> HIDE DEF u
  <2>1. \E rest: Encodes(rest, u) /\ rest[0] = Escaped(u)[Len(u)]
    BY <1>1, EscapedRests
  <2>2. Rests(p) = CHOOSE rest: Encodes(rest, u) /\ rest[0] = Escaped(u)[Len(u)]
    BY DEF Rests, u
  <2> QED
    BY <2>1, <2>2
<1>3. Frame(p) = <<START_BYTE>> \o Rests(p)[0]
  BY <1>2 DEF Frame
<1> HIDE DEF u, N
<1>4. /\ \A n \in 0 .. N: Rests(p)[n] \in Seq(Octets)
      /\ Rests(p)[N] = <<>>
      /\ \A n \in 1 .. N: Rests(p)[n - 1] = SendByte(u[n]) \o Rests(p)[n]
  BY <1>1, <1>2 DEF Encodes
<1>5. Frame(p) \in Seq(Octets)
  <2>1. START_BYTE \in Octets
    BY DEF START_BYTE, Octets
  <2>2. Rests(p)[0] \in Seq(Octets)
    BY <1>1, <1>4
  <2> QED
    BY <1>3, <2>1, <2>2
<1> QED
  BY <1>2, <1>3, <1>4, <1>5 DEF Rest, u, N

-----------------------------------------------------------------------------
(* Types.                                                                  *)

Statuses == {"none", "available", "UNEXPECTED_START_BYTE", "CHECKSUM_FAILURE",
             "PACKET_EXCEEDS_BYTE_ARRAY_LENGTH"}

\* The bytes of the frame data that have been read.
DataRead ==
    /\ frameData \in Seq(Octets) /\ Len(frameData) <= MAX_FRAME_DATA_SIZE
    /\ pos >= 4 => Len(frameData) = pos - 4

SenderTypes ==
    /\ out \in Seq(Octets)
    /\ sent \in Seq(Payloads) /\ Len(sent) <= MaxFrames
    /\ faults \in 0 .. MaxFaults /\ weak \in BOOLEAN

LineTypes == line \in Seq(Octets) /\ Len(line) <= LineCap

Positions == 0 .. MAX_FRAME_DATA_SIZE + 1

ReaderTypes ==
    /\ reading \in BOOLEAN /\ escape \in BOOLEAN
    /\ pos \in Positions
    /\ checksumTotal \in Octets /\ msbLength \in Octets /\ lsbLength \in Octets
    /\ status \in Statuses

LinkTypes == SenderTypes /\ LineTypes /\ ReaderTypes /\ DataRead

LEMMA TypesTold == LinkTypes => TypeOK
<1> QED
  BY DEF LinkTypes, SenderTypes, LineTypes, ReaderTypes, DataRead, TypeOK, Octets,
         Positions, Statuses

\* What there is to know of a position: 110 bytes of frame data, at most.
LEMMA PositionFacts ==
    ASSUME NEW p \in Positions
    PROVE  /\ p \in Nat /\ p <= 111
           /\ MAX_FRAME_DATA_SIZE = 110 /\ 0 \in Positions
           /\ \A q \in Nat: q <= 111 => q \in Positions
<1>1. MAX_FRAME_DATA_SIZE = 110
  BY DEF MAX_FRAME_DATA_SIZE
<1>2. MAX_FRAME_DATA_SIZE + 1 = 111
  BY <1>1
<1> QED
  BY <1>1, <1>2 DEF Positions

\* The arms of Digest.
LEMMA DigestCases ==
    ASSUME pos \in Positions, lsbLength \in Octets, NEW b, NEW total, Digest(b, total)
    PROVE  /\ pos = 0 =>
                  /\ pos' = IF b = START_BYTE THEN 1 ELSE 0
                  /\ UNCHANGED <<reading, msbLength, lsbLength, frameData, status, received>>
           /\ pos = 1 =>
                  /\ msbLength' = b /\ pos' = 2
                  /\ UNCHANGED <<reading, lsbLength, frameData, status, received>>
           /\ pos = 2 =>
                  /\ lsbLength' = b /\ pos' = 3
                  /\ UNCHANGED <<reading, msbLength, frameData, status, received>>
           /\ pos = 3 =>
                  /\ pos' = 4 /\ frameData' = <<>>
                  /\ UNCHANGED <<reading, msbLength, lsbLength, status, received>>
           /\ pos = 111 =>
                  /\ status' = "PACKET_EXCEEDS_BYTE_ARRAY_LENGTH" /\ reading' = FALSE
                  /\ UNCHANGED <<pos, msbLength, lsbLength, frameData, received>>
           /\ 4 <= pos /\ pos <= 110 /\ pos = lsbLength + 3 =>
                  /\ ChecksumOk(total) =>
                         status' = "available" /\ received' = Append(received, frameData)
                  /\ ~ChecksumOk(total) => status' = "CHECKSUM_FAILURE" /\ UNCHANGED received
                  /\ pos' = 0 /\ reading' = FALSE
                  /\ UNCHANGED <<msbLength, lsbLength, frameData>>
           /\ 4 <= pos /\ pos <= 110 /\ pos # lsbLength + 3 =>
                  /\ frameData' = Append(frameData, b) /\ pos' = pos + 1
                  /\ UNCHANGED <<reading, msbLength, lsbLength, status, received>>
<1> DEFINE over  == pos > MAX_FRAME_DATA_SIZE
           done  == pos \in 4 .. MAX_FRAME_DATA_SIZE /\ pos = PacketLength + 3
<1>1. /\ pos \in Nat /\ pos <= 111
      /\ over <=> pos > 110
      /\ done <=> 4 <= pos /\ pos <= 110 /\ pos = lsbLength + 3
  BY PositionFacts DEF PacketLength
<1>2. CASE pos = 0
  <2>1. pos # 1 /\ pos # 2 /\ pos # 3 /\ ~over /\ ~done
    BY <1>1, <1>2
  <2>2. /\ pos' = IF b = START_BYTE THEN 1 ELSE 0
        /\ UNCHANGED <<reading, msbLength, lsbLength, frameData, status, received>>
    BY <1>2, <2>1, Zenon DEF Digest
  <2> QED
    BY <1>2, <2>2
<1>3. CASE pos = 1
  <2>1. pos # 0 /\ pos # 2 /\ pos # 3 /\ ~over /\ ~done
    BY <1>1, <1>3
  <2>2. /\ msbLength' = b /\ pos' = 2
        /\ UNCHANGED <<reading, lsbLength, frameData, status, received>>
    BY <1>3, <2>1, Zenon DEF Digest
  <2> QED
    BY <1>3, <2>2
<1>4. CASE pos = 2
  <2>1. pos # 0 /\ pos # 1 /\ pos # 3 /\ ~over /\ ~done
    BY <1>1, <1>4
  <2>2. /\ lsbLength' = b /\ pos' = 3
        /\ UNCHANGED <<reading, msbLength, frameData, status, received>>
    BY <1>4, <2>1, Zenon DEF Digest
  <2> QED
    BY <1>4, <2>2
<1>5. CASE pos = 3
  <2>1. pos # 0 /\ pos # 1 /\ pos # 2 /\ ~over /\ ~done
    BY <1>1, <1>5
  <2>2. /\ pos' = 4 /\ frameData' = <<>>
        /\ UNCHANGED <<reading, msbLength, lsbLength, status, received>>
    BY <1>5, <2>1, Zenon DEF Digest
  <2> QED
    BY <1>5, <2>2
<1>6. CASE pos = 111
  <2>1. pos # 0 /\ pos # 1 /\ pos # 2 /\ pos # 3 /\ over /\ ~done
    BY <1>1, <1>6
  <2>2. /\ status' = "PACKET_EXCEEDS_BYTE_ARRAY_LENGTH" /\ reading' = FALSE
        /\ UNCHANGED <<pos, msbLength, lsbLength, frameData, received>>
    BY <2>1, Zenon DEF Digest
  <2> QED
    BY <1>6, <2>2
<1>7. CASE 4 <= pos /\ pos <= 110 /\ pos = lsbLength + 3
  <2>1. pos # 0 /\ pos # 1 /\ pos # 2 /\ pos # 3 /\ ~over /\ done
    BY <1>1, <1>7
  <2>2. /\ IF ChecksumOk(total)
           THEN status' = "available" /\ received' = Append(received, frameData)
           ELSE status' = "CHECKSUM_FAILURE" /\ UNCHANGED received
        /\ pos' = 0 /\ reading' = FALSE
        /\ UNCHANGED <<msbLength, lsbLength, frameData>>
    BY <2>1, Zenon DEF Digest
  <2> QED
    BY <1>1, <1>7, <2>1, <2>2
<1>8. CASE 4 <= pos /\ pos <= 110 /\ pos # lsbLength + 3
  <2>1. pos # 0 /\ pos # 1 /\ pos # 2 /\ pos # 3 /\ ~over /\ ~done
    BY <1>1, <1>8
  <2>2. /\ frameData' = Append(frameData, b) /\ pos' = pos + 1
        /\ UNCHANGED <<reading, msbLength, lsbLength, status, received>>
    BY <2>1, Zenon DEF Digest
  <2> QED
    BY <1>1, <1>8, <2>1, <2>2
<1> QED
  BY <1>1, <1>2, <1>3, <1>4, <1>5, <1>6, <1>7, <1>8

\* The byte that readPacket works on, and the sum with it.
TakenRaw == IF pos > 0 /\ Head(line) = ESCAPE THEN Xor20(line[2]) ELSE Head(line)
Taken == IF escape THEN Xor20(TakenRaw) ELSE TakenRaw
Total == IF pos >= 3 THEN (checksumTotal + Taken) % 256 ELSE checksumTotal

LEMMA TakeFacts ==
    ASSUME LinkTypes, Take
    PROVE  /\ Taken \in Octets /\ Total \in Octets
           /\ reading /\ line # <<>> /\ ~(pos > 0 /\ Head(line) = START_BYTE)
           /\ line' = IF pos > 0 /\ Head(line) = ESCAPE THEN Tail(Tail(line)) ELSE Tail(line)
           /\ LineTypes'
           /\ escape' = FALSE /\ checksumTotal' = Total /\ Digest(Taken, Total)
           /\ UNCHANGED <<sender, faults>>
<1> DEFINE pair == pos > 0 /\ Head(line) = ESCAPE
<1>1. /\ reading /\ line # <<>> /\ ~(pos > 0 /\ Head(line) = START_BYTE)
      /\ ~(pos > 0 /\ Head(line) = ESCAPE /\ Len(line) = 1)
      /\ line' = IF pair THEN Tail(Tail(line)) ELSE Tail(line)
      /\ escape' = FALSE /\ checksumTotal' = Total /\ Digest(Taken, Total)
      /\ UNCHANGED <<sender, faults>>
  BY Zenon DEF Take, TakenRaw, Taken, Total
<1>2. line \in Seq(Octets) /\ Len(line) <= LineCap /\ LineCap \in Nat
  BY LinkAssumption DEF LinkTypes, LineTypes
<1>3. Head(line) \in Octets /\ Tail(line) \in Seq(Octets) /\ Len(Tail(line)) = Len(line) - 1
  BY <1>1, <1>2
<1>4. pair => /\ Len(line) >= 2 /\ line[2] \in Octets
              /\ Tail(Tail(line)) \in Seq(Octets) /\ Len(Tail(Tail(line))) = Len(line) - 2
  <2> SUFFICES ASSUME pair PROVE
              /\ Len(line) >= 2 /\ line[2] \in Octets
              /\ Tail(Tail(line)) \in Seq(Octets) /\ Len(Tail(Tail(line))) = Len(line) - 2
    OBVIOUS
  <2>1. Len(line) # 1 /\ Len(line) # 0 /\ Len(line) \in Nat
    BY <1>1, <1>2
  <2>2. Len(line) >= 2
    <3>1. \A n \in Nat: n # 0 /\ n # 1 => n >= 2
      OBVIOUS
    <3> QED
      BY <2>1, <3>1
  <2>3. Tail(line) # <<>>
    <3> HIDE DEF pair
    <3>1. Len(Tail(line)) # 0
      BY <1>2, <1>3, <2>2
    <3>2. Len(<<>>) = 0
      OBVIOUS
    <3> QED
      BY <3>1, <3>2, Zenon
  <2> QED
    BY <1>2, <1>3, <2>2, <2>3
<1>5. TakenRaw \in Octets
  BY <1>3, <1>4, XorOctets DEF TakenRaw
<1>6. Taken \in Octets
  BY <1>5, XorOctets DEF Taken
<1>7. Total \in Octets
  <2>1. checksumTotal \in Octets
    BY DEF LinkTypes, ReaderTypes
  <2>2. \A x, y \in Octets: (x + y) % 256 \in Octets
    BY DEF Octets
  <2> QED
    BY <1>6, <2>1, <2>2 DEF Total
<1>8. LineTypes'
  <2>1. CASE pair
    BY <1>1, <1>2, <1>4, <2>1 DEF LineTypes
  <2>2. CASE ~pair
    BY <1>1, <1>2, <1>3, <2>2 DEF LineTypes
  <2> QED
    BY <2>1, <2>2
<1> QED
  BY <1>1, <1>6, <1>7, <1>8

LEMMA InitTypes == Init => LinkTypes
<1> SUFFICES ASSUME Init PROVE LinkTypes
  OBVIOUS
<1>1. /\ MaxFrames \in Nat /\ MaxFaults \in Nat /\ LineCap \in Nat
      /\ MAX_FRAME_DATA_SIZE = 110 /\ 0 \in Octets
  BY LinkAssumption DEF MAX_FRAME_DATA_SIZE, Octets
<1>2. /\ out = <<>> /\ line = <<>> /\ reading = FALSE /\ pos = 0 /\ escape = FALSE
      /\ checksumTotal = 0 /\ msbLength = 0 /\ lsbLength = 0 /\ frameData = <<>>
      /\ status = "none" /\ sent = <<>> /\ faults = 0 /\ weak = FALSE
  BY DEF Init
<1>3. SenderTypes
  <2>1. out \in Seq(Octets) /\ sent \in Seq(Payloads) /\ Len(sent) = 0
    BY <1>2
  <2>2. faults \in 0 .. MaxFaults /\ 0 <= MaxFrames
    BY <1>1, <1>2
  <2>3. weak \in BOOLEAN
    BY <1>2
  <2> QED
    BY <2>1, <2>2, <2>3 DEF SenderTypes
<1>4. LineTypes
  BY <1>1, <1>2 DEF LineTypes
<1>5. ReaderTypes
  <2>1. 0 \in Positions
    BY <1>1 DEF Positions
  <2>2. reading \in BOOLEAN /\ escape \in BOOLEAN
    BY <1>2
  <2>3. status \in Statuses
    BY <1>2 DEF Statuses
  <2> QED
    BY <1>1, <1>2, <2>1, <2>2, <2>3 DEF ReaderTypes
<1>6. DataRead
  BY <1>1, <1>2 DEF DataRead
<1> QED
  BY <1>3, <1>4, <1>5, <1>6 DEF LinkTypes

LEMMA ReaderSame ==
    ASSUME LinkTypes, UNCHANGED receiver
    PROVE  ReaderTypes' /\ DataRead'
<1> QED
  BY DEF LinkTypes, receiver, ReaderTypes, DataRead

\* The steps of the sender and of the line.
LEMMA SendTypes ==
    ASSUME LinkTypes, Send
    PROVE  LinkTypes'
<1>1. /\ Len(sent) < MaxFrames
      /\ UNCHANGED <<line, receiver, faults, weak>>
  BY DEF Send
<1>2. PICK p \in Payloads: sent' = Append(sent, p) /\ out' = Frame(p)
  BY DEF Send
<1>3. sent' \in Seq(Payloads) /\ Len(sent') <= MaxFrames
  BY <1>1, <1>2, LinkAssumption DEF LinkTypes, SenderTypes
<1>4. out' \in Seq(Octets)
  BY <1>2, FrameRests
<1>5. SenderTypes'
  BY <1>1, <1>3, <1>4 DEF LinkTypes, SenderTypes
<1>6. LineTypes'
  BY <1>1 DEF LinkTypes, LineTypes
<1> QED
  BY <1>1, <1>5, <1>6, ReaderSame DEF LinkTypes

LEMMA WriteTypes ==
    ASSUME LinkTypes, Write
    PROVE  LinkTypes'
<1>1. /\ out # <<>> /\ Len(line) < LineCap
      /\ line' = Append(line, Head(out)) /\ out' = Tail(out)
      /\ UNCHANGED <<receiver, sent, faults, weak>>
  BY DEF Write
<1>2. out' \in Seq(Octets) /\ Head(out) \in Octets
  BY <1>1 DEF LinkTypes, SenderTypes
<1>3. SenderTypes'
  BY <1>1, <1>2 DEF LinkTypes, SenderTypes
<1>4. LineTypes'
  BY <1>1, <1>2, LinkAssumption DEF LinkTypes, LineTypes
<1> QED
  BY <1>1, <1>3, <1>4, ReaderSame DEF LinkTypes

LEMMA FaultTypes ==
    ASSUME LinkTypes, Lose \/ PowerFails
    PROVE  LinkTypes'
<1>1. /\ out # <<>> /\ faults < MaxFaults /\ faults' = faults + 1
      /\ out' = Tail(out) \/ out' = <<>>
      /\ UNCHANGED <<line, receiver, sent>>
  BY DEF Lose, PowerFails
<1>2. weak' = (weak \/ AtWeakSpot)
  BY DEF Lose, PowerFails
<1>3. weak' \in BOOLEAN
  BY <1>2, Zenon
<1>4. out' \in Seq(Octets)
  <2>1. out \in Seq(Octets)
    BY DEF LinkTypes, SenderTypes
  <2>2. Tail(out) \in Seq(Octets) /\ <<>> \in Seq(Octets)
    BY <1>1, <2>1
  <2> QED
    BY <1>1, <2>2
<1>5. faults' \in 0 .. MaxFaults
  BY <1>1, LinkAssumption DEF LinkTypes, SenderTypes
<1>6. SenderTypes'
  BY <1>1, <1>3, <1>4, <1>5 DEF LinkTypes, SenderTypes
<1>7. LineTypes'
  BY <1>1 DEF LinkTypes, LineTypes
<1> QED
  BY <1>1, <1>6, <1>7, ReaderSame DEF LinkTypes

\* The steps of the receiver.
LEMMA DigestTypes ==
    ASSUME LinkTypes, NEW b \in Octets, NEW total, Digest(b, total)
    PROVE  /\ reading' \in BOOLEAN /\ pos' \in Positions
           /\ msbLength' \in Octets /\ lsbLength' \in Octets
           /\ status' \in Statuses /\ DataRead'
<1>1. /\ reading \in BOOLEAN /\ msbLength \in Octets /\ lsbLength \in Octets
      /\ status \in Statuses /\ pos \in Positions
  BY DEF LinkTypes, ReaderTypes
<1>2. /\ frameData \in Seq(Octets) /\ Len(frameData) <= 110 /\ Len(frameData) \in Nat
      /\ pos >= 4 => Len(frameData) = pos - 4
  BY DEF LinkTypes, DataRead, MAX_FRAME_DATA_SIZE
<1>3. /\ pos \in Nat /\ pos <= 111 /\ 0 \in Positions /\ MAX_FRAME_DATA_SIZE = 110
      /\ \A q \in Nat: q <= 111 => q \in Positions
  BY <1>1, PositionFacts
<1>4. {"available", "CHECKSUM_FAILURE", "PACKET_EXCEEDS_BYTE_ARRAY_LENGTH"} \subseteq Statuses
  BY DEF Statuses
<1>5. DataRead' <=> /\ frameData' \in Seq(Octets) /\ Len(frameData') <= 110
                    /\ pos' >= 4 => Len(frameData') = pos' - 4
  BY <1>3 DEF DataRead, MAX_FRAME_DATA_SIZE
<1>6. CASE pos = 0
  <2>1. /\ pos' \in {0, 1}
        /\ UNCHANGED <<reading, msbLength, lsbLength, frameData, status>>
    BY <1>1, <1>6, DigestCases
  <2>2. pos' \in Positions /\ ~(pos' >= 4)
    BY <1>3, <2>1
  <2> QED
    BY <1>1, <1>2, <1>5, <2>1, <2>2
<1>7. CASE pos = 1
  <2>1. pos' = 2 /\ msbLength' = b /\ UNCHANGED <<reading, lsbLength, frameData, status>>
    BY <1>1, <1>7, DigestCases
  <2> QED
    BY <1>1, <1>2, <1>3, <1>5, <2>1
<1>8. CASE pos = 2
  <2>1. pos' = 3 /\ lsbLength' = b /\ UNCHANGED <<reading, msbLength, frameData, status>>
    BY <1>1, <1>8, DigestCases
  <2> QED
    BY <1>1, <1>2, <1>3, <1>5, <2>1
<1>9. CASE pos = 3
  <2>1. /\ pos' = 4 /\ frameData' = <<>>
        /\ UNCHANGED <<reading, msbLength, lsbLength, status>>
    BY <1>1, <1>9, DigestCases
  <2>2. <<>> \in Seq(Octets) /\ Len(<<>>) = 0
    OBVIOUS
  <2> QED
    BY <1>1, <1>3, <1>5, <2>1, <2>2
<1>10. CASE pos = 111
  <2>1. /\ status' = "PACKET_EXCEEDS_BYTE_ARRAY_LENGTH" /\ reading' = FALSE
        /\ UNCHANGED <<pos, msbLength, lsbLength, frameData>>
    BY <1>1, <1>10, DigestCases
  <2> QED
    BY <1>1, <1>2, <1>4, <1>5, <2>1
<1>11. CASE 4 <= pos /\ pos <= 110 /\ pos = lsbLength + 3
  <2>1. /\ status' \in {"available", "CHECKSUM_FAILURE"}
        /\ pos' = 0 /\ reading' = FALSE
        /\ UNCHANGED <<msbLength, lsbLength, frameData>>
    BY <1>1, <1>11, DigestCases
  <2>2. status' \in Statuses
    BY <1>4, <2>1
  <2>3. ~(pos' >= 4)
    BY <2>1
  <2>4. DataRead'
    BY <1>2, <1>5, <2>1, <2>3
  <2>5. reading' \in BOOLEAN
    BY <2>1
  <2> QED
    BY <1>1, <1>3, <2>1, <2>2, <2>4, <2>5
<1>12. CASE 4 <= pos /\ pos <= 110 /\ pos # lsbLength + 3
  <2>1. /\ frameData' = Append(frameData, b) /\ pos' = pos + 1
        /\ UNCHANGED <<reading, msbLength, lsbLength, status>>
    BY <1>1, <1>12, DigestCases
  <2>2. frameData' \in Seq(Octets) /\ Len(frameData') = Len(frameData) + 1
    BY <1>2, <2>1
  <2>3. pos' \in Positions
    BY <1>3, <1>12, <2>1
  <2> QED
    BY <1>1, <1>2, <1>3, <1>5, <1>12, <2>1, <2>2, <2>3
<1> QED
  BY <1>3, <1>6, <1>7, <1>8, <1>9, <1>10, <1>11, <1>12

LEMMA ReceiveTypes ==
    ASSUME LinkTypes, Receive
    PROVE  LinkTypes'
<1>1. CASE Call
  <2>1. /\ reading' = TRUE /\ status' = "none"
        /\ pos' \in {pos, 0} /\ escape' \in {escape, FALSE}
        /\ checksumTotal' \in {checksumTotal, 0}
        /\ msbLength' \in {msbLength, 0} /\ lsbLength' \in {lsbLength, 0}
        /\ UNCHANGED <<sender, line, frameData, received, faults>>
    BY <1>1 DEF Call
  <2>2. 0 \in Octets /\ 0 \in Positions /\ "none" \in Statuses
    BY PositionFacts DEF LinkTypes, ReaderTypes, Octets, Statuses
  <2>3. ReaderTypes'
    BY <2>1, <2>2 DEF LinkTypes, ReaderTypes
  <2>4. DataRead'
    BY <2>1 DEF LinkTypes, DataRead
  <2> QED
    BY <2>1, <2>3, <2>4 DEF LinkTypes, SenderTypes, LineTypes, sender
<1>2. CASE Return
  <2>1. reading' = FALSE
        /\ UNCHANGED <<sender, line, pos, escape, checksumTotal, msbLength, lsbLength,
                       frameData, status, received, faults>>
    BY <1>2 DEF Return
  <2> QED
    BY <2>1 DEF LinkTypes, SenderTypes, LineTypes, ReaderTypes, DataRead, sender
<1>3. CASE UnexpectedStart
  <2>1. /\ line # <<>> /\ line' = Tail(line) /\ status' = "UNEXPECTED_START_BYTE"
        /\ reading' = FALSE
        /\ UNCHANGED <<sender, pos, escape, checksumTotal, msbLength, lsbLength,
                       frameData, received, faults>>
    BY <1>3 DEF UnexpectedStart
  <2>2. LineTypes'
    BY <2>1, LinkAssumption DEF LinkTypes, LineTypes
  <2>3. ReaderTypes'
    BY <2>1 DEF LinkTypes, ReaderTypes, Statuses
  <2> QED
    BY <2>1, <2>2, <2>3 DEF LinkTypes, SenderTypes, DataRead, sender
<1>4. CASE EscapeAlone
  <2>1. /\ line' = <<>> /\ escape' = TRUE
        /\ UNCHANGED <<sender, reading, pos, checksumTotal, msbLength, lsbLength,
                       frameData, status, received, faults>>
    BY <1>4 DEF EscapeAlone
  <2>2. LineTypes'
    BY <2>1, LinkAssumption DEF LineTypes
  <2>3. ReaderTypes'
    BY <2>1 DEF LinkTypes, ReaderTypes
  <2> QED
    BY <2>1, <2>2, <2>3 DEF LinkTypes, SenderTypes, DataRead, sender
<1>5. CASE Take
  <2>1. /\ Taken \in Octets /\ Total \in Octets /\ LineTypes'
        /\ escape' = FALSE /\ checksumTotal' = Total /\ Digest(Taken, Total)
        /\ UNCHANGED <<sender, faults>>
    BY <1>5, TakeFacts
  <2>2. /\ reading' \in BOOLEAN /\ pos' \in Positions
        /\ msbLength' \in Octets /\ lsbLength' \in Octets
        /\ status' \in Statuses /\ DataRead'
    BY <2>1, DigestTypes
  <2>3. ReaderTypes'
    BY <2>1, <2>2 DEF ReaderTypes
  <2>4. SenderTypes'
    BY <2>1 DEF LinkTypes, SenderTypes, sender
  <2> QED
    BY <2>1, <2>2, <2>3, <2>4 DEF LinkTypes
<1> QED
  BY <1>1, <1>2, <1>3, <1>4, <1>5 DEF Receive

LEMMA NextTypes == LinkTypes /\ [Next]_vars => LinkTypes'
<1> SUFFICES ASSUME LinkTypes, [Next]_vars PROVE LinkTypes'
  OBVIOUS
<1>1. CASE UNCHANGED vars
  BY <1>1 DEF vars, sender, receiver, LinkTypes, SenderTypes, LineTypes, ReaderTypes,
              DataRead
<1> QED
  BY <1>1, SendTypes, WriteTypes, FaultTypes, ReceiveTypes DEF Next

LEMMA AlwaysTyped == Spec => []LinkTypes
<1> QED
  BY InitTypes, NextTypes, PTL DEF Spec

-----------------------------------------------------------------------------
(* What a receiver can read: a packet, or one with a byte missing.         *)

Startless(g) == g \in Seq(Octets) /\ \A i \in 1 .. Len(g): g[i] # START_BYTE

\* The sums of the bytes behind the length, as readPacket adds them up.
Summed(sum, v) ==
    /\ sum \in [2 .. Len(v) -> Octets] /\ sum[2] = 0
    /\ \A i \in 3 .. Len(v): sum[i] = (sum[i - 1] + v[i]) % 256

\* The bytes behind a start byte, with what is left behind each and their sums:
\* no more of them than the length says.
Readable(v, rest, sum) ==
    /\ v \in Seq(Octets) /\ Encodes(rest, v) /\ Summed(sum, v)
    /\ 2 <= Len(v) /\ 14 <= v[2] /\ v[2] <= 104 /\ Len(v) <= v[2] + 3

\* They cannot be taken for a packet: too few of them, or the sum is wrong.
Spoilt(v, sum) == Len(v) = v[2] + 3 => sum[Len(v)] # 255

Sums(p) ==
    [i \in 2 .. ContentLength(p) + 3 |->
        IF i = ContentLength(p) + 3 THEN 255 ELSE Checksums(Content(p))[i - 2]]

Whole(v, rest, sum, p) == v = Unescaped(p) /\ rest = Rests(p) /\ sum = Sums(p)

LEMMA OctetRange == ASSUME NEW a \in Octets PROVE a \in Nat /\ a <= 255
<1> QED
  BY DEF Octets

LEMMA GoodSums ==
    ASSUME NEW p \in Payloads
    PROVE  Summed(Sums(p), Unescaped(p)) /\ Sums(p)[ContentLength(p) + 3] = 255
<1> DEFINE L == ContentLength(p)
           c == Content(p)
           u == Unescaped(p)
           s == Sums(p)
<1>1. /\ L \in Nat /\ 14 <= L /\ L <= 104 /\ c \in Seq(Octets) /\ Len(c) = L
  BY ContentBytes
<1>2. /\ u \in Seq(Octets) /\ Len(u) = L + 3
      /\ \A i \in 1 .. L: u[i + 2] = c[i]
      /\ u[L + 3] = 255 - Checksums(c)[L]
  BY UnescapedBytes
<1>3. /\ Checksums(c) \in [0 .. L -> Octets] /\ Checksums(c)[0] = 0
      /\ \A n \in 1 .. L: Checksums(c)[n] = (Checksums(c)[n - 1] + c[n]) % 256
  BY <1>1, ChecksumsResults
<1>4. s = [i \in 2 .. L + 3 |-> IF i = L + 3 THEN 255 ELSE Checksums(c)[i - 2]]
  BY DEF Sums
<1>5. 255 \in Octets
  BY DEF Octets
<1> HIDE DEF L, c, u, s
<1>6. ASSUME NEW i \in 2 .. L + 2 PROVE s[i] = Checksums(c)[i - 2] /\ s[i] \in Octets
  <2>1. i \in 2 .. L + 3 /\ i # L + 3 /\ i - 2 \in 0 .. L
    BY <1>1
  <2> QED
    BY <1>3, <1>4, <2>1
<1>7. s[L + 3] = 255
  BY <1>1, <1>4
<1>8. s \in [2 .. L + 3 -> Octets]
  <2>1. ASSUME NEW i \in 2 .. L + 3 PROVE s[i] \in Octets
    <3>1. i \in 2 .. L + 2 \/ i = L + 3
      BY <1>1
    <3> QED
      BY <1>5, <1>6, <1>7, <3>1
  <2>2. s = [i \in 2 .. L + 3 |-> s[i]]
    BY <1>4
  <2> QED
    BY <2>1, <2>2
<1>9. s[2] = 0
  <2>1. 2 \in 2 .. L + 2 /\ 2 - 2 = 0
    BY <1>1
  <2> QED
    BY <1>3, <1>6, <2>1
<1>10. ASSUME NEW i \in 3 .. L + 3 PROVE s[i] = (s[i - 1] + u[i]) % 256
  <2>1. i - 1 \in 2 .. L + 2 /\ (i - 1) - 2 = i - 3
    BY <1>1
  <2>2. s[i - 1] = Checksums(c)[i - 3]
    BY <1>6, <2>1
  <2>3. CASE i = L + 3
    <3>1. i - 3 = L /\ s[i - 1] = Checksums(c)[L]
      BY <1>1, <2>2, <2>3
    <3>2. Checksums(c)[L] \in Nat /\ Checksums(c)[L] <= 255
      BY <1>1, <1>3, OctetRange
    <3>3. Checksums(c)[L] + (255 - Checksums(c)[L]) = 255 /\ 255 % 256 = 255
      BY <3>2
    <3> QED
      BY <1>2, <1>7, <2>3, <3>1, <3>3
  <2>4. CASE i # L + 3
    <3>1. i \in 2 .. L + 2 /\ i - 2 \in 1 .. L /\ (i - 2) - 1 = i - 3 /\ (i - 2) + 2 = i
      BY <1>1, <2>4
    <3>2. s[i] = Checksums(c)[i - 2]
      BY <1>6, <3>1
    <3>3. Checksums(c)[i - 2] = (Checksums(c)[i - 3] + c[i - 2]) % 256
      BY <1>3, <3>1
    <3>4. u[i] = c[i - 2]
      BY <1>2, <3>1
    <3> QED
      BY <2>2, <3>2, <3>3, <3>4
  <2> QED
    BY <2>3, <2>4
<1>11. Len(u) = L + 3
  BY <1>2
<1> QED
  BY <1>7, <1>8, <1>9, <1>10, <1>11 DEF Summed, L, c, u, s

\* A packet as it is sent can be read.
LEMMA GoodPacket ==
    ASSUME NEW p \in Payloads, NEW v, NEW rest, NEW sum, Whole(v, rest, sum, p)
    PROVE  /\ Readable(v, rest, sum) /\ Len(v) = v[2] + 3 /\ sum[Len(v)] = 255
           /\ Frame(p) = <<START_BYTE>> \o rest[0] /\ Frame(p) \in Seq(Octets)
           /\ Response(p) \in Seq(Octets) /\ Len(Response(p)) = v[2] - 1
           /\ \A i \in 1 .. v[2] - 1: Response(p)[i] = v[i + 3]
<1> DEFINE L == ContentLength(p)
<1>1. v = Unescaped(p) /\ rest = Rests(p) /\ sum = Sums(p)
  BY DEF Whole
<1>2. /\ v \in Seq(Octets) /\ Len(v) = L + 3 /\ v[2] = L
      /\ \A i \in 1 .. L: v[i + 2] = Content(p)[i]
  BY <1>1, UnescapedBytes
<1>3. L \in Nat /\ 14 <= L /\ L <= 104
  BY ContentBytes
<1>4. Summed(sum, v) /\ sum[L + 3] = 255
  BY <1>1, GoodSums
<1>5. Encodes(rest, v) /\ Frame(p) = <<START_BYTE>> \o rest[0] /\ Frame(p) \in Seq(Octets)
  BY <1>1, FrameRests DEF Rest
<1>6. /\ Response(p) \in Seq(Octets) /\ Len(Response(p)) = L - 1
      /\ \A i \in 1 .. L - 1: Response(p)[i] = Content(p)[i + 1]
  BY ContentBytes
<1> HIDE DEF L
<1>7. ASSUME NEW i \in 1 .. L - 1 PROVE Response(p)[i] = v[i + 3]
  <2>1. i + 1 \in 1 .. L /\ (i + 1) + 2 = i + 3
    BY <1>3
  <2> QED
    BY <1>2, <1>6, <2>1
<1>8. Readable(v, rest, sum)
  BY <1>2, <1>3, <1>4, <1>5 DEF Readable
<1> QED
  BY <1>2, <1>4, <1>5, <1>6, <1>7, <1>8

\* No start byte goes out but at the start.
LEMMA StartlessTogether ==
    ASSUME NEW s, NEW t, Startless(s), Startless(t)
    PROVE  Startless(s \o t)
<1>1. s \in Seq(Octets) /\ t \in Seq(Octets)
  BY DEF Startless
<1>2. s \o t \in Seq(Octets) /\ Len(s \o t) = Len(s) + Len(t)
  BY <1>1, ConcatProperties
<1>3. ASSUME NEW i \in 1 .. Len(s \o t) PROVE (s \o t)[i] # START_BYTE
  <2>1. CASE i <= Len(s)
    <3>1. (s \o t)[i] = s[i] /\ i \in 1 .. Len(s)
      BY <1>1, <1>2, <2>1
    <3> QED
      BY <3>1 DEF Startless
  <2>2. CASE i > Len(s)
    <3>1. (s \o t)[i] = t[i - Len(s)] /\ i - Len(s) \in 1 .. Len(t)
      BY <1>1, <1>2, <2>2
    <3> QED
      BY <3>1 DEF Startless
  <2> QED
    BY <1>1, <1>2, <2>1, <2>2
<1> QED
  BY <1>2, <1>3 DEF Startless

LEMMA EncodedStartless ==
    ASSUME NEW v \in Seq(Octets), NEW rest, Encodes(rest, v)
    PROVE  \A n \in 0 .. Len(v): Startless(rest[n])
<1> DEFINE N == Len(v)
           Good == {m \in Nat: m <= N => Startless(rest[N - m])}
<1>1. N \in Nat /\ rest[N] = <<>>
  BY DEF Encodes
<1>2. 0 \in Good
  <2>1. Startless(<<>>)
    BY DEF Startless
  <2>2. N - 0 = N
    BY <1>1
  <2> QED
    BY <1>1, <2>1, <2>2
<1>3. ASSUME NEW m \in Good PROVE m + 1 \in Good
  <2>1. CASE m + 1 <= N
    <3> DEFINE n == N - m
    <3>1. n \in 1 .. N /\ N - (m + 1) = n - 1 /\ m <= N
      BY <1>1, <1>3, <2>1
    <3>2. Startless(rest[n])
      BY <1>3, <3>1
    <3>3. rest[n - 1] = SendByte(v[n]) \o rest[n]
      <4> HIDE DEF n
      <4> QED
        BY <3>1 DEF Encodes
    <3>4. Startless(SendByte(v[n]))
      <4>1. v[n] \in Octets
        <5> HIDE DEF n
        <5> QED
          BY <3>1
      <4> DEFINE b == v[n]
      <4>2. b \in Octets
        BY <4>1
      <4> HIDE DEF b, n
      <4>3. START_BYTE \in Controls /\ ESCAPE # START_BYTE /\ ESCAPE \in Octets
        BY DEF START_BYTE, ESCAPE, Controls, Octets
      <4>4. CASE b \in Controls
        <5>1. SendByte(b) = <<ESCAPE, Xor20(b)>>
          BY <4>2, <4>4, SendByteCases
        <5>2. Xor20(b) \in Octets /\ Xor20(b) # START_BYTE
          BY <4>3, <4>4, XorControls
        <5>3. Startless(<<ESCAPE, Xor20(b)>>)
          BY <4>3, <5>2 DEF Startless
        <5> QED
          BY <5>1, <5>3 DEF b
      <4>5. CASE b \notin Controls
        <5>1. SendByte(b) = <<b>> /\ b # START_BYTE
          BY <4>2, <4>3, <4>5, SendByteCases
        <5>2. Startless(<<b>>)
          BY <4>2, <5>1 DEF Startless
        <5> QED
          BY <5>1, <5>2 DEF b
      <4> QED
        BY <4>4, <4>5
    <3>5. Startless(rest[N - (m + 1)])
      <4> HIDE DEF n
      <4>1. Startless(rest[n - 1])
        BY <3>2, <3>3, <3>4, StartlessTogether
      <4> QED
        BY <3>1, <4>1
    <3> QED
      BY <1>3, <3>5
  <2> QED
    BY <1>3, <2>1
<1>4. Good = Nat
  <2> HIDE DEF Good
  <2>1. Good \in SUBSET Nat
    BY DEF Good
  <2> QED
    BY <1>2, <1>3, <2>1, Induction
<1>5. ASSUME NEW n \in 0 .. N PROVE Startless(rest[n])
  <2>1. N - n \in Nat /\ N - n <= N /\ N - (N - n) = n
    BY <1>1
  <2> QED
    BY <1>4, <2>1
<1> QED
  BY <1>5

-----------------------------------------------------------------------------
(* The invariant: at most one fault, and not at a weak spot.               *)

\* What is left of a frame that has lost a byte, or its end.
Damaged(D) ==
    \/ Startless(D)
    \/ \E v, rest, sum: /\ Readable(v, rest, sum) /\ Spoilt(v, sum)
                        /\ D = <<START_BYTE>> \o rest[0]

\* What goes out for the packet k, the packet d being damaged.
Goes(D, k, d) == D \in Seq(Octets) /\ IF k = d THEN Damaged(D) ELSE D = Frame(sent[k])

\* What is to come behind each of the packets from K.
Behind(behind, K, d) ==
    /\ \A k \in K .. Len(sent): behind[k] \in Seq(Octets)
    /\ behind[Len(sent)] = <<>>
    /\ \A k \in K + 1 .. Len(sent): \E D: Goes(D, k, d) /\ behind[k - 1] = D \o behind[k]

\* As long as no packet is damaged, all that is to come ends with what the sender has
\* still to send.
Unsent(behind, K) ==
    \A k \in K .. Len(sent) - 1: \E h \in Seq(Octets): behind[k] = h \o out

\* Of the packets up to K, all but the damaged one and the next have been received.
Picked(index, n, K) ==
    /\ index \in [1 .. n -> 1 .. K]
    /\ \A i \in 1 .. n: \A j \in 1 .. i - 1: index[j] < index[i]

Told(K, d) ==
    /\ received \in Seq(Seq(Octets))
    /\ \E index: /\ Picked(index, Len(received), K)
                 /\ \A i \in 1 .. Len(received): received[i] = Response(sent[index[i]])
    /\ d = 0 \/ K < d => K = Len(received)
    /\ K <= Len(received) + 2

\* Once K packets are over, what comes behind them is as it was.
LEMMA BehindNext ==
    ASSUME NEW K \in Nat, NEW d, NEW behind, Behind(behind, K, d), Len(sent) \in Nat
    PROVE  Behind(behind, K + 1, d)
<1>1. /\ \A k \in K + 1 .. Len(sent): k \in K .. Len(sent)
      /\ \A k \in (K + 1) + 1 .. Len(sent): k \in K + 1 .. Len(sent)
  OBVIOUS
<1> QED
  BY <1>1 DEF Behind

Half == IF escape THEN <<ESCAPE>> ELSE <<>>

\* Between the packets: what comes before the next one, if anything, is the end of
\* one that is lost.
Between(K, d, behind) ==
    /\ pos = 0 \/ status = "UNEXPECTED_START_BYTE"
    /\ \E g: /\ Startless(g) /\ line \o out = g \o behind[K]
             /\ g # <<>> => d # 0 /\ d <= K

\* In the middle of a packet: so much of it has been read, and the rest is on its way.
Reads(v, rest, sum, y) ==
    /\ 1 <= pos /\ pos <= Len(v) + 1 /\ pos <= v[2] + 3
    /\ Half \o (line \o out) = rest[pos - 1] \o y
    /\ pos >= 3 => lsbLength = v[2] /\ checksumTotal = sum[pos - 1]
    /\ pos >= 4 => \A i \in 1 .. pos - 4: frameData[i] = v[i + 3]

Read(v, rest, sum, K, d) ==
    /\ Readable(v, rest, sum)
    /\ IF K + 1 = d THEN Spoilt(v, sum) ELSE Whole(v, rest, sum, sent[K + 1])

Within(K, d, behind) ==
    /\ pos > 0 /\ status = "none" /\ K < Len(sent)
    /\ \E v, rest, sum: Read(v, rest, sum, K, d) /\ Reads(v, rest, sum, behind[K + 1])

Quiet ==
    /\ reading => status = "none"
    /\ pos = 0 => ~escape
    /\ status = "none" /\ pos <= 3 => checksumTotal = 0

\* K packets have been received or lost, and the packet d is damaged; 0 is none.
Base(K, d, behind) ==
    /\ K \in Nat /\ d \in Nat /\ K <= Len(sent) /\ d <= Len(sent)
    /\ d = 0 <=> faults = 0
    /\ Behind(behind, K, d)
    /\ Told(K, d)
    /\ d = 0 => Unsent(behind, K)

At(K, d, behind) == Base(K, d, behind) /\ (Between(K, d, behind) \/ Within(K, d, behind))

OnItsWay == \E K, d, behind: At(K, d, behind)

Noticed == faults <= 1 /\ ~weak

Sound == Noticed => Quiet /\ OnItsWay

-----------------------------------------------------------------------------
(* What the receiver finds in the line.                                    *)

\* The first element of what is on its way.
Begins(s, t, a, x) == s \o t = <<a>> \o x

LEMMA FirstOf ==
    ASSUME NEW s \in Seq(Octets), NEW t \in Seq(Octets), NEW a \in Octets,
           NEW x \in Seq(Octets), s # <<>>, Begins(s, t, a, x)
    PROVE  Head(s) = a /\ Tail(s) \in Seq(Octets) /\ Tail(s) \o t = x
<1>1. Head(s) \in Octets /\ Tail(s) \in Seq(Octets) /\ s = <<Head(s)>> \o Tail(s)
  OBVIOUS
<1> DEFINE h == Head(s)
           r == Tail(s)
<1>2. h \in Octets /\ r \in Seq(Octets) /\ s = <<h>> \o r
  BY <1>1
<1> HIDE DEF h, r
<1>3. <<h>> \in Seq(Octets) /\ r \in Seq(Octets) /\ r \o t \in Seq(Octets)
  BY <1>2, ConcatProperties
<1>4. (<<h>> \o r) \o t = <<h>> \o (r \o t)
  BY <1>3, Together, Zenon
<1>5. <<h>> \o (r \o t) = <<a>> \o x
  BY <1>2, <1>4 DEF Begins
<1> DEFINE y == r \o t
<1>6. y \in Seq(Octets) /\ <<h>> \o y = <<a>> \o x
  BY <1>3, <1>5
<1> HIDE DEF y
<1>7. h = a
  <2>1. (<<h>> \o y)[1] = h /\ (<<a>> \o x)[1] = a
    BY <1>2, <1>6
  <2> QED
    BY <1>6, <2>1
<1>8. y = x
  <2>1. Len(<<h>> \o y) = 1 + Len(y) /\ Len(<<a>> \o x) = 1 + Len(x)
    BY <1>2, <1>6
  <2>2. Len(y) = Len(x)
    BY <1>6, <2>1
  <2>3. ASSUME NEW i \in 1 .. Len(y) PROVE y[i] = x[i]
    <3>1. (<<h>> \o y)[i + 1] = y[i] /\ (<<a>> \o x)[i + 1] = x[i]
      BY <1>2, <1>6, <2>2
    <3> QED
      BY <1>6, <3>1
  <2> QED
    BY <1>6, <2>2, <2>3, SeqEqual
<1> QED
  BY <1>2, <1>7, <1>8 DEF h, r, y

\* The next byte of a frame is found whole, in its two halves, or with the first
\* half read before: readPacket gets it right, and no start byte is seen.
LEMMA NextByte ==
    ASSUME NEW b \in Octets, NEW x \in Seq(Octets),
           line \in Seq(Octets), out \in Seq(Octets), line # <<>>,
           escape \in BOOLEAN, pos > 0,
           Half \o (line \o out) = SendByte(b) \o x
    PROVE  /\ Head(line) # START_BYTE
           /\ Head(line) = ESCAPE => ~escape
           /\ ~(Head(line) = ESCAPE /\ Len(line) = 1) =>
                  /\ Taken = b
                  /\ (IF Head(line) = ESCAPE THEN Tail(Tail(line)) ELSE Tail(line)) \o out = x
<1>0. /\ line \o out \in Seq(Octets) /\ Len(line \o out) = Len(line) + Len(out)
      /\ ESCAPE \in Octets /\ ESCAPE \in Controls /\ START_BYTE \in Controls
      /\ ESCAPE # START_BYTE
  BY ConcatProperties DEF ESCAPE, START_BYTE, Controls, Octets
<1> DEFINE way == line \o out
<1>1. way \in Seq(Octets) /\ Len(way) = Len(line) + Len(out)
  BY <1>0
<1>2. CASE escape
  <2>1. Half = <<ESCAPE>>
    BY <1>2 DEF Half
  <2>2. b \in Controls
    <3>1. CASE b \notin Controls
      <4>1. SendByte(b) = <<b>>
        BY <3>1, SendByteCases
      <4>2. <<ESCAPE>> \in Seq(Octets) /\ <<ESCAPE>> # <<>> /\ Head(<<ESCAPE>>) = ESCAPE
        BY <1>0
      <4>3. <<ESCAPE>> \o way = <<b>> \o x
        BY <2>1, <4>1
      <4>4. Head(<<ESCAPE>>) = b
        <5>1. Begins(<<ESCAPE>>, way, b, x)
          BY <4>3 DEF Begins
        <5> HIDE DEF way
        <5> QED
          BY <1>1, <4>2, <5>1, FirstOf
      <4> QED
        BY <1>0, <3>1, <4>2, <4>4
    <3> QED
      BY <3>1
  <2>3. SendByte(b) = <<ESCAPE, Xor20(b)>> /\ Xor20(b) \in Octets
    BY <2>2, SendByteCases, XorOctets
  <2>4. <<ESCAPE, Xor20(b)>> = <<ESCAPE>> \o <<Xor20(b)>>
    OBVIOUS
  <2> DEFINE y == <<Xor20(b)>> \o x
  <2>5. y \in Seq(Octets)
    BY <2>3
  <2>6. <<ESCAPE>> \o way = <<ESCAPE>> \o y
    <3>1. (<<ESCAPE>> \o <<Xor20(b)>>) \o x = <<ESCAPE>> \o (<<Xor20(b)>> \o x)
      <4>1. <<ESCAPE>> \in Seq(Octets) /\ <<Xor20(b)>> \in Seq(Octets)
        BY <1>0, <2>3
      <4> QED
        BY <4>1, Together, Zenon
    <3> QED
      BY <2>1, <2>3, <2>4, <3>1
  <2>7. way = y
    <3>1. <<ESCAPE>> \in Seq(Octets) /\ <<ESCAPE>> # <<>> /\ Tail(<<ESCAPE>>) = <<>>
      BY <1>0
    <3>2. <<>> \o way = y
      <4>1. Begins(<<ESCAPE>>, way, ESCAPE, y)
        BY <2>6 DEF Begins
      <4> HIDE DEF way, y
      <4> QED
        BY <1>0, <1>1, <2>5, <3>1, <4>1, FirstOf
    <3> QED
      BY <1>1, <3>2, ConcatEmptySeq
  <2>8. Head(line) = Xor20(b) /\ Tail(line) \o out = x
    <3>1. Begins(line, out, Xor20(b), x)
      BY <2>7 DEF Begins
    <3> QED
      BY <2>3, <3>1, FirstOf
  <2>9. Xor20(b) \notin Controls /\ Xor20(Xor20(b)) = b
    BY <2>2, XorControls
  <2>10. TakenRaw = Xor20(b)
    BY <1>0, <2>8, <2>9 DEF TakenRaw
  <2>11. Taken = b
    BY <1>2, <2>9, <2>10 DEF Taken
  <2> QED
    BY <1>0, <2>8, <2>9, <2>11
<1>3. CASE ~escape /\ b \in Controls
  <2>1. way = SendByte(b) \o x
    <3>1. Half = <<>>
      BY <1>3 DEF Half
    <3> QED
      BY <1>1, <3>1, ConcatEmptySeq
  <2>2. SendByte(b) = <<ESCAPE, Xor20(b)>> /\ Xor20(b) \in Octets
    BY <1>3, SendByteCases, XorOctets
  <2> DEFINE y == <<Xor20(b)>> \o x
  <2>3. y \in Seq(Octets)
    BY <2>2
  <2>4. way = <<ESCAPE>> \o y
    <3>1. <<ESCAPE, Xor20(b)>> = <<ESCAPE>> \o <<Xor20(b)>>
      OBVIOUS
    <3>2. (<<ESCAPE>> \o <<Xor20(b)>>) \o x = <<ESCAPE>> \o (<<Xor20(b)>> \o x)
      <4>1. <<ESCAPE>> \in Seq(Octets) /\ <<Xor20(b)>> \in Seq(Octets)
        BY <1>0, <2>2
      <4> QED
        BY <4>1, Together, Zenon
    <3> QED
      BY <2>1, <2>2, <3>1, <3>2
  <2>5. Head(line) = ESCAPE /\ Tail(line) \in Seq(Octets) /\ Tail(line) \o out = y
    <3>1. Begins(line, out, ESCAPE, y)
      BY <2>4 DEF Begins
    <3> HIDE DEF y
    <3> QED
      BY <1>0, <2>3, <3>1, FirstOf
  <2>6. ASSUME Len(line) # 1
        PROVE  /\ Tail(line) # <<>> /\ line[2] = Head(Tail(line))
               /\ Head(Tail(line)) = Xor20(b) /\ Tail(Tail(line)) \o out = x
    <3>1. Len(line) \in Nat /\ Len(line) # 0 /\ Len(Tail(line)) = Len(line) - 1
      OBVIOUS
    <3>2. Len(Tail(line)) # 0
      BY <2>6, <3>1
    <3>3. Tail(line) # <<>>
      <4>1. Len(<<>>) = 0
        OBVIOUS
      <4> QED
        BY <3>2, <4>1, Zenon
    <3>4. Head(Tail(line)) = Xor20(b) /\ Tail(Tail(line)) \o out = x
      <4>1. Begins(Tail(line), out, Xor20(b), x)
        BY <2>5 DEF Begins
      <4> QED
        BY <2>2, <2>5, <3>3, <4>1, FirstOf
    <3>5. line[2] = Head(Tail(line))
      BY <3>1, <3>2
    <3> QED
      BY <3>3, <3>4, <3>5
  <2>7. ASSUME Len(line) # 1 PROVE Taken = b
    <3>1. TakenRaw = Xor20(Xor20(b))
      BY <2>5, <2>6, <2>7 DEF TakenRaw
    <3>2. Xor20(Xor20(b)) = b
      BY <1>3, XorControls
    <3> QED
      BY <1>3, <3>1, <3>2 DEF Taken
  <2> QED
    BY <1>0, <1>3, <2>5, <2>6, <2>7
<1>4. CASE ~escape /\ b \notin Controls
  <2>1. way = <<b>> \o x
    <3>1. Half = <<>>
      BY <1>4 DEF Half
    <3>2. SendByte(b) = <<b>>
      BY <1>4, SendByteCases
    <3> QED
      BY <1>1, <3>1, <3>2, ConcatEmptySeq
  <2>2. Head(line) = b /\ Tail(line) \o out = x
    <3>1. Begins(line, out, b, x)
      BY <2>1 DEF Begins
    <3> QED
      BY <3>1, FirstOf
  <2>3. b # ESCAPE /\ b # START_BYTE
    BY <1>0, <1>4
  <2>4. Taken = b
    BY <1>4, <2>2, <2>3 DEF Taken, TakenRaw
  <2> QED
    BY <2>2, <2>3, <2>4
<1> QED
  BY <1>2, <1>3, <1>4

LEMMA SenderFacts ==
    ASSUME LinkTypes
    PROVE  /\ line \in Seq(Octets) /\ out \in Seq(Octets) /\ sent \in Seq(Payloads)
           /\ Len(sent) \in Nat /\ line \o out \in Seq(Octets)
           /\ START_BYTE \in Octets /\ ESCAPE \in Octets /\ ESCAPE # START_BYTE
           /\ escape \in BOOLEAN /\ pos \in Nat /\ Half \in Seq(Octets)
<1>1. /\ line \in Seq(Octets) /\ out \in Seq(Octets) /\ sent \in Seq(Payloads)
      /\ Len(sent) \in Nat /\ escape \in BOOLEAN /\ pos \in Nat
  BY PositionFacts DEF LinkTypes, LineTypes, SenderTypes, ReaderTypes
<1>2. START_BYTE \in Octets /\ ESCAPE \in Octets /\ ESCAPE # START_BYTE
  BY DEF START_BYTE, ESCAPE, Octets
<1>3. Half \in Seq(Octets)
  BY <1>2 DEF Half
<1> QED
  BY <1>1, <1>2, <1>3, ConcatProperties

\* The next byte of what is being read.
LEMMA DueByte ==
    ASSUME LinkTypes, line # <<>>, NEW v, NEW rest, NEW sum, NEW y \in Seq(Octets),
           Readable(v, rest, sum), Reads(v, rest, sum, y), pos <= Len(v)
    PROVE  LET b == v[pos]
               x == rest[pos] \o y
           IN  /\ b \in Octets /\ x \in Seq(Octets)
               /\ Head(line) # START_BYTE
               /\ Head(line) = ESCAPE => ~escape
               /\ ~(Head(line) = ESCAPE /\ Len(line) = 1) =>
                      /\ Taken = b
                      /\ (IF Head(line) = ESCAPE THEN Tail(Tail(line)) ELSE Tail(line)) \o out = x
<1> DEFINE b == v[pos]
           r == rest[pos]
           x == r \o y
<1>1. /\ v \in Seq(Octets) /\ Encodes(rest, v) /\ Len(v) \in Nat
  BY DEF Readable
<1>2. pos \in 1 .. Len(v) /\ pos > 0
  BY SenderFacts DEF Reads
<1>3. b \in Octets
  BY <1>1, <1>2
<1>4. r \in Seq(Octets) /\ rest[pos - 1] = SendByte(b) \o r
  <2>1. pos \in 0 .. Len(v)
    BY <1>1, <1>2
  <2> QED
    BY <1>1, <1>2, <2>1 DEF Encodes
<1>5. SendByte(b) \in Seq(Octets)
  BY <1>3, SendByteCases
<1> HIDE DEF b, r
<1>6. x \in Seq(Octets)
  BY <1>4, ConcatProperties
<1>7. Half \o (line \o out) = SendByte(b) \o x
  <2>1. Half \o (line \o out) = rest[pos - 1] \o y
    BY DEF Reads
  <2>2. (SendByte(b) \o r) \o y = SendByte(b) \o (r \o y)
    BY <1>4, <1>5, Together, Zenon
  <2> QED
    BY <1>4, <2>1, <2>2
<1> HIDE DEF x
<1>8. /\ Head(line) # START_BYTE
      /\ Head(line) = ESCAPE => ~escape
      /\ ~(Head(line) = ESCAPE /\ Len(line) = 1) =>
             /\ Taken = b
             /\ (IF Head(line) = ESCAPE THEN Tail(Tail(line)) ELSE Tail(line)) \o out = x
  BY <1>2, <1>3, <1>6, <1>7, SenderFacts, NextByte
<1> USE DEF x, b, r
<1> QED
  BY <1>3, <1>6, <1>8

\* A start byte is next.
LEMMA StartIsNext ==
    ASSUME LinkTypes, line # <<>>, NEW r \in Seq(Octets), NEW y \in Seq(Octets),
           Half \o (line \o out) = (<<START_BYTE>> \o r) \o y
    PROVE  /\ ~escape /\ Head(line) = START_BYTE
           /\ Tail(line) \o out = r \o y /\ r \o y \in Seq(Octets)
<1> DEFINE x == r \o y
           way == line \o out
<1>1. /\ <<START_BYTE>> \in Seq(Octets) /\ <<ESCAPE>> \in Seq(Octets)
      /\ <<ESCAPE>> # <<>> /\ Head(<<ESCAPE>>) = ESCAPE /\ way \in Seq(Octets)
  BY SenderFacts
<1>2. x \in Seq(Octets)
  BY ConcatProperties
<1>3. Half \o way = <<START_BYTE>> \o x
  <2>1. (<<START_BYTE>> \o r) \o y = <<START_BYTE>> \o (r \o y)
    BY <1>1, Together, Zenon
  <2> QED
    BY <2>1
<1> HIDE DEF x, way
<1>4. ~escape
  <2> SUFFICES ASSUME escape PROVE FALSE
    OBVIOUS
  <2>1. Begins(<<ESCAPE>>, way, START_BYTE, x)
    BY <1>3 DEF Half, Begins
  <2>2. ESCAPE = START_BYTE
    BY <1>1, <1>2, <2>1, SenderFacts, FirstOf
  <2> QED
    BY <2>2, SenderFacts
<1>5. way = <<START_BYTE>> \o x
  <2>1. Half = <<>>
    BY <1>4 DEF Half
  <2> QED
    BY <1>1, <1>3, <2>1, ConcatEmptySeq
<1>6. Begins(line, out, START_BYTE, x)
  BY <1>5 DEF Begins, way
<1>7. Head(line) = START_BYTE /\ Tail(line) \o out = x
  BY <1>2, <1>6, SenderFacts, FirstOf
<1> QED
  BY <1>2, <1>4, <1>7 DEF x

\* What comes behind the packet K is nothing, or the next packet as it was sent.
LEMMA NextPacket ==
    ASSUME LinkTypes, line # <<>>, NEW K \in Nat, NEW d \in Nat, NEW behind,
           K <= Len(sent), Behind(behind, K, d), K + 1 # d,
           Half \o (line \o out) = behind[K]
    PROVE  \E q, y: /\ K < Len(sent) /\ q = sent[K + 1] /\ y = behind[K + 1]
                    /\ q \in Payloads /\ y \in Seq(Octets)
                    /\ ~escape /\ Head(line) = START_BYTE
                    /\ Tail(line) \o out = Rests(q)[0] \o y
                    /\ line \o out = (<<START_BYTE>> \o Rests(q)[0]) \o y
                    /\ Rests(q)[0] \in Seq(Octets)
<1>1. K < Len(sent)
  <2> SUFFICES ASSUME K = Len(sent) PROVE FALSE
    BY SenderFacts
  <2>1. Half \o (line \o out) = <<>>
    BY DEF Behind
  <2>2. Len(line) # 0 /\ Len(line) \in Nat /\ Len(out) \in Nat /\ Len(Half) \in Nat
    BY SenderFacts
  <2>3. /\ Len(Half \o (line \o out)) = Len(Half) + Len(line \o out)
        /\ Len(line \o out) = Len(line) + Len(out) /\ Len(<<>>) = 0
    <3> DEFINE way == line \o out
    <3>1. Len(way) = Len(line) + Len(out) /\ way \in Seq(Octets) /\ Half \in Seq(Octets)
      BY SenderFacts
    <3> HIDE DEF way
    <3>2. Len(Half \o way) = Len(Half) + Len(way)
      BY <3>1, ConcatProperties
    <3>3. Len(<<>>) = 0
      OBVIOUS
    <3> QED
      BY <3>1, <3>2, <3>3 DEF way
  <2> QED
    BY <2>1, <2>2, <2>3
<1>2. K + 1 \in K + 1 .. Len(sent) /\ K + 1 \in K .. Len(sent) /\ K + 1 \in 1 .. Len(sent)
      /\ (K + 1) - 1 = K
  BY <1>1, SenderFacts
<1>3. PICK q, y: q = sent[K + 1] /\ y = behind[K + 1]
  OBVIOUS
<1>4. q \in Payloads /\ y \in Seq(Octets)
  <2>1. q \in Payloads
    BY <1>2, <1>3, SenderFacts
  <2>2. y \in Seq(Octets)
    BY <1>2, <1>3 DEF Behind
  <2> QED
    BY <2>1, <2>2
<1>5. PICK D: Goes(D, K + 1, d) /\ behind[(K + 1) - 1] = D \o y
  BY <1>2, <1>3 DEF Behind
<1>6. behind[K] = Frame(q) \o y
  BY <1>2, <1>3, <1>5 DEF Goes
<1> DEFINE r == Rests(q)[0]
<1>7. Frame(q) = <<START_BYTE>> \o r /\ r \in Seq(Octets)
  <2>1. 0 \in 0 .. ContentLength(q) + 3
    BY <1>4, ContentBytes
  <2> QED
    BY <1>4, <2>1, FrameRests DEF Rest
<1> HIDE DEF r
<1>8. Half \o (line \o out) = (<<START_BYTE>> \o r) \o y
  BY <1>6, <1>7
<1>9. ~escape /\ Head(line) = START_BYTE /\ Tail(line) \o out = r \o y
  BY <1>4, <1>7, <1>8, StartIsNext
<1>10. line \o out = (<<START_BYTE>> \o r) \o y
  <2>1. Half = <<>>
    BY <1>9 DEF Half
  <2> QED
    BY <1>8, <2>1, SenderFacts, ConcatEmptySeq
<1> QED
  BY <1>1, <1>3, <1>4, <1>7, <1>9, <1>10 DEF r

\* When all of a damaged packet has been read, the next one has to come.
LEMMA PastEnd ==
    ASSUME LinkTypes, NEW K \in Nat, NEW d \in Nat, NEW behind,
           K < Len(sent), Behind(behind, K, d),
           NEW v, NEW rest, NEW sum, Read(v, rest, sum, K, d),
           Reads(v, rest, sum, behind[K + 1]), pos = Len(v) + 1
    PROVE  /\ K + 1 = d /\ Half \o (line \o out) = behind[K + 1]
           /\ Behind(behind, K + 1, d)
<1>1. Readable(v, rest, sum) /\ v \in Seq(Octets) /\ Len(v) \in Nat
  BY DEF Read, Readable
<1>2. Len(sent) \in Nat /\ sent \in Seq(Payloads) /\ K + 1 \in 1 .. Len(sent)
      /\ K + 1 \in K .. Len(sent)
  BY SenderFacts
<1>3. K + 1 = d
  <2> SUFFICES ASSUME K + 1 # d PROVE FALSE
    OBVIOUS
  <2>1. Whole(v, rest, sum, sent[K + 1]) /\ sent[K + 1] \in Payloads
    BY <1>2 DEF Read
  <2>2. Len(v) = v[2] + 3
    BY <2>1, GoodPacket
  <2>3. pos <= v[2] + 3
    BY DEF Reads
  <2> QED
    BY <1>1, <2>2, <2>3
<1>4. behind[K + 1] \in Seq(Octets)
  BY <1>2 DEF Behind
<1>5. Half \o (line \o out) = rest[Len(v)] \o behind[K + 1]
  <2>1. pos - 1 = Len(v)
    BY <1>1
  <2> QED
    BY <2>1 DEF Reads
<1>6. rest[Len(v)] = <<>>
  BY <1>1 DEF Readable, Encodes
<1>7. Half \o (line \o out) = behind[K + 1]
  BY <1>4, <1>5, <1>6, ConcatEmptySeq
<1>8. Behind(behind, K + 1, d)
  BY <1>2, BehindNext
<1> QED
  BY <1>3, <1>7, <1>8

-----------------------------------------------------------------------------
(* The steps that leave what is on its way as it is.                       *)

LEMMA StillSound ==
    ASSUME Sound, Noticed', UNCHANGED <<faults, weak>>
    PROVE  Quiet /\ OnItsWay
<1> QED
  BY DEF Sound, Noticed

LEMMA BetweenKept ==
    ASSUME NEW K, NEW d, NEW behind, Between(K, d, behind), (line \o out)' = line \o out,
           pos' = 0 \/ status' = "UNEXPECTED_START_BYTE"
    PROVE  Between(K, d, behind)'
<1> QED
  BY DEF Between

LEMMA WithinKept ==
    ASSUME NEW K, NEW d, NEW behind, Within(K, d, behind), (line \o out)' = line \o out,
           UNCHANGED <<sent, frameData, escape, pos, lsbLength, checksumTotal>>,
           status' = "none"
    PROVE  Within(K, d, behind)'
<1>1. PICK v, rest, sum: Read(v, rest, sum, K, d) /\ Reads(v, rest, sum, behind[K + 1])
  BY DEF Within
<1>2. PICK y: y = behind[K + 1]
  OBVIOUS
<1>3. Read(v, rest, sum, K, d)'
  BY <1>1 DEF Read
<1>4. Reads(v, rest, sum, y)'
  <2>1. Half' = Half
    BY DEF Half
  <2>2. Half' \o (line \o out)' = rest[pos' - 1] \o y
    BY <1>1, <1>2, <2>1 DEF Reads
  <2> QED
    BY <1>1, <1>2, <2>2 DEF Reads
<1> QED
  BY <1>2, <1>3, <1>4 DEF Within

LEMMA ToldKept ==
    ASSUME NEW K, NEW d, NEW behind, UNCHANGED <<sent, received>>
    PROVE  /\ Told(K, d) => Told(K, d)'
           /\ Behind(behind, K, d) => Behind(behind, K, d)'
           /\ UNCHANGED out /\ Unsent(behind, K) => Unsent(behind, K)'
<1> QED
  BY DEF Told, Behind, Unsent, Goes

\* A byte goes from the sender to the line.
LEMMA WriteSound ==
    ASSUME LinkTypes, Sound, Write
    PROVE  Sound'
<1> SUFFICES ASSUME Noticed' PROVE Quiet' /\ OnItsWay'
  BY DEF Sound
<1>1. /\ out # <<>> /\ line' = Append(line, Head(out)) /\ out' = Tail(out)
      /\ UNCHANGED <<receiver, sent, faults, weak>>
  BY DEF Write
<1>2. Quiet /\ OnItsWay
  BY <1>1, StillSound
<1>3. UNCHANGED <<reading, pos, escape, checksumTotal, lsbLength, frameData, status,
                  received>>
  BY <1>1 DEF receiver
<1>4. Quiet'
  BY <1>2, <1>3 DEF Quiet
<1> DEFINE h == Head(out)
           t == Tail(out)
<1>5. line \in Seq(Octets) /\ out \in Seq(Octets)
  BY SenderFacts
<1>6. /\ h \in Octets /\ t \in Seq(Octets) /\ out = <<h>> \o t
      /\ line' = line \o <<h>> /\ out' = t /\ <<h>> \in Seq(Octets)
  <2>1. h \in Octets /\ t \in Seq(Octets) /\ out = <<h>> \o t /\ Append(line, h) = line \o <<h>>
    BY <1>1, <1>5
  <2>2. line' = line \o <<h>> /\ out' = t
    BY <1>1, <2>1
  <2> HIDE DEF h, t
  <2>3. <<h>> \in Seq(Octets)
    BY <2>1
  <2> QED
    BY <2>1, <2>2, <2>3
<1> HIDE DEF h, t
<1>7. (line \o out)' = line \o out
  <2>1. (line \o <<h>>) \o t = line \o (<<h>> \o t)
    BY <1>5, <1>6, Together, Zenon
  <2> QED
    BY <1>6, <2>1
<1>8. PICK K, d, behind: At(K, d, behind)
  BY <1>2 DEF OnItsWay
<1>9. Unsent(behind, K) => Unsent(behind, K)'
  <2> SUFFICES ASSUME Unsent(behind, K), NEW k \in K .. Len(sent) - 1
               PROVE  \E g \in Seq(Octets): behind[k] = g \o t
    BY <1>1, <1>6 DEF Unsent
  <2>1. PICK g \in Seq(Octets): behind[k] = g \o out
    BY DEF Unsent
  <2>2. (g \o <<h>>) \o t = g \o (<<h>> \o t) /\ g \o <<h>> \in Seq(Octets)
    BY <1>6, Together, ConcatProperties
  <2> QED
    BY <1>6, <2>1, <2>2
<1>10. Between(K, d, behind) \/ Within(K, d, behind)
  BY <1>8 DEF At, Base
<1>11. (Between(K, d, behind) \/ Within(K, d, behind))'
  <2>1. CASE Between(K, d, behind)
    <3>1. pos' = 0 \/ status' = "UNEXPECTED_START_BYTE"
      BY <1>3, <2>1 DEF Between
    <3> QED
      BY <1>7, <2>1, <3>1, BetweenKept
  <2>2. CASE Within(K, d, behind)
    <3>1. status' = "none"
      BY <1>3, <2>2 DEF Within
    <3> QED
      BY <1>1, <1>3, <1>7, <2>2, <3>1, WithinKept
  <2> QED
    BY <1>10, <2>1, <2>2
<1>12. At(K, d, behind)'
  <2>1. Told(K, d)' /\ Behind(behind, K, d)'
    BY <1>1, <1>3, <1>8, ToldKept DEF At, Base
  <2> QED
    BY <1>1, <1>8, <1>9, <1>11, <2>1 DEF At, Base
<1> QED
  BY <1>4, <1>12 DEF OnItsWay

\* The receiver calls readPacket, or returns from it.
LEMMA CallSound ==
    ASSUME LinkTypes, Sound, Call \/ Return
    PROVE  Sound'
<1> SUFFICES ASSUME Noticed' PROVE Quiet' /\ OnItsWay'
  BY DEF Sound
<1>1. UNCHANGED <<sender, line, frameData, received, faults>>
  BY DEF Call, Return
<1>2. UNCHANGED <<out, sent, weak>>
  BY <1>1 DEF sender
<1>3. Quiet /\ OnItsWay
  BY <1>1, <1>2, StillSound
<1>4. PICK K, d, behind: At(K, d, behind)
  BY <1>3 DEF OnItsWay
<1>5. (line \o out)' = line \o out
  BY <1>1, <1>2
<1>6. CASE Return \/ (Call /\ status = "none")
  <2>1. UNCHANGED <<pos, escape, checksumTotal, lsbLength, status>>
    BY <1>6 DEF Return, Call
  <2>2. reading' => status' = "none"
    BY <1>6 DEF Return, Call
  <2>3. Quiet'
    BY <1>3, <2>1, <2>2 DEF Quiet
  <2>4. Between(K, d, behind) => Between(K, d, behind)'
    <3> SUFFICES ASSUME Between(K, d, behind) PROVE Between(K, d, behind)'
      OBVIOUS
    <3>1. pos' = 0 \/ status' = "UNEXPECTED_START_BYTE"
      BY <2>1 DEF Between
    <3> QED
      BY <1>5, <3>1, BetweenKept
  <2>5. Within(K, d, behind) => Within(K, d, behind)'
    <3> SUFFICES ASSUME Within(K, d, behind) PROVE Within(K, d, behind)'
      OBVIOUS
    <3>1. status' = "none"
      BY <2>1 DEF Within
    <3> QED
      BY <1>1, <1>2, <1>5, <2>1, <3>1, WithinKept
  <2>6. (Between(K, d, behind) \/ Within(K, d, behind))'
    BY <1>4, <2>4, <2>5 DEF At, Base
  <2>7. At(K, d, behind)'
    <3>1. Told(K, d)' /\ Behind(behind, K, d)' /\ (Unsent(behind, K) => Unsent(behind, K)')
      BY <1>1, <1>2, <1>4, ToldKept DEF At, Base
    <3> QED
      BY <1>1, <1>2, <1>4, <2>6, <3>1 DEF At, Base
  <2> QED
    BY <2>3, <2>7 DEF OnItsWay
<1>7. CASE Call /\ status # "none"
  <2>1. pos' = 0 /\ escape' = FALSE /\ checksumTotal' = 0 /\ status' = "none"
    BY <1>7 DEF Call
  <2>2. Quiet'
    BY <2>1 DEF Quiet
  <2>3. Between(K, d, behind)'
    <3>1. Between(K, d, behind)
      BY <1>4, <1>7 DEF At, Base, Within
    <3> QED
      BY <1>5, <2>1, <3>1, BetweenKept
  <2>4. At(K, d, behind)'
    <3>1. Told(K, d)' /\ Behind(behind, K, d)' /\ (Unsent(behind, K) => Unsent(behind, K)')
      BY <1>1, <1>2, <1>4, ToldKept DEF At, Base
    <3> QED
      BY <1>1, <1>2, <1>4, <2>3, <3>1 DEF At, Base
  <2> QED
    BY <2>2, <2>4 DEF OnItsWay
<1> QED
  BY <1>6, <1>7

\* A packet is sent: it comes after all that is on its way.
LEMMA SendSound ==
    ASSUME LinkTypes, Sound, Send
    PROVE  Sound'
<1> SUFFICES ASSUME Noticed' PROVE Quiet' /\ OnItsWay'
  BY DEF Sound
<1>1. out = <<>> /\ UNCHANGED <<line, receiver, faults, weak>>
  BY DEF Send
<1>2. PICK p \in Payloads: sent' = Append(sent, p) /\ out' = Frame(p)
  BY DEF Send
<1>3. Quiet /\ OnItsWay
  BY <1>1, StillSound
<1>4. UNCHANGED <<reading, pos, escape, checksumTotal, lsbLength, frameData, status,
                  received>>
  BY <1>1 DEF receiver
<1>5. Quiet'
  BY <1>3, <1>4 DEF Quiet
<1>6. PICK F: F = Frame(p) /\ F \in Seq(Octets)
  BY FrameRests
<1>7. PICK K, d, behind: At(K, d, behind)
  BY <1>3 DEF OnItsWay
<1>8. PICK M: M = Len(sent)
  OBVIOUS
<1>9. /\ K \in Nat /\ M \in Nat /\ d \in Nat /\ K <= M /\ d <= M
      /\ sent \in Seq(Payloads) /\ line \in Seq(Octets)
  BY <1>7, <1>8, SenderFacts DEF At, Base
<1>10. /\ Len(sent') = M + 1 /\ sent'[M + 1] = p
       /\ \A i \in 1 .. M: sent'[i] = sent[i]
  BY <1>2, <1>8, <1>9
<1>11. PICK after: after = [k \in K .. M + 1 |-> IF k = M + 1 THEN <<>> ELSE behind[k] \o F]
  OBVIOUS
<1>12. /\ \A k \in K .. M: behind[k] \in Seq(Octets)
       /\ behind[M] = <<>>
       /\ \A k \in K + 1 .. M: \E D: Goes(D, k, d) /\ behind[k - 1] = D \o behind[k]
  BY <1>7, <1>8 DEF At, Base, Behind
<1>13. ASSUME NEW k \in K .. M
       PROVE  after[k] = behind[k] \o F /\ after[k] \in Seq(Octets)
  <2>1. k # M + 1 /\ k \in K .. M + 1
    BY <1>9
  <2>2. after[k] = behind[k] \o F
    BY <1>11, <2>1
  <2>3. behind[k] \o F \in Seq(Octets)
    BY <1>6, <1>12, ConcatProperties
  <2> QED
    BY <2>2, <2>3
<1>14. after[M + 1] = <<>>
  BY <1>9, <1>11
<1>15. ASSUME NEW k \in K .. M + 1 PROVE after[k] \in Seq(Octets)
  <2>1. k = M + 1 \/ k \in K .. M
    BY <1>9
  <2>2. <<>> \in Seq(Octets)
    OBVIOUS
  <2> QED
    BY <1>13, <1>14, <2>1, <2>2
<1>16. ASSUME NEW k \in K + 1 .. M + 1
       PROVE  \E D: Goes(D, k, d)' /\ after[k - 1] = D \o after[k]
  <2>1. CASE k = M + 1
    <3>1. k - 1 = M /\ M \in K .. M /\ k # d
      BY <1>9, <2>1
    <3>2. after[k - 1] = <<>> \o F
      BY <1>12, <1>13, <3>1
    <3>3. <<>> \o F = F /\ F \o <<>> = F
      BY <1>6, ConcatEmptySeq
    <3>4. sent'[k] = p
      BY <1>10, <2>1
    <3>5. Goes(F, k, d)'
      BY <1>6, <3>1, <3>4 DEF Goes
    <3> QED
      BY <1>14, <2>1, <3>2, <3>3, <3>5
  <2>2. CASE k # M + 1
    <3>1. k \in K + 1 .. M /\ k \in K .. M /\ k - 1 \in K .. M /\ k \in 1 .. M
      BY <1>9, <2>2
    <3>2. PICK D: Goes(D, k, d) /\ behind[k - 1] = D \o behind[k]
      BY <1>12, <3>1
    <3>3. PICK g: g = behind[k]
      OBVIOUS
    <3>4. D \in Seq(Octets) /\ g \in Seq(Octets)
      BY <1>12, <3>1, <3>2, <3>3 DEF Goes
    <3>5. (D \o g) \o F = D \o (g \o F)
      BY <1>6, <3>4, Together, Zenon
    <3>6. after[k] = g \o F /\ after[k - 1] = behind[k - 1] \o F
      BY <1>13, <3>1, <3>3
    <3>7. Goes(D, k, d)'
      <4>1. sent'[k] = sent[k]
        BY <1>10, <3>1
      <4> QED
        BY <3>2, <4>1 DEF Goes
    <3> QED
      BY <3>2, <3>3, <3>5, <3>6, <3>7
  <2> QED
    BY <2>1, <2>2
<1>17. Behind(after, K, d)'
  BY <1>10, <1>14, <1>15, <1>16 DEF Behind
<1>18. Unsent(after, K)'
  <2>1. \A k \in K .. (M + 1) - 1: k \in K .. M
    BY <1>9
  <2>2. ASSUME NEW k \in K .. (M + 1) - 1 PROVE \E h \in Seq(Octets): after[k] = h \o F
    BY <1>12, <1>13, <2>1
  <2> QED
    BY <1>2, <1>6, <1>10, <2>2 DEF Unsent
<1>19. Told(K, d)'
  <2>1. received \in Seq(Seq(Octets)) /\ (d = 0 \/ K < d => K = Len(received))
        /\ K <= Len(received) + 2
    BY <1>7 DEF At, Base, Told
  <2>2. PICK index: /\ Picked(index, Len(received), K)
                    /\ \A i \in 1 .. Len(received): received[i] = Response(sent[index[i]])
    BY <1>7 DEF At, Base, Told
  <2>3. ASSUME NEW i \in 1 .. Len(received) PROVE received[i] = Response(sent'[index[i]])
    <3>1. index[i] \in 1 .. K
      BY <2>2 DEF Picked
    <3>2. index[i] \in 1 .. M
      BY <1>9, <3>1
    <3> QED
      BY <1>10, <2>2, <3>2
  <2> QED
    BY <1>4, <2>1, <2>2, <2>3 DEF Told
<1>20. (line \o out)' = (line \o out) \o F
  <2>1. line \o out = line
    BY <1>1, <1>9, ConcatEmptySeq
  <2> QED
    BY <1>1, <1>2, <1>6, <2>1
<1>21. Between(K, d, behind) => Between(K, d, after)'
  <2> SUFFICES ASSUME Between(K, d, behind) PROVE Between(K, d, after)'
    OBVIOUS
  <2>1. PICK g: /\ Startless(g) /\ line \o out = g \o behind[K]
                /\ g # <<>> => d # 0 /\ d <= K
    BY DEF Between
  <2>2. PICK y: y = behind[K] /\ y \in Seq(Octets) /\ after[K] = y \o F
    <3>1. K \in K .. M
      BY <1>9
    <3> QED
      BY <1>12, <1>13, <3>1
  <2>3. (g \o y) \o F = g \o (y \o F)
    <3>1. g \in Seq(Octets)
      BY <2>1 DEF Startless
    <3>2. y \in Seq(Octets) /\ F \in Seq(Octets)
      BY <1>6, <2>2
    <3> QED
      BY <3>1, <3>2, Together, Zenon
  <2>4. (line \o out)' = g \o after[K]
    BY <1>20, <2>1, <2>2, <2>3
  <2>5. pos' = 0 \/ status' = "UNEXPECTED_START_BYTE"
    BY <1>4 DEF Between
  <2> QED
    BY <2>1, <2>4, <2>5 DEF Between
<1>22. Within(K, d, behind) => Within(K, d, after)'
  <2> SUFFICES ASSUME Within(K, d, behind) PROVE Within(K, d, after)'
    OBVIOUS
  <2>1. PICK v, rest, sum: Read(v, rest, sum, K, d) /\ Reads(v, rest, sum, behind[K + 1])
    BY DEF Within
  <2>2. K < M /\ K + 1 \in K .. M /\ K + 1 \in 1 .. M
    BY <1>8, <1>9 DEF Within
  <2>3. PICK y: y = behind[K + 1] /\ y \in Seq(Octets) /\ after[K + 1] = y \o F
    BY <1>12, <1>13, <2>2
  <2>4. PICK x: x = rest[pos - 1] /\ x \in Seq(Octets)
    <3>1. v \in Seq(Octets) /\ Encodes(rest, v) /\ 1 <= pos /\ pos <= Len(v) + 1
      BY <2>1 DEF Read, Readable, Reads
    <3>2. pos - 1 \in 0 .. Len(v)
      BY <3>1, SenderFacts
    <3> QED
      BY <3>1, <3>2 DEF Encodes
  <2>5. PICK w: w = line \o out /\ w \in Seq(Octets)
    BY SenderFacts
  <2>6. Half' = Half /\ Half \in Seq(Octets)
    BY <1>4, SenderFacts DEF Half
  <2>7. Half \o w = x \o y
    BY <2>1, <2>3, <2>4, <2>5 DEF Reads
  <2>8. (Half \o w) \o F = Half \o (w \o F) /\ (x \o y) \o F = x \o (y \o F)
    <3>1. /\ Half \in Seq(Octets) /\ w \in Seq(Octets) /\ F \in Seq(Octets)
          /\ x \in Seq(Octets) /\ y \in Seq(Octets)
      BY <1>6, <2>3, <2>4, <2>5, <2>6
    <3>2. (Half \o w) \o F = Half \o (w \o F)
      BY <3>1, Together, Zenon
    <3>3. (x \o y) \o F = x \o (y \o F)
      BY <3>1, Together, Zenon
    <3> QED
      BY <3>2, <3>3
  <2>9. Half' \o (line \o out)' = rest[pos' - 1] \o after[K + 1]
    BY <1>4, <1>20, <2>3, <2>4, <2>5, <2>6, <2>7, <2>8
  <2>10. PICK z: z = after[K + 1]
    OBVIOUS
  <2>11. Reads(v, rest, sum, z)'
    BY <1>4, <2>1, <2>9, <2>10 DEF Reads
  <2>12. Read(v, rest, sum, K, d)'
    <3>1. sent'[K + 1] = sent[K + 1]
      BY <1>10, <2>2
    <3> QED
      BY <2>1, <3>1 DEF Read
  <2>13. pos' > 0 /\ status' = "none" /\ K < Len(sent')
    BY <1>4, <1>8, <1>9, <1>10, <2>2 DEF Within
  <2> QED
    BY <2>10, <2>11, <2>12, <2>13 DEF Within
<1>23. At(K, d, after)'
  <2>1. K <= Len(sent') /\ d <= Len(sent')
    BY <1>9, <1>10
  <2>2. d = 0 <=> faults' = 0
    BY <1>1, <1>7 DEF At, Base
  <2> QED
    BY <1>7, <1>9, <1>17, <1>18, <1>19, <1>21, <1>22, <2>1, <2>2 DEF At, Base
<1> QED
  BY <1>5, <1>23 DEF OnItsWay

-----------------------------------------------------------------------------
(* The steps that read.                                                    *)

LEMMA BaseKept ==
    ASSUME NEW K, NEW d, NEW behind, Base(K, d, behind),
           UNCHANGED <<sent, received, out, faults>>
    PROVE  Base(K, d, behind)'
<1>1. Told(K, d)' /\ Behind(behind, K, d)' /\ (Unsent(behind, K) => Unsent(behind, K)')
  BY ToldKept DEF Base
<1> QED
  BY <1>1 DEF Base

\* The damaged packet is over, or it and the next one.
LEMMA BaseLater ==
    ASSUME LinkTypes, NEW K, NEW d, NEW behind, Base(K, d, behind), K + 1 = d,
           NEW j \in {1, 2}, K + j <= Len(sent)
    PROVE  Base(K + j, d, behind)
<1>1. K \in Nat /\ d \in Nat /\ d # 0 /\ ~(K + j < d) /\ K + j \in Nat /\ K < d
  BY DEF Base
<1>2. Behind(behind, K + j, d)
  <2>1. Behind(behind, K + 1, d)
    BY <1>1, SenderFacts, BehindNext DEF Base
  <2>2. Behind(behind, (K + 1) + 1, d)
    BY <1>1, <2>1, SenderFacts, BehindNext
  <2> QED
    BY <1>1, <2>1, <2>2
<1>3. Told(K + j, d)
  <2>1. received \in Seq(Seq(Octets)) /\ K = Len(received)
    BY <1>1 DEF Base, Told
  <2>2. PICK index: /\ Picked(index, Len(received), K)
                    /\ \A i \in 1 .. Len(received): received[i] = Response(sent[index[i]])
    BY DEF Base, Told
  <2>3. Picked(index, Len(received), K + j)
    BY <1>1, <2>2 DEF Picked
  <2>4. K + j <= Len(received) + 2
    BY <1>1, <2>1
  <2> QED
    BY <1>1, <2>1, <2>2, <2>3, <2>4 DEF Told
<1> QED
  BY <1>1, <1>2, <1>3 DEF Base

\* A start byte is met inside a packet: the damaged one is lost, and with it the one
\* the start byte belongs to.
LEMMA StartSound ==
    ASSUME LinkTypes, Sound, UnexpectedStart
    PROVE  Sound'
<1> SUFFICES ASSUME Noticed' PROVE Quiet' /\ OnItsWay'
  BY DEF Sound
<1>1. /\ reading /\ line # <<>> /\ pos > 0 /\ Head(line) = START_BYTE
      /\ line' = Tail(line) /\ status' = "UNEXPECTED_START_BYTE" /\ reading' = FALSE
      /\ UNCHANGED <<sender, pos, escape, received, faults>>
  BY DEF UnexpectedStart
<1>2. UNCHANGED <<out, sent, weak>>
  BY <1>1 DEF sender
<1>3. Quiet /\ OnItsWay
  BY <1>1, <1>2, StillSound
<1>4. Quiet'
  BY <1>1, <1>3 DEF Quiet
<1>5. PICK K, d, behind: At(K, d, behind)
  BY <1>3 DEF OnItsWay
<1>6. K \in Nat /\ d \in Nat /\ Behind(behind, K, d) /\ Len(sent) \in Nat
  BY <1>5, SenderFacts DEF At, Base
<1>7. Within(K, d, behind)
  BY <1>1, <1>3, <1>5 DEF At, Between, Quiet
<1>8. PICK v, rest, sum: Read(v, rest, sum, K, d) /\ Reads(v, rest, sum, behind[K + 1])
  BY <1>7 DEF Within
<1>9. K < Len(sent)
  BY <1>7 DEF Within
<1>10. Readable(v, rest, sum) /\ behind[K + 1] \in Seq(Octets) /\ Len(v) \in Nat
  <2>1. K + 1 \in K .. Len(sent)
    BY <1>6, <1>9
  <2>2. behind[K + 1] \in Seq(Octets)
    BY <1>6, <2>1 DEF Behind
  <2>3. Readable(v, rest, sum) /\ v \in Seq(Octets)
    BY <1>8 DEF Read, Readable
  <2> QED
    BY <2>2, <2>3
<1>11. pos = Len(v) + 1
  <2>1. pos <= Len(v) + 1 /\ pos \in Nat
    BY <1>8, SenderFacts DEF Reads
  <2>2. ~(pos <= Len(v))
    BY <1>1, <1>8, <1>10, DueByte
  <2> QED
    BY <1>10, <2>1, <2>2
<1>12. /\ K + 1 = d /\ Half \o (line \o out) = behind[K + 1]
       /\ Behind(behind, K + 1, d)
  BY <1>1, <1>6, <1>8, <1>9, <1>11, PastEnd
<1>13. K + 1 \in Nat /\ K + 1 <= Len(sent) /\ (K + 1) + 1 # d /\ (K + 1) + 1 = K + 2
  BY <1>6, <1>9, <1>12
<1>14. PICK q, y: /\ K + 1 < Len(sent) /\ y = behind[(K + 1) + 1] /\ q \in Payloads
                  /\ Tail(line) \o out = Rests(q)[0] \o y
  <2>1. PICK J: J = K + 1
    OBVIOUS
  <2>2. /\ J \in Nat /\ J <= Len(sent) /\ J + 1 # d /\ Behind(behind, J, d)
        /\ Half \o (line \o out) = behind[J]
    BY <1>12, <1>13, <2>1
  <2>3. line # <<>> /\ d \in Nat
    BY <1>1, <1>6
  <2>4. PICK q, y: /\ J < Len(sent) /\ q = sent[J + 1] /\ y = behind[J + 1]
                   /\ q \in Payloads /\ y \in Seq(Octets)
                   /\ ~escape /\ Head(line) = START_BYTE
                   /\ Tail(line) \o out = Rests(q)[0] \o y
                   /\ line \o out = (<<START_BYTE>> \o Rests(q)[0]) \o y
                   /\ Rests(q)[0] \in Seq(Octets)
    BY <2>2, <2>3, NextPacket
  <2> QED
    BY <2>1, <2>4
<1>15. Between(K + 2, d, behind)'
  <2>1. Startless(Rests(q)[0])
    <3>1. Unescaped(q) \in Seq(Octets) /\ Encodes(Rests(q), Unescaped(q))
      BY <1>14, UnescapedBytes, FrameRests
    <3>2. 0 \in 0 .. Len(Unescaped(q))
      BY <3>1
    <3> QED
      BY <3>1, <3>2, EncodedStartless
  <2>2. (line \o out)' = Rests(q)[0] \o behind[K + 2]
    BY <1>1, <1>2, <1>13, <1>14
  <2>3. d # 0 /\ d <= K + 2
    BY <1>6, <1>12
  <2> QED
    BY <1>1, <2>1, <2>2, <2>3 DEF Between
<1>16. Base(K + 2, d, behind)'
  <2>1. Base(K + 2, d, behind)
    <3>1. K + 2 <= Len(sent)
      BY <1>6, <1>13, <1>14
    <3> QED
      BY <1>5, <1>12, <3>1, BaseLater DEF At
  <2> QED
    BY <1>1, <1>2, <2>1, BaseKept
<1>17. At(K + 2, d, behind)'
  BY <1>15, <1>16 DEF At
<1> QED
  BY <1>4, <1>17 DEF OnItsWay

\* A call ends between the two halves of an escape sequence.
LEMMA EscapeSound ==
    ASSUME LinkTypes, Sound, EscapeAlone
    PROVE  Sound'
<1> SUFFICES ASSUME Noticed' PROVE Quiet' /\ OnItsWay'
  BY DEF Sound
<1>1. /\ reading /\ Len(line) = 1 /\ pos > 0 /\ Head(line) = ESCAPE
      /\ line' = <<>> /\ escape' = TRUE
      /\ UNCHANGED <<sender, reading, pos, checksumTotal, lsbLength, frameData, status,
                     received, faults>>
  BY DEF EscapeAlone
<1>2. UNCHANGED <<out, sent, weak>>
  BY <1>1 DEF sender
<1>3. Quiet /\ OnItsWay
  BY <1>1, <1>2, StillSound
<1>4. line # <<>>
  <2>1. Len(<<>>) = 0
    OBVIOUS
  <2> QED
    BY <1>1, <2>1
<1>5. Quiet'
  BY <1>1, <1>3 DEF Quiet
<1>6. PICK K, d, behind: At(K, d, behind)
  BY <1>3 DEF OnItsWay
<1>7. K \in Nat /\ d \in Nat /\ Behind(behind, K, d) /\ Len(sent) \in Nat
  BY <1>6, SenderFacts DEF At, Base
<1>8. Within(K, d, behind)
  BY <1>1, <1>3, <1>6 DEF At, Between, Quiet
<1>9. PICK v, rest, sum: Read(v, rest, sum, K, d) /\ Reads(v, rest, sum, behind[K + 1])
  BY <1>8 DEF Within
<1>10. K < Len(sent) /\ status = "none"
  BY <1>8 DEF Within
<1>11. Readable(v, rest, sum) /\ behind[K + 1] \in Seq(Octets) /\ Len(v) \in Nat
  <2>1. K + 1 \in K .. Len(sent)
    BY <1>7, <1>10
  <2>2. behind[K + 1] \in Seq(Octets)
    BY <1>7, <2>1 DEF Behind
  <2>3. Readable(v, rest, sum) /\ v \in Seq(Octets)
    BY <1>9 DEF Read, Readable
  <2> QED
    BY <2>2, <2>3
<1>12. pos <= Len(v)
  <2>1. pos <= Len(v) + 1 /\ pos \in Nat
    BY <1>9, SenderFacts DEF Reads
  <2>2. pos # Len(v) + 1
    <3> SUFFICES ASSUME pos = Len(v) + 1 PROVE FALSE
      OBVIOUS
    <3>1. /\ K + 1 = d /\ Half \o (line \o out) = behind[K + 1]
          /\ Behind(behind, K + 1, d)
      BY <1>4, <1>7, <1>9, <1>10, PastEnd
    <3>2. K + 1 \in Nat /\ K + 1 <= Len(sent) /\ (K + 1) + 1 # d
      BY <1>7, <1>10, <3>1
    <3>3. Head(line) = START_BYTE
      BY <1>4, <1>7, <3>1, <3>2, NextPacket
    <3> QED
      BY <1>1, <3>3, SenderFacts
  <2> QED
    BY <1>11, <2>1, <2>2
<1>13. ~escape
  BY <1>1, <1>4, <1>9, <1>11, <1>12, DueByte
<1>14. Half' \o (line \o out)' = Half \o (line \o out)
  <2>1. line \in Seq(Octets) /\ out \in Seq(Octets) /\ line \o out \in Seq(Octets)
    BY SenderFacts
  <2>2. line = <<ESCAPE>>
    BY <1>1, <2>1
  <2>3. Half = <<>> /\ Half' = <<ESCAPE>>
    BY <1>1, <1>13 DEF Half
  <2>4. (line \o out)' = out
    BY <1>1, <1>2, <2>1, ConcatEmptySeq
  <2>5. Half \o (line \o out) = line \o out
    BY <2>1, <2>3, ConcatEmptySeq
  <2> QED
    BY <2>2, <2>3, <2>4, <2>5
<1>15. PICK y: y = behind[K + 1]
  OBVIOUS
<1>16. Reads(v, rest, sum, y)'
  <2>1. Half' \o (line \o out)' = rest[pos' - 1] \o y
    BY <1>1, <1>9, <1>14, <1>15 DEF Reads
  <2> QED
    BY <1>1, <1>9, <1>15, <2>1 DEF Reads
<1>17. Within(K, d, behind)'
  <2>1. Read(v, rest, sum, K, d)'
    BY <1>2, <1>9 DEF Read
  <2> QED
    BY <1>1, <1>2, <1>10, <1>15, <1>16, <2>1 DEF Within
<1>18. At(K, d, behind)'
  BY <1>1, <1>2, <1>6, <1>17, BaseKept DEF At
<1> QED
  BY <1>5, <1>18 DEF OnItsWay

\* Between the packets, a byte that is no start byte is read over.
LEMMA Skips ==
    ASSUME LinkTypes, Quiet, Take, pos = 0, NEW g, NEW y \in Seq(Octets),
           Startless(g), g # <<>>, line \o out = g \o y
    PROVE  /\ pos' = 0 /\ Quiet' /\ (line \o out)' = Tail(g) \o y /\ Startless(Tail(g))
           /\ UNCHANGED <<sender, received, faults>>
<1>1. /\ reading /\ line # <<>> /\ line' = Tail(line)
      /\ escape' = FALSE /\ checksumTotal' = Total /\ Digest(Taken, Total)
      /\ UNCHANGED <<sender, faults>>
  BY TakeFacts
<1>2. g \in Seq(Octets)
  BY DEF Startless
<1> DEFINE h == Head(g)
           t == Tail(g)
<1>3. h \in Octets /\ t \in Seq(Octets) /\ g = <<h>> \o t /\ h # START_BYTE
  <2>1. h \in Octets /\ t \in Seq(Octets) /\ g = <<h>> \o t
    BY <1>2
  <2>2. 1 \in 1 .. Len(g) /\ h = g[1]
    BY <1>2
  <2>3. h # START_BYTE
    BY <2>2 DEF Startless
  <2> QED
    BY <2>1, <2>3
<1>4. Startless(t)
  <2>1. ASSUME NEW i \in 1 .. Len(t) PROVE t[i] # START_BYTE
    <3>1. t[i] = g[i + 1] /\ i + 1 \in 1 .. Len(g)
      BY <1>2
    <3> QED
      BY <3>1 DEF Startless
  <2> QED
    BY <1>3, <2>1 DEF Startless
<1> HIDE DEF h, t
<1>5. Head(line) = h /\ Tail(line) \o out = t \o y
  <2> DEFINE x == t \o y
  <2>1. <<h>> \in Seq(Octets) /\ x \in Seq(Octets)
    BY <1>3, ConcatProperties
  <2>2. (<<h>> \o t) \o y = <<h>> \o (t \o y)
    BY <1>3, <2>1, Together, Zenon
  <2>3. Begins(line, out, h, x)
    BY <1>3, <2>2 DEF Begins
  <2> HIDE DEF x
  <2>4. Head(line) = h /\ Tail(line) \o out = x
    BY <1>1, <1>3, <2>1, <2>3, SenderFacts, FirstOf
  <2> QED
    BY <2>4 DEF x
<1>6. ~escape /\ status = "none" /\ checksumTotal = 0
  BY <1>1 DEF Quiet
<1>7. Taken = h /\ Total = 0
  BY <1>5, <1>6 DEF Taken, TakenRaw, Total
<1>8. pos' = 0 /\ UNCHANGED <<reading, status, received>>
  <2>1. /\ pos' = IF Taken = START_BYTE THEN 1 ELSE 0
        /\ UNCHANGED <<reading, msbLength, lsbLength, frameData, status, received>>
    BY <1>1, DigestCases DEF LinkTypes, ReaderTypes
  <2> QED
    BY <1>3, <1>7, <2>1
<1>9. Quiet'
  BY <1>1, <1>6, <1>7, <1>8 DEF Quiet
<1>10. (line \o out)' = t \o y
  BY <1>1, <1>5 DEF sender
<1> QED
  BY <1>1, <1>4, <1>8, <1>9, <1>10 DEF t

\* The start byte of something readable is read.
LEMMA Enters ==
    ASSUME LinkTypes, Quiet, Take, pos = 0, NEW v, NEW rest, NEW sum, NEW y \in Seq(Octets),
           Readable(v, rest, sum), line \o out = (<<START_BYTE>> \o rest[0]) \o y
    PROVE  /\ pos' = 1 /\ status' = "none" /\ Quiet' /\ Reads(v, rest, sum, y)'
           /\ UNCHANGED <<sender, received, faults>>
<1>1. /\ reading /\ line # <<>> /\ line' = Tail(line)
      /\ escape' = FALSE /\ checksumTotal' = Total /\ Digest(Taken, Total)
      /\ UNCHANGED <<sender, faults>>
  BY TakeFacts
<1>2. ~escape /\ status = "none" /\ checksumTotal = 0
  BY <1>1 DEF Quiet
<1> DEFINE r == rest[0]
<1>3. r \in Seq(Octets) /\ Len(v) \in Nat /\ 2 <= Len(v) /\ 14 <= v[2]
  <2>1. v \in Seq(Octets) /\ Encodes(rest, v) /\ 2 <= Len(v) /\ 14 <= v[2]
    BY DEF Readable
  <2>2. 0 \in 0 .. Len(v)
    BY <2>1
  <2> QED
    BY <2>1, <2>2 DEF Encodes
<1> HIDE DEF r
<1>4. Half \o (line \o out) = (<<START_BYTE>> \o r) \o y
  <2>1. Half = <<>>
    BY <1>2 DEF Half
  <2> QED
    BY <2>1, SenderFacts, ConcatEmptySeq DEF r
<1>5. Head(line) = START_BYTE /\ Tail(line) \o out = r \o y /\ r \o y \in Seq(Octets)
  BY <1>1, <1>3, <1>4, StartIsNext
<1>6. Taken = START_BYTE /\ Total = 0
  BY <1>2, <1>5 DEF Taken, TakenRaw, Total
<1>7. pos' = 1 /\ UNCHANGED <<reading, status, received>>
  <2>1. /\ pos' = IF Taken = START_BYTE THEN 1 ELSE 0
        /\ UNCHANGED <<reading, msbLength, lsbLength, frameData, status, received>>
    BY <1>1, DigestCases DEF LinkTypes, ReaderTypes
  <2> QED
    BY <1>6, <2>1
<1>8. Quiet'
  BY <1>1, <1>2, <1>6, <1>7 DEF Quiet
<1>9. Half' \o (line \o out)' = r \o y
  <2>1. Half' = <<>> /\ (line \o out)' = r \o y
    BY <1>1, <1>5 DEF Half, sender
  <2> QED
    BY <1>5, <2>1, ConcatEmptySeq
<1>10. Reads(v, rest, sum, y)'
  <2>1. Half' \o (line \o out)' = rest[pos' - 1] \o y
    BY <1>7, <1>9 DEF r
  <2>2. /\ 1 <= pos' /\ pos' <= Len(v) + 1 /\ pos' <= v[2] + 3
        /\ ~(pos' >= 3) /\ ~(pos' >= 4)
    <3>1. v[2] \in Octets
      BY <1>3 DEF Readable
    <3>2. v[2] \in Nat
      BY <3>1, OctetRange
    <3> QED
      BY <1>3, <1>7, <3>2
  <2> QED
    BY <2>1, <2>2 DEF Reads
<1> QED
  BY <1>1, <1>2, <1>7, <1>8, <1>10

\* The start byte of a packet as it was sent.
LEMMA EntersNext ==
    ASSUME LinkTypes, Quiet, Take, pos = 0, NEW K \in Nat, NEW d \in Nat, NEW behind,
           K <= Len(sent), Behind(behind, K, d), K + 1 # d, line \o out = behind[K]
    PROVE  Quiet' /\ Within(K, d, behind)' /\ UNCHANGED <<sender, received, faults>>
<1>1. line # <<>> /\ Half = <<>>
  BY TakeFacts DEF Quiet, Half
<1>2. Half \o (line \o out) = behind[K]
  BY <1>1, SenderFacts, ConcatEmptySeq
<1>3. PICK q, y: /\ K < Len(sent) /\ q = sent[K + 1] /\ y = behind[K + 1]
                 /\ q \in Payloads /\ y \in Seq(Octets)
                 /\ line \o out = (<<START_BYTE>> \o Rests(q)[0]) \o y
  BY <1>1, <1>2, NextPacket
<1>4. PICK v, rest, sum: Whole(v, rest, sum, q)
  BY DEF Whole
<1>5. Readable(v, rest, sum) /\ rest = Rests(q)
  BY <1>3, <1>4, GoodPacket DEF Whole
<1>6. /\ pos' = 1 /\ status' = "none" /\ Quiet' /\ Reads(v, rest, sum, y)'
      /\ UNCHANGED <<sender, received, faults>>
  BY <1>3, <1>5, Enters
<1>7. sent' = sent
  BY <1>6 DEF sender
<1>8. Read(v, rest, sum, K, d)'
  BY <1>3, <1>4, <1>5, <1>7 DEF Read
<1>9. Within(K, d, behind)'
  BY <1>3, <1>6, <1>7, <1>8 DEF Within
<1> QED
  BY <1>6, <1>9

\* A byte between the packets.
LEMMA TakeBetween ==
    ASSUME LinkTypes, Quiet, Take, pos = 0, NEW K, NEW d, NEW behind,
           Base(K, d, behind), Between(K, d, behind)
    PROVE  Quiet' /\ OnItsWay' /\ UNCHANGED <<sender, received, faults>>
<1>1. line # <<>> /\ Half = <<>>
  BY TakeFacts DEF Quiet, Half
<1>2. PICK g: /\ Startless(g) /\ line \o out = g \o behind[K]
              /\ g # <<>> => d # 0 /\ d <= K
  BY DEF Between
<1>3. /\ K \in Nat /\ d \in Nat /\ K <= Len(sent) /\ d <= Len(sent)
      /\ Behind(behind, K, d) /\ Len(sent) \in Nat
  BY SenderFacts DEF Base
<1>4. behind[K] \in Seq(Octets)
  <2>1. K \in K .. Len(sent)
    BY <1>3
  <2> QED
    BY <1>3, <2>1 DEF Behind
\* The end of a lost packet is gone, but for its first byte.
<1>5. ASSUME NEW J, NEW x, Base(J, d, behind), behind[J] \in Seq(Octets), Startless(x),
             x # <<>>, line \o out = x \o behind[J], d # 0, d <= J
      PROVE  Quiet' /\ OnItsWay' /\ UNCHANGED <<sender, received, faults>>
  <2>1. PICK y: y = behind[J]
    OBVIOUS
  <2>2. /\ pos' = 0 /\ Quiet' /\ (line \o out)' = Tail(x) \o y /\ Startless(Tail(x))
        /\ UNCHANGED <<sender, received, faults>>
    BY <1>5, <2>1, Skips
  <2>3. Base(J, d, behind)'
    BY <1>5, <2>2, BaseKept DEF sender
  <2>4. Between(J, d, behind)'
    BY <1>5, <2>1, <2>2 DEF Between
  <2> QED
    BY <2>2, <2>3, <2>4 DEF OnItsWay, At
\* A packet as it was sent begins.
<1>6. ASSUME NEW J, Base(J, d, behind), line \o out = behind[J], J + 1 # d
      PROVE  Quiet' /\ OnItsWay' /\ UNCHANGED <<sender, received, faults>>
  <2>1. J \in Nat /\ J <= Len(sent) /\ Behind(behind, J, d)
    BY <1>6 DEF Base
  <2>2. Quiet' /\ Within(J, d, behind)' /\ UNCHANGED <<sender, received, faults>>
    BY <1>3, <1>6, <2>1, EntersNext
  <2>3. Base(J, d, behind)'
    BY <1>6, <2>2, BaseKept DEF sender
  <2> QED
    BY <2>2, <2>3 DEF OnItsWay, At
<1>7. CASE g # <<>>
  BY <1>2, <1>4, <1>5, <1>7
<1>8. CASE g = <<>>
  <2>1. line \o out = behind[K]
    BY <1>2, <1>4, <1>8, ConcatEmptySeq
  <2>2. CASE K + 1 # d
    BY <1>6, <2>1, <2>2
  <2>3. CASE K + 1 = d
    <3>1. /\ K + 1 \in K .. Len(sent) /\ K + 1 \in K + 1 .. Len(sent)
          /\ (K + 1) - 1 = K /\ (K + 1) + 1 # d /\ K + 1 <= Len(sent)
      BY <1>3, <2>3
    <3>2. PICK D: Goes(D, K + 1, d) /\ behind[(K + 1) - 1] = D \o behind[K + 1]
      BY <1>3, <3>1 DEF Behind
    <3>3. D \in Seq(Octets) /\ Damaged(D) /\ behind[K] = D \o behind[K + 1]
      BY <2>3, <3>1, <3>2 DEF Goes
    <3>4. PICK y: y = behind[K + 1] /\ y \in Seq(Octets)
      BY <1>3, <3>1 DEF Behind
    <3>5. Base(K + 1, d, behind)
      BY <2>3, <3>1, BaseLater
    <3>6. CASE Startless(D) /\ D # <<>>
      <4>1. PICK J: J = K + 1
        OBVIOUS
      <4>2. /\ Base(J, d, behind) /\ behind[J] \in Seq(Octets)
            /\ line \o out = D \o behind[J] /\ d # 0 /\ d <= J
        BY <1>3, <2>1, <2>3, <3>3, <3>4, <3>5, <4>1
      <4> QED
        BY <1>5, <3>6, <4>2
    <3>7. CASE D = <<>>
      <4>1. line \o out = behind[K + 1]
        BY <2>1, <3>3, <3>4, <3>7, ConcatEmptySeq
      <4> QED
        BY <1>6, <3>1, <3>5, <4>1
    <3>8. CASE ~Startless(D)
      <4>1. PICK v, rest, sum: /\ Readable(v, rest, sum) /\ Spoilt(v, sum)
                               /\ D = <<START_BYTE>> \o rest[0]
        BY <3>3, <3>8 DEF Damaged
      <4>2. /\ pos' = 1 /\ status' = "none" /\ Quiet' /\ Reads(v, rest, sum, y)'
            /\ UNCHANGED <<sender, received, faults>>
        BY <2>1, <3>3, <3>4, <4>1, Enters
      <4>3. sent' = sent
        BY <4>2 DEF sender
      <4>4. Within(K, d, behind)'
        <5>1. Read(v, rest, sum, K, d)'
          BY <2>3, <4>1 DEF Read
        <5>2. K < Len(sent')
          BY <1>3, <3>1, <4>3
        <5> QED
          BY <3>4, <4>2, <5>1, <5>2 DEF Within
      <4>5. Base(K, d, behind)'
        BY <4>2, BaseKept DEF sender
      <4> QED
        BY <4>2, <4>4, <4>5 DEF OnItsWay, At
    <3> QED
      BY <3>6, <3>7, <3>8
  <2> QED
    BY <2>2, <2>3
<1> QED
  BY <1>7, <1>8

\* Inside a packet.
Takes(v, rest, y) ==
    /\ pos \in 1 .. Len(v)
    /\ Taken = v[pos] /\ Taken \in Octets
    /\ Half' = <<>> /\ (line \o out)' = rest[pos] \o y /\ rest[pos] \o y \in Seq(Octets)
    /\ escape' = FALSE /\ checksumTotal' = Total /\ Digest(Taken, Total)
    /\ UNCHANGED <<sender, faults>>
    /\ status = "none" /\ (pos <= 3 => checksumTotal = 0)
    /\ reading

LEMMA TakesNext ==
    ASSUME LinkTypes, Quiet, Take, pos > 0, NEW v, NEW rest, NEW sum, NEW y \in Seq(Octets),
           Readable(v, rest, sum), Reads(v, rest, sum, y), pos <= Len(v)
    PROVE  Takes(v, rest, y)
<1>1. /\ reading /\ line # <<>> /\ ~(Head(line) = ESCAPE /\ Len(line) = 1)
      /\ line' = IF Head(line) = ESCAPE THEN Tail(Tail(line)) ELSE Tail(line)
      /\ escape' = FALSE
      /\ out' = out
  BY DEF Take, sender
<1> DEFINE x == rest[pos] \o y
<1>2. /\ v[pos] \in Octets
      /\ Taken = v[pos]
      /\ (IF Head(line) = ESCAPE THEN Tail(Tail(line)) ELSE Tail(line)) \o out = x
      /\ x \in Seq(Octets)
  BY <1>1, DueByte
<1>3. (line \o out)' = x
  BY <1>1, <1>2
<1>4. Half' = <<>>
  BY <1>1 DEF Half
<1>5. status = "none" /\ (pos <= 3 => checksumTotal = 0)
  BY <1>1 DEF Quiet
<1>6. pos \in 1 .. Len(v)
  <2>1. v \in Seq(Octets)
    BY DEF Readable
  <2> QED
    BY <2>1, SenderFacts
<1>7. checksumTotal' = Total /\ Digest(Taken, Total) /\ UNCHANGED <<sender, faults>>
  BY TakeFacts
<1> QED
  BY <1>1, <1>2, <1>3, <1>4, <1>5, <1>6, <1>7 DEF Takes

\* The numbers in front of the content are read: its length, and the API id.
LEMMA TakeHead ==
    ASSUME LinkTypes, pos \in {1, 2, 3}, NEW v, NEW rest, NEW sum, NEW y \in Seq(Octets),
           Readable(v, rest, sum), Reads(v, rest, sum, y), Takes(v, rest, y)
    PROVE  /\ pos' = pos + 1 /\ Reads(v, rest, sum, y)'
           /\ UNCHANGED <<reading, status, received>>
<1>1. /\ checksumTotal' = Total /\ Digest(Taken, Total) /\ Taken = v[pos]
      /\ checksumTotal = 0 /\ pos <= Len(v)
  BY DEF Takes
<1>2. pos \in Positions /\ lsbLength \in Octets
  BY DEF LinkTypes, ReaderTypes
<1>3. /\ Len(v) \in Nat /\ 2 <= Len(v) /\ v[2] \in Nat /\ 14 <= v[2]
      /\ Summed(sum, v) /\ sum[2] = 0
  <2>1. v \in Seq(Octets) /\ 2 <= Len(v) /\ 14 <= v[2] /\ Summed(sum, v)
    BY DEF Readable
  <2>2. v[2] \in Octets
    BY <2>1
  <2> QED
    BY <2>1, <2>2, OctetRange DEF Summed
<1>4. Half' \o (line \o out)' = rest[pos] \o y
  BY ConcatEmptySeq DEF Takes
<1>5. CASE pos = 1
  <2>1. /\ pos' = 2 /\ UNCHANGED <<reading, lsbLength, frameData, status, received>>
    BY <1>1, <1>2, <1>5, DigestCases
  <2>2. Half' \o (line \o out)' = rest[pos' - 1] \o y
    BY <1>4, <1>5, <2>1
  <2>3. 1 <= pos' /\ pos' <= Len(v) + 1 /\ pos' <= v[2] + 3 /\ ~(pos' >= 3) /\ ~(pos' >= 4)
    BY <1>3, <2>1
  <2>4. Reads(v, rest, sum, y)'
    BY <2>2, <2>3 DEF Reads
  <2> QED
    BY <1>5, <2>1, <2>4
<1>6. CASE pos = 2
  <2>1. /\ lsbLength' = Taken /\ pos' = 3
        /\ UNCHANGED <<reading, frameData, status, received>>
    BY <1>1, <1>2, <1>6, DigestCases
  <2>2. Half' \o (line \o out)' = rest[pos' - 1] \o y
    BY <1>4, <1>6, <2>1
  <2>3. 1 <= pos' /\ pos' <= Len(v) + 1 /\ pos' <= v[2] + 3 /\ ~(pos' >= 4)
    BY <1>1, <1>3, <1>6, <2>1
  <2>4. lsbLength' = v[2] /\ checksumTotal' = sum[pos' - 1]
    <3>1. Total = 0 /\ pos' - 1 = 2
      BY <1>1, <1>6, <2>1 DEF Total
    <3> QED
      BY <1>1, <1>3, <1>6, <2>1, <3>1
  <2>5. Reads(v, rest, sum, y)'
    BY <2>2, <2>3, <2>4 DEF Reads
  <2> QED
    BY <1>6, <2>1, <2>5
<1>7. CASE pos = 3
  <2>1. /\ pos' = 4 /\ UNCHANGED <<reading, lsbLength, status, received>>
    BY <1>1, <1>2, <1>7, DigestCases
  <2>2. Half' \o (line \o out)' = rest[pos' - 1] \o y
    BY <1>4, <1>7, <2>1
  <2>3. 1 <= pos' /\ pos' <= Len(v) + 1 /\ pos' <= v[2] + 3 /\ 1 .. pos' - 4 = {}
    BY <1>1, <1>3, <1>7, <2>1
  <2>4. lsbLength' = v[2] /\ checksumTotal' = sum[pos' - 1]
    <3>1. lsbLength = v[2]
      BY <1>7 DEF Reads
    <3>2. 3 \in 3 .. Len(v) /\ 3 - 1 = 2 /\ pos' - 1 = 3
      BY <1>1, <1>3, <1>7, <2>1
    <3>3. sum[3] = (sum[3 - 1] + v[3]) % 256
      BY <1>3, <3>2 DEF Summed
    <3>4. Total = (0 + v[3]) % 256
      BY <1>1, <1>7 DEF Total
    <3> QED
      BY <1>1, <1>3, <2>1, <3>1, <3>2, <3>3, <3>4
  <2>5. Reads(v, rest, sum, y)'
    BY <2>2, <2>3, <2>4 DEF Reads
  <2> QED
    BY <1>7, <2>1, <2>5
<1> QED
  BY <1>5, <1>6, <1>7

\* The sum with a byte of the content, or with the checksum.
LEMMA SumGoesOn ==
    ASSUME LinkTypes, pos >= 4, NEW v, NEW rest, NEW sum, NEW y,
           Readable(v, rest, sum), Reads(v, rest, sum, y), Takes(v, rest, y)
    PROVE  Total = sum[pos]
<1>1. checksumTotal = sum[pos - 1] /\ pos \in Nat /\ pos >= 3
  BY SenderFacts DEF Reads
<1>2. pos \in 3 .. Len(v)
  BY <1>1 DEF Takes
<1>3. sum[pos] = (sum[pos - 1] + v[pos]) % 256
  BY <1>2 DEF Readable, Summed
<1>4. Total = (checksumTotal + v[pos]) % 256
  BY <1>1 DEF Total, Takes
<1> QED
  BY <1>1, <1>3, <1>4

\* A byte of the frame data is read.
LEMMA TakeData ==
    ASSUME LinkTypes, NEW v, NEW rest, NEW sum, NEW y \in Seq(Octets),
           Readable(v, rest, sum), Reads(v, rest, sum, y), Takes(v, rest, y),
           pos >= 4, pos # v[2] + 3
    PROVE  /\ pos' = pos + 1 /\ Reads(v, rest, sum, y)'
           /\ UNCHANGED <<reading, status, received>>
<1>1. /\ checksumTotal' = Total /\ Digest(Taken, Total) /\ Taken = v[pos]
      /\ pos \in 1 .. Len(v)
  BY DEF Takes
<1>2. pos \in Positions /\ lsbLength \in Octets /\ pos \in Nat
  BY SenderFacts DEF LinkTypes, ReaderTypes
<1>3. Len(v) \in Nat /\ v[2] \in Nat /\ v[2] <= 104 /\ 14 <= v[2]
  <2>1. v \in Seq(Octets) /\ 2 <= Len(v) /\ 14 <= v[2] /\ v[2] <= 104
    BY DEF Readable
  <2>2. v[2] \in Octets
    BY <2>1
  <2> QED
    BY <2>1, <2>2, OctetRange
<1>4. Half' \o (line \o out)' = rest[pos] \o y
  BY ConcatEmptySeq DEF Takes
<1>5. /\ lsbLength = v[2] /\ pos <= v[2] + 3
      /\ \A i \in 1 .. pos - 4: frameData[i] = v[i + 3]
  <2>1. pos >= 3
    BY <1>2
  <2> QED
    BY <2>1 DEF Reads
<1>6. Total = sum[pos]
  BY SumGoesOn
<1>7. /\ frameData' = Append(frameData, Taken) /\ pos' = pos + 1
      /\ UNCHANGED <<reading, lsbLength, status, received>>
  <2>1. 4 <= pos /\ pos <= 110 /\ pos # lsbLength + 3
    <3>1. lsbLength = v[2] /\ pos <= v[2] + 3
      BY <1>5
    <3>2. pos <= 107
      BY <1>2, <1>3, <3>1
    <3> QED
      BY <1>2, <3>1, <3>2
  <2>2. pos \in Positions /\ lsbLength \in Octets /\ Digest(Taken, Total)
    BY <1>1, <1>2
  <2> QED
    BY <2>1, <2>2, DigestCases
<1>8. Half' \o (line \o out)' = rest[pos' - 1] \o y
  <2>1. pos' - 1 = pos
    BY <1>2, <1>7
  <2> QED
    BY <1>4, <2>1
<1>9. 1 <= pos' /\ pos' <= Len(v) + 1 /\ pos' <= v[2] + 3
  BY <1>1, <1>2, <1>3, <1>5, <1>7
<1>10. lsbLength' = v[2] /\ checksumTotal' = sum[pos' - 1]
  <2>1. pos' - 1 = pos
    BY <1>2, <1>7
  <2> QED
    BY <1>1, <1>5, <1>6, <1>7, <2>1
<1>11. \A i \in 1 .. pos' - 4: frameData'[i] = v[i + 3]
  <2>1. frameData \in Seq(Octets) /\ Len(frameData) = pos - 4
    BY <1>2 DEF LinkTypes, DataRead
  <2>2. ASSUME NEW i \in 1 .. pos' - 4 PROVE frameData'[i] = v[i + 3]
    <3>1. i \in 1 .. pos - 4 \/ i = pos - 3
      BY <1>2, <1>7
    <3>2. CASE i \in 1 .. pos - 4
      <4>1. frameData'[i] = frameData[i]
        BY <1>7, <2>1, <3>2
      <4> QED
        BY <1>5, <3>2, <4>1
    <3>3. CASE i = pos - 3
      <4>1. i = Len(frameData) + 1 /\ i + 3 = pos
        BY <1>2, <2>1, <3>3
      <4>2. frameData'[i] = Taken
        BY <1>7, <2>1, <4>1
      <4> QED
        BY <1>1, <4>1, <4>2
    <3> QED
      BY <3>1, <3>2, <3>3
  <2> QED
    BY <2>2
<1>12. Reads(v, rest, sum, y)'
  BY <1>8, <1>9, <1>10, <1>11 DEF Reads
<1> QED
  BY <1>7, <1>12

\* The checksum is read.
Ends(v, sum, y) ==
    /\ pos' = 0 /\ reading' = FALSE /\ (line \o out)' = y /\ Len(v) = v[2] + 3
    /\ sum[Len(v)] # 255 => status' = "CHECKSUM_FAILURE" /\ UNCHANGED received
    /\ sum[Len(v)] = 255 =>
           /\ status' = "available" /\ received' = Append(received, frameData)
           /\ frameData \in Seq(Octets) /\ Len(frameData) = v[2] - 1
           /\ \A i \in 1 .. v[2] - 1: frameData[i] = v[i + 3]

LEMMA TakeLast ==
    ASSUME LinkTypes, NEW v, NEW rest, NEW sum, NEW y \in Seq(Octets),
           Readable(v, rest, sum), Reads(v, rest, sum, y), Takes(v, rest, y),
           pos = v[2] + 3
    PROVE  Ends(v, sum, y)
<1>1. /\ Digest(Taken, Total) /\ pos \in 1 .. Len(v)
  BY DEF Takes
<1>2. pos \in Positions /\ lsbLength \in Octets /\ pos \in Nat
  BY SenderFacts DEF LinkTypes, ReaderTypes
<1>3. Len(v) \in Nat /\ v[2] \in Nat /\ v[2] <= 104 /\ 14 <= v[2] /\ Len(v) <= v[2] + 3
  <2>1. v \in Seq(Octets) /\ 2 <= Len(v) /\ 14 <= v[2] /\ v[2] <= 104 /\ Len(v) <= v[2] + 3
    BY DEF Readable
  <2>2. v[2] \in Octets
    BY <2>1
  <2> QED
    BY <2>1, <2>2, OctetRange
<1>4. Len(v) = pos /\ pos >= 4 /\ pos >= 3 /\ pos <= 110
  BY <1>1, <1>3
<1>5. /\ lsbLength = v[2]
      /\ \A i \in 1 .. pos - 4: frameData[i] = v[i + 3]
  BY <1>4 DEF Reads
<1>6. Total = sum[Len(v)]
  BY <1>4, SumGoesOn
<1>7. /\ Total = 255 => status' = "available" /\ received' = Append(received, frameData)
      /\ Total # 255 => status' = "CHECKSUM_FAILURE" /\ UNCHANGED received
      /\ pos' = 0 /\ reading' = FALSE
  <2>1. 4 <= pos /\ pos <= 110 /\ pos = lsbLength + 3
    BY <1>4, <1>5
  <2>2. pos \in Positions /\ lsbLength \in Octets /\ Digest(Taken, Total)
    BY <1>1, <1>2
  <2>3. /\ ChecksumOk(Total) => status' = "available" /\ received' = Append(received, frameData)
        /\ ~ChecksumOk(Total) => status' = "CHECKSUM_FAILURE" /\ UNCHANGED received
        /\ pos' = 0 /\ reading' = FALSE
    BY <2>1, <2>2, DigestCases
  <2> QED
    BY <2>3 DEF ChecksumOk
<1>8. (line \o out)' = y
  <2>1. rest[pos] = <<>>
    BY <1>4 DEF Readable, Encodes
  <2> QED
    BY <2>1, ConcatEmptySeq DEF Takes
<1>9. /\ frameData \in Seq(Octets) /\ Len(frameData) = v[2] - 1
      /\ \A i \in 1 .. v[2] - 1: frameData[i] = v[i + 3]
  <2>1. pos - 4 = v[2] - 1
    BY <1>3
  <2> QED
    BY <1>4, <1>5, <2>1 DEF LinkTypes, DataRead
<1> QED
  BY <1>4, <1>6, <1>7, <1>8, <1>9 DEF Ends

\* A packet is received: one more of those that were sent.
LEMMA BaseReceived ==
    ASSUME LinkTypes, NEW K, NEW d, NEW behind, Base(K, d, behind), K < Len(sent), K + 1 # d,
           UNCHANGED <<sent, out, faults>>, Response(sent[K + 1]) \in Seq(Octets),
           received' = Append(received, Response(sent[K + 1]))
    PROVE  Base(K + 1, d, behind)'
<1>1. K \in Nat /\ d \in Nat /\ Len(sent) \in Nat /\ K + 1 \in Nat /\ K + 1 <= Len(sent)
  BY SenderFacts DEF Base
<1>2. Behind(behind, K + 1, d)'
  <2>1. Behind(behind, K + 1, d)
    BY <1>1, BehindNext DEF Base
  <2> QED
    BY <2>1 DEF Behind, Goes
<1>3. d = 0 => Unsent(behind, K + 1)'
  <2> SUFFICES ASSUME d = 0 PROVE Unsent(behind, K + 1)'
    OBVIOUS
  <2>1. \A k \in K + 1 .. Len(sent) - 1: k \in K .. Len(sent) - 1
    BY <1>1
  <2> QED
    BY <2>1 DEF Base, Unsent
<1>4. PICK r: r = Response(sent[K + 1])
  OBVIOUS
<1>5. PICK n: n = Len(received)
  OBVIOUS
<1>6. /\ received \in Seq(Seq(Octets)) /\ r \in Seq(Octets) /\ n \in Nat
      /\ d = 0 \/ K < d => K = n
      /\ K <= n + 2
  BY <1>4, <1>5 DEF Base, Told
<1>7. /\ received' \in Seq(Seq(Octets)) /\ Len(received') = n + 1
      /\ received'[n + 1] = r /\ \A i \in 1 .. n: received'[i] = received[i]
  BY <1>4, <1>5, <1>6
<1>8. PICK index: /\ Picked(index, n, K)
                  /\ \A i \in 1 .. n: received[i] = Response(sent[index[i]])
  BY <1>5 DEF Base, Told
<1>9. PICK more: more = [i \in 1 .. n + 1 |-> IF i = n + 1 THEN K + 1 ELSE index[i]]
  OBVIOUS
<1>10. more[n + 1] = K + 1
  BY <1>6, <1>9
<1>11. ASSUME NEW i \in 1 .. n PROVE more[i] = index[i] /\ more[i] \in 1 .. K
  <2>1. i \in 1 .. n + 1 /\ i # n + 1
    BY <1>6
  <2>2. index[i] \in 1 .. K
    BY <1>8 DEF Picked
  <2> QED
    BY <1>9, <2>1, <2>2
<1>12. Picked(more, n + 1, K + 1)
  <2>1. ASSUME NEW i \in 1 .. n + 1 PROVE more[i] \in 1 .. K + 1
    <3>1. i \in 1 .. n \/ i = n + 1
      BY <1>6
    <3> QED
      BY <1>1, <1>10, <1>11, <3>1
  <2>2. ASSUME NEW i \in 1 .. n + 1, NEW j \in 1 .. i - 1 PROVE more[j] < more[i]
    <3>1. CASE i = n + 1
      <4>1. j \in 1 .. n
        BY <1>6, <3>1
      <4> QED
        BY <1>1, <1>10, <1>11, <3>1, <4>1
    <3>2. CASE i # n + 1
      <4>1. i \in 1 .. n /\ j \in 1 .. n
        BY <1>6, <3>2
      <4>2. index[j] < index[i]
        BY <1>8, <4>1 DEF Picked
      <4> QED
        BY <1>11, <4>1, <4>2
    <3> QED
      BY <3>1, <3>2
  <2>3. more \in [1 .. n + 1 -> 1 .. K + 1]
    BY <1>9, <2>1
  <2> QED
    BY <2>2, <2>3 DEF Picked
<1>13. ASSUME NEW i \in 1 .. n + 1 PROVE received'[i] = Response(sent'[more[i]])
  <2>1. CASE i = n + 1
    BY <1>4, <1>7, <1>10, <2>1
  <2>2. CASE i # n + 1
    <3>1. i \in 1 .. n
      BY <1>6, <2>2
    <3> QED
      BY <1>7, <1>8, <1>11, <3>1
  <2> QED
    BY <2>1, <2>2
<1>14. Told(K + 1, d)'
  <2>1. d = 0 \/ K + 1 < d => K + 1 = n + 1
    BY <1>1, <1>6
  <2>2. K + 1 <= (n + 1) + 2
    BY <1>1, <1>6
  <2> QED
    BY <1>7, <1>12, <1>13, <2>1, <2>2 DEF Told
<1> QED
  BY <1>1, <1>2, <1>3, <1>14 DEF Base

\* A byte inside a packet.
LEMMA TakeWithin ==
    ASSUME LinkTypes, Quiet, Take, pos > 0, NEW K, NEW d, NEW behind,
           Base(K, d, behind), Within(K, d, behind)
    PROVE  Quiet' /\ OnItsWay'
<1>1. /\ line # <<>> /\ Head(line) # START_BYTE /\ escape' = FALSE
      /\ checksumTotal' = Total /\ UNCHANGED <<out, sent, faults>>
  BY TakeFacts DEF sender
<1>2. /\ K \in Nat /\ d \in Nat /\ Behind(behind, K, d) /\ Len(sent) \in Nat
      /\ K < Len(sent) /\ status = "none"
  BY SenderFacts DEF Base, Within
<1>3. PICK v, rest, sum: Read(v, rest, sum, K, d) /\ Reads(v, rest, sum, behind[K + 1])
  BY DEF Within
<1>4. PICK y: y = behind[K + 1] /\ y \in Seq(Octets)
  <2>1. K + 1 \in K .. Len(sent)
    BY <1>2
  <2> QED
    BY <1>2, <2>1 DEF Behind
<1>5. /\ Readable(v, rest, sum) /\ Len(v) \in Nat /\ v[2] \in Nat /\ 14 <= v[2]
      /\ Reads(v, rest, sum, y)
  <2>1. Readable(v, rest, sum) /\ v \in Seq(Octets) /\ 2 <= Len(v) /\ 14 <= v[2]
    BY <1>3 DEF Read, Readable
  <2>2. v[2] \in Octets
    BY <2>1
  <2> QED
    BY <1>3, <1>4, <2>1, <2>2, OctetRange
<1>6. pos <= Len(v)
  <2>1. pos <= Len(v) + 1 /\ pos \in Nat
    BY <1>5, SenderFacts DEF Reads
  <2>2. pos # Len(v) + 1
    <3> SUFFICES ASSUME pos = Len(v) + 1 PROVE FALSE
      OBVIOUS
    <3>1. /\ K + 1 = d /\ Half \o (line \o out) = behind[K + 1]
          /\ Behind(behind, K + 1, d)
      BY <1>1, <1>2, <1>3, PastEnd
    <3>2. K + 1 \in Nat /\ K + 1 <= Len(sent) /\ (K + 1) + 1 # d
      BY <1>2, <3>1
    <3>3. Head(line) = START_BYTE
      BY <1>1, <1>2, <3>1, <3>2, NextPacket
    <3> QED
      BY <1>1, <3>3
  <2> QED
    BY <1>5, <2>1, <2>2
<1>7. Takes(v, rest, y)
  BY <1>4, <1>5, <1>6, TakesNext
<1>8. CASE pos \in {1, 2, 3} \/ (pos >= 4 /\ pos # v[2] + 3)
  <2>1. pos' = pos + 1 /\ Reads(v, rest, sum, y)' /\ UNCHANGED <<reading, status, received>>
    BY <1>4, <1>5, <1>7, <1>8, TakeHead, TakeData
  <2>2. pos \in Nat /\ pos' > 0 /\ pos' # 0 /\ (pos' <= 3 => pos <= 3 /\ ~(pos >= 3))
    BY <2>1, SenderFacts
  <2>3. pos' <= 3 => checksumTotal' = 0
    <3>1. pos <= 3 => checksumTotal = 0
      BY <1>7 DEF Takes
    <3> QED
      BY <1>1, <2>2, <3>1 DEF Total
  <2>4. Quiet'
    BY <1>2, <2>1, <2>2, <2>3 DEF Quiet
  <2>5. Within(K, d, behind)'
    <3>1. Read(v, rest, sum, K, d)'
      BY <1>1, <1>3 DEF Read
    <3>2. K < Len(sent') /\ pos' > 0 /\ status' = "none"
      BY <1>1, <1>2, <2>1, <2>2
    <3> QED
      BY <1>4, <2>1, <3>1, <3>2 DEF Within
  <2>6. Base(K, d, behind)'
    BY <1>1, <2>1, BaseKept
  <2> QED
    BY <2>4, <2>5, <2>6 DEF OnItsWay, At
<1>9. CASE pos = v[2] + 3
  <2>1. /\ pos' = 0 /\ reading' = FALSE /\ (line \o out)' = y /\ Len(v) = v[2] + 3
        /\ sum[Len(v)] # 255 => status' = "CHECKSUM_FAILURE" /\ UNCHANGED received
        /\ sum[Len(v)] = 255 =>
               /\ status' = "available" /\ received' = Append(received, frameData)
               /\ frameData \in Seq(Octets) /\ Len(frameData) = v[2] - 1
               /\ \A i \in 1 .. v[2] - 1: frameData[i] = v[i + 3]
    <3>1. Ends(v, sum, y)
      BY <1>4, <1>5, <1>7, <1>9, TakeLast
    <3> QED
      BY <3>1 DEF Ends
  <2>2. status' # "none"
    BY <2>1
  <2>3. Quiet'
    BY <1>1, <2>1, <2>2 DEF Quiet
  <2>4. PICK J: J = K + 1
    OBVIOUS
  <2>5. Between(J, d, behind)'
    <3>1. Startless(<<>>) /\ <<>> \o y = y
      BY <1>4, ConcatEmptySeq DEF Startless
    <3>2. (line \o out)' = <<>> \o behind[J]
      BY <1>4, <2>1, <2>4, <3>1
    <3> QED
      BY <2>1, <3>1, <3>2 DEF Between
  <2>6. Base(J, d, behind)'
    <3>1. CASE K + 1 = d
      <4>1. sum[Len(v)] # 255
        BY <1>3, <2>1, <3>1 DEF Read, Spoilt
      <4>2. Base(J, d, behind)
        <5>1. K + 1 <= Len(sent)
          BY <1>2
        <5> QED
          BY <2>4, <3>1, <5>1, BaseLater
      <4> QED
        BY <1>1, <2>1, <4>1, <4>2, BaseKept
    <3>2. CASE K + 1 # d
      <4>1. PICK q: q = sent[K + 1] /\ q \in Payloads
        <5>1. K + 1 \in 1 .. Len(sent)
          BY <1>2
        <5> QED
          BY <5>1, SenderFacts
      <4>2. Whole(v, rest, sum, q)
        BY <1>3, <3>2, <4>1 DEF Read
      <4>3. /\ sum[Len(v)] = 255
            /\ Response(q) \in Seq(Octets) /\ Len(Response(q)) = v[2] - 1
            /\ \A i \in 1 .. v[2] - 1: Response(q)[i] = v[i + 3]
        BY <4>1, <4>2, GoodPacket
      <4>4. frameData = Response(q)
        <5>1. frameData \in Seq(Octets) /\ Len(frameData) = v[2] - 1
          BY <2>1, <4>3
        <5>2. ASSUME NEW i \in 1 .. Len(frameData) PROVE frameData[i] = Response(q)[i]
          BY <2>1, <4>3, <5>1
        <5> QED
          BY <4>3, <5>1, <5>2, SeqEqual
      <4>5. received' = Append(received, Response(sent[K + 1]))
        BY <2>1, <4>1, <4>3, <4>4
      <4> QED
        BY <1>1, <1>2, <2>4, <3>2, <4>1, <4>3, <4>5, BaseReceived
    <3> QED
      BY <3>1, <3>2
  <2> QED
    BY <2>3, <2>5, <2>6 DEF OnItsWay, At
<1>10. pos \in {1, 2, 3} \/ (pos >= 4 /\ pos # v[2] + 3) \/ pos = v[2] + 3
  <2>1. pos \in Nat
    BY SenderFacts
  <2> QED
    BY <2>1
<1> QED
  BY <1>8, <1>9, <1>10

LEMMA TakeSound ==
    ASSUME LinkTypes, Sound, Take
    PROVE  Sound'
<1> SUFFICES ASSUME Noticed' PROVE Quiet' /\ OnItsWay'
  BY DEF Sound
<1>1. reading /\ UNCHANGED <<faults, weak>>
  BY TakeFacts DEF sender
<1>2. Quiet /\ OnItsWay
  BY <1>1, StillSound
<1>3. PICK K, d, behind: At(K, d, behind)
  BY <1>2 DEF OnItsWay
<1>4. CASE pos = 0
  <2>1. Base(K, d, behind) /\ Between(K, d, behind)
    BY <1>3, <1>4 DEF At, Within
  <2> QED
    BY <1>2, <1>4, <2>1, TakeBetween
<1>5. CASE pos > 0
  <2>1. Base(K, d, behind) /\ Within(K, d, behind)
    BY <1>1, <1>2, <1>3, <1>5 DEF At, Between, Quiet
  <2> QED
    BY <1>2, <1>5, <2>1, TakeWithin
<1>6. pos = 0 \/ pos > 0
  <2>1. pos \in Nat
    BY SenderFacts
  <2> QED
    BY <2>1
<1> QED
  BY <1>4, <1>5, <1>6

-----------------------------------------------------------------------------
(* A packet that loses a byte.                                             *)

LEMMA RightCancel ==
    ASSUME NEW S, NEW a \in Seq(S), NEW b \in Seq(S), NEW c \in Seq(S), a \o c = b \o c
    PROVE  a = b
<1>1. Len(a \o c) = Len(a) + Len(c) /\ Len(b \o c) = Len(b) + Len(c)
  OBVIOUS
<1>2. Len(a) = Len(b)
  BY <1>1
<1>3. ASSUME NEW i \in 1 .. Len(a) PROVE a[i] = b[i]
  <2>1. (a \o c)[i] = a[i] /\ (b \o c)[i] = b[i]
    BY <1>2
  <2> QED
    BY <2>1
<1> QED
  BY <1>2, <1>3, SeqEqual

\* What three pieces make, two of them being one in front.
Joins(e, a, b, o) == e \o o = a \o (b \o o)

LEMMA Rejoin ==
    ASSUME NEW a \in Seq(Octets), NEW b \in Seq(Octets), NEW e \in Seq(Octets),
           NEW o \in Seq(Octets), NEW x \in Seq(Octets), Joins(e, a, b, o)
    PROVE  Joins(e, a, b, x)
<1>1. a \o b \in Seq(Octets)
  BY ConcatProperties
<1>2. (a \o b) \o o = a \o (b \o o)
  BY Together, Zenon
<1>3. (a \o b) \o x = a \o (b \o x)
  BY Together, Zenon
<1>4. e \o o = (a \o b) \o o
  BY <1>2 DEF Joins
<1>5. e = a \o b
  BY <1>1, <1>4, RightCancel
<1> QED
  BY <1>3, <1>5 DEF Joins

\* Where two sequences begin with the same m bytes, so does what goes out for them.
Ahead(r, s, i, m) ==
    \E h \in Seq(Octets): r[i] = h \o r[m] /\ s[i] = h \o s[m] /\ m - i <= Len(h)

SameTo(v, w, m) == m <= Len(v) /\ m <= Len(w) /\ \A i \in 1 .. m: v[i] = w[i]

LEMMA Heads ==
    ASSUME NEW v \in Seq(Octets), NEW w \in Seq(Octets), NEW r, NEW s,
           Encodes(r, v), Encodes(s, w), NEW m \in Nat, SameTo(v, w, m)
    PROVE  \A i \in 0 .. m: Ahead(r, s, i, m)
<1>1. /\ \A n \in 0 .. m: r[n] \in Seq(Octets) /\ s[n] \in Seq(Octets)
      /\ \A n \in 1 .. m: r[n - 1] = SendByte(v[n]) \o r[n] /\ s[n - 1] = SendByte(v[n]) \o s[n]
      /\ \A n \in 1 .. m: v[n] \in Octets
  <2>1. /\ \A n \in 0 .. m: n \in 0 .. Len(v) /\ n \in 0 .. Len(w)
        /\ \A n \in 1 .. m: n \in 1 .. Len(v) /\ n \in 1 .. Len(w)
    BY DEF SameTo
  <2>2. /\ \A n \in 0 .. m: r[n] \in Seq(Octets) /\ s[n] \in Seq(Octets)
        /\ \A n \in 1 .. m: r[n - 1] = SendByte(v[n]) \o r[n]
        /\ \A n \in 1 .. m: s[n - 1] = SendByte(w[n]) \o s[n]
    BY <2>1 DEF Encodes
  <2>3. \A n \in 1 .. m: v[n] = w[n]
    BY DEF SameTo
  <2>4. \A n \in 1 .. m: v[n] \in Octets
    BY <2>1
  <2> QED
    BY <2>2, <2>3, <2>4
<1> DEFINE Good == {j \in Nat: j <= m => Ahead(r, s, m - j, m)}
<1>2. 0 \in Good
  <2>1. m - 0 = m /\ m \in 0 .. m /\ m - m <= Len(<<>>)
    OBVIOUS
  <2>2. r[m] = <<>> \o r[m] /\ s[m] = <<>> \o s[m] /\ <<>> \in Seq(Octets)
    BY <1>1, <2>1, ConcatEmptySeq
  <2> QED
    BY <2>1, <2>2 DEF Ahead
<1>3. ASSUME NEW j \in Good PROVE j + 1 \in Good
  <2> SUFFICES ASSUME j + 1 <= m PROVE Ahead(r, s, m - (j + 1), m)
    BY <1>3
  <2>1. PICK i: i = m - j /\ i \in 1 .. m /\ i - 1 = m - (j + 1) /\ i \in 0 .. m
    BY <1>3
  <2>2. PICK h \in Seq(Octets): r[i] = h \o r[m] /\ s[i] = h \o s[m] /\ m - i <= Len(h)
    <3>1. Ahead(r, s, i, m)
      BY <1>3, <2>1
    <3> QED
      BY <3>1 DEF Ahead
  <2>3. PICK b: b = SendByte(v[i]) /\ b \in Seq(Octets) /\ b # <<>>
    BY <1>1, <2>1, SendByteCases
  <2>4. b \o h \in Seq(Octets) /\ Len(b \o h) = Len(b) + Len(h) /\ 1 <= Len(b)
    BY <2>3, ConcatProperties
  <2>5. PICK x, y: x = r[m] /\ y = s[m] /\ x \in Seq(Octets) /\ y \in Seq(Octets)
    <3>1. m \in 0 .. m
      OBVIOUS
    <3> QED
      BY <1>1, <3>1
  <2>6. b \o (h \o x) = (b \o h) \o x /\ b \o (h \o y) = (b \o h) \o y
    <3>1. b \in Seq(Octets) /\ h \in Seq(Octets) /\ x \in Seq(Octets) /\ y \in Seq(Octets)
      BY <2>2, <2>3, <2>5
    <3>2. (b \o h) \o x = b \o (h \o x)
      BY <3>1, Together, Zenon
    <3>3. (b \o h) \o y = b \o (h \o y)
      BY <3>1, Together, Zenon
    <3> QED
      BY <3>2, <3>3
  <2>8. r[i - 1] = (b \o h) \o r[m] /\ s[i - 1] = (b \o h) \o s[m]
    BY <1>1, <2>1, <2>2, <2>3, <2>5, <2>6
  <2>9. m - (i - 1) <= Len(b \o h)
    BY <2>1, <2>2, <2>3, <2>4
  <2>10. Ahead(r, s, i - 1, m)
    BY <2>4, <2>8, <2>9 DEF Ahead
  <2> QED
    BY <2>1, <2>10
<1>4. Good = Nat
  <2> HIDE DEF Good
  <2>1. Good \in SUBSET Nat
    BY DEF Good
  <2> QED
    BY <1>2, <1>3, <2>1, Induction
<1>5. ASSUME NEW i \in 0 .. m PROVE Ahead(r, s, i, m)
  <2>1. PICK j: j = m - i /\ j \in Nat /\ j <= m /\ m - j = i
    OBVIOUS
  <2>2. j \in Good
    BY <1>4, <2>1
  <2> QED
    BY <2>1, <2>2
<1> QED
  BY <1>5

\* Where they end with the same bytes, so does what goes out.
SameFrom(v, w, a, b) ==
    /\ a \in 0 .. Len(v) /\ b \in 0 .. Len(w) /\ Len(v) - a = Len(w) - b
    /\ \A i \in 1 .. Len(v) - a: v[a + i] = w[b + i]

LEMMA Tails ==
    ASSUME NEW v \in Seq(Octets), NEW w \in Seq(Octets), NEW r, NEW s,
           Encodes(r, v), Encodes(s, w), NEW a, NEW b, SameFrom(v, w, a, b)
    PROVE  r[a] = s[b]
<1>1. PICK l: l = Len(v) - a /\ l \in Nat /\ a + l = Len(v) /\ b + l = Len(w)
              /\ a \in Nat /\ b \in Nat
  BY DEF SameFrom
<1>2. r[Len(v)] = <<>> /\ s[Len(w)] = <<>>
  BY DEF Encodes
<1>3. /\ \A n \in 1 .. Len(v): r[n - 1] = SendByte(v[n]) \o r[n]
      /\ \A n \in 1 .. Len(w): s[n - 1] = SendByte(w[n]) \o s[n]
  BY DEF Encodes
<1> DEFINE Good == {j \in Nat: j <= l => r[a + l - j] = s[b + l - j]}
<1>4. 0 \in Good
  BY <1>1, <1>2
<1>5. ASSUME NEW j \in Good PROVE j + 1 \in Good
  <2> SUFFICES ASSUME j + 1 <= l PROVE r[a + l - (j + 1)] = s[b + l - (j + 1)]
    BY <1>5
  <2>1. PICK i: i = l - j /\ i \in 1 .. l
    BY <1>1, <1>5
  <2>2. /\ a + l - (j + 1) = (a + i) - 1 /\ b + l - (j + 1) = (b + i) - 1
        /\ a + l - j = a + i /\ b + l - j = b + i
        /\ a + i \in 1 .. Len(v) /\ b + i \in 1 .. Len(w)
    BY <1>1, <1>5, <2>1
  <2>3. r[a + i] = s[b + i]
    <3>1. r[a + l - j] = s[b + l - j]
      <4>1. j \in Nat /\ j <= l
        BY <1>1, <1>5
      <4> QED
        BY <1>5, <4>1
    <3> QED
      BY <2>2, <3>1
  <2>4. v[a + i] = w[b + i]
    BY <1>1, <2>1 DEF SameFrom
  <2> QED
    BY <1>3, <2>2, <2>3, <2>4
<1>6. Good = Nat
  <2> HIDE DEF Good
  <2>1. Good \in SUBSET Nat
    BY DEF Good
  <2> QED
    BY <1>4, <1>5, <2>1, Induction
<1>7. l <= l /\ a + l - l = a /\ b + l - l = b
  BY <1>1
<1>8. l \in Good
  BY <1>1, <1>6
<1> QED
  BY <1>7, <1>8

\* The sums of a packet, and what another byte in it does to them.
LEMMA AnySums ==
    ASSUME NEW v \in Seq(Octets), 2 <= Len(v)
    PROVE  \E sum: Summed(sum, v)
<1>1. PICK N: N = Len(v) /\ N \in Nat /\ 2 <= N /\ N - 2 \in Nat
  OBVIOUS
<1>2. PICK c: c = [i \in 1 .. N - 2 |-> v[i + 2]]
  OBVIOUS
<1>3. c \in Seq(Octets) /\ Len(c) = N - 2 /\ \A i \in 1 .. N - 2: c[i] = v[i + 2]
  <2>1. ASSUME NEW i \in 1 .. N - 2 PROVE v[i + 2] \in Octets
    <3>1. i + 2 \in 1 .. Len(v)
      BY <1>1
    <3> QED
      BY <3>1
  <2>2. c \in [1 .. N - 2 -> Octets]
    BY <1>2, <2>1
  <2> QED
    BY <1>1, <1>2, <2>2
<1>4. PICK f: /\ f \in [0 .. N - 2 -> Octets] /\ f[0] = 0
              /\ \A n \in 1 .. N - 2: f[n] = (f[n - 1] + c[n]) % 256
  <2>1. /\ Checksums(c) \in [0 .. N - 2 -> Octets] /\ Checksums(c)[0] = 0
        /\ \A n \in 1 .. N - 2: Checksums(c)[n] = (Checksums(c)[n - 1] + c[n]) % 256
    BY <1>3, ChecksumsResults
  <2> QED
    BY <2>1
<1>5. PICK sum: sum = [i \in 2 .. N |-> f[i - 2]]
  OBVIOUS
<1>6. ASSUME NEW i \in 2 .. N PROVE sum[i] = f[i - 2] /\ sum[i] \in Octets
  <2>1. i - 2 \in 0 .. N - 2
    BY <1>1
  <2> QED
    BY <1>4, <1>5, <2>1
<1>7. sum \in [2 .. N -> Octets]
  BY <1>5, <1>6
<1>8. sum[2] = 0
  <2>1. 2 \in 2 .. N /\ 2 - 2 = 0
    BY <1>1
  <2> QED
    BY <1>4, <1>6, <2>1
<1>9. ASSUME NEW i \in 3 .. N PROVE sum[i] = (sum[i - 1] + v[i]) % 256
  <2>1. PICK n: n = i - 2 /\ n \in 1 .. N - 2 /\ n + 2 = i /\ (i - 1) - 2 = n - 1
                /\ i \in 2 .. N /\ i - 1 \in 2 .. N
    BY <1>1
  <2>2. sum[i] = f[n] /\ sum[i - 1] = f[n - 1] /\ c[n] = v[i]
    BY <1>3, <1>6, <2>1
  <2> QED
    BY <1>4, <2>1, <2>2
<1> QED
  BY <1>1, <1>7, <1>8, <1>9 DEF Summed

LEMMA OtherSum ==
    ASSUME NEW a \in Octets, NEW b \in Octets, NEW c \in Octets, a # b
    PROVE  (a + c) % 256 # (b + c) % 256
<1>1. a \in 0 .. 255 /\ b \in 0 .. 255 /\ c \in 0 .. 255
  BY DEF Octets
<1>2. ASSUME NEW x \in 0 .. 510
      PROVE  x % 256 = IF x < 256 THEN x ELSE x - 256
  OBVIOUS
<1>3. (a + c) % 256 = IF a + c < 256 THEN a + c ELSE (a + c) - 256
  <2>1. a + c \in 0 .. 510
    BY <1>1
  <2> QED
    BY <1>2, <2>1
<1>4. (b + c) % 256 = IF b + c < 256 THEN b + c ELSE (b + c) - 256
  <2>1. b + c \in 0 .. 510
    BY <1>1
  <2> QED
    BY <1>2, <2>1
<1> QED
  BY <1>1, <1>3, <1>4

LEMMA SumsAgree ==
    ASSUME NEW v \in Seq(Octets), NEW w \in Seq(Octets), NEW s, NEW t,
           Summed(s, v), Summed(t, w), NEW m \in Nat, SameTo(v, w, m)
    PROVE  \A i \in 2 .. m: s[i] = t[i]
<1>1. /\ s[2] = 0 /\ t[2] = 0
      /\ \A i \in 3 .. m: s[i] = (s[i - 1] + v[i]) % 256
      /\ \A i \in 3 .. m: t[i] = (t[i - 1] + w[i]) % 256
      /\ \A i \in 3 .. m: v[i] = w[i]
  <2>1. \A i \in 3 .. m: i \in 3 .. Len(v) /\ i \in 3 .. Len(w) /\ i \in 1 .. m
    BY DEF SameTo
  <2>2. s[2] = 0 /\ t[2] = 0
    BY DEF Summed
  <2>3. \A i \in 3 .. m: s[i] = (s[i - 1] + v[i]) % 256
    BY <2>1 DEF Summed
  <2>4. \A i \in 3 .. m: t[i] = (t[i - 1] + w[i]) % 256
    BY <2>1 DEF Summed
  <2>5. \A i \in 3 .. m: v[i] = w[i]
    BY <2>1 DEF SameTo
  <2> QED
    BY <2>2, <2>3, <2>4, <2>5
<1> DEFINE Good == {j \in Nat: j + 2 <= m => s[j + 2] = t[j + 2]}
<1>2. 0 \in Good
  BY <1>1
<1>3. ASSUME NEW j \in Good PROVE j + 1 \in Good
  <2> SUFFICES ASSUME (j + 1) + 2 <= m PROVE s[(j + 1) + 2] = t[(j + 1) + 2]
    BY <1>3
  <2>1. PICK i: i = (j + 1) + 2 /\ i \in 3 .. m /\ i - 1 = j + 2 /\ j + 2 <= m
    BY <1>3
  <2>2. s[i - 1] = t[i - 1]
    <3>1. s[j + 2] = t[j + 2]
      BY <1>3, <2>1
    <3> QED
      BY <2>1, <3>1
  <2>3. s[i] = t[i]
    BY <1>1, <2>1, <2>2
  <2> QED
    BY <2>1, <2>3
<1>4. Good = Nat
  <2> HIDE DEF Good
  <2>1. Good \in SUBSET Nat
    BY DEF Good
  <2> QED
    BY <1>2, <1>3, <2>1, Induction
<1>5. ASSUME NEW i \in 2 .. m PROVE s[i] = t[i]
  <2>1. PICK j: j = i - 2 /\ j \in Nat /\ j + 2 = i /\ j + 2 <= m
    OBVIOUS
  <2>2. j \in Good
    BY <1>4, <2>1
  <2> QED
    BY <2>1, <2>2
<1> QED
  BY <1>5

\* A single byte that is another one makes all the sums from it on other ones.
LEMMA SumsDiffer ==
    ASSUME NEW v \in Seq(Octets), NEW w \in Seq(Octets), NEW s, NEW t,
           Summed(s, v), Summed(t, w), Len(v) = Len(w), NEW n \in 3 .. Len(v),
           SameTo(v, w, n - 1), v[n] # w[n], \A i \in n + 1 .. Len(v): v[i] = w[i]
    PROVE  s[Len(v)] # t[Len(v)]
<1>1. PICK N: N = Len(v) /\ N = Len(w) /\ N \in Nat /\ n \in Nat /\ 3 <= n /\ n <= N
  OBVIOUS
<1>2. /\ \A i \in 2 .. N: s[i] \in Octets /\ t[i] \in Octets
      /\ \A i \in 3 .. N: s[i] = (s[i - 1] + v[i]) % 256
      /\ \A i \in 3 .. N: t[i] = (t[i - 1] + w[i]) % 256
      /\ \A i \in 3 .. N: v[i] \in Octets /\ w[i] \in Octets
  <2>1. \A i \in 2 .. N: s[i] \in Octets /\ t[i] \in Octets
    BY <1>1 DEF Summed
  <2>2. \A i \in 3 .. N: s[i] = (s[i - 1] + v[i]) % 256
    BY <1>1 DEF Summed
  <2>3. \A i \in 3 .. N: t[i] = (t[i - 1] + w[i]) % 256
    BY <1>1 DEF Summed
  <2>4. ASSUME NEW i \in 3 .. N PROVE v[i] \in Octets /\ w[i] \in Octets
    <3>1. i \in 1 .. Len(v) /\ i \in 1 .. Len(w)
      BY <1>1
    <3> QED
      BY <3>1
  <2> QED
    BY <2>1, <2>2, <2>3, <2>4
<1> DEFINE Good == {j \in Nat: n + j <= N => s[n + j] # t[n + j]}
<1>3. 0 \in Good
  <2>1. n - 1 \in Nat /\ n - 1 \in 2 .. n - 1 /\ n \in 3 .. N /\ n - 1 \in 2 .. N
    BY <1>1
  <2>2. s[n - 1] = t[n - 1]
    BY <2>1, SumsAgree
  <2>3. PICK a, b, c: a = v[n] /\ b = w[n] /\ c = s[n - 1]
    OBVIOUS
  <2>4. a \in Octets /\ b \in Octets /\ c \in Octets /\ a # b
    BY <1>2, <2>1, <2>3
  <2>5. (a + c) % 256 # (b + c) % 256
    BY <2>4, OtherSum
  <2>6. a + c = c + a /\ b + c = c + b
    BY <2>4, OctetRange
  <2>7. s[n] = (c + a) % 256 /\ t[n] = (c + b) % 256
    BY <1>2, <2>1, <2>2, <2>3
  <2>8. s[n] # t[n] /\ n + 0 = n
    BY <1>1, <2>5, <2>6, <2>7
  <2> QED
    BY <2>8
<1>4. ASSUME NEW j \in Good PROVE j + 1 \in Good
  <2> SUFFICES ASSUME n + (j + 1) <= N PROVE s[n + (j + 1)] # t[n + (j + 1)]
    BY <1>4
  <2>1. PICK i: /\ i = n + (j + 1) /\ i \in 3 .. N /\ i - 1 = n + j /\ i - 1 \in 2 .. N
                /\ i \in n + 1 .. Len(v)
    BY <1>1, <1>4
  <2>2. s[i - 1] # t[i - 1]
    <3>1. n + j <= N /\ j \in Nat
      BY <1>1, <1>4
    <3>2. s[n + j] # t[n + j]
      BY <1>4, <3>1
    <3> QED
      BY <2>1, <3>2
  <2>3. PICK a, b, c: a = s[i - 1] /\ b = t[i - 1] /\ c = v[i] /\ c = w[i]
    BY <2>1
  <2>4. a \in Octets /\ b \in Octets /\ c \in Octets
    BY <1>2, <2>1, <2>3
  <2>5. (a + c) % 256 # (b + c) % 256
    BY <2>2, <2>3, <2>4, OtherSum
  <2>6. s[i] = (a + c) % 256 /\ t[i] = (b + c) % 256
    BY <1>2, <2>1, <2>3
  <2> QED
    BY <2>1, <2>5, <2>6
<1>5. Good = Nat
  <2> HIDE DEF Good
  <2>1. Good \in SUBSET Nat
    BY DEF Good
  <2> QED
    BY <1>3, <1>4, <2>1, Induction
<1>6. PICK j: j = N - n /\ j \in Nat /\ n + j = N /\ n + j <= N
  BY <1>1
<1>7. j \in Good
  BY <1>5, <1>6
<1> QED
  BY <1>1, <1>6, <1>7

\* What a packet is when a byte of it is lost, or all of it from that byte on: one
\* byte short, or with the second half of an escape sequence in place of a byte, or cut.
Breaks(v, rest, sum, p, n, x) ==
    /\ Readable(v, rest, sum) /\ Spoilt(v, sum)
    /\ SameTo(v, Unescaped(p), n - 1) /\ rest[n - 1] = x

LEMMA Broken ==
    ASSUME NEW p \in Payloads, NEW n \in 3 .. ContentLength(p) + 3,
           NEW x \in {Tail(Rests(p)[n - 1]), <<>>}
    PROVE  \E v, rest, sum: Breaks(v, rest, sum, p, n, x)
<1>1. PICK u, all, sums: u = Unescaped(p) /\ all = Rests(p) /\ sums = Sums(p)
  OBVIOUS
<1>2. PICK N: N = ContentLength(p) + 3
  OBVIOUS
<1>3. /\ Readable(u, all, sums) /\ Len(u) = u[2] + 3 /\ sums[Len(u)] = 255
  BY <1>1, GoodPacket DEF Whole
<1>4. /\ u \in Seq(Octets) /\ Encodes(all, u) /\ Summed(sums, u)
      /\ 14 <= u[2] /\ u[2] <= 104
  BY <1>3 DEF Readable
<1>5. Len(u) = N /\ N \in Nat /\ n \in Nat /\ 3 <= n /\ n <= N /\ N = u[2] + 3
  <2>1. Len(u) = N
    BY <1>1, <1>2, UnescapedBytes
  <2> QED
    BY <1>2, <1>3, <1>4, <2>1
<1>6. u[n] \in Octets /\ all[n] \in Seq(Octets) /\ all[n - 1] = SendByte(u[n]) \o all[n]
  <2>1. n \in 1 .. Len(u) /\ n \in 0 .. Len(u)
    BY <1>5
  <2>2. all[n] \in Seq(Octets) /\ all[n - 1] = SendByte(u[n]) \o all[n]
    BY <1>4, <2>1 DEF Encodes
  <2>3. u[n] \in Octets
    BY <1>4, <2>1
  <2> QED
    BY <2>2, <2>3
<1>7. ASSUME NEW v \in Seq(Octets), NEW rest, Encodes(rest, v), rest[n - 1] = x,
             SameTo(v, u, n - 1), Len(v) <= N,
             NEW sum, Summed(sum, v), Len(v) = N => sum[N] # 255
      PROVE  \E w, r, s: Breaks(w, r, s, p, n, x)
  <2>1. v[2] = u[2] /\ 2 <= Len(v)
    <3>1. n - 1 <= Len(v) /\ 2 \in 1 .. n - 1
      BY <1>5, <1>7 DEF SameTo
    <3>2. v[2] = u[2]
      BY <1>7, <3>1 DEF SameTo
    <3> QED
      BY <1>5, <3>1, <3>2
  <2>2. Readable(v, rest, sum)
    BY <1>4, <1>5, <1>7, <2>1 DEF Readable
  <2>3. Spoilt(v, sum)
    BY <1>5, <1>7, <2>1 DEF Spoilt
  <2>4. Breaks(v, rest, sum, p, n, x)
    BY <1>1, <1>7, <2>2, <2>3 DEF Breaks
  <2> QED
    BY <2>4
<1>8. CASE x = <<>>
  <2>1. PICK v: v = [i \in 1 .. n - 1 |-> u[i]]
    OBVIOUS
  <2>2. \A i \in 1 .. n - 1: u[i] \in Octets
    BY <1>4, <1>5
  <2>3. v \in Seq(Octets) /\ Len(v) = n - 1 /\ \A i \in 1 .. n - 1: v[i] = u[i]
    <3>1. v \in [1 .. n - 1 -> Octets]
      BY <2>1, <2>2
    <3> QED
      BY <1>5, <2>1, <3>1
  <2>4. SameTo(v, u, n - 1) /\ Len(v) <= N /\ Len(v) # N /\ 2 <= Len(v)
    BY <1>5, <2>3 DEF SameTo
  <2>5. PICK rest: Encodes(rest, v)
    BY <2>3, EscapedRests
  <2>6. PICK sum: Summed(sum, v)
    BY <2>3, <2>4, AnySums
  <2>7. rest[n - 1] = x
    BY <1>8, <2>3, <2>5 DEF Encodes
  <2> QED
    BY <1>7, <2>3, <2>4, <2>5, <2>6, <2>7
<1>9. CASE x # <<>> /\ u[n] \notin Controls
  <2>1. x = all[n]
    <3>1. all[n - 1] = <<u[n]>> \o all[n]
      BY <1>6, <1>9, SendByteCases
    <3>2. Tail(<<u[n]>> \o all[n]) = all[n]
      BY <1>6
    <3> QED
      BY <1>1, <1>9, <3>1, <3>2
  <2>2. PICK v: v = [i \in 1 .. N - 1 |-> IF i < n THEN u[i] ELSE u[i + 1]]
    OBVIOUS
  <2>3. v \in Seq(Octets) /\ Len(v) = N - 1
    <3>1. ASSUME NEW i \in 1 .. N - 1
          PROVE  (IF i < n THEN u[i] ELSE u[i + 1]) \in Octets
      <4>1. i \in 1 .. Len(u) /\ i + 1 \in 1 .. Len(u)
        BY <1>5
      <4> QED
        BY <1>4, <4>1
    <3>2. v \in [1 .. N - 1 -> Octets]
      BY <2>2, <3>1
    <3>3. N - 1 \in Nat
      BY <1>5
    <3> QED
      BY <2>2, <3>2, <3>3
  <2>4. SameTo(v, u, n - 1) /\ Len(v) <= N /\ Len(v) # N /\ 2 <= Len(v)
    <3>1. ASSUME NEW i \in 1 .. n - 1 PROVE v[i] = u[i]
      <4>1. i \in 1 .. N - 1 /\ i < n
        BY <1>5
      <4> QED
        BY <2>2, <4>1
    <3> QED
      BY <1>5, <2>3, <3>1 DEF SameTo
  <2>5. SameFrom(v, u, n - 1, n)
    <3>1. ASSUME NEW i \in 1 .. Len(v) - (n - 1) PROVE v[(n - 1) + i] = u[n + i]
      <4>1. (n - 1) + i \in 1 .. N - 1 /\ ~((n - 1) + i < n) /\ ((n - 1) + i) + 1 = n + i
        BY <1>5, <2>3
      <4> QED
        BY <2>2, <4>1
    <3> QED
      BY <1>5, <2>3, <3>1 DEF SameFrom
  <2>6. PICK rest: Encodes(rest, v)
    BY <2>3, EscapedRests
  <2>7. PICK sum: Summed(sum, v)
    BY <2>3, <2>4, AnySums
  <2>8. rest[n - 1] = x
    BY <1>4, <2>1, <2>3, <2>5, <2>6, Tails
  <2> QED
    BY <1>7, <2>3, <2>4, <2>6, <2>7, <2>8
<1>10. CASE x # <<>> /\ u[n] \in Controls
  <2>1. PICK b: b = Xor20(u[n]) /\ b \in Octets /\ b \notin Controls /\ b # u[n]
    BY <1>10, XorControls
  <2>2. x = <<b>> \o all[n]
    <3>1. all[n - 1] = <<ESCAPE, b>> \o all[n]
      BY <1>6, <1>10, <2>1, SendByteCases
    <3>2. ESCAPE \in Octets
      BY DEF ESCAPE, Octets
    <3>3. Tail(<<ESCAPE, b>> \o all[n]) = <<b>> \o all[n]
      <4>1. <<ESCAPE, b>> = <<ESCAPE>> \o <<b>>
        OBVIOUS
      <4>2. <<ESCAPE>> \in Seq(Octets) /\ <<b>> \in Seq(Octets) /\ all[n] \in Seq(Octets)
        BY <1>6, <2>1, <3>2
      <4>3. (<<ESCAPE>> \o <<b>>) \o all[n] = <<ESCAPE>> \o (<<b>> \o all[n])
        BY <4>2, Together, Zenon
      <4>4. PICK y: y = <<b>> \o all[n] /\ y \in Seq(Octets)
        BY <4>2, ConcatProperties
      <4>5. Tail(<<ESCAPE>> \o y) = y
        BY <3>2, <4>4
      <4> QED
        BY <4>1, <4>3, <4>4, <4>5
    <3> QED
      BY <1>1, <1>10, <3>1, <3>3
  <2>3. PICK v: v = [i \in 1 .. N |-> IF i = n THEN b ELSE u[i]]
    OBVIOUS
  <2>4. v \in Seq(Octets) /\ Len(v) = N
    <3>1. ASSUME NEW i \in 1 .. N PROVE (IF i = n THEN b ELSE u[i]) \in Octets
      <4>1. i \in 1 .. Len(u)
        BY <1>5
      <4> QED
        BY <1>4, <2>1, <4>1
    <3>2. v \in [1 .. N -> Octets]
      BY <2>3, <3>1
    <3> QED
      BY <1>5, <2>3, <3>2
  <2>5. v[n] = b /\ \A i \in 1 .. N: i # n => v[i] = u[i]
    <3>1. n \in 1 .. N
      BY <1>5
    <3> QED
      BY <2>3, <3>1
  <2>6. SameTo(v, u, n - 1) /\ Len(v) <= N /\ 2 <= Len(v)
    <3>1. \A i \in 1 .. n - 1: i \in 1 .. N /\ i # n
      BY <1>5
    <3> QED
      BY <1>5, <2>4, <2>5, <3>1 DEF SameTo
  <2>7. SameFrom(v, u, n, n)
    <3>1. ASSUME NEW i \in 1 .. Len(v) - n PROVE v[n + i] = u[n + i]
      <4>1. n + i \in 1 .. N /\ n + i # n
        BY <1>5, <2>4
      <4> QED
        BY <2>5, <4>1
    <3> QED
      BY <1>5, <2>4, <3>1 DEF SameFrom
  <2>8. PICK rest: Encodes(rest, v)
    BY <2>4, EscapedRests
  <2>9. PICK sum: Summed(sum, v)
    BY <2>4, <2>6, AnySums
  <2>10. rest[n - 1] = x
    <3>1. rest[n] = all[n]
      BY <1>4, <2>4, <2>7, <2>8, Tails
    <3>2. n \in 1 .. Len(v)
      BY <1>5, <2>4
    <3>3. rest[n - 1] = SendByte(b) \o rest[n]
      BY <2>5, <2>8, <3>2 DEF Encodes
    <3>4. SendByte(b) = <<b>>
      BY <2>1, SendByteCases
    <3> QED
      BY <2>2, <3>1, <3>3, <3>4
  <2>11. sum[N] # 255
    <3>1. /\ n \in 3 .. Len(v) /\ Len(v) = Len(u) /\ v[n] # u[n]
          /\ \A i \in n + 1 .. Len(v): v[i] = u[i]
      <4>1. \A i \in n + 1 .. Len(v): i \in 1 .. N /\ i # n
        BY <1>5, <2>4
      <4> QED
        BY <1>5, <2>1, <2>4, <2>5, <4>1
    <3>2. sum[Len(v)] # sums[Len(v)]
      BY <1>4, <2>4, <2>6, <2>9, <3>1, SumsDiffer
    <3> QED
      BY <1>3, <1>5, <2>4, <3>2
  <2> QED
    BY <1>7, <2>4, <2>6, <2>8, <2>9, <2>10, <2>11
<1> QED
  BY <1>8, <1>9, <1>10

-----------------------------------------------------------------------------
(* What is left of the frame that is being sent.                           *)

\* All of it, what there is from some byte on, or the second half of an escape sequence
\* and what comes behind it.
Part(p, h, o) ==
    /\ h \in Seq(Octets) /\ Frame(p) = h \o o
    /\ \/ h = <<>>
       \/ \E n \in 1 .. ContentLength(p) + 3: h # <<>> /\ o = Rests(p)[n - 1]
       \/ \E n \in 1 .. ContentLength(p) + 3:
              /\ h # <<>> /\ h[Len(h)] = ESCAPE
              /\ o = <<Xor20(Unescaped(p)[n])>> \o Rests(p)[n]

Sending == out # <<>> => sent # <<>> /\ \E h: Part(Last(sent), h, out)

LEMMA PartTail ==
    ASSUME NEW p \in Payloads, NEW h, NEW o \in Seq(Octets), Part(p, h, o), Tail(o) # <<>>,
           o # <<>>
    PROVE  \E g: Part(p, g, Tail(o))
<1>1. PICK u, all, N: u = Unescaped(p) /\ all = Rests(p) /\ N = ContentLength(p) + 3
  OBVIOUS
<1>2. PICK a, t: a = Head(o) /\ t = Tail(o) /\ a \in Octets /\ t \in Seq(Octets) /\ o = <<a>> \o t
  <2>1. Head(o) \in Octets /\ Tail(o) \in Seq(Octets) /\ o = <<Head(o)>> \o Tail(o)
    OBVIOUS
  <2> QED
    BY <2>1
<1>3. PICK g: g = h \o <<a>>
  OBVIOUS
<1>4. g \in Seq(Octets) /\ g # <<>> /\ g[Len(g)] = a /\ Frame(p) = g \o t
  <2>1. h \in Seq(Octets) /\ Frame(p) = h \o o
    BY DEF Part
  <2>2. h \in Seq(Octets) /\ <<a>> \in Seq(Octets) /\ t \in Seq(Octets)
    BY <1>2, <2>1
  <2>3. (h \o <<a>>) \o t = h \o (<<a>> \o t)
    BY <2>2, Together, Zenon
  <2>4. Len(g) = Len(h) + 1 /\ g[Len(h) + 1] = a /\ g \in Seq(Octets)
    BY <1>2, <1>3, <2>1
  <2>5. Len(h) \in Nat /\ Len(<<>>) = 0
    BY <2>1
  <2>6. g # <<>>
    BY <2>4, <2>5
  <2> QED
    BY <1>2, <1>3, <2>1, <2>3, <2>4, <2>6
<1>5. /\ u \in Seq(Octets) /\ Len(u) = N /\ N \in Nat /\ Encodes(all, u)
      /\ Frame(p) = <<START_BYTE>> \o all[0] /\ 1 <= N
  <2>1. Frame(p) = <<START_BYTE>> \o all[0] /\ Encodes(all, u)
    BY <1>1, FrameRests DEF Rest
  <2> QED
    BY <1>1, <2>1, UnescapedBytes, ContentBytes
<1>6. ASSUME NEW n \in 1 .. N, t = all[n] PROVE \E s: Part(p, s, t)
  <2>1. n # N
    BY <1>2, <1>5, <1>6 DEF Encodes
  <2>2. n + 1 \in 1 .. N /\ (n + 1) - 1 = n
    BY <1>5, <2>1
  <2>3. Part(p, g, t)
    BY <1>1, <1>4, <1>6, <2>2 DEF Part
  <2> QED
    BY <2>3
<1>7. CASE h = <<>>
  <2>1. o = Frame(p)
    BY <1>7, ConcatEmptySeq DEF Part
  <2>2. all[0] \in Seq(Octets) /\ START_BYTE \in Octets
    <3>1. 0 \in 0 .. Len(u)
      BY <1>5
    <3> QED
      BY <1>5, <3>1 DEF Encodes, START_BYTE, Octets
  <2>3. t = all[0]
    BY <1>2, <1>5, <2>1, <2>2
  <2>4. 1 \in 1 .. N /\ 1 - 1 = 0
    BY <1>5
  <2>5. Part(p, g, t)
    BY <1>1, <1>4, <2>3, <2>4 DEF Part
  <2> QED
    BY <1>2, <2>5
<1>8. ASSUME NEW n \in 1 .. N, o = all[n - 1] PROVE \E s: Part(p, s, t)
  <2>1. PICK b, r: b = u[n] /\ r = all[n] /\ b \in Octets /\ r \in Seq(Octets)
                   /\ o = SendByte(b) \o r
    <3>1. n \in 1 .. Len(u) /\ n \in 0 .. Len(u)
      BY <1>5
    <3>2. all[n] \in Seq(Octets) /\ all[n - 1] = SendByte(u[n]) \o all[n]
      BY <1>5, <3>1 DEF Encodes
    <3>3. u[n] \in Octets
      BY <1>5, <3>1
    <3> QED
      BY <1>8, <3>2, <3>3
  <2>2. CASE b \notin Controls
    <3>1. o = <<b>> \o r
      BY <2>1, <2>2, SendByteCases
    <3>2. t = r
      BY <1>2, <2>1, <3>1
    <3> QED
      BY <1>6, <2>1, <3>2
  <2>3. CASE b \in Controls
    <3>1. PICK c: c = Xor20(b) /\ c \in Octets /\ ESCAPE \in Octets
      <4>1. ESCAPE \in Octets
        BY DEF ESCAPE, Octets
      <4>2. Xor20(b) \in Octets
        BY <2>1, XorOctets
      <4> QED
        BY <4>1, <4>2
    <3>2. o = <<ESCAPE, c>> \o r
      BY <2>1, <2>3, <3>1, SendByteCases
    <3>3. <<ESCAPE, c>> \o r = <<ESCAPE>> \o (<<c>> \o r)
      <4>1. <<ESCAPE, c>> = <<ESCAPE>> \o <<c>>
        OBVIOUS
      <4>2. <<ESCAPE>> \in Seq(Octets) /\ <<c>> \in Seq(Octets) /\ r \in Seq(Octets)
        BY <2>1, <3>1
      <4>3. (<<ESCAPE>> \o <<c>>) \o r = <<ESCAPE>> \o (<<c>> \o r)
        BY <4>2, Together, Zenon
      <4> QED
        BY <4>1, <4>3
    <3>4. PICK y: y = <<c>> \o r /\ y \in Seq(Octets)
      <4>1. <<c>> \o r \in Seq(Octets)
        BY <2>1, <3>1
      <4> QED
        BY <4>1
    <3>5. o = <<ESCAPE>> \o y
      BY <3>2, <3>3, <3>4
    <3>6. a = ESCAPE /\ t = y
      BY <1>2, <3>1, <3>4, <3>5
    <3>7. Part(p, g, t)
      BY <1>1, <1>4, <2>1, <3>1, <3>4, <3>6 DEF Part
    <3> QED
      BY <3>7
  <2> QED
    BY <2>2, <2>3
<1>9. ASSUME NEW n \in 1 .. N, o = <<Xor20(u[n])>> \o all[n] PROVE \E s: Part(p, s, t)
  <2>1. u[n] \in Octets /\ all[n] \in Seq(Octets)
    <3>1. n \in 1 .. Len(u) /\ n \in 0 .. Len(u)
      BY <1>5
    <3>2. all[n] \in Seq(Octets)
      BY <1>5, <3>1 DEF Encodes
    <3>3. u[n] \in Octets
      BY <1>5, <3>1
    <3> QED
      BY <3>2, <3>3
  <2>2. PICK c: c = Xor20(u[n]) /\ c \in Octets
    BY <2>1, XorOctets
  <2>3. t = all[n]
    BY <1>2, <1>9, <2>1, <2>2
  <2> QED
    BY <1>6, <2>3
<1> QED
  BY <1>1, <1>2, <1>7, <1>8, <1>9 DEF Part

LEMMA NextSending == LinkTypes /\ Sending /\ [Next]_vars => Sending'
<1> SUFFICES ASSUME LinkTypes, Sending, [Next]_vars PROVE Sending'
  OBVIOUS
<1>1. CASE Send
  <2>1. PICK p \in Payloads: sent' = Append(sent, p) /\ out' = Frame(p)
    BY <1>1 DEF Send
  <2>2. sent' # <<>> /\ Last(sent') = p
    BY <2>1, SenderFacts DEF Last
  <2>3. Part(p, <<>>, Frame(p))
    <3>1. Frame(p) \in Seq(Octets)
      BY FrameRests
    <3>2. <<>> \in Seq(Octets) /\ Frame(p) = <<>> \o Frame(p)
      BY <3>1, ConcatEmptySeq
    <3> QED
      BY <3>2 DEF Part
  <2> QED
    BY <2>1, <2>2, <2>3 DEF Sending
<1>2. CASE Write \/ Lose
  <2>1. out # <<>> /\ out' = Tail(out) /\ sent' = sent
    BY <1>2 DEF Write, Lose
  <2> SUFFICES ASSUME Tail(out) # <<>> PROVE \E g: Part(Last(sent), g, Tail(out))
    BY <2>1 DEF Sending
  <2>2. PICK h: sent # <<>> /\ Part(Last(sent), h, out)
    BY <2>1 DEF Sending
  <2>3. Last(sent) \in Payloads
    BY <2>2, SenderFacts DEF Last
  <2> QED
    BY <2>1, <2>2, <2>3, SenderFacts, PartTail
<1>3. CASE PowerFails
  BY <1>3 DEF PowerFails, Sending
<1>4. CASE Receive \/ UNCHANGED vars
  <2>1. UNCHANGED <<out, sent>>
    BY <1>4 DEF Receive, Call, Return, UnexpectedStart, EscapeAlone, Take, vars, sender
  <2> QED
    BY <2>1 DEF Sending
<1> QED
  BY <1>1, <1>2, <1>3, <1>4 DEF Next

LEMMA AlwaysSending == Spec => []Sending
<1>1. Init => Sending
  BY DEF Init, Sending
<1> QED
  BY <1>1, AlwaysTyped, NextSending, PTL DEF Spec

\* A byte that is lost at no weak spot is the first of a frame, or no byte of a length.
LEMMA StrongSpot ==
    ASSUME LinkTypes, Sending, out # <<>>, ~AtWeakSpot
    PROVE  /\ Last(sent) \in Payloads /\ sent # <<>>
           /\ \/ out = Frame(Last(sent))
              \/ \E n \in 3 .. ContentLength(Last(sent)) + 3: out = Rests(Last(sent))[n - 1]
<1>1. PICK p, h: p = Last(sent) /\ sent # <<>> /\ Part(p, h, out)
  BY DEF Sending
<1>2. p \in Payloads
  BY <1>1, SenderFacts DEF Last
<1>3. PICK u, all, N: u = Unescaped(p) /\ all = Rests(p) /\ N = ContentLength(p) + 3
  OBVIOUS
<1>4. /\ u \in Seq(Octets) /\ Len(u) = N /\ N \in Nat /\ Encodes(all, u)
      /\ Frame(p) = <<START_BYTE>> \o all[0] /\ 3 <= N /\ u[1] = 0
  <2>1. Frame(p) = <<START_BYTE>> \o all[0] /\ Encodes(all, u)
    BY <1>2, <1>3, FrameRests DEF Rest
  <2> QED
    BY <1>2, <1>3, <2>1, UnescapedBytes, ContentBytes
<1>5. /\ out \in Seq(Octets) /\ h \in Seq(Octets) /\ Frame(p) = h \o out
      /\ Len(h) \in Nat /\ Len(out) \in Nat /\ Len(Frame(p)) = Len(h) + Len(out)
  <2>1. out \in Seq(Octets) /\ h \in Seq(Octets) /\ Frame(p) = h \o out
    BY <1>1, SenderFacts DEF Part
  <2> QED
    BY <2>1, ConcatProperties
<1>6. CASE h = <<>>
  BY <1>1, <1>2, <1>5, <1>6, ConcatEmptySeq
<1>7. CASE h # <<>>
  <2>1. PICK index: index = Len(Frame(p)) - Len(out) + 1
    OBVIOUS
  <2>2. index = Len(h) + 1 /\ index > 1 /\ index - 1 = Len(h)
    BY <1>5, <1>7, <2>1
  <2>3. index \notin 2 .. 3 /\ Frame(p)[index - 1] # ESCAPE
    <3>1. /\ index \notin 2 .. (IF Frame(p)[3] = ESCAPE THEN 4 ELSE 3)
          /\ ~(index > 1 /\ Frame(p)[index - 1] = ESCAPE)
      BY <1>1, <2>1 DEF AtWeakSpot
    <3> QED
      BY <2>2, <3>1
  <2>4. h[Len(h)] # ESCAPE
    <3>1. Len(h) \in 1 .. Len(h)
      BY <1>5, <1>7
    <3>2. Frame(p)[Len(h)] = h[Len(h)]
      BY <1>5, <3>1, ConcatProperties
    <3> QED
      BY <2>2, <2>3, <3>2
  <2>5. PICK n \in 1 .. N: out = all[n - 1]
    BY <1>1, <1>3, <1>7, <2>4 DEF Part
  <2>6. Len(Frame(p)) = 1 + Len(all[0]) /\ Len(all[0]) = 1 + Len(all[1])
    <3>1. 0 \in 0 .. Len(u) /\ 1 \in 0 .. Len(u) /\ 1 \in 1 .. Len(u) /\ 1 - 1 = 0
      BY <1>4
    <3>2. all[0] \in Seq(Octets) /\ all[1] \in Seq(Octets) /\ all[0] = SendByte(u[1]) \o all[1]
      BY <1>4, <3>1 DEF Encodes
    <3>3. SendByte(u[1]) = <<0>>
      BY <1>4 DEF SendByte, START_BYTE, ESCAPE, XON, XOFF
    <3>4. START_BYTE \in Octets /\ 0 \in Octets
      BY DEF START_BYTE, Octets
    <3>5. PICK x, y: x = all[0] /\ y = all[1] /\ x \in Seq(Octets) /\ y \in Seq(Octets)
      BY <3>2
    <3>6. Len(<<START_BYTE>> \o x) = 1 + Len(x)
      BY <3>4, <3>5
    <3>7. Len(<<0>> \o y) = 1 + Len(y)
      BY <3>4, <3>5
    <3> QED
      BY <1>4, <3>2, <3>3, <3>5, <3>6, <3>7
  <2>7. n # 1 /\ n # 2
    <3>1. ASSUME n = 1 PROVE FALSE
      <4>1. Len(out) = Len(all[0])
        BY <2>5, <3>1
      <4>2. Len(h) + Len(out) = 1 + Len(all[0]) /\ Len(h) \in Nat /\ Len(out) \in Nat
        BY <1>5, <2>6
      <4>3. PICK x, y: x = Len(h) /\ y = Len(out) /\ x \in Nat /\ y \in Nat
        BY <4>2
      <4>4. x + y = 1 + y
        BY <4>1, <4>2, <4>3, Zenon
      <4>5. Len(h) = 1
        BY <4>3, <4>4
      <4> QED
        BY <2>2, <2>3, <4>5
    <3>2. ASSUME n = 2 PROVE FALSE
      <4>1. Len(out) = Len(all[1])
        BY <2>5, <3>2
      <4>2. Len(h) + Len(out) = 2 + Len(all[1]) /\ Len(h) \in Nat /\ Len(out) \in Nat
        BY <1>5, <2>6
      <4>3. PICK x, y: x = Len(h) /\ y = Len(out) /\ x \in Nat /\ y \in Nat
        BY <4>2
      <4>4. x + y = 2 + y
        BY <4>1, <4>2, <4>3, Zenon
      <4>5. Len(h) = 2
        BY <4>3, <4>4
      <4> QED
        BY <2>2, <2>3, <4>5
    <3> QED
      BY <3>1, <3>2
  <2>8. n \in 3 .. N
    BY <2>7
  <2> QED
    BY <1>1, <1>2, <1>3, <2>5, <2>8
<1> QED
  BY <1>6, <1>7

-----------------------------------------------------------------------------
(* A byte is lost, or the power.                                           *)

\* All that is to come ends with what was to be sent; what is in front of it stays.
Fronts(h, behind, K, M) ==
    \A k \in K .. M - 1: h[k] \in Seq(Octets) /\ behind[k] = h[k] \o out

Rejoined(after, h, K, M, x) ==
    after = [k \in K .. M |-> IF k = M THEN <<>> ELSE h[k] \o x]

LEMMA BehindDamaged ==
    ASSUME LinkTypes, NEW K \in Nat, NEW M, M = Len(sent), K < M, NEW behind,
           Behind(behind, K, 0), NEW h, Fronts(h, behind, K, M), NEW x \in Seq(Octets),
           Damaged(h[M - 1] \o x), NEW after, Rejoined(after, h, K, M, x), sent' = sent
    PROVE  /\ Behind(after, K, M)'
           /\ \A k \in K .. M - 1: after[k] = h[k] \o x
           /\ after[M] = <<>>
<1>1. M \in Nat /\ out \in Seq(Octets) /\ M = Len(sent') /\ M - 1 \in K .. M - 1
  BY SenderFacts
<1>2. \A k \in K .. M - 1: h[k] \in Seq(Octets) /\ behind[k] = h[k] \o out
  BY DEF Fronts
<1>3. /\ behind[M] = <<>>
      /\ \A k \in K + 1 .. M: \E D: Goes(D, k, 0) /\ behind[k - 1] = D \o behind[k]
  BY DEF Behind
<1>4. ASSUME NEW k \in K .. M - 1 PROVE after[k] = h[k] \o x /\ after[k] \in Seq(Octets)
  <2>1. k \in K .. M /\ k # M
    BY <1>1
  <2>2. after[k] = h[k] \o x
    BY <2>1 DEF Rejoined
  <2>3. h[k] \o x \in Seq(Octets)
    BY <1>2, ConcatProperties
  <2> QED
    BY <2>2, <2>3
<1>5. after[M] = <<>>
  <2>1. M \in K .. M
    BY <1>1
  <2> QED
    BY <2>1 DEF Rejoined
<1>6. ASSUME NEW k \in K .. M PROVE after[k] \in Seq(Octets)
  <2>1. k = M \/ k \in K .. M - 1
    BY <1>1
  <2>2. <<>> \in Seq(Octets)
    OBVIOUS
  <2> QED
    BY <1>4, <1>5, <2>1, <2>2
<1>7. ASSUME NEW k \in K + 1 .. M PROVE \E D: Goes(D, k, M)' /\ after[k - 1] = D \o after[k]
  <2>1. CASE k = M
    <3>1. PICK D: D = h[M - 1] \o x /\ D \in Seq(Octets) /\ after[k - 1] = D
      BY <1>1, <1>4, <2>1
    <3>2. D \o <<>> = D
      BY <3>1, ConcatEmptySeq
    <3>3. Damaged(D)'
      BY <3>1 DEF Damaged
    <3>4. Goes(D, k, M)'
      BY <2>1, <3>1, <3>3 DEF Goes
    <3> QED
      BY <1>5, <2>1, <3>1, <3>2, <3>4
  <2>2. CASE k # M
    <3>1. k \in K .. M - 1 /\ k - 1 \in K .. M - 1 /\ k # 0
      BY <1>1, <2>2
    <3>2. PICK D: Goes(D, k, 0) /\ behind[k - 1] = D \o behind[k]
      BY <1>3
    <3>3. PICK g, e: g = h[k] /\ e = h[k - 1] /\ g \in Seq(Octets) /\ e \in Seq(Octets)
      BY <1>2, <3>1
    <3>4. D \in Seq(Octets) /\ D = Frame(sent[k])
      BY <3>1, <3>2 DEF Goes
    <3>5. Joins(e, D, g, out)
      BY <1>2, <3>1, <3>2, <3>3 DEF Joins
    <3>6. Joins(e, D, g, x)
      <4>1. D \in Seq(Octets) /\ g \in Seq(Octets) /\ e \in Seq(Octets)
        BY <3>3, <3>4
      <4>2. out \in Seq(Octets) /\ x \in Seq(Octets)
        BY <1>1
      <4> QED
        BY <3>5, <4>1, <4>2, Rejoin
    <3>7. after[k - 1] = D \o after[k]
      BY <1>4, <3>1, <3>3, <3>6 DEF Joins
    <3>8. Goes(D, k, M)'
      BY <2>2, <3>4 DEF Goes
    <3> QED
      BY <3>7, <3>8
  <2> QED
    BY <2>1, <2>2
<1>8. Behind(after, K, M)'
  BY <1>1, <1>5, <1>6, <1>7 DEF Behind
<1> QED
  BY <1>4, <1>5, <1>8

\* A packet that has been broken is still read as far as it has been.
LEMMA ReadOn ==
    ASSUME LinkTypes, NEW p \in Payloads, NEW n \in 3 .. ContentLength(p) + 3,
           out = Rests(p)[n - 1], NEW all, NEW u, NEW sums, Whole(u, all, sums, p),
           Reads(u, all, sums, <<>>),
           NEW v, NEW rest, NEW sum, NEW x \in Seq(Octets), Breaks(v, rest, sum, p, n, x),
           out' = x, UNCHANGED <<line, escape, pos, lsbLength, checksumTotal, frameData>>
    PROVE  Reads(v, rest, sum, <<>>)'
<1>1. /\ u \in Seq(Octets) /\ Encodes(all, u) /\ Summed(sums, u) /\ Len(u) \in Nat
      /\ Len(u) = ContentLength(p) + 3 /\ u = Unescaped(p) /\ all = Rests(p)
  <2>1. Readable(u, all, sums) /\ u = Unescaped(p) /\ all = Rests(p)
    BY GoodPacket DEF Whole
  <2>2. Len(u) = ContentLength(p) + 3
    BY <2>1, UnescapedBytes
  <2> QED
    BY <2>1, <2>2 DEF Readable
<1>2. /\ v \in Seq(Octets) /\ Encodes(rest, v) /\ Summed(sum, v) /\ 2 <= Len(v)
      /\ SameTo(v, u, n - 1) /\ rest[n - 1] = x
  BY <1>1 DEF Breaks, Readable
<1>3. /\ 1 <= pos /\ pos <= Len(u) + 1 /\ pos <= u[2] + 3 /\ pos \in Nat
      /\ pos >= 3 => lsbLength = u[2] /\ checksumTotal = sums[pos - 1]
      /\ pos >= 4 => \A i \in 1 .. pos - 4: frameData[i] = u[i + 3]
  BY SenderFacts DEF Reads
<1>4. n \in Nat /\ 3 <= n /\ n <= Len(u) /\ n - 1 \in Nat
  BY <1>1, ContentBytes
<1>5. line \in Seq(Octets) /\ out \in Seq(Octets) /\ Half \in Seq(Octets)
  BY SenderFacts
<1>6. PICK q: q = Half \o line /\ q \in Seq(Octets) /\ all[pos - 1] = q \o out
              /\ Half' \o (line \o out)' = q \o x
  <2>1. Half \o line \in Seq(Octets)
    BY <1>5, ConcatProperties
  <2>2. (Half \o line) \o out = Half \o (line \o out)
    <3>1. PICK a, b, c: a = Half /\ b = line /\ c = out
      OBVIOUS
    <3>2. a \in Seq(Octets) /\ b \in Seq(Octets) /\ c \in Seq(Octets)
      BY <1>5, <3>1
    <3>3. (a \o b) \o c = a \o (b \o c)
      BY <3>2, Together, Zenon
    <3> QED
      BY <3>1, <3>3
  <2>3. (Half \o line) \o x = Half \o (line \o x)
    BY <1>5, Together, Zenon
  <2>4. all[pos - 1] \in Seq(Octets)
    <3>1. pos - 1 \in 0 .. Len(u)
      BY <1>1, <1>3
    <3> QED
      BY <1>1, <3>1 DEF Encodes
  <2>5. Half \o (line \o out) = all[pos - 1]
    <3>1. Half \o (line \o out) = all[pos - 1] \o <<>>
      BY DEF Reads
    <3> QED
      BY <2>4, <3>1, ConcatEmptySeq
  <2>6. Half' = Half /\ (line \o out)' = line \o x
    BY DEF Half
  <2> QED
    BY <2>1, <2>2, <2>3, <2>5, <2>6
<1>7. pos <= n
  <2> SUFFICES ASSUME n < pos PROVE FALSE
    BY <1>3, <1>4
  <2>1. PICK m: m = pos - 1 /\ m \in Nat /\ SameTo(u, u, m) /\ n - 1 \in 0 .. m /\ m - (n - 1) >= 1
    BY <1>1, <1>3, <1>4 DEF SameTo
  <2>2. Ahead(all, all, n - 1, m)
    BY <1>1, <2>1, Heads
  <2>3. PICK g \in Seq(Octets): all[n - 1] = g \o all[m] /\ m - (n - 1) <= Len(g)
    BY <2>2 DEF Ahead
  <2>4. out = g \o (q \o out)
    BY <1>1, <1>6, <2>1, <2>3
  <2>5. PICK w: w = q \o out /\ w \in Seq(Octets) /\ Len(w) = Len(q) + Len(out)
    <3>1. q \in Seq(Octets) /\ out \in Seq(Octets)
      BY <1>5, <1>6
    <3>2. q \o out \in Seq(Octets) /\ Len(q \o out) = Len(q) + Len(out)
      BY <3>1, ConcatProperties
    <3> QED
      BY <3>2
  <2>6. Len(g \o w) = Len(g) + Len(w)
    BY <2>5, ConcatProperties
  <2>7. Len(out) = Len(g) + (Len(q) + Len(out))
    BY <2>4, <2>5, <2>6
  <2>8. Len(out) \in Nat /\ Len(g) \in Nat /\ Len(q) \in Nat /\ Len(g) >= 1
    BY <1>5, <1>6, <2>1, <2>3
  <2> QED
    BY <2>7, <2>8
<1>8. rest[pos - 1] = q \o x
  <2>1. PICK m, i: m = n - 1 /\ i = pos - 1 /\ m \in Nat /\ i \in 0 .. m
    BY <1>3, <1>4, <1>7
  <2>2. SameTo(u, v, m)
    BY <1>2, <2>1 DEF SameTo
  <2>3. Ahead(all, rest, i, m)
    BY <1>1, <1>2, <2>1, <2>2, Heads
  <2>4. PICK g \in Seq(Octets): all[i] = g \o all[m] /\ rest[i] = g \o rest[m]
    BY <2>3 DEF Ahead
  <2>5. q \o out = g \o out
    BY <1>1, <1>6, <2>1, <2>4
  <2>6. q = g
    BY <1>5, <1>6, <2>5, RightCancel
  <2> QED
    BY <1>2, <2>1, <2>4, <2>6
<1>9. Half' \o (line \o out)' = rest[pos' - 1] \o <<>>
  <2>1. (q \o x) \o <<>> = q \o x
    <3>1. q \o x \in Seq(Octets)
      BY <1>6, ConcatProperties
    <3> QED
      BY <3>1, ConcatEmptySeq
  <2> QED
    BY <1>6, <1>8, <2>1
<1>10. /\ n - 1 <= Len(v) /\ v[2] = u[2] /\ Len(v) \in Nat
       /\ \A i \in 1 .. n - 1: v[i] = u[i]
  <2>1. n - 1 <= Len(v) /\ \A i \in 1 .. n - 1: v[i] = u[i]
    BY <1>2 DEF SameTo
  <2>2. 2 \in 1 .. n - 1
    BY <1>4
  <2> QED
    BY <1>2, <2>1, <2>2
<1>11. pos' <= Len(v) + 1
  BY <1>3, <1>4, <1>7, <1>10
<1>12. pos' >= 3 => lsbLength' = v[2] /\ checksumTotal' = sum[pos' - 1]
  <2> SUFFICES ASSUME pos >= 3 PROVE lsbLength = v[2] /\ checksumTotal = sum[pos - 1]
    OBVIOUS
  <2>1. PICK m, i: m = n - 1 /\ i = pos - 1 /\ m \in Nat /\ i \in 2 .. m
    BY <1>3, <1>4, <1>7
  <2>2. sum[i] = sums[i]
    BY <1>1, <1>2, <2>1, SumsAgree
  <2> QED
    BY <1>3, <1>10, <2>1, <2>2
<1>13. pos' >= 4 => \A i \in 1 .. pos' - 4: frameData'[i] = v[i + 3]
  <2> SUFFICES ASSUME pos >= 4, NEW i \in 1 .. pos - 4 PROVE frameData[i] = v[i + 3]
    OBVIOUS
  <2>1. i + 3 \in 1 .. n - 1
    BY <1>3, <1>4, <1>7
  <2> QED
    BY <1>3, <1>10, <2>1
<1> QED
  BY <1>3, <1>9, <1>10, <1>11, <1>12, <1>13 DEF Reads


\* What goes out of a packet that a fault has hit at no weak spot cannot be taken for one.
LEMMA CutFrame ==
    ASSUME LinkTypes, Sending, out # <<>>, ~AtWeakSpot, NEW x \in {Tail(out), <<>>},
           NEW g \in Seq(Octets), Frame(Last(sent)) = g \o out
    PROVE  x \in Seq(Octets) /\ Damaged(g \o x)
<1>1. PICK p: p = Last(sent) /\ p \in Payloads
              /\ \/ out = Frame(p)
                 \/ \E n \in 3 .. ContentLength(p) + 3: out = Rests(p)[n - 1]
  BY StrongSpot
<1>2. PICK o: o = out /\ o \in Seq(Octets) /\ o # <<>>
  BY SenderFacts
<1>3. x \in Seq(Octets)
  <2>1. Tail(o) \in Seq(Octets) /\ <<>> \in Seq(Octets)
    BY <1>2
  <2> QED
    BY <1>2, <2>1
<1>4. PICK u, all: /\ u = Unescaped(p) /\ all = Rests(p)
                   /\ u \in Seq(Octets) /\ Encodes(all, u) /\ Len(u) = ContentLength(p) + 3
                   /\ Frame(p) = <<START_BYTE>> \o all[0]
  <2>1. Frame(p) = <<START_BYTE>> \o Rests(p)[0] /\ Encodes(Rests(p), Unescaped(p))
    BY <1>1, FrameRests DEF Rest
  <2>2. Unescaped(p) \in Seq(Octets) /\ Len(Unescaped(p)) = ContentLength(p) + 3
    BY <1>1, UnescapedBytes
  <2> QED
    BY <2>1, <2>2
<1>5. START_BYTE \in Octets /\ <<START_BYTE>> \in Seq(Octets) /\ 0 \in 0 .. Len(u)
  <2>1. START_BYTE \in Octets
    BY DEF START_BYTE, Octets
  <2> QED
    BY <1>4, <2>1
<1>6. all[0] \in Seq(Octets) /\ Startless(all[0])
  BY <1>4, <1>5, EncodedStartless DEF Encodes
<1>7. CASE o = Frame(p)
  <2>1. g = <<>>
    <3>1. <<>> \in Seq(Octets) /\ <<>> \o o = o /\ g \o o = <<>> \o o
      BY <1>1, <1>2, <1>7, ConcatEmptySeq
    <3> QED
      BY <1>2, <3>1, RightCancel
  <2>2. g \o x = x
    BY <1>3, <2>1, ConcatEmptySeq
  <2>3. Tail(o) = all[0]
    BY <1>4, <1>5, <1>6, <1>7
  <2>4. Startless(<<>>)
    BY DEF Startless
  <2>5. Startless(x)
    BY <1>2, <1>6, <2>3, <2>4
  <2> QED
    BY <1>3, <2>2, <2>5 DEF Damaged
<1>8. ASSUME NEW n \in 3 .. ContentLength(p) + 3, o = all[n - 1] PROVE Damaged(g \o x)
  <2>1. PICK v, rest, sum: Breaks(v, rest, sum, p, n, x)
    BY <1>1, <1>2, <1>4, <1>8, Broken
  <2>2. /\ Readable(v, rest, sum) /\ Spoilt(v, sum) /\ SameTo(v, u, n - 1)
        /\ rest[n - 1] = x /\ v \in Seq(Octets) /\ Encodes(rest, v)
    BY <1>4, <2>1 DEF Breaks, Readable
  <2>3. n - 1 \in Nat /\ 0 \in 0 .. n - 1
    OBVIOUS
  <2>4. Ahead(rest, all, 0, n - 1)
    BY <1>4, <2>2, <2>3, Heads
  <2>5. PICK h \in Seq(Octets): rest[0] = h \o x /\ all[0] = h \o o
    BY <1>8, <2>2, <2>4 DEF Ahead
  <2>6. PICK s: s = <<START_BYTE>> /\ s \in Seq(Octets)
    BY <1>5
  <2>7. (s \o h) \o o = s \o (h \o o)
    BY <1>2, <2>6, Together, Zenon
  <2>8. (s \o h) \o x = s \o (h \o x)
    BY <1>3, <2>6, Together, Zenon
  <2>9. g = s \o h
    <3>1. s \o h \in Seq(Octets)
      BY <2>6, ConcatProperties
    <3>2. g \o o = (s \o h) \o o
      BY <1>1, <1>2, <1>4, <2>5, <2>6, <2>7
    <3> QED
      BY <1>2, <3>1, <3>2, RightCancel
  <2>10. g \o x = <<START_BYTE>> \o rest[0]
    BY <2>5, <2>6, <2>8, <2>9
  <2> QED
    BY <2>2, <2>10 DEF Damaged
<1> QED
  BY <1>1, <1>2, <1>3, <1>4, <1>7, <1>8

\* Nothing is being sent when all packets are over.
LEMMA StillToCome ==
    ASSUME LinkTypes, NEW K, NEW behind, At(K, 0, behind), out # <<>>
    PROVE  K < Len(sent)
<1>1. K \in Nat /\ K <= Len(sent) /\ Len(sent) \in Nat /\ Behind(behind, K, 0)
  BY SenderFacts DEF At, Base
<1>2. CASE Within(K, 0, behind)
  BY <1>2 DEF Within
<1>3. CASE Between(K, 0, behind)
  <2> SUFFICES ASSUME K = Len(sent) PROVE FALSE
    BY <1>1
  <2>1. behind[K] = <<>>
    BY <1>1 DEF Behind
  <2>2. line \o out = <<>> \o <<>>
    BY <1>3, <2>1 DEF Between
  <2>3. PICK a, b: a = line /\ b = out /\ a \in Seq(Octets) /\ b \in Seq(Octets)
    BY SenderFacts
  <2>4. Len(a \o b) = Len(a) + Len(b) /\ Len(a) \in Nat /\ Len(b) \in Nat
    BY <2>3
  <2>5. Len(<<>> \o <<>>) = 0
    OBVIOUS
  <2>6. Len(b) = 0
    BY <2>2, <2>3, <2>4, <2>5
  <2> QED
    BY <2>3, <2>6
<1> QED
  BY <1>2, <1>3 DEF At

\* The fronts there are as long as no packet is damaged.
LEMMA SomeFronts ==
    ASSUME LinkTypes, NEW K \in Nat, NEW behind, Unsent(behind, K), NEW M, M = Len(sent)
    PROVE  \E h: Fronts(h, behind, K, M)
<1>1. PICK h: h = [k \in K .. M - 1 |-> CHOOSE g \in Seq(Octets): behind[k] = g \o out]
  OBVIOUS
<1>2. ASSUME NEW k \in K .. M - 1 PROVE h[k] \in Seq(Octets) /\ behind[k] = h[k] \o out
  <2>1. \E g \in Seq(Octets): behind[k] = g \o out
    BY DEF Unsent
  <2> QED
    BY <1>1, <2>1
<1> QED
  BY <1>2 DEF Fronts

\* The step of Lose and of PowerFails: x is left to send.
Faulty(x) ==
    /\ x \in {Tail(out), <<>>} /\ out' = x /\ out # <<>> /\ ~AtWeakSpot
    /\ faults = 0 /\ faults' = 1
    /\ UNCHANGED <<line, sent, receiver>>

LEMMA FaultBetween ==
    ASSUME LinkTypes, NEW x \in Seq(Octets), Faulty(x), NEW K \in Nat, NEW M \in Nat, K < M,
           NEW behind, NEW h, Fronts(h, behind, K, M), NEW after, after[K] = h[K] \o x,
           Between(K, 0, behind)
    PROVE  Between(K, M, after)'
<1>1. /\ line \o out = <<>> \o behind[K]
      /\ pos = 0 \/ status = "UNEXPECTED_START_BYTE"
  BY DEF Between
<1>2. UNCHANGED <<line, pos, status>> /\ out' = x
  BY DEF Faulty, receiver
<1>3. PICK a, b, c: a = line /\ b = out /\ c = h[K] /\ a \in Seq(Octets) /\ b \in Seq(Octets)
                    /\ c \in Seq(Octets) /\ behind[K] = c \o b
  <2>1. K \in K .. M - 1
    OBVIOUS
  <2>2. h[K] \in Seq(Octets) /\ behind[K] = h[K] \o out
    BY <2>1 DEF Fronts
  <2> QED
    BY <2>2, SenderFacts
<1>4. a = c
  <2>1. <<>> \o (c \o b) = c \o b
    <3>1. c \o b \in Seq(Octets)
      BY <1>3, ConcatProperties
    <3> QED
      BY <3>1, ConcatEmptySeq
  <2>2. a \o b = c \o b
    BY <1>1, <1>3, <2>1
  <2> QED
    BY <1>3, <2>2, RightCancel
<1>5. (line \o out)' = <<>> \o after[K]
  <2>1. <<>> \o (c \o x) = c \o x
    <3>1. c \o x \in Seq(Octets)
      BY <1>3, ConcatProperties
    <3> QED
      BY <3>1, ConcatEmptySeq
  <2> QED
    BY <1>2, <1>3, <1>4, <2>1
<1>6. Startless(<<>>)
  BY DEF Startless
<1> QED
  BY <1>1, <1>2, <1>5, <1>6 DEF Between

\* The packet that is being read is not the one that is hit.
LEMMA FaultLater ==
    ASSUME LinkTypes, NEW x \in Seq(Octets), Faulty(x), NEW K \in Nat, NEW M, M = Len(sent),
           K + 1 < M, NEW behind, NEW h, Fronts(h, behind, K, M), NEW after,
           after[K + 1] = h[K + 1] \o x, Within(K, 0, behind)
    PROVE  Within(K, M, after)'
<1>1. PICK v, rest, sum: Read(v, rest, sum, K, 0) /\ Reads(v, rest, sum, behind[K + 1])
  BY DEF Within
<1>2. /\ UNCHANGED <<line, sent, pos, status, escape, lsbLength, checksumTotal, frameData>>
      /\ out' = x /\ M \in Nat
  BY SenderFacts DEF Faulty, receiver
<1>3. Read(v, rest, sum, K, M)'
  <2>1. Readable(v, rest, sum) /\ Whole(v, rest, sum, sent[K + 1])
    BY <1>1 DEF Read
  <2>2. K + 1 # M
    BY <1>2
  <2> QED
    BY <1>2, <2>1, <2>2 DEF Read
<1>4. PICK J: J = K + 1 /\ J \in K .. M - 1
  BY <1>2
<1>5. PICK a, b, c, e: /\ a = Half /\ b = line /\ c = out /\ e = h[J]
                       /\ a \in Seq(Octets) /\ b \in Seq(Octets) /\ c \in Seq(Octets)
                       /\ e \in Seq(Octets) /\ behind[J] = e \o c
  <2>1. h[J] \in Seq(Octets) /\ behind[J] = h[J] \o out
    BY <1>4 DEF Fronts
  <2> QED
    BY <2>1, SenderFacts
<1>6. PICK r: r = rest[pos - 1] /\ r \in Seq(Octets)
  <2>1. Encodes(rest, v) /\ v \in Seq(Octets)
    BY <1>1 DEF Read, Readable
  <2>2. pos - 1 \in 0 .. Len(v)
    <3>1. 1 <= pos /\ pos <= Len(v) + 1 /\ pos \in Nat /\ Len(v) \in Nat
      BY <1>1, <2>1, SenderFacts DEF Reads
    <3> QED
      BY <3>1
  <2> QED
    BY <2>1, <2>2 DEF Encodes
<1>7. a \in Seq(Octets) /\ b \in Seq(Octets) /\ c \in Seq(Octets)
  BY <1>5
<1>8. (a \o b) \o c = a \o (b \o c)
  BY <1>7, Together, Zenon
<1>9. (a \o b) \o x = a \o (b \o x)
  BY <1>7, Together, Zenon
<1>10. a \o (b \o x) = r \o (e \o x)
  <2>1. a \o b \in Seq(Octets)
    BY <1>5, ConcatProperties
  <2>2. Half \o (line \o out) = rest[pos - 1] \o behind[J]
    BY <1>1, <1>4 DEF Reads
  <2>3. Joins(a \o b, r, e, c)
    BY <1>5, <1>6, <1>8, <2>2 DEF Joins
  <2>4. Joins(a \o b, r, e, x)
    BY <1>5, <1>6, <2>1, <2>3, Rejoin
  <2> QED
    BY <1>9, <2>4 DEF Joins
<1>11. Reads(v, rest, sum, after[J])'
  <2>1. Half' = Half /\ (line \o out)' = line \o x
    BY <1>2 DEF Half
  <2>2. Half' \o (line \o out)' = rest[pos' - 1] \o after[J]
    BY <1>2, <1>4, <1>5, <1>6, <1>10, <2>1
  <2> QED
    BY <1>1, <1>2, <2>2 DEF Reads
<1> QED
  BY <1>2, <1>3, <1>4, <1>11 DEF Within

\* The packet that is being read is the one that is hit.
LEMMA FaultHere ==
    ASSUME LinkTypes, Sending, NEW x \in Seq(Octets), Faulty(x), NEW K \in Nat, NEW M,
           M = Len(sent), K + 1 = M, NEW behind, behind[M] = <<>>, NEW after, after[M] = <<>>,
           Within(K, 0, behind)
    PROVE  Within(K, M, after)'
<1>1. PICK v, rest, sum: Read(v, rest, sum, K, 0) /\ Reads(v, rest, sum, <<>>)
  <2>1. PICK v, rest, sum: Read(v, rest, sum, K, 0) /\ Reads(v, rest, sum, behind[K + 1])
    BY DEF Within
  <2> QED
    BY <2>1
<1>2. /\ UNCHANGED <<line, sent, pos, status, escape, lsbLength, checksumTotal, frameData>>
      /\ out' = x /\ out # <<>> /\ ~AtWeakSpot /\ x \in {Tail(out), <<>>} /\ M \in Nat
      /\ pos > 0 /\ pos \in Nat /\ status = "none"
  BY SenderFacts DEF Faulty, receiver, Within
<1>3. PICK p: p = Last(sent) /\ p \in Payloads /\ sent # <<>>
              /\ \/ out = Frame(p)
                 \/ \E n \in 3 .. ContentLength(p) + 3: out = Rests(p)[n - 1]
  BY <1>2, StrongSpot
<1>4. Whole(v, rest, sum, p)
  <2>1. sent[K + 1] = p
    BY <1>3 DEF Last
  <2>2. K + 1 # 0
    OBVIOUS
  <2> QED
    BY <1>1, <2>1, <2>2 DEF Read
<1>5. /\ v \in Seq(Octets) /\ Encodes(rest, v) /\ rest = Rests(p)
      /\ Frame(p) = <<START_BYTE>> \o rest[0]
  BY <1>3, <1>4, GoodPacket DEF Readable, Whole
<1>6. out # Frame(p)
  <2> SUFFICES ASSUME out = Frame(p) PROVE FALSE
    OBVIOUS
  <2>1. PICK m: m = pos - 1 /\ m \in Nat /\ m <= Len(v) /\ Len(v) \in Nat
    <3>1. pos <= Len(v) + 1 /\ Len(v) \in Nat
      BY <1>1, <1>5 DEF Reads
    <3> QED
      BY <1>2, <3>1
  <2>2. SameTo(v, v, m)
    BY <2>1 DEF SameTo
  <2>3. 0 \in 0 .. m
    BY <2>1
  <2>4. Ahead(rest, rest, 0, m)
    BY <1>5, <2>1, <2>2, <2>3, Heads
  <2>5. PICK h \in Seq(Octets): rest[0] = h \o rest[m]
    BY <2>4 DEF Ahead
  <2>6. PICK r, a, b, c: /\ r = rest[m] /\ a = Half /\ b = line /\ c = out
                         /\ r \in Seq(Octets) /\ a \in Seq(Octets) /\ b \in Seq(Octets)
                         /\ c \in Seq(Octets)
    <3>1. m \in 0 .. Len(v)
      BY <2>1
    <3>2. rest[m] \in Seq(Octets)
      BY <1>5, <3>1 DEF Encodes
    <3> QED
      BY <3>2, SenderFacts
  <2>7. a \o (b \o c) = r
    <3>1. r \o <<>> = r
      BY <2>6, ConcatEmptySeq
    <3>2. Half \o (line \o out) = rest[pos - 1] \o <<>>
      BY <1>1 DEF Reads
    <3> QED
      BY <2>1, <2>6, <3>1, <3>2
  <2>8. Len(a \o (b \o c)) = Len(a) + (Len(b) + Len(c))
    <3>1. b \o c \in Seq(Octets) /\ Len(b \o c) = Len(b) + Len(c)
      BY <2>6, ConcatProperties
    <3>2. PICK w: w = b \o c
      OBVIOUS
    <3>3. Len(a \o w) = Len(a) + Len(w)
      BY <2>6, <3>1, <3>2, ConcatProperties
    <3> QED
      BY <3>1, <3>2, <3>3
  <2>9. Len(c) = 1 + (Len(h) + Len(r))
    <3>1. h \o r \in Seq(Octets) /\ Len(h \o r) = Len(h) + Len(r)
      BY <2>5, <2>6, ConcatProperties
    <3>2. PICK w: w = h \o r
      OBVIOUS
    <3>3. START_BYTE \in Octets
      BY DEF START_BYTE, Octets
    <3>4. Len(<<START_BYTE>> \o w) = 1 + Len(w)
      BY <3>1, <3>2, <3>3
    <3>5. c = <<START_BYTE>> \o w
      BY <1>5, <2>5, <2>6, <3>2
    <3> QED
      BY <3>1, <3>2, <3>4, <3>5
  <2>10. Len(r) = Len(a) + (Len(b) + Len(c))
    BY <2>7, <2>8
  <2>11. Len(a) \in Nat /\ Len(b) \in Nat /\ Len(c) \in Nat /\ Len(r) \in Nat /\ Len(h) \in Nat
    BY <2>6
  <2> QED
    BY <2>9, <2>10, <2>11
<1>7. PICK n \in 3 .. ContentLength(p) + 3: out = Rests(p)[n - 1]
  BY <1>3, <1>6
<1>8. PICK w, left, total: Breaks(w, left, total, p, n, x)
  <2>1. x \in {Tail(Rests(p)[n - 1]), <<>>}
    BY <1>2, <1>7
  <2> QED
    BY <1>3, <2>1, Broken
<1>9. Reads(w, left, total, <<>>)'
  <2>1. UNCHANGED <<line, escape, pos, lsbLength, checksumTotal, frameData>> /\ out' = x
    BY <1>2
  <2> QED
    BY <1>1, <1>3, <1>4, <1>7, <1>8, <2>1, ReadOn
<1>10. Read(w, left, total, K, M)'
  <2>1. Readable(w, left, total) /\ Spoilt(w, total)
    BY <1>8 DEF Breaks
  <2> QED
    BY <2>1 DEF Read
<1>11. pos' > 0 /\ status' = "none" /\ K < Len(sent')
  BY <1>2
<1>12. after[K + 1] = <<>>
  OBVIOUS
<1> QED
  BY <1>9, <1>10, <1>11, <1>12 DEF Within

LEMMA FaultSound ==
    ASSUME LinkTypes, Sending, Sound, Lose \/ PowerFails
    PROVE  Sound'
<1> SUFFICES ASSUME Noticed' PROVE Quiet' /\ OnItsWay'
  BY DEF Sound
<1>1. PICK x: x \in {Tail(out), <<>>} /\ out' = x
  <2>1. out' \in {Tail(out), <<>>}
    BY DEF Lose, PowerFails
  <2> QED
    BY <2>1
<1>2. Faulty(x) /\ Noticed
  <2>1. /\ out # <<>> /\ faults' = faults + 1 /\ weak' = (weak \/ AtWeakSpot)
        /\ UNCHANGED <<line, sent, receiver>>
    BY DEF Lose, PowerFails
  <2>2. faults \in Nat
    BY LinkAssumption DEF LinkTypes, SenderTypes
  <2>3. faults' <= 1 /\ ~weak'
    BY DEF Noticed
  <2>4. faults = 0 /\ faults' = 1
    BY <2>1, <2>2, <2>3
  <2>5. ~weak /\ ~AtWeakSpot
    BY <2>1, <2>3
  <2> QED
    BY <1>1, <2>1, <2>4, <2>5 DEF Faulty, Noticed
<1>3. Quiet /\ OnItsWay
  BY <1>2 DEF Sound
<1>4. PICK K, d, behind: At(K, d, behind)
  BY <1>3 DEF OnItsWay
<1>5. d = 0 /\ K \in Nat /\ Behind(behind, K, 0) /\ Told(K, 0) /\ Unsent(behind, K)
  BY <1>2, <1>4 DEF At, Base, Faulty
<1>6. K < Len(sent) /\ out # <<>> /\ sent' = sent
  BY <1>2, <1>4, <1>5, StillToCome DEF Faulty
<1>7. PICK M: M = Len(sent) /\ M \in Nat /\ K < M /\ M - 1 \in K .. M - 1 /\ M # 0
  BY <1>5, <1>6, SenderFacts
<1>8. PICK h: Fronts(h, behind, K, M)
  BY <1>5, <1>7, SomeFronts
<1>9. x \in Seq(Octets) /\ Damaged(h[M - 1] \o x)
  <2>1. h[M - 1] \in Seq(Octets) /\ behind[M - 1] = h[M - 1] \o out
    BY <1>7, <1>8 DEF Fronts
  <2>2. behind[M - 1] = Frame(Last(sent))
    <3>1. M \in K + 1 .. M
      BY <1>5, <1>7
    <3>2. PICK D: Goes(D, M, 0) /\ behind[M - 1] = D \o behind[M] /\ behind[M] = <<>>
      BY <1>5, <1>7, <3>1 DEF Behind
    <3>3. D \in Seq(Octets) /\ D = Frame(sent[M])
      BY <1>7, <3>2 DEF Goes
    <3>4. D \o <<>> = D
      BY <3>3, ConcatEmptySeq
    <3> QED
      BY <1>7, <3>2, <3>3, <3>4 DEF Last
  <2>3. Frame(Last(sent)) = h[M - 1] \o out
    BY <2>1, <2>2
  <2> QED
    BY <1>2, <2>1, <2>3, CutFrame DEF Faulty
<1>10. PICK after: Rejoined(after, h, K, M, x)
  BY DEF Rejoined
<1>11. /\ Behind(after, K, M)' /\ after[M] = <<>>
       /\ \A k \in K .. M - 1: after[k] = h[k] \o x
  BY <1>5, <1>6, <1>7, <1>8, <1>9, <1>10, BehindDamaged
<1>12. Base(K, M, after)'
  <2>1. Told(K, M)'
    <3>1. UNCHANGED <<sent, received>>
      BY <1>2 DEF Faulty, receiver
    <3> QED
      BY <1>5, <1>7, <3>1 DEF Told
  <2>2. faults' = 1
    BY <1>2 DEF Faulty
  <2>3. K <= Len(sent') /\ M <= Len(sent')
    BY <1>5, <1>6, <1>7
  <2> QED
    BY <1>5, <1>7, <1>11, <2>1, <2>2, <2>3 DEF Base
<1>13. Between(K, M, after)' \/ Within(K, M, after)'
  <2>1. CASE Between(K, 0, behind)
    <3>1. after[K] = h[K] \o x
      <4>1. K \in K .. M - 1
        BY <1>5, <1>7
      <4> QED
        BY <1>11, <4>1
    <3> QED
      BY <1>2, <1>5, <1>7, <1>8, <1>9, <2>1, <3>1, FaultBetween
  <2>2. CASE Within(K, 0, behind) /\ K + 1 < M
    <3>1. after[K + 1] = h[K + 1] \o x
      <4>1. K + 1 \in K .. M - 1
        BY <1>5, <1>7, <2>2
      <4> QED
        BY <1>11, <4>1
    <3> QED
      BY <1>2, <1>5, <1>7, <1>8, <1>9, <2>2, <3>1, FaultLater
  <2>3. CASE Within(K, 0, behind) /\ K + 1 = M
    <3>1. behind[M] = <<>>
      BY <1>5, <1>7 DEF Behind
    <3> QED
      BY <1>2, <1>5, <1>7, <1>9, <1>11, <2>3, <3>1, FaultHere
  <2>4. Between(K, 0, behind) \/ Within(K, 0, behind)
    BY <1>4, <1>5 DEF At
  <2>5. K + 1 < M \/ K + 1 = M
    BY <1>5, <1>7
  <2> QED
    BY <2>1, <2>2, <2>3, <2>4, <2>5
<1>14. Quiet'
  BY <1>2, <1>3 DEF Faulty, receiver, Quiet
<1> QED
  BY <1>12, <1>13, <1>14 DEF OnItsWay, At

-----------------------------------------------------------------------------
(* The invariant holds.                                                    *)

LEMMA InitSound == Init => Sound
<1> SUFFICES ASSUME Init PROVE Quiet /\ OnItsWay
  BY DEF Sound
<1>1. /\ out = <<>> /\ line = <<>> /\ reading = FALSE /\ pos = 0 /\ escape = FALSE
      /\ checksumTotal = 0 /\ status = "none" /\ sent = <<>> /\ received = <<>> /\ faults = 0
  BY DEF Init
<1>2. PICK behind: behind = [k \in 0 .. 0 |-> <<>>]
  OBVIOUS
<1>3. /\ \A k \in 0 .. 0: behind[k] = <<>>
      /\ Len(sent) = 0 /\ Len(received) = 0 /\ <<>> \in Seq(Octets)
  BY <1>1, <1>2
<1>4. Behind(behind, 0, 0)
  <2>1. behind[Len(sent)] = <<>> /\ \A k \in 0 .. Len(sent): behind[k] \in Seq(Octets)
    <3>1. 0 \in 0 .. 0
      OBVIOUS
    <3>2. behind[0] = <<>>
      BY <1>3, <3>1
    <3>3. \A k \in 0 .. 0: behind[k] \in Seq(Octets)
      BY <1>3
    <3> QED
      BY <1>3, <3>2, <3>3
  <2>2. \A k \in 0 + 1 .. Len(sent): FALSE
    BY <1>3
  <2> QED
    BY <2>1, <2>2 DEF Behind
<1>5. Told(0, 0)
  <2>1. PICK index: index = [i \in 1 .. 0 |-> 0]
    OBVIOUS
  <2>2. Picked(index, Len(received), 0)
    <3>1. index \in [1 .. 0 -> 1 .. 0]
      BY <2>1
    <3> QED
      BY <1>3, <3>1 DEF Picked
  <2>3. \A i \in 1 .. Len(received): received[i] = Response(sent[index[i]])
    BY <1>3
  <2>4. received \in Seq(Seq(Octets))
    BY <1>1
  <2> QED
    BY <1>3, <2>2, <2>3, <2>4 DEF Told
<1>6. Unsent(behind, 0)
  BY <1>3 DEF Unsent
<1>7. Base(0, 0, behind)
  BY <1>1, <1>3, <1>4, <1>5, <1>6 DEF Base
<1>8. Between(0, 0, behind)
  <2>1. line \o out = <<>> \o behind[0]
    BY <1>1, <1>3
  <2>2. Startless(<<>>)
    BY DEF Startless
  <2> QED
    BY <1>1, <2>1, <2>2 DEF Between
<1>9. Quiet
  BY <1>1 DEF Quiet
<1> QED
  BY <1>7, <1>8, <1>9 DEF OnItsWay, At

LEMMA NextSound == LinkTypes /\ LinkTypes' /\ Sending /\ Sound /\ [Next]_vars => Sound'
<1> SUFFICES ASSUME LinkTypes, LinkTypes', Sending, Sound, [Next]_vars PROVE Sound'
  OBVIOUS
<1>1. CASE UNCHANGED vars
  <2> SUFFICES ASSUME Noticed' PROVE Quiet' /\ OnItsWay'
    BY DEF Sound
  <2>1. /\ UNCHANGED <<out, sent, weak, line, reading, pos, escape, checksumTotal>>
        /\ UNCHANGED <<lsbLength, frameData, status, received, faults>>
    BY <1>1 DEF vars, sender, receiver
  <2>2. Quiet /\ OnItsWay
    BY <2>1, StillSound
  <2>3. Quiet'
    BY <2>1, <2>2 DEF Quiet
  <2>4. PICK K, d, behind: At(K, d, behind)
    BY <2>2 DEF OnItsWay
  <2>5. Base(K, d, behind)'
    BY <2>1, <2>4, BaseKept DEF At
  <2>6. (line \o out)' = line \o out
    BY <2>1
  <2>7. Between(K, d, behind) => Between(K, d, behind)'
    <3> SUFFICES ASSUME Between(K, d, behind) PROVE Between(K, d, behind)'
      OBVIOUS
    <3>1. pos' = 0 \/ status' = "UNEXPECTED_START_BYTE"
      BY <2>1 DEF Between
    <3> QED
      BY <2>6, <3>1, BetweenKept
  <2>8. Within(K, d, behind) => Within(K, d, behind)'
    <3> SUFFICES ASSUME Within(K, d, behind) PROVE Within(K, d, behind)'
      OBVIOUS
    <3>1. status' = "none"
      BY <2>1 DEF Within
    <3> QED
      BY <2>1, <2>6, <3>1, WithinKept
  <2> QED
    BY <2>3, <2>4, <2>5, <2>7, <2>8 DEF OnItsWay, At
<1>2. CASE Send
  BY <1>2, SendSound
<1>3. CASE Write
  BY <1>3, WriteSound
<1>4. CASE Lose \/ PowerFails
  BY <1>4, FaultSound
<1>5. CASE Call \/ Return
  BY <1>5, CallSound
<1>6. CASE UnexpectedStart
  BY <1>6, StartSound
<1>7. CASE EscapeAlone
  BY <1>7, EscapeSound
<1>8. CASE Take
  BY <1>8, TakeSound
<1> QED
  BY <1>1, <1>2, <1>3, <1>4, <1>5, <1>6, <1>7, <1>8 DEF Next, Receive

LEMMA AlwaysSound == Spec => []Sound
<1> QED
  BY AlwaysTyped, AlwaysSending, InitSound, NextSound, PTL DEF Spec

-----------------------------------------------------------------------------
(* When nothing is on its way, what has not been received is lost.         *)

\* A packet that is not damaged takes two bytes at least.
LEMMA WholePacket ==
    ASSUME LinkTypes, NEW K \in Nat, NEW d, NEW behind, K < Len(sent),
           Behind(behind, K, d), K + 1 # d
    PROVE  behind[K] \in Seq(Octets) /\ Len(behind[K]) >= 2
<1>1. PICK J: J = K + 1 /\ J \in K + 1 .. Len(sent) /\ J \in 1 .. Len(sent)
              /\ J \in K .. Len(sent) /\ K \in K .. Len(sent)
  BY SenderFacts
<1>2. PICK q: q = sent[J] /\ q \in Payloads
  BY <1>1, SenderFacts
<1>3. behind[J] \in Seq(Octets) /\ behind[K] \in Seq(Octets)
  BY <1>1 DEF Behind
<1>4. PICK y: y = behind[J] /\ y \in Seq(Octets)
  BY <1>3
<1>5. behind[K] = Frame(q) \o y
  <2>1. PICK D: Goes(D, J, d) /\ behind[J - 1] = D \o behind[J]
    BY <1>1 DEF Behind
  <2>2. J # d /\ J - 1 = K
    BY <1>1
  <2> QED
    BY <1>2, <1>4, <2>1, <2>2 DEF Goes
<1>6. PICK b, r: /\ b \in Octets /\ r \in Seq(Octets)
                 /\ Frame(q) = <<START_BYTE>> \o (SendByte(b) \o r)
  <2>1. PICK u, all: /\ u = Unescaped(q) /\ all = Rests(q) /\ u \in Seq(Octets)
                     /\ Encodes(all, u) /\ Len(u) = ContentLength(q) + 3
                     /\ Frame(q) = <<START_BYTE>> \o all[0]
    <3>1. Frame(q) = <<START_BYTE>> \o Rests(q)[0] /\ Encodes(Rests(q), Unescaped(q))
      BY <1>2, FrameRests DEF Rest
    <3>2. Unescaped(q) \in Seq(Octets) /\ Len(Unescaped(q)) = ContentLength(q) + 3
      BY <1>2, UnescapedBytes
    <3> QED
      BY <3>1, <3>2
  <2>2. 1 \in 1 .. Len(u) /\ 1 \in 0 .. Len(u) /\ 1 - 1 = 0
    BY <1>2, <2>1, ContentBytes
  <2>3. all[1] \in Seq(Octets) /\ all[0] = SendByte(u[1]) \o all[1]
    BY <2>1, <2>2 DEF Encodes
  <2>4. u[1] \in Octets
    BY <2>1, <2>2
  <2> QED
    BY <2>1, <2>3, <2>4
<1>7. PICK s: s = SendByte(b) /\ s \in Seq(Octets) /\ Len(s) >= 1
  <2>1. SendByte(b) \in Seq(Octets) /\ SendByte(b) # <<>>
    BY <1>6, SendByteCases
  <2>2. \A t \in Seq(Octets): t # <<>> => Len(t) >= 1
    OBVIOUS
  <2> QED
    BY <2>1, <2>2
<1>8. PICK w: w = s \o r /\ w \in Seq(Octets) /\ Len(w) >= 1
  <2>1. s \o r \in Seq(Octets) /\ Len(s \o r) = Len(s) + Len(r)
    BY <1>6, <1>7, ConcatProperties
  <2>2. Len(s) \in Nat /\ Len(r) \in Nat
    BY <1>6, <1>7
  <2>3. Len(s \o r) >= 1
    BY <1>7, <2>1, <2>2
  <2> QED
    BY <2>1, <2>3
<1>9. Len((<<START_BYTE>> \o w) \o y) = 1 + Len(w) + Len(y) /\ Len(y) \in Nat
  BY <1>4, <1>8, SenderFacts
<1> QED
  BY <1>3, <1>5, <1>6, <1>7, <1>8, <1>9

LEMMA AllOver ==
    ASSUME LinkTypes, NEW K, NEW d, NEW behind, At(K, d, behind), out = <<>>, line = <<>>
    PROVE  K = Len(sent) \/ (K + 1 = Len(sent) /\ d = Len(sent))
<1> SUFFICES ASSUME K # Len(sent) PROVE K + 1 = Len(sent) /\ d = Len(sent)
  OBVIOUS
<1>1. /\ K \in Nat /\ d \in Nat /\ Behind(behind, K, d) /\ K < Len(sent) /\ Len(sent) \in Nat
  BY SenderFacts DEF At, Base
<1>2. PICK J: J = K + 1 /\ J \in Nat /\ J \in K .. Len(sent) /\ J \in K + 1 .. Len(sent)
              /\ J <= Len(sent)
  BY <1>1
<1>3. behind[J] \in Seq(Octets) /\ behind[K] \in Seq(Octets) /\ Behind(behind, J, d)
  <2>1. K \in K .. Len(sent)
    BY <1>1
  <2>2. behind[J] \in Seq(Octets) /\ behind[K] \in Seq(Octets)
    BY <1>1, <1>2, <2>1 DEF Behind
  <2>3. Behind(behind, J, d)
    BY <1>1, <1>2, BehindNext
  <2> QED
    BY <2>2, <2>3
<1>4. ASSUME J = d, Len(behind[J]) <= 1 PROVE K + 1 = Len(sent) /\ d = Len(sent)
  <2> SUFFICES ASSUME J < Len(sent) PROVE FALSE
    BY <1>2, <1>4
  <2>1. J + 1 # d
    BY <1>2, <1>4
  <2>2. Len(behind[J]) >= 2
    BY <1>2, <1>3, <2>1, WholePacket
  <2>3. Len(behind[J]) \in Nat
    BY <1>3
  <2> QED
    BY <1>4, <2>2, <2>3
<1>5. Half \in Seq(Octets) /\ (Half = <<>> \/ Half = <<ESCAPE>>) /\ Half \o <<>> = Half
  <2>1. Half \in Seq(Octets) /\ (Half = <<>> \/ Half = <<ESCAPE>>)
    BY SenderFacts DEF Half
  <2> QED
    BY <2>1, ConcatEmptySeq
<1>6. Len(Half) <= 1
  <2>1. Len(<<>>) = 0 /\ Len(<<ESCAPE>>) = 1
    OBVIOUS
  <2>2. PICK n: n = Len(Half) /\ n \in {0, 1}
    BY <1>5, <2>1, Zenon
  <2>3. n <= 1
    BY <2>2
  <2> QED
    BY <2>2, <2>3, Zenon
<1>7. line \o out = <<>>
  OBVIOUS
<1>8. CASE Between(K, d, behind)
  <2>1. PICK g: g \in Seq(Octets) /\ g \o behind[K] = <<>>
    BY <1>7, <1>8 DEF Between, Startless
  <2>2. Len(behind[K]) = 0
    <3>1. Len(g \o behind[K]) = Len(g) + Len(behind[K]) /\ Len(g) \in Nat /\ Len(behind[K]) \in Nat
      BY <1>3, <2>1, ConcatProperties
    <3>2. Len(<<>>) = 0
      OBVIOUS
    <3> QED
      BY <2>1, <3>1, <3>2
  <2>3. J = d
    <3> SUFFICES ASSUME J # d PROVE FALSE
      OBVIOUS
    <3>1. Len(behind[K]) >= 2
      BY <1>1, <1>2, WholePacket
    <3> QED
      BY <2>2, <3>1
  <2>4. Len(behind[J]) <= 1
    <3>1. PICK D: Goes(D, J, d) /\ behind[J - 1] = D \o behind[J]
      BY <1>2, <1>1 DEF Behind
    <3>2. D \in Seq(Octets) /\ J - 1 = K
      BY <1>1, <1>2, <3>1 DEF Goes
    <3>3. PICK y: y = behind[J] /\ y \in Seq(Octets)
      BY <1>3
    <3>4. Len(D \o y) = Len(D) + Len(y) /\ Len(D) \in Nat /\ Len(y) \in Nat
      BY <3>2, <3>3, ConcatProperties
    <3>5. Len(D \o y) = 0
      BY <2>2, <3>1, <3>2, <3>3
    <3> QED
      BY <3>3, <3>4, <3>5
  <2> QED
    BY <1>4, <2>3, <2>4
<1>9. CASE Within(K, d, behind)
  <2>1. PICK v, rest, sum: Read(v, rest, sum, K, d) /\ Reads(v, rest, sum, behind[K + 1])
    BY <1>9 DEF Within
  <2>2. v \in Seq(Octets) /\ Len(v) \in Nat /\ Encodes(rest, v)
    BY <2>1 DEF Read, Readable
  <2>3. /\ pos \in Nat /\ 1 <= pos /\ pos <= Len(v) + 1
        /\ Half = rest[pos - 1] \o behind[J]
    BY <1>2, <1>5, <1>7, <2>1, SenderFacts DEF Reads
  <2>4. pos = Len(v) + 1
    <3> SUFFICES ASSUME pos # Len(v) + 1 PROVE FALSE
      OBVIOUS
    <3>1. pos \in 1 .. Len(v) /\ pos \in 0 .. Len(v)
      BY <2>2, <2>3
    <3>2. PICK b, r, y: /\ b = v[pos] /\ r = rest[pos] /\ y = behind[J] /\ b \in Octets
                        /\ r \in Seq(Octets) /\ y \in Seq(Octets)
                        /\ rest[pos - 1] = SendByte(b) \o r
      <4>1. v[pos] \in Octets
        BY <2>2, <3>1
      <4>2. rest[pos] \in Seq(Octets) /\ rest[pos - 1] = SendByte(v[pos]) \o rest[pos]
        BY <2>2, <3>1 DEF Encodes
      <4> QED
        BY <1>3, <4>1, <4>2
    <3>3. PICK s: s = SendByte(b) /\ s \in Seq(Octets) /\ s # <<>>
      BY <3>2, SendByteCases
    <3>4. Half = (s \o r) \o y
      BY <2>3, <3>2, <3>3
    <3>6. Len(s) \in Nat /\ Len(r) \in Nat /\ Len(y) \in Nat /\ Len(s) >= 1
      BY <3>2, <3>3
    <3>5. Len((s \o r) \o y) = Len(s) + Len(r) + Len(y) /\ ((s \o r) \o y)[1] = s[1]
      <4>1. PICK w: w = s \o r
        OBVIOUS
      <4>2. s \in Seq(Octets) /\ r \in Seq(Octets) /\ y \in Seq(Octets)
        BY <3>2, <3>3
      <4>3. w \in Seq(Octets) /\ Len(w) = Len(s) + Len(r)
        BY <4>1, <4>2, ConcatProperties
      <4>4. w[1] = s[1]
        <5>1. 1 \in 1 .. Len(s)
          BY <3>6
        <5> QED
          BY <4>1, <4>2, <5>1
      <4>5. Len(w \o y) = Len(w) + Len(y)
        BY <4>2, <4>3, ConcatProperties
      <4>6. (w \o y)[1] = w[1]
        <5>1. 1 \in 1 .. Len(w)
          BY <3>6, <4>3
        <5> QED
          BY <4>2, <4>3, <5>1
      <4> QED
        BY <4>1, <4>3, <4>4, <4>5, <4>6
    <3>7. Len(s) = 1
      <4>1. PICK n, i, j, k: /\ n = Len(Half) /\ i = Len(s) /\ j = Len(r) /\ k = Len(y)
        OBVIOUS
      <4>2. n <= 1 /\ i \in Nat /\ j \in Nat /\ k \in Nat /\ i >= 1
        BY <1>6, <3>6, <4>1
      <4>3. n = i + j + k
        BY <3>4, <3>5, <4>1, Zenon
      <4>4. i = 1
        BY <4>2, <4>3
      <4> QED
        BY <4>1, <4>4
    <3>8. b \notin Controls
      <4>1. b \in Controls => Len(SendByte(b)) = 2
        BY <3>2, SendByteCases
      <4> QED
        BY <3>3, <3>7, <4>1
    <3>9. s[1] = b
      BY <3>2, <3>3, <3>8, SendByteCases
    <3>10. Half = <<ESCAPE>>
      <4>1. Len(Half) # 0
        BY <3>4, <3>5, <3>6
      <4> QED
        BY <1>5, <4>1
    <3>11. Half[1] = ESCAPE
      BY <3>10
    <3>12. b = ESCAPE
      BY <3>4, <3>5, <3>9, <3>11
    <3> QED
      BY <3>8, <3>12 DEF Controls
  <2>5. K + 1 = d /\ Half \o (line \o out) = behind[K + 1]
    BY <1>1, <2>1, <2>4, PastEnd
  <2>6. J = d /\ behind[J] = Half
    BY <1>2, <1>5, <1>7, <2>5
  <2> QED
    BY <1>4, <1>6, <2>6
<1> QED
  BY <1>8, <1>9 DEF At

-----------------------------------------------------------------------------
(* Theorems.                                                               *)

\* XBee.cpp:1510 (send) and :98 (readPacket): every byte sent, on the line or put
\* together by the receiver is one, its position stays within the largest frame,
\* and the frame data it keeps never outgrow MAX_FRAME_DATA_SIZE.
THEOREM Types == Spec => []TypeOK
<1> QED
  BY AlwaysTyped, TypesTold, PTL

\* XBee.cpp:98 (readPacket): with one byte lost or one power failure, wherever the calls
\* begin and end, all that the receiver is given was sent, as it was sent, once and in
\* order; it never takes what is left of a packet for one.
THEOREM Genuine == Spec => [](faults <= 1 => ReceivedWereSent)
<1>1. LinkTypes /\ Sound => (faults <= 1 => ReceivedWereSent)
  <2> SUFFICES ASSUME LinkTypes, Sound, faults <= 1, ~weak
               PROVE  \E index \in [1 .. Len(received) -> 1 .. Len(sent)]:
                          \A i \in 1 .. Len(received):
                              /\ received[i] = Response(sent[index[i]])
                              /\ \A j \in 1 .. i - 1: index[j] < index[i]
    BY DEF ReceivedWereSent
  <2>1. PICK K, d, behind: Base(K, d, behind)
    BY DEF Sound, Noticed, OnItsWay, At
  <2>2. K \in Nat /\ K <= Len(sent) /\ Len(sent) \in Nat /\ Told(K, d)
    BY <2>1, SenderFacts DEF Base
  <2>3. PICK index: /\ Picked(index, Len(received), K)
                    /\ \A i \in 1 .. Len(received): received[i] = Response(sent[index[i]])
    BY <2>2 DEF Told
  <2>4. /\ index \in [1 .. Len(received) -> 1 .. K]
        /\ \A i \in 1 .. Len(received): \A j \in 1 .. i - 1: index[j] < index[i]
    BY <2>3 DEF Picked
  <2>5. 1 .. K \subseteq 1 .. Len(sent)
    BY <2>2
  <2>6. index \in [1 .. Len(received) -> 1 .. Len(sent)]
    BY <2>4, <2>5
  <2> QED
    BY <2>3, <2>4, <2>6
<1> QED
  BY <1>1, AlwaysTyped, AlwaysSound, PTL

\* XBee.cpp:98 (readPacket): nothing is lost but for a fault, and one that hits no length
\* and leaves no half of an escape sequence costs two packets at most.
THEOREM Losses == Spec => [](faults <= 1 /\ ~weak => FaultCost)
<1>1. LinkTypes /\ Sound => (faults <= 1 /\ ~weak => FaultCost)
  <2> SUFFICES ASSUME LinkTypes, Sound, faults <= 1, ~weak, out = <<>>, line = <<>>
               PROVE  Len(sent) <= Len(received) + Cost
    BY DEF FaultCost
  <2>1. PICK K, d, behind: At(K, d, behind)
    BY DEF Sound, Noticed, OnItsWay
  <2>2. /\ d \in Nat /\ K \in Nat /\ Len(sent) \in Nat /\ (d = 0 <=> faults = 0)
        /\ Told(K, d) /\ faults \in Nat
    BY <2>1, SenderFacts, LinkAssumption DEF At, Base, LinkTypes, SenderTypes
  <2>3. /\ Len(received) \in Nat /\ K <= Len(received) + 2
        /\ d = 0 \/ K < d => K = Len(received)
    BY <2>2 DEF Told
  <2>4. Cost = 2 * faults
    BY DEF Cost
  <2>5. K = Len(sent) \/ (K + 1 = Len(sent) /\ d = Len(sent))
    BY <2>1, AllOver
  <2> QED
    BY <2>2, <2>3, <2>4, <2>5
<1> QED
  BY <1>1, AlwaysTyped, AlwaysSound, PTL
=============================================================================
