-------------------------- MODULE CommandModeProofs --------------------------
(***************************************************************************)
(* Theorems about command mode, for receive buffers of every size, for any *)
(* number of bytes typed and whatever bytes are typed.                     *)
(***************************************************************************)
EXTENDS CommandMode, SequenceTheorems, WellFoundedInduction, TLAPS

\* Natural numbers, one by one.
LEMMA Induction ==
    ASSUME NEW S \in SUBSET Nat, 0 \in S, \A n \in S: n + 1 \in S
    PROVE  S = Nat
<1> SUFFICES ASSUME Nat \ S # {} PROVE FALSE
  OBVIOUS
<1>1. PICK least \in Nat \ S: \A n \in Nat \ S: ~(<<n, least>> \in OpToRel(<, Nat))
  BY NatLessThanWellFounded, WFMin, Nat \ S \subseteq Nat
<1>2. \A n \in Nat \ S: ~(n < least)
  <2> TAKE n \in Nat \ S
  <2>1. n < least => <<n, least>> \in OpToRel(<, Nat)
    BY DEF OpToRel
  <2> QED
    BY <1>1, <2>1
<1>3. least # 0 /\ least - 1 \in Nat
  OBVIOUS
<1>4. least - 1 \in S
  BY <1>2, <1>3
<1>5. (least - 1) + 1 \in S
  BY <1>4
<1> QED
  BY <1>3, <1>5

\* The results of the steps 1 .. n, taken one after the other from a start.
Results(f, X, n, start, step) ==
    /\ f \in [0 .. n -> X] /\ f[0] = start
    /\ \A k \in 1 .. n: f[k] = step[k][f[k - 1]]

\* Steps can be taken one after the other.
LEMMA Recursion ==
    ASSUME NEW X, NEW n \in Nat, NEW start \in X,
           NEW step \in [1 .. n -> [X -> X]]
    PROVE  \E f: Results(f, X, n, start, step)
<1> DEFINE Goes(m, f) ==
        f[0] = start /\ (\A k \in 1 .. m: k <= n => f[k] = step[k][f[k - 1]])
           S == {m \in Nat: \E f \in [0 .. m -> X]: Goes(m, f)}
<1>1. 0 \in S
  <2>1. [i \in 0 .. 0 |-> start] \in [0 .. 0 -> X]
    OBVIOUS
  <2>2. Goes(0, [i \in 0 .. 0 |-> start])
    OBVIOUS
  <2> QED
    BY <2>1, <2>2
<1>2. ASSUME NEW m \in S PROVE m + 1 \in S
  <2>1. PICK f \in [0 .. m -> X]: Goes(m, f)
    BY <1>2
  <2>2. m \in Nat
    BY <1>2
  <2> DEFINE last == IF m + 1 <= n THEN step[m + 1][f[m]] ELSE start
             g == [i \in 0 .. m + 1 |-> IF i <= m THEN f[i] ELSE last]
  <2>3. f[m] \in X
    BY <2>2
  <2>4. last \in X
    <3>1. CASE m + 1 <= n
      <4>1. step[m + 1] \in [X -> X]
        BY <3>1, <2>2, <2>3
      <4> QED
        BY <3>1, <4>1
    <3> QED
      BY <3>1
  <2>5. g \in [0 .. m + 1 -> X]
    BY <2>2, <2>4
  <2>6. g[0] = start
    BY <2>1, <2>2
  <2>7. ASSUME NEW k \in 1 .. m + 1, k <= n PROVE g[k] = step[k][g[k - 1]]
    <3>1. CASE k <= m
      <4>1. g[k] = f[k] /\ g[k - 1] = f[k - 1] /\ k \in 1 .. m
        BY <3>1, <2>2
      <4> QED
        BY <4>1, <2>1, <2>7
    <3>2. CASE k = m + 1
      <4>1. g[k] = last /\ g[k - 1] = f[m]
        BY <3>2, <2>2
      <4> QED
        BY <4>1, <3>2, <2>7
    <3> QED
      BY <3>1, <3>2, <2>2
  <2>8. Goes(m + 1, g)
    BY <2>6, <2>7
  <2> HIDE DEF Goes, g
  <2> QED
    BY <2>2, <2>5, <2>8
<1> HIDE DEF Goes
<1>3. S = Nat
  <2> HIDE DEF S
  <2>1. S \in SUBSET Nat
    BY DEF S
  <2> QED
    BY <1>1, <1>2, <2>1, Induction
<1>4. PICK f \in [0 .. n -> X]: Goes(n, f)
  BY <1>3
<1> QED
  BY <1>4 DEF Goes, Results

\* The first results do not depend on the steps that come after them.
Agree(step, step2, m) == \A k \in 1 .. m: step[k] = step2[k]

LEMMA SameResults ==
    ASSUME NEW X, NEW m \in Nat, NEW start,
           NEW step, NEW step2, Agree(step, step2, m),
           NEW f, Results(f, X, m + 1, start, step),
           NEW g, Results(g, X, m, start, step2)
    PROVE  f[m] = g[m]
<1> DEFINE Same == {k \in Nat: k <= m => f[k] = g[k]}
<1>1. 0 \in Same
  BY DEF Results
<1>2. ASSUME NEW k \in Same PROVE k + 1 \in Same
  <2>1. CASE k + 1 <= m
    <3>1. k + 1 \in 1 .. m /\ k + 1 \in 1 .. m + 1 /\ (k + 1) - 1 = k /\ f[k] = g[k]
      BY <2>1, <1>2
    <3>2. f[k + 1] = step[k + 1][f[k]] /\ g[k + 1] = step2[k + 1][g[k]]
      BY <3>1 DEF Results
    <3>3. step[k + 1] = step2[k + 1]
      BY <3>1 DEF Agree
    <3> QED
      BY <3>1, <3>2, <3>3, <1>2
  <2> QED
    BY <2>1, <1>2
<1>3. Same = Nat
  <2> HIDE DEF Same
  <2>1. Same \in SUBSET Nat
    BY DEF Same
  <2> QED
    BY <1>1, <1>2, <2>1, Induction
<1> QED
  BY <1>3

-----------------------------------------------------------------------------
(* Lines: what one more byte makes of the lines cut from the bytes before. *)

Letters == MenuBytes \union PlainBytes

Cuts == [whole: Seq(Seq(Letters)), part: Seq(Letters)]

\* One byte more keeps the cut lines well formed.
LEMMA CutByteTypes ==
    ASSUME NEW cut \in Cuts, NEW b \in Letters
    PROVE  CutByte(cut, b) \in Cuts
<1>1. cut.whole \in Seq(Seq(Letters)) /\ cut.part \in Seq(Letters)
  BY DEF Cuts
<1>2. Append(cut.whole, cut.part) \in Seq(Seq(Letters)) /\ Append(cut.part, b) \in Seq(Letters)
  BY <1>1
<1>3. <<>> \in Seq(Letters)
  OBVIOUS
<1> QED
  BY <1>1, <1>2, <1>3 DEF CutByte, Cuts

CutStep(bytes) ==
    [n \in 1 .. Len(bytes) |-> [cut \in Cuts |-> CutByte(cut, bytes[n])]]

\* Cut is the function its definition says it is: there is such a function.
LEMMA CutResults ==
    ASSUME NEW bytes \in Seq(Letters)
    PROVE  Results(Cut(bytes), Cuts, Len(bytes), NoLines, CutStep(bytes))
<1> DEFINE N == Len(bytes)
           step == CutStep(bytes)
           Body(f) == [n \in 0 .. N |->
                           IF n = 0 THEN NoLines ELSE CutByte(f[n - 1], bytes[n])]
<1>1. N \in Nat /\ NoLines \in Cuts
  BY DEF NoLines, Cuts
<1>2. step \in [1 .. N -> [Cuts -> Cuts]]
  <2>1. ASSUME NEW n \in 1 .. N, NEW cut \in Cuts PROVE CutByte(cut, bytes[n]) \in Cuts
    BY CutByteTypes
  <2> QED
    BY <2>1 DEF CutStep
<1>3. PICK f: Results(f, Cuts, N, NoLines, step)
  <2> HIDE DEF step, N
  <2> QED
    BY <1>1, <1>2, Recursion
<1>4. ASSUME NEW g, NEW n \in 1 .. N, g[n - 1] \in Cuts
      PROVE  step[n][g[n - 1]] = CutByte(g[n - 1], bytes[n])
  BY <1>4 DEF CutStep
<1>5. f = Body(f)
  <2>1. f \in [0 .. N -> Cuts] /\ f[0] = NoLines
    BY <1>3 DEF Results
  <2>2. ASSUME NEW n \in 1 .. N PROVE f[n] = CutByte(f[n - 1], bytes[n])
    <3>1. f[n - 1] \in Cuts
      BY <1>1, <2>1
    <3> QED
      BY <1>3, <1>4, <3>1 DEF Results
  <2>3. ASSUME NEW n \in 0 .. N PROVE f[n] = Body(f)[n]
    BY <2>1, <2>2
  <2> QED
    BY <2>1, <2>3
<1>6. Cut(bytes) = Body(Cut(bytes))
  <2>1. Cut(bytes) = (CHOOSE cut: cut = Body(cut))
    BY DEF Cut
  <2> HIDE DEF Body
  <2> QED
    BY <1>5, <2>1
<1> DEFINE cut == Cut(bytes)
           Good == {n \in Nat: n <= N => cut[n] \in Cuts}
<1>7. /\ cut[0] = NoLines
      /\ \A n \in 1 .. N: cut[n] = CutByte(cut[n - 1], bytes[n])
      /\ cut = [n \in 0 .. N |-> cut[n]]
  <2> HIDE DEF cut
  <2>1. cut = Body(cut)
    BY <1>6 DEF cut
  <2> QED
    BY <1>1, <2>1
<1> HIDE DEF cut, step, Body
<1>8. Good = Nat
  <2>1. 0 \in Good
    BY <1>1, <1>7
  <2>2. ASSUME NEW n \in Good PROVE n + 1 \in Good
    <3>1. CASE n + 1 <= N
      <4>1. cut[n] \in Cuts /\ bytes[n + 1] \in Letters /\ n + 1 \in 1 .. N
        BY <3>1, <2>2
      <4>2. cut[n + 1] = CutByte(cut[n], bytes[n + 1])
        BY <4>1, <1>7
      <4> QED
        BY <4>1, <4>2, CutByteTypes
    <3> QED
      BY <3>1, <2>2
  <2> HIDE DEF Good
  <2>3. Good \in SUBSET Nat
    BY DEF Good
  <2> QED
    BY <2>1, <2>2, <2>3, Induction
<1>9. \A n \in 0 .. N: cut[n] \in Cuts
  BY <1>1, <1>8
<1>10. cut \in [0 .. N -> Cuts]
  BY <1>7, <1>9
<1>11. ASSUME NEW n \in 1 .. N PROVE cut[n] = step[n][cut[n - 1]]
  <2>1. cut[n - 1] \in Cuts
    BY <1>1, <1>9
  <2> QED
    BY <1>4, <1>7, <2>1
<1> QED
  BY <1>7, <1>10, <1>11 DEF cut, step, Results

\* One more byte is one more step of the cutting.
LEMMA CutAppend ==
    ASSUME NEW bytes \in Seq(Letters), NEW b \in Letters
    PROVE  /\ Lines(bytes) \in Seq(Seq(Letters)) /\ Unfinished(bytes) \in Seq(Letters)
           /\ b = NL => /\ Lines(Append(bytes, b)) = Append(Lines(bytes), Unfinished(bytes))
                        /\ Unfinished(Append(bytes, b)) = <<>>
           /\ b # NL => /\ Lines(Append(bytes, b)) = Lines(bytes)
                        /\ Unfinished(Append(bytes, b)) = Append(Unfinished(bytes), b)
<1> DEFINE N == Len(bytes)
           more == Append(bytes, b)
<1>1. N \in Nat /\ more \in Seq(Letters) /\ Len(more) = N + 1 /\ more[N + 1] = b
  OBVIOUS
<1>2. /\ Results(Cut(bytes), Cuts, N, NoLines, CutStep(bytes))
      /\ Results(Cut(more), Cuts, N + 1, NoLines, CutStep(more))
  BY <1>1, CutResults
<1>3. Cut(bytes)[N] \in Cuts
  BY <1>1, <1>2 DEF Results
<1>4. Cut(more)[N + 1] = CutByte(Cut(bytes)[N], b)
  <2>1. Agree(CutStep(more), CutStep(bytes), N)
    BY <1>1 DEF CutStep, Agree
  <2>2. Cut(more)[N] = Cut(bytes)[N]
    <3> HIDE DEF more, N
    <3> QED
      BY <1>1, <1>2, <2>1, SameResults
  <2>3. Cut(more)[N + 1] = CutStep(more)[N + 1][Cut(more)[(N + 1) - 1]]
    <3> HIDE DEF more, N
    <3> QED
      BY <1>1, <1>2 DEF Results
  <2>4. CutStep(more)[N + 1][Cut(bytes)[N]] = CutByte(Cut(bytes)[N], b)
    <3> HIDE DEF more
    <3> QED
      BY <1>1, <1>3 DEF CutStep
  <2> QED
    BY <1>1, <2>2, <2>3, <2>4
<1> QED
  BY <1>1, <1>3, <1>4 DEF Lines, Unfinished, CutByte, Cuts

-----------------------------------------------------------------------------
(* Sessions: what one more line makes of the session of the lines before.  *)

Sessions == [mode: {"loop", "poll", "menu_poll"}, done: Seq(Letters), empty: BOOLEAN]

\* The modes lines lead to.
LEMMA LeadsToModes ==
    ASSUME NEW menu, NEW c, NEW mode \in {"loop", "poll", "menu_poll"}
    PROVE  LeadsTo(menu, mode, c) \in {"loop", "poll", "menu_poll"}
<1> QED
  BY Zenon DEF LeadsTo

\* A line keeps a session well formed.
LEMMA ObeyTypes ==
    ASSUME NEW menu, NEW session \in Sessions, NEW line \in Seq(Letters)
    PROVE  Obey(menu, session, line) \in Sessions
<1> DEFINE c == IF line = <<>> THEN NoByte ELSE Head(line)
           asks == \/ session.mode = "poll" /\ c = "P"
                   \/ session.mode = "menu_poll" /\ c \in Tests
           done == IF asks THEN Append(session.done, c) ELSE session.done
           empty == session.empty \/ (session.mode # "loop" /\ line = <<>>)
<1>1. /\ session.mode \in {"loop", "poll", "menu_poll"}
      /\ session.done \in Seq(Letters)
  BY DEF Sessions
<1>2. asks => c \in Letters
  BY DEF Tests, NoByte
<1>3. done \in Seq(Letters)
  <2> HIDE DEF c, asks
  <2> QED
    BY <1>1, <1>2
<1>4. empty \in BOOLEAN
  BY Zenon
<1>5. LeadsTo(menu, session.mode, c) \in {"loop", "poll", "menu_poll"}
  BY <1>1, LeadsToModes
<1>6. Obey(menu, session, line)
      = [mode |-> LeadsTo(menu, session.mode, c), done |-> done, empty |-> empty]
  BY Zenon DEF Obey
<1> HIDE DEF done, empty, c
<1> QED
  BY <1>3, <1>4, <1>5, <1>6 DEF Sessions

ObeyStep(menu, lines) ==
    [n \in 1 .. Len(lines) |-> [session \in Sessions |-> Obey(menu, session, lines[n])]]

\* Session is the function its definition says it is: there is such a function.
LEMMA SessionResults ==
    ASSUME NEW menu, NEW lines \in Seq(Seq(Letters))
    PROVE  Results(Session(menu, lines), Sessions, Len(lines), NoSession,
                   ObeyStep(menu, lines))
<1> DEFINE N == Len(lines)
           step == ObeyStep(menu, lines)
           Body(f) == [n \in 0 .. N |->
                           IF n = 0 THEN NoSession ELSE Obey(menu, f[n - 1], lines[n])]
<1>1. N \in Nat /\ NoSession \in Sessions
  BY DEF NoSession, Sessions
<1>2. step \in [1 .. N -> [Sessions -> Sessions]]
  <2>1. ASSUME NEW n \in 1 .. N, NEW session \in Sessions
        PROVE  Obey(menu, session, lines[n]) \in Sessions
    BY ObeyTypes
  <2> QED
    BY <2>1 DEF ObeyStep
<1>3. PICK f: Results(f, Sessions, N, NoSession, step)
  <2> HIDE DEF step, N
  <2> QED
    BY <1>1, <1>2, Recursion
<1>4. ASSUME NEW g, NEW n \in 1 .. N, g[n - 1] \in Sessions
      PROVE  step[n][g[n - 1]] = Obey(menu, g[n - 1], lines[n])
  BY <1>4 DEF ObeyStep
<1>5. f = Body(f)
  <2>1. f \in [0 .. N -> Sessions] /\ f[0] = NoSession
    BY <1>3 DEF Results
  <2>2. ASSUME NEW n \in 1 .. N PROVE f[n] = Obey(menu, f[n - 1], lines[n])
    <3>1. f[n - 1] \in Sessions
      <4> HIDE DEF N
      <4>1. n - 1 \in 0 .. N
        BY <1>1
      <4> QED
        BY <2>1, <4>1
    <3> QED
      BY <1>3, <1>4, <3>1 DEF Results
  <2>3. ASSUME NEW n \in 0 .. N PROVE f[n] = Body(f)[n]
    BY <2>1, <2>2
  <2> QED
    BY <2>1, <2>3
<1>6. Session(menu, lines) = Body(Session(menu, lines))
  <2>1. Session(menu, lines) = (CHOOSE after: after = Body(after))
    BY DEF Session
  <2> HIDE DEF Body
  <2> QED
    BY <1>5, <2>1
<1> DEFINE after == Session(menu, lines)
           Good == {n \in Nat: n <= N => after[n] \in Sessions}
<1>7. /\ after[0] = NoSession
      /\ \A n \in 1 .. N: after[n] = Obey(menu, after[n - 1], lines[n])
      /\ after = [n \in 0 .. N |-> after[n]]
  <2> HIDE DEF after
  <2>1. after = Body(after)
    BY <1>6 DEF after
  <2> QED
    BY <1>1, <2>1
<1> HIDE DEF after, step, Body
<1>8. Good = Nat
  <2>1. 0 \in Good
    BY <1>1, <1>7
  <2>2. ASSUME NEW n \in Good PROVE n + 1 \in Good
    <3>1. CASE n + 1 <= N
      <4>1. after[n] \in Sessions /\ lines[n + 1] \in Seq(Letters) /\ n + 1 \in 1 .. N
        BY <3>1, <2>2
      <4>2. after[n + 1] = Obey(menu, after[n], lines[n + 1])
        <5>1. (n + 1) - 1 = n
          BY <2>2
        <5> HIDE DEF N
        <5> QED
          BY <4>1, <1>7, <5>1
      <4> QED
        BY <4>1, <4>2, ObeyTypes
    <3> QED
      BY <3>1, <2>2
  <2> HIDE DEF Good
  <2>3. Good \in SUBSET Nat
    BY DEF Good
  <2> QED
    BY <2>1, <2>2, <2>3, Induction
<1>9. \A n \in 0 .. N: after[n] \in Sessions
  BY <1>1, <1>8
<1>10. after \in [0 .. N -> Sessions]
  BY <1>7, <1>9
<1>11. ASSUME NEW n \in 1 .. N PROVE after[n] = step[n][after[n - 1]]
  <2>1. after[n - 1] \in Sessions
    BY <1>1, <1>9
  <2> QED
    BY <1>4, <1>7, <2>1
<1> QED
  BY <1>7, <1>10, <1>11 DEF after, step, Results

\* One more line is one more step of the session.
LEMMA SessionAppend ==
    ASSUME NEW menu, NEW lines \in Seq(Seq(Letters)), NEW line \in Seq(Letters)
    PROVE  /\ Session(menu, lines)[Len(lines)] \in Sessions
           /\ Session(menu, Append(lines, line))[Len(lines) + 1]
              = Obey(menu, Session(menu, lines)[Len(lines)], line)
<1> DEFINE N == Len(lines)
           more == Append(lines, line)
<1>1. /\ N \in Nat /\ more \in Seq(Seq(Letters)) /\ Len(more) = N + 1
      /\ more[N + 1] = line
  OBVIOUS
<1>2. /\ Results(Session(menu, lines), Sessions, N, NoSession, ObeyStep(menu, lines))
      /\ Results(Session(menu, more), Sessions, N + 1, NoSession, ObeyStep(menu, more))
  BY <1>1, SessionResults
<1>3. Session(menu, lines)[N] \in Sessions
  BY <1>1, <1>2 DEF Results
<1>4. Agree(ObeyStep(menu, more), ObeyStep(menu, lines), N)
  BY <1>1 DEF ObeyStep, Agree
<1>5. Session(menu, more)[N] = Session(menu, lines)[N]
  <2> HIDE DEF more, N
  <2> QED
    BY <1>1, <1>2, <1>4, SameResults
<1>6. Session(menu, more)[N + 1] = ObeyStep(menu, more)[N + 1][Session(menu, more)[(N + 1) - 1]]
  <2> HIDE DEF more, N
  <2> QED
    BY <1>1, <1>2 DEF Results
<1>7. ObeyStep(menu, more)[N + 1][Session(menu, lines)[N]]
      = Obey(menu, Session(menu, lines)[N], line)
  <2> HIDE DEF more
  <2> QED
    BY <1>1, <1>3 DEF ObeyStep
<1> QED
  BY <1>1, <1>3, <1>5, <1>6, <1>7

\* What one more byte makes of a session: at the end of a line the line is
\* obeyed, within one nothing happens.
LEMMA SessionByte ==
    ASSUME NEW menu, NEW bytes \in Seq(Letters), NEW b \in Letters
    PROVE  /\ SessionOf(menu, bytes) \in Sessions
           /\ b = NL => SessionOf(menu, Append(bytes, b))
                        = Obey(menu, SessionOf(menu, bytes), Unfinished(bytes))
           /\ b # NL => SessionOf(menu, Append(bytes, b)) = SessionOf(menu, bytes)
<1> DEFINE lines == Lines(bytes)
<1>1. lines \in Seq(Seq(Letters)) /\ Unfinished(bytes) \in Seq(Letters)
  BY CutAppend
<1>2. SessionOf(menu, bytes) = Session(menu, lines)[Len(lines)]
  BY DEF SessionOf
<1>3. SessionOf(menu, bytes) \in Sessions
  <2> HIDE DEF lines
  <2>1. <<>> \in Seq(Letters)
    OBVIOUS
  <2> QED
    BY <1>1, <1>2, <2>1, SessionAppend
<1>4. CASE b = NL
  <2> DEFINE more == Append(lines, Unfinished(bytes))
  <2>1. Lines(Append(bytes, b)) = more
    BY <1>4, CutAppend
  <2>2. SessionOf(menu, Append(bytes, b)) = Session(menu, more)[Len(more)]
    BY <2>1 DEF SessionOf
  <2>3. Len(more) = Len(lines) + 1
    <3> HIDE DEF lines
    <3> QED
      BY <1>1
  <2>4. Session(menu, more)[Len(lines) + 1]
        = Obey(menu, Session(menu, lines)[Len(lines)], Unfinished(bytes))
    <3> HIDE DEF lines
    <3> QED
      BY <1>1, SessionAppend
  <2> QED
    BY <1>2, <1>3, <1>4, <2>2, <2>3, <2>4
<1>5. CASE b # NL
  <2>1. Lines(Append(bytes, b)) = lines
    BY <1>5, CutAppend
  <2> QED
    BY <1>3, <1>5, <2>1 DEF SessionOf
<1> QED
  BY <1>4, <1>5

\* Reading moves a byte from the buffer to what the program has read.
LEMMA ReadFacts ==
    ASSUME NEW S, rx \in Seq(S), Len(rx) <= RxCap, consumed \in Seq(S), Read
    PROVE  /\ Head(rx) \in S
           /\ rx' \in Seq(S) /\ Len(rx') <= RxCap
           /\ consumed' \in Seq(S) /\ consumed' # <<>>
           /\ Last(consumed') = Head(rx)
<1>1. rx # <<>> /\ rx' = Tail(rx) /\ consumed' = Append(consumed, Head(rx))
  BY DEF Read
<1>2. Head(rx) \in S /\ rx' \in Seq(S) /\ Len(rx') = Len(rx) - 1
  BY <1>1
<1>3. /\ consumed' \in Seq(S) /\ Len(consumed') = Len(consumed) + 1
      /\ consumed'[Len(consumed) + 1] = Head(rx)
  BY <1>1, <1>2
<1>4. consumed' # <<>> /\ Last(consumed') = Head(rx)
  BY <1>3 DEF Last
<1>5. RxCap \in Nat
  BY LineAssumption
<1> QED
  BY <1>2, <1>3, <1>4, <1>5

-----------------------------------------------------------------------------
(* The invariant: types, and lines read as a whole.                        *)

\* The self-test runs when somebody has typed for it.
PostTyped == pc = "post" => "P" \in Bytes

LineInv == TypeOK /\ LineAligned /\ PostTyped

LEMMA InitLine == Init => LineInv
<1> SUFFICES ASSUME Init PROVE LineInv
  OBVIOUS
<1>1. rx \in Seq(Bytes) /\ consumed \in Seq(Bytes) /\ executed \in Seq(Bytes)
  BY DEF Init
<1>2. Len(rx) <= RxCap /\ typed \in 0 .. MaxTyped
  BY LineAssumption DEF Init
<1>3. hasMenu \in BOOLEAN /\ dropped \in BOOLEAN
  BY DEF Init
<1>4. pc \in Places /\ input \in Bytes \union {NoByte} /\ consumed = <<>>
  BY DEF Init, Places
<1>5. pc = "loop"
  BY DEF Init
<1> QED
  BY <1>1, <1>2, <1>3, <1>4, <1>5 DEF LineInv, TypeOK, LineAligned, PostTyped

\* The operator types.
LEMMA TypeLine ==
    ASSUME LineInv, Type
    PROVE  LineInv'
<1>1. hasMenu' = hasMenu /\ Bytes' = Bytes /\ pc' = pc /\ input' = input
      /\ consumed' = consumed /\ executed' = executed
  BY DEF Type, Bytes
<1>2. typed' \in 0 .. MaxTyped
  BY LineAssumption DEF LineInv, TypeOK, Type
<1>3. rx' \in Seq(Bytes) /\ Len(rx') <= RxCap /\ dropped' \in BOOLEAN
  <2>1. CASE Len(rx) < RxCap /\ (\E b \in Bytes: rx' = Append(rx, b)) /\ UNCHANGED dropped
    BY <2>1, LineAssumption DEF LineInv, TypeOK
  <2>2. CASE Len(rx) = RxCap /\ dropped' = TRUE /\ UNCHANGED rx
    BY <2>2 DEF LineInv, TypeOK
  <2> QED
    BY <2>1, <2>2 DEF Type
<1> QED
  BY <1>1, <1>2, <1>3 DEF LineInv, TypeOK, LineAligned, AtRest, PostTyped

\* The steps that read a byte.
LEMMA ReadingLine ==
    ASSUME LineInv, Read, UNCHANGED <<hasMenu, typed, dropped>>,
           pc' \in Places, input' \in Bytes \union {NoByte},
           executed' \in Seq(Bytes),
           Head(rx) # NL => pc' \in {"entry", "flush", "menu_flush"},
           pc' = "post" => "P" \in Bytes
    PROVE  LineInv'
<1>1. Bytes' = Bytes
  BY DEF Bytes
<1>2. /\ rx' \in Seq(Bytes) /\ Len(rx') <= RxCap
      /\ consumed' \in Seq(Bytes) /\ Last(consumed') = Head(rx)
  BY ReadFacts DEF LineInv, TypeOK
<1>3. TypeOK'
  BY <1>1, <1>2 DEF LineInv, TypeOK
<1>4. LineAligned'
  BY <1>2 DEF LineAligned, AtRest
<1>5. PostTyped'
  BY <1>1 DEF PostTyped
<1> QED
  BY <1>3, <1>4, <1>5 DEF LineInv

LEMMA ProgramLine ==
    ASSUME LineInv, Program
    PROVE  LineInv'
<1>0. /\ hasMenu \in BOOLEAN /\ pc \in Places /\ input \in Bytes \union {NoByte}
      /\ executed \in Seq(Bytes) /\ rx \in Seq(Bytes)
  BY DEF LineInv, TypeOK
<1>1. CASE Enter
  <2>1. pc' = "entry" /\ UNCHANGED <<hasMenu, rx, input, typed, dropped, consumed, executed>>
    BY <1>1 DEF Enter
  <2>2. Bytes' = Bytes
    BY <2>1 DEF Bytes
  <2> QED
    BY <2>1, <2>2 DEF LineInv, TypeOK, LineAligned, AtRest, Places, PostTyped
<1>2. CASE SkipEntryLine
  <2>1. /\ Read /\ pc = "entry" /\ UNCHANGED <<hasMenu, input, typed, dropped, executed>>
        /\ pc' \in {"poll", "entry"} /\ (Head(rx) # NL => pc' = "entry")
    BY <1>2 DEF SkipEntryLine
  <2> QED
    BY <2>1, <1>0, ReadingLine DEF Places
<1>3. CASE Poll
  <2>1. /\ Read /\ pc = "poll" /\ pc' = "flush" /\ input' = Head(rx)
        /\ UNCHANGED <<hasMenu, typed, dropped, executed>>
    BY <1>3 DEF Poll
  <2>2. Head(rx) \in Bytes
    BY <2>1, ReadFacts DEF LineInv, TypeOK
  <2> QED
    BY <2>1, <2>2, <1>0, ReadingLine DEF Places
<1>4. CASE Flush
  <2>1. Read /\ pc = "flush" /\ UNCHANGED <<hasMenu, typed, dropped, executed>>
    BY <1>4 DEF Flush
  <2>2. pc' \in Places /\ input' \in Bytes \union {NoByte}
    BY <1>0, <1>4 DEF Flush, Target, Places
  <2>3. Head(rx) # NL => pc' = "flush"
    BY <1>4 DEF Flush
  <2>4. pc' = "post" => "P" \in Bytes
    BY <1>0, <1>4 DEF Flush, Target, NoByte
  <2> QED
    BY <2>1, <2>2, <2>3, <2>4, <1>0, ReadingLine
<1>5. CASE Post
  <2>1. /\ pc = "post" /\ pc' = "poll" /\ executed' = Append(executed, "P")
        /\ UNCHANGED <<hasMenu, rx, input, typed, dropped, consumed>>
    BY <1>5 DEF Post
  <2>2. Bytes' = Bytes
    BY <2>1 DEF Bytes
  <2>3. executed' \in Seq(Bytes)
    BY <2>1, <1>0 DEF LineInv, PostTyped
  <2> QED
    BY <2>1, <2>2, <2>3, <1>0 DEF LineInv, TypeOK, LineAligned, AtRest, Places, PostTyped
<1>6. CASE MenuPoll
  <2>1. /\ Read /\ pc = "menu_poll" /\ pc' = "menu_flush" /\ input' = Head(rx)
        /\ UNCHANGED <<hasMenu, typed, dropped, executed>>
    BY <1>6 DEF MenuPoll
  <2>2. Head(rx) \in Bytes
    BY <2>1, ReadFacts DEF LineInv, TypeOK
  <2> QED
    BY <2>1, <2>2, <1>0, ReadingLine DEF Places
<1>7. CASE MenuFlush
  <2>1. Read /\ pc = "menu_flush" /\ UNCHANGED <<hasMenu, typed, dropped>>
    BY <1>7 DEF MenuFlush
  <2>2. pc' \in Places /\ input' \in Bytes \union {NoByte}
    BY <1>0, <1>7 DEF MenuFlush, Places
  <2>3. executed' \in Seq(Bytes)
    BY <1>0, <1>7 DEF MenuFlush, Tests, NoByte
  <2>4. Head(rx) # NL => pc' = "menu_flush"
    BY <1>7 DEF MenuFlush
  <2>5. pc' # "post"
    BY <1>7 DEF MenuFlush
  <2> QED
    BY <2>1, <2>2, <2>3, <2>4, <2>5, <1>0, ReadingLine
<1> QED
  BY <1>1, <1>2, <1>3, <1>4, <1>5, <1>6, <1>7 DEF Program

LEMMA NextLine == LineInv /\ [Next]_vars => LineInv'
<1> SUFFICES ASSUME LineInv, [Next]_vars PROVE LineInv'
  OBVIOUS
<1>1. CASE UNCHANGED vars
  BY <1>1 DEF vars, LineInv, TypeOK, LineAligned, AtRest, PostTyped, Bytes
<1> QED
  BY <1>1, TypeLine, ProgramLine DEF Next

LEMMA Aligned == Spec => []LineInv
<1> QED
  BY InitLine, NextLine, PTL DEF Spec

-----------------------------------------------------------------------------
(* The invariant of obedience: where the session and the line begun stand  *)
(* at each place of run_cmd.                                               *)

Follows ==
    LET session == SessionOf(hasMenu, consumed)
        part == Unfinished(consumed)
    IN  \/ session.empty
        \/ /\ AtRest => part = <<>> /\ session.mode = pc /\ session.done = executed
           /\ pc = "entry" => session.mode = "loop" /\ session.done = executed
           /\ pc = "flush" => /\ part # <<>> /\ Head(part) = input
                              /\ session.mode = "poll" /\ session.done = executed
           /\ pc = "post" => /\ part = <<>> /\ session.mode = "poll"
                             /\ session.done = Append(executed, "P")
           /\ pc = "menu_flush" => /\ part # <<>> /\ Head(part) = input
                                   /\ session.mode = "menu_poll"
                                   /\ session.done = executed

\* What a line does to a session, case by case.
Obeyed(menu, session, line, next) ==
    /\ session.empty => next.empty
    /\ session.mode \in {"poll", "menu_poll"} /\ line = <<>> => next.empty
    /\ session.mode = "loop" => next.mode = "poll" /\ next.done = session.done
    /\ session.mode = "poll" /\ line # <<>> =>
           /\ next.mode = IF Head(line) = "E" THEN "loop"
                          ELSE IF Head(line) = "S" /\ menu THEN "menu_poll"
                          ELSE "poll"
           /\ next.done = IF Head(line) = "P" THEN Append(session.done, "P")
                          ELSE session.done
    /\ session.mode = "menu_poll" /\ line # <<>> =>
           /\ next.mode = IF Head(line) = "E" THEN "poll" ELSE "menu_poll"
           /\ next.done = IF Head(line) \in Tests
                          THEN Append(session.done, Head(line))
                          ELSE session.done

LEMMA ObeyCases ==
    ASSUME NEW menu, NEW session \in Sessions, NEW line
    PROVE  Obeyed(menu, session, line, Obey(menu, session, line))
<1> DEFINE c == IF line = <<>> THEN NoByte ELSE Head(line)
           asks == \/ session.mode = "poll" /\ c = "P"
                   \/ session.mode = "menu_poll" /\ c \in Tests
           next == Obey(menu, session, line)
<1>1. /\ next.mode = LeadsTo(menu, session.mode, c)
      /\ next.done = IF asks THEN Append(session.done, c) ELSE session.done
      /\ next.empty = (session.empty \/ (session.mode # "loop" /\ line = <<>>))
  BY Zenon DEF Obey
<1> HIDE DEF next
<1>2. session.empty \/ (session.mode # "loop" /\ line = <<>>) => next.empty
  BY <1>1, Zenon
<1>3. ASSUME session.mode = "loop"
      PROVE  next.mode = "poll" /\ next.done = session.done
  <2>1. LeadsTo(menu, session.mode, c) = "poll"
    BY <1>3, Zenon DEF LeadsTo
  <2> QED
    BY <1>1, <1>2, <1>3, <2>1
<1>4. ASSUME session.mode = "poll" /\ line # <<>>
      PROVE  /\ next.mode = IF Head(line) = "E" THEN "loop"
                             ELSE IF Head(line) = "S" /\ menu THEN "menu_poll"
                             ELSE "poll"
             /\ next.done = IF Head(line) = "P" THEN Append(session.done, "P")
                             ELSE session.done
  <2>1. c = Head(line)
    BY <1>4
  <2>2. LeadsTo(menu, "poll", c) = IF c = "E" THEN "loop"
                                   ELSE IF c = "S" /\ menu THEN "menu_poll" ELSE "poll"
    BY Zenon DEF LeadsTo
  <2> QED
    BY <1>1, <1>2, <1>4, <2>1, <2>2
<1>5. ASSUME session.mode = "menu_poll" /\ line # <<>>
      PROVE  /\ next.mode = IF Head(line) = "E" THEN "poll" ELSE "menu_poll"
             /\ next.done = IF Head(line) \in Tests
                             THEN Append(session.done, Head(line))
                             ELSE session.done
  <2>1. c = Head(line)
    BY <1>5
  <2>2. LeadsTo(menu, "menu_poll", c) = IF c = "E" THEN "poll" ELSE "menu_poll"
    BY Zenon DEF LeadsTo
  <2> QED
    BY <1>1, <1>2, <1>5, <2>1, <2>2
<1> QED
  BY <1>2, <1>3, <1>4, <1>5 DEF Obeyed, next

\* What a step that reads a byte makes of the session and of the line begun.
LEMMA ReadSession ==
    ASSUME LineInv, Read, hasMenu' = hasMenu
    PROVE  /\ SessionOf(hasMenu, consumed) \in Sessions
           /\ Unfinished(consumed) \in Seq(Letters)
           /\ Head(rx) = NL =>
                  /\ SessionOf(hasMenu, consumed)'
                     = Obey(hasMenu, SessionOf(hasMenu, consumed), Unfinished(consumed))
                  /\ Unfinished(consumed)' = <<>>
           /\ Head(rx) # NL =>
                  /\ SessionOf(hasMenu, consumed)' = SessionOf(hasMenu, consumed)
                  /\ Unfinished(consumed)' = Append(Unfinished(consumed), Head(rx))
<1>1. Head(rx) \in Bytes /\ consumed' = Append(consumed, Head(rx))
  BY ReadFacts DEF LineInv, TypeOK, Read
<1>2. Head(rx) \in Letters /\ consumed \in Seq(Letters)
  BY <1>1 DEF LineInv, TypeOK, Bytes, Letters
<1>3. /\ SessionOf(hasMenu, consumed)' = SessionOf(hasMenu, consumed')
      /\ Unfinished(consumed)' = Unfinished(consumed')
  OBVIOUS
<1> QED
  BY <1>1, <1>2, <1>3, SessionByte, CutAppend

LEMMA InitFollows == Init => Follows
<1> SUFFICES ASSUME Init PROVE Follows
  OBVIOUS
<1>1. consumed = <<>> /\ executed = <<>> /\ pc = "loop"
  BY DEF Init
<1>2. Results(Cut(<<>>), Cuts, 0, NoLines, CutStep(<<>>))
  <2>1. <<>> \in Seq(Letters) /\ Len(<<>>) = 0
    OBVIOUS
  <2> QED
    BY <2>1, CutResults
<1>3. Lines(<<>>) = <<>> /\ Unfinished(<<>>) = <<>>
  BY <1>2 DEF Results, Lines, Unfinished, NoLines
<1>4. Results(Session(hasMenu, <<>>), Sessions, 0, NoSession, ObeyStep(hasMenu, <<>>))
  <2>1. <<>> \in Seq(Seq(Letters)) /\ Len(<<>>) = 0
    OBVIOUS
  <2> QED
    BY <2>1, SessionResults
<1>5. SessionOf(hasMenu, <<>>) = NoSession
  BY <1>3, <1>4 DEF Results, SessionOf
<1> QED
  BY <1>1, <1>3, <1>5 DEF Follows, AtRest, NoSession

LEMMA NextFollows == LineInv /\ Follows /\ [Next]_vars => Follows'
<1> SUFFICES ASSUME LineInv, Follows, [Next]_vars PROVE Follows'
  OBVIOUS
<1> DEFINE session == SessionOf(hasMenu, consumed)
           part == Unfinished(consumed)
<1>0. hasMenu' = hasMenu
  BY DEF Next, Type, Program, Enter, SkipEntryLine, Poll, Flush, Post, MenuPoll,
         MenuFlush, vars
<1>1. ASSUME UNCHANGED <<pc, input, consumed, executed>> PROVE Follows'
  BY <1>0, <1>1 DEF Follows, AtRest
<1>2. CASE UNCHANGED vars
  BY <1>1, <1>2 DEF vars
<1>3. CASE Type
  BY <1>1, <1>3 DEF Type
<1>4. CASE Enter
  <2>1. pc = "loop" /\ pc' = "entry" /\ UNCHANGED <<consumed, executed>>
    BY <1>4 DEF Enter
  <2> QED
    BY <1>0, <2>1 DEF Follows, AtRest
<1>5. CASE Post
  <2>1. /\ pc = "post" /\ pc' = "poll" /\ executed' = Append(executed, "P")
        /\ UNCHANGED consumed
    BY <1>5 DEF Post
  <2> QED
    BY <1>0, <2>1 DEF Follows, AtRest
<1>6. ASSUME Read
      PROVE  /\ session \in Sessions /\ part \in Seq(Letters)
             /\ Head(rx) = NL => session' = Obey(hasMenu, session, part) /\ part' = <<>>
             /\ Head(rx) # NL => session' = session /\ part' = Append(part, Head(rx))
  BY <1>0, <1>6, ReadSession
<1>7. Follows <=>
        \/ session.empty
        \/ /\ AtRest => part = <<>> /\ session.mode = pc /\ session.done = executed
           /\ pc = "entry" => session.mode = "loop" /\ session.done = executed
           /\ pc = "flush" => /\ part # <<>> /\ Head(part) = input
                              /\ session.mode = "poll" /\ session.done = executed
           /\ pc = "post" => /\ part = <<>> /\ session.mode = "poll"
                             /\ session.done = Append(executed, "P")
           /\ pc = "menu_flush" => /\ part # <<>> /\ Head(part) = input
                                   /\ session.mode = "menu_poll"
                                   /\ session.done = executed
  BY DEF Follows
<1>8. Follows' <=>
        \/ session'.empty
        \/ /\ AtRest' => part' = <<>> /\ session'.mode = pc' /\ session'.done = executed'
           /\ pc' = "entry" => session'.mode = "loop" /\ session'.done = executed'
           /\ pc' = "flush" => /\ part' # <<>> /\ Head(part') = input'
                               /\ session'.mode = "poll" /\ session'.done = executed'
           /\ pc' = "post" => /\ part' = <<>> /\ session'.mode = "poll"
                              /\ session'.done = Append(executed', "P")
           /\ pc' = "menu_flush" => /\ part' # <<>> /\ Head(part') = input'
                                    /\ session'.mode = "menu_poll"
                                    /\ session'.done = executed'
  BY DEF Follows
<1> HIDE DEF session, part
<1>9. ASSUME NEW p \in Seq(Letters), NEW b
      PROVE  Append(p, b) # <<>> /\ (p # <<>> => Head(Append(p, b)) = Head(p))
             /\ (p = <<>> => Head(Append(p, b)) = b)
  OBVIOUS
<1>10. ASSUME Read, Head(rx) = NL
       PROVE  part' = <<>> /\ Obeyed(hasMenu, session, part, session')
  BY <1>6, <1>10, ObeyCases
<1>11. CASE session.empty
  <2>1. CASE Read
    BY <1>6, <1>8, <1>10, <1>11, <2>1 DEF Obeyed
  <2>2. CASE ~Read
    BY <1>2, <1>3, <1>4, <1>5, <2>2
       DEF Next, Program, SkipEntryLine, Poll, Flush, MenuPoll, MenuFlush
  <2> QED
    BY <2>1, <2>2
<1>12. CASE ~session.empty /\ SkipEntryLine
  <2>1. /\ Read /\ pc = "entry" /\ UNCHANGED executed
        /\ pc' = IF Head(rx) = NL THEN "poll" ELSE "entry"
    BY <1>12 DEF SkipEntryLine
  <2>2. session.mode = "loop" /\ session.done = executed
    BY <1>7, <1>12, <2>1
  <2> QED
    BY <1>6, <1>8, <1>10, <2>1, <2>2 DEF AtRest, Obeyed
<1>13. CASE ~session.empty /\ Poll
  <2>1. Read /\ pc = "poll" /\ pc' = "flush" /\ input' = Head(rx) /\ UNCHANGED executed
    BY <1>13 DEF Poll
  <2>2. session.mode = "poll" /\ session.done = executed /\ part = <<>>
    BY <1>7, <1>13, <2>1 DEF AtRest, Obeyed
  <2> QED
    BY <1>6, <1>8, <1>9, <1>10, <2>1, <2>2 DEF AtRest, Obeyed
<1>14. CASE ~session.empty /\ Flush
  <2>1. Read /\ pc = "flush" /\ UNCHANGED executed
    BY <1>14 DEF Flush
  <2>2. /\ session.mode = "poll" /\ session.done = executed
        /\ part # <<>> /\ Head(part) = input
    BY <1>7, <1>14, <2>1
  <2>3. CASE Head(rx) = NL
    <3>1. pc' = Target(input)
      BY <1>14, <2>3 DEF Flush
    <3>2. Target(input) = IF input = "E" THEN "loop"
                          ELSE IF input = "P" THEN "post"
                          ELSE IF input = "S" /\ hasMenu THEN "menu_poll" ELSE "poll"
      BY Zenon DEF Target
    <3> QED
      BY <1>8, <1>10, <2>1, <2>2, <2>3, <3>1, <3>2 DEF AtRest, Obeyed
  <2>4. CASE Head(rx) # NL
    <3>1. pc' = "flush" /\ input' = input
      BY <1>14, <2>1, <2>4 DEF Flush
    <3> QED
      BY <1>6, <1>8, <1>9, <2>1, <2>2, <2>4, <3>1 DEF AtRest, Obeyed
  <2> QED
    BY <2>3, <2>4
<1>15. CASE ~session.empty /\ MenuPoll
  <2>1. /\ Read /\ pc = "menu_poll" /\ pc' = "menu_flush" /\ input' = Head(rx)
        /\ UNCHANGED executed
    BY <1>15 DEF MenuPoll
  <2>2. session.mode = "menu_poll" /\ session.done = executed /\ part = <<>>
    BY <1>7, <1>15, <2>1 DEF AtRest, Obeyed
  <2> QED
    BY <1>6, <1>8, <1>9, <1>10, <2>1, <2>2 DEF AtRest, Obeyed
<1>16. CASE ~session.empty /\ MenuFlush
  <2>1. Read /\ pc = "menu_flush"
    BY <1>16 DEF MenuFlush
  <2>2. /\ session.mode = "menu_poll" /\ session.done = executed
        /\ part # <<>> /\ Head(part) = input
    BY <1>7, <1>16, <2>1
  <2>3. CASE Head(rx) = NL
    <3>1. /\ pc' = IF input = "E" THEN "poll" ELSE "menu_poll"
          /\ executed' = IF input \in Tests THEN Append(executed, input) ELSE executed
      BY <1>16, <2>3 DEF MenuFlush
    <3> QED
      BY <1>8, <1>10, <2>1, <2>2, <2>3, <3>1 DEF AtRest, Obeyed
  <2>4. CASE Head(rx) # NL
    <3>1. pc' = "menu_flush" /\ input' = input /\ executed' = executed
      BY <1>16, <2>1, <2>4 DEF MenuFlush
    <3> QED
      BY <1>6, <1>8, <1>9, <2>1, <2>2, <2>4, <3>1 DEF AtRest, Obeyed
  <2> QED
    BY <2>3, <2>4
<1> QED
  BY <1>2, <1>3, <1>4, <1>5, <1>11, <1>12, <1>13, <1>14, <1>15, <1>16 DEF Next, Program

-----------------------------------------------------------------------------
(* Theorems.                                                               *)

\* The receive buffer never holds more than it can, and command mode keeps its
\* variables well formed.
THEOREM CommandTypes == Spec => []TypeOK
<1>1. LineInv => TypeOK
  BY DEF LineInv
<1> QED
  BY <1>1, Aligned, PTL

\* Command mode never stops in the middle of a line, whatever is typed, however
\* far ahead, and whatever the buffer drops.
THEOREM LinesAligned == Spec => []LineAligned
<1>1. LineInv => LineAligned
  BY DEF LineInv
<1> QED
  BY <1>1, Aligned, PTL

\* Whenever run_cmd looks for a new command it has carried out what the lines it
\* has read ask for, no more and no less, and is in the mode they lead to, unless
\* an empty line came where a command is expected.
THEOREM LinesCarriedOut == Spec => []LinesObeyed
<1>1. LineInv /\ Follows => LinesObeyed
  BY DEF Follows, LinesObeyed
<1> QED
  BY <1>1, InitFollows, NextFollows, Aligned, PTL DEF Spec
=============================================================================
