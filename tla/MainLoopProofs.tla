--------------------------- MODULE MainLoopProofs ---------------------------
(***************************************************************************)
(* Theorems about the main loop for clocks and ints of every width, and    *)
(* for every choice of the waits.                                          *)
(***************************************************************************)
EXTENDS MCMainLoop, TLAPS

-----------------------------------------------------------------------------
(* The arithmetic of the timers.                                           *)

\* Subtraction of unsigned longs stays among them, and a tick of the counter
\* either adds one to a difference or takes it back to zero.
LEMMA USubFacts ==
    ASSUME NEW a \in Millis, NEW b \in Millis
    PROVE  /\ USub(a, b) \in Millis
           /\ USub(a, a) = 0
           /\ Succ(a) \in Millis
           /\ USub(a, b) < ClockMod - 1 => USub(Succ(a), b) = USub(a, b) + 1
           /\ USub(a, b) = ClockMod - 1 => USub(Succ(a), b) = 0
  BY ClockAssumption DEF USub, Succ, Millis

\* Narrowing an unsigned long to an int never makes it larger, and leaves it
\* alone when it fits.
LEMMA AsIntFacts ==
    ASSUME NEW x \in Nat
    PROVE  /\ AsInt(x) \in -IntHalf .. IntHalf - 1
           /\ AsInt(x) <= x
           /\ x < IntHalf => AsInt(x) = x
<1> DEFINE m == 2 * IntHalf
           r == x % m
<1>1. m \in Nat \ {0} /\ IntHalf \in Nat \ {0}
  BY IntAssumption
<1>2. r \in 0 .. m - 1 /\ r <= x /\ (x < m => r = x)
  BY <1>1
<1>3. AsInt(x) = IF r < IntHalf THEN r ELSE r - 2 * IntHalf
  BY DEF AsInt
<1> QED
  BY <1>1, <1>2, <1>3

-----------------------------------------------------------------------------
(* Type correctness.                                                       *)

\* Whatever the generation, the packets it makes are well formed.
LEMMA PacketTypes ==
    ASSUME NEW e \in Addresses, NEW a \in Addresses \union {0},
           NEW now \in Millis, NEW p \in Packets
    PROVE  /\ board_init(e) \in Packets
           /\ board_sample(p, a, now) \in Packets
           /\ heartbeat_packet(e, now) \in Packets
<1>1. 0 \in Millis
  BY ClockAssumption DEF Millis
<1>2. board_init(e) \in Packets
  BY <1>1, GenAssumption
  DEF board_init, ga_board_init, gc_board_init, gd_board_init, gg_board_init,
      Generations, Packet, Packets
<1>3. board_sample(p, a, now) \in Packets
  <2>1. ga_board_sample(p, a, now) \in Packets
    BY DEF ga_board_sample, Packets
  <2>2. gc_board_sample(p, a, now) \in Packets
    BY DEF gc_board_sample, Packets
  <2>3. gd_board_sample(p, a, now) \in Packets
    BY DEF gd_board_sample, Packets
  <2>4. gg_board_sample(p, a, now) \in Packets
    BY DEF gg_board_sample, Packets
  <2> QED
    BY <2>1, <2>2, <2>3, <2>4, GenAssumption DEF board_sample, Generations
<1>4. heartbeat_packet(e, now) \in Packets
  BY DEF heartbeat_packet, Packet, Packets
<1> QED
  BY <1>2, <1>3, <1>4

\* An age stays within its cap, and goes up by one until it gets there.
LEMMA OlderFacts ==
    ASSUME NEW a \in 0 .. AgeCap
    PROVE  /\ Older(a) \in 0 .. AgeCap
           /\ Older(a) >= a
           /\ a < AgeCap => Older(a) = a + 1
           /\ a = AgeCap => Older(a) = AgeCap
  BY CapAssumption DEF Older

LEMMA TypeInit == Init => TypeOK
<1> SUFFICES ASSUME Init PROVE TypeOK
  OBVIOUS
<1>1. 0 \in Millis
  BY ClockAssumption DEF Millis
<1>2. Packet(0, 0, 0) \in Packets
  BY <1>1 DEF Packet, Packets
<1>3. /\ 0 \in 0 .. MaxPass /\ 0 \in 0 .. AgeCap
      /\ 0 \in -IntHalf .. IntHalf - 1
  BY IntAssumption, WaitAssumption, CapAssumption
<1>4. pc \in Steps
  BY DEF Init, Steps
<1> QED
  BY <1>1, <1>2, <1>3, <1>4 DEF Init, TypeOK

\* Every action of the environment and of the program keeps the types.
LEMMA TypeStep == TypeOK /\ [Next]_vars => TypeOK'
<1> SUFFICES ASSUME TypeOK, [Next]_vars PROVE TypeOK'
  OBVIOUS
<1> USE IntAssumption, WaitAssumption, CapAssumption DEF TypeOK
<1>0. /\ 0 \in Millis
      /\ 0 \in -IntHalf .. IntHalf - 1
      /\ Silence \in Packets \union {Silence}
      /\ MaxPass \in Nat
  BY ClockAssumption DEF Millis
<1>1. CASE Tick
  <2>1. Succ(millis) \in Millis
    BY USubFacts
  <2>2. /\ Older(sampleAge) \in 0 .. AgeCap /\ Older(heartbeatAge) \in 0 .. AgeCap
        /\ Older(loopAge) \in 0 .. AgeCap
    BY OlderFacts
  <2> QED
    BY <1>0, <1>1, <2>1, <2>2 DEF Tick, board
<1>2. CASE Receive
  BY <1>0, <1>2 DEF Receive, clock, board
<1>3. CASE PowerCycle
  <2>1. Packet(0, 0, 0) \in Packets /\ 0 \in 0 .. MaxPass /\ 0 \in 0 .. AgeCap
    BY <1>0 DEF Packet, Packets
  <2>2. pc' \in Steps
    BY <1>3 DEF PowerCycle, Steps
  <2> QED
    BY <1>0, <1>3, <2>1, <2>2 DEF PowerCycle
<1>4. CASE Setup
  BY <1>0, <1>4, PacketTypes DEF Setup, NextPass, Steps
<1>5. CASE ReadySample
  BY <1>0, <1>5 DEF ReadySample, Goto, clock, board, Steps
<1>6. CASE StampSample
  BY <1>0, <1>6 DEF StampSample, Steps
<1>7. CASE Sample
  BY <1>0, <1>7, PacketTypes DEF Sample, Goto, clock, Steps
<1>8. CASE Tx
  BY <1>0, <1>8 DEF Tx, Goto, clock, board, Steps
<1>9. CASE ReadyTx
  BY <1>0, <1>9 DEF ReadyTx, Goto, clock, board, Steps
<1>10. CASE ReadyRunCmd
  BY <1>0, <1>10 DEF ReadyRunCmd, Goto, clock, board, Steps
<1>11. CASE LeaveCmd
  BY <1>0, <1>11 DEF LeaveCmd, clock, board, Steps
<1>12. CASE HbDelta
  <2>1. USub(millis, prev_heartbeat_ms) \in Nat
    BY USubFacts DEF Millis
  <2>2. AsInt(USub(millis, prev_heartbeat_ms)) \in -IntHalf .. IntHalf - 1
    BY <2>1, AsIntFacts
  <2> QED
    BY <1>0, <1>12, <2>2 DEF HbDelta, Goto, clock, board, Steps
<1>13. CASE HbEnable
  BY <1>0, <1>13 DEF HbEnable, Goto, NextPass, clock, board, Steps
<1>14. CASE HbStamp
  BY <1>0, <1>14 DEF HbStamp, Steps
<1>15. CASE HeartbeatTx
  BY <1>0, <1>15, PacketTypes DEF HeartbeatTx, NextPass, board, Steps
<1>16. CASE UNCHANGED vars
  BY <1>16 DEF vars, clock, board
<1> QED
  BY <1>1, <1>2, <1>3, <1>4, <1>5, <1>6, <1>7, <1>8, <1>9, <1>10, <1>11,
     <1>12, <1>13, <1>14, <1>15, <1>16 DEF Next, Program

\* The variables of the loop keep the types their declarations give them: the
\* counter and the stamps those of an unsigned long, the difference of
\* ready_heartbeat_tx that of an int, whatever the widths are.
THEOREM TypeCorrect == Spec => []TypeOK
  BY TypeInit, TypeStep, PTL DEF Spec

-----------------------------------------------------------------------------
(* The inductive invariant.  A timer's unsigned difference never overtakes *)
(* the true age, and is the true age until the counter has come around a   *)
(* whole turn; what the checks found out still holds when it is acted on.  *)

\* The difference that a timer with the stamp prev sees, against the true age.
Tracks(prev, age) ==
    /\ USub(millis, prev) <= age
    /\ age < ClockMod => USub(millis, prev) = age

SampleTracked    == Tracks(prev_sample_ms, sampleAge)
HeartbeatTracked == Tracks(prev_heartbeat_ms, heartbeatAge)

SampleDecided ==
    /\ pc = "setup" => prev_sample_ms = 0
    /\ pc = "stamp_sample" => sampleAge >= SampleWait

HeartbeatDecided ==
    /\ pc = "hb_enable" =>
          /\ sample_delta <= heartbeatAge
          /\ heartbeatAge < IntHalf => heartbeatAge <= sample_delta + busy
    /\ pc = "hb_stamp" => heartbeatAge >= HbWait

TimerInv ==
    /\ TypeOK
    /\ SampleTracked
    /\ HeartbeatTracked
    /\ SampleDecided
    /\ HeartbeatDecided

LEMMA TimerInit == Init => TimerInv
<1> SUFFICES ASSUME Init PROVE TimerInv
  OBVIOUS
<1>1. TypeOK
  BY TypeInit
<1>2. USub(0, 0) = 0
  BY DEF USub
<1> QED
  BY <1>1, <1>2
  DEF Init, TimerInv, SampleTracked, HeartbeatTracked, Tracks, SampleDecided,
      HeartbeatDecided

\* A tick of the counter leaves a timer on track.
LEMMA TickTracks ==
    ASSUME TypeOK, NEW prev \in Millis, NEW age \in 0 .. AgeCap,
           Tracks(prev, age)
    PROVE  LET diff == USub(Succ(millis), prev)
           IN  /\ diff <= Older(age)
               /\ Older(age) < ClockMod => diff = Older(age)
<1> DEFINE diff == USub(millis, prev)
<1>1. millis \in Millis /\ diff \in 0 .. ClockMod - 1 /\ age \in Nat
  BY USubFacts, CapAssumption DEF TypeOK, Millis
<1>2. /\ diff < ClockMod - 1 => USub(Succ(millis), prev) = diff + 1
      /\ diff = ClockMod - 1 => USub(Succ(millis), prev) = 0
  BY <1>1, USubFacts
<1>3. /\ Older(age) \in 0 .. AgeCap
      /\ age < AgeCap => Older(age) = age + 1
      /\ age = AgeCap => Older(age) = AgeCap
  BY OlderFacts
<1>4. diff <= age /\ (age < ClockMod => diff = age)
  BY DEF Tracks
<1> QED
  BY <1>1, <1>2, <1>3, <1>4, ClockAssumption, CapAssumption

\* A stamp puts a timer on track.
LEMMA StampTracks ==
    ASSUME TypeOK
    PROVE  USub(millis, millis) = 0
  BY USubFacts DEF TypeOK

\* What leaves the counter, the stamps and the ages alone leaves the timers
\* on track.
LEMMA StillTracks ==
    ASSUME SampleTracked, HeartbeatTracked,
           UNCHANGED <<millis, prev_sample_ms, prev_heartbeat_ms, sampleAge,
                       heartbeatAge>>
    PROVE  SampleTracked' /\ HeartbeatTracked'
  BY DEF SampleTracked, HeartbeatTracked, Tracks

LEMMA TimerStep == TimerInv /\ [Next]_vars => TimerInv'
<1> SUFFICES ASSUME TimerInv, [Next]_vars PROVE TimerInv'
  OBVIOUS
<1>0. TypeOK /\ TypeOK'
  BY TypeStep DEF TimerInv
<1>a. SampleTracked /\ HeartbeatTracked /\ SampleDecided /\ HeartbeatDecided
  BY DEF TimerInv
<1>b. /\ millis \in Millis /\ prev_sample_ms \in Millis
      /\ prev_heartbeat_ms \in Millis
      /\ sampleAge \in 0 .. AgeCap /\ heartbeatAge \in 0 .. AgeCap
      /\ sampleAge \in Nat /\ heartbeatAge \in Nat /\ busy \in Nat
      /\ sample_delta \in Int
  BY <1>0, WaitAssumption, IntAssumption, CapAssumption DEF TypeOK
<1>c. USub(millis, millis) = 0 /\ USub(0, 0) = 0
  BY <1>0, StampTracks DEF USub
<1> SUFFICES SampleTracked' /\ HeartbeatTracked' /\ SampleDecided'
             /\ HeartbeatDecided'
  BY <1>0 DEF TimerInv
<1>1. CASE Tick
  <2>1. SampleTracked' /\ HeartbeatTracked'
    BY <1>0, <1>a, <1>b, <1>1, TickTracks
    DEF SampleTracked, HeartbeatTracked, Tracks, Tick, board
  <2>2. /\ sampleAge' >= sampleAge /\ sampleAge' \in Nat
        /\ heartbeatAge' >= heartbeatAge /\ heartbeatAge' \in Nat
        /\ heartbeatAge' <= heartbeatAge + 1
    BY <1>b, <1>1, OlderFacts, CapAssumption DEF Tick
  <2>3. SampleDecided'
    BY <1>a, <1>b, <1>1, <2>2, WaitAssumption DEF SampleDecided, Tick, board
  <2>4. ASSUME pc = "hb_enable"
        PROVE  /\ sample_delta <= heartbeatAge'
               /\ heartbeatAge' < IntHalf => heartbeatAge' <= sample_delta + busy'
    BY <1>a, <1>b, <1>1, <2>2, <2>4, IntAssumption DEF HeartbeatDecided, Tick
  <2>5. HeartbeatDecided'
    BY <1>a, <1>b, <1>1, <2>2, <2>4, WaitAssumption DEF HeartbeatDecided, Tick
  <2> QED
    BY <2>1, <2>3, <2>5
<1>2. CASE Receive
  <2>1. SampleTracked' /\ HeartbeatTracked'
    BY <1>a, <1>2, StillTracks DEF Receive, clock, board
  <2> QED
    BY <1>a, <1>2, <2>1 DEF Receive, clock, board, SampleDecided, HeartbeatDecided
<1>3. CASE PowerCycle
  BY <1>c, <1>3
  DEF PowerCycle, SampleTracked, HeartbeatTracked, Tracks, SampleDecided,
      HeartbeatDecided
<1>4. CASE Setup
  \* setup() stamps the sample timer with 0, which it still holds.
  <2>0. UNCHANGED <<millis, prev_sample_ms, prev_heartbeat_ms, sampleAge,
                    heartbeatAge>>
    BY <1>a, <1>4 DEF Setup, NextPass, SampleDecided
  <2>1. SampleTracked' /\ HeartbeatTracked'
    BY <1>a, <2>0, StillTracks
  <2> QED
    BY <2>1, <1>4 DEF Setup, NextPass, SampleDecided, HeartbeatDecided
<1>5. CASE ReadySample
  <2>1. SampleTracked' /\ HeartbeatTracked'
    BY <1>a, <1>5, StillTracks DEF ReadySample, Goto, clock, board
  <2>2. pc' = "stamp_sample" => USub(millis, prev_sample_ms) >= SampleWait
    BY <1>5 DEF ReadySample, Goto
  <2>3. USub(millis, prev_sample_ms) <= sampleAge
        /\ USub(millis, prev_sample_ms) \in Nat
    BY <1>a, <1>b, USubFacts DEF SampleTracked, Tracks, Millis
  <2>4. sampleAge' = sampleAge /\ pc' \in {"stamp_sample", "ready_tx"}
    BY <1>5 DEF ReadySample, Goto, clock
  <2>5. SampleDecided' /\ HeartbeatDecided'
    BY <1>b, <2>2, <2>3, <2>4, WaitAssumption DEF SampleDecided, HeartbeatDecided
  <2> QED
    BY <2>1, <2>5
<1>6. CASE StampSample
  <2>1. SampleTracked'
    BY <1>b, <1>c, <1>6 DEF StampSample, SampleTracked, Tracks
  <2>2. HeartbeatTracked'
    BY <1>a, <1>6 DEF StampSample, HeartbeatTracked, Tracks
  <2> QED
    BY <1>6, <2>1, <2>2 DEF StampSample, SampleDecided, HeartbeatDecided
<1>7. CASE Sample
  <2>1. SampleTracked' /\ HeartbeatTracked'
    BY <1>a, <1>7, StillTracks DEF Sample, Goto, clock
  <2> QED
    BY <1>7, <2>1 DEF Sample, Goto, SampleDecided, HeartbeatDecided
<1>8. CASE Tx
  <2>1. SampleTracked' /\ HeartbeatTracked'
    BY <1>a, <1>8, StillTracks DEF Tx, Goto, clock, board
  <2> QED
    BY <1>8, <2>1 DEF Tx, Goto, SampleDecided, HeartbeatDecided
<1>9. CASE ReadyTx
  <2>1. SampleTracked' /\ HeartbeatTracked'
    BY <1>a, <1>9, StillTracks DEF ReadyTx, Goto, clock, board
  <2> QED
    BY <1>9, <2>1 DEF ReadyTx, Goto, SampleDecided, HeartbeatDecided
<1>10. CASE ReadyRunCmd
  <2>1. SampleTracked' /\ HeartbeatTracked'
    BY <1>a, <1>10, StillTracks DEF ReadyRunCmd, Goto, clock, board
  <2> QED
    BY <1>10, <2>1 DEF ReadyRunCmd, Goto, SampleDecided, HeartbeatDecided
<1>11. CASE LeaveCmd
  <2>1. SampleTracked' /\ HeartbeatTracked'
    BY <1>a, <1>11, StillTracks DEF LeaveCmd, clock, board
  <2> QED
    BY <1>11, <2>1 DEF LeaveCmd, SampleDecided, HeartbeatDecided
<1>12. CASE HbDelta
  <2> DEFINE diff == USub(millis, prev_heartbeat_ms)
  <2>1. SampleTracked' /\ HeartbeatTracked'
    BY <1>a, <1>12, StillTracks DEF HbDelta, Goto, clock, board
  <2>2. diff \in Nat /\ diff <= heartbeatAge
        /\ (heartbeatAge < ClockMod => diff = heartbeatAge)
    BY <1>a, <1>b, USubFacts DEF HeartbeatTracked, Tracks, Millis
  <2>3. AsInt(diff) \in Int /\ AsInt(diff) <= diff
        /\ (diff < IntHalf => AsInt(diff) = diff)
    BY <2>2, AsIntFacts, IntAssumption
  <2>4. /\ sample_delta' = AsInt(diff)
        /\ heartbeatAge' = heartbeatAge /\ busy' = busy
        /\ pc' = "hb_enable"
    BY <1>12 DEF HbDelta, Goto, clock
  <2>5. /\ AsInt(diff) <= heartbeatAge
        /\ heartbeatAge < IntHalf => heartbeatAge <= AsInt(diff) + busy
    BY <1>b, <2>2, <2>3, ClockAssumption, IntAssumption
  <2> QED
    BY <2>1, <2>4, <2>5 DEF SampleDecided, HeartbeatDecided
<1>13. CASE HbEnable
  <2>1. SampleTracked' /\ HeartbeatTracked'
    BY <1>a, <1>13, StillTracks DEF HbEnable, Goto, NextPass, clock, board
  <2>2. /\ pc' \in {"hb_stamp", "ready_sample"}
        /\ pc' = "hb_stamp" => sample_delta >= HbWait
        /\ heartbeatAge' = heartbeatAge
    BY <1>13 DEF HbEnable, Goto, NextPass, clock
  <2>3. sample_delta <= heartbeatAge
    BY <1>a, <1>13 DEF HbEnable, HeartbeatDecided
  <2> QED
    BY <1>b, <2>1, <2>2, <2>3, WaitAssumption DEF SampleDecided, HeartbeatDecided
<1>14. CASE HbStamp
  <2>1. SampleTracked'
    BY <1>a, <1>14 DEF HbStamp, SampleTracked, Tracks
  <2>2. HeartbeatTracked'
    BY <1>b, <1>c, <1>14 DEF HbStamp, HeartbeatTracked, Tracks
  <2> QED
    BY <1>14, <2>1, <2>2 DEF HbStamp, SampleDecided, HeartbeatDecided
<1>15. CASE HeartbeatTx
  <2>1. SampleTracked' /\ HeartbeatTracked'
    BY <1>a, <1>15, StillTracks DEF HeartbeatTx, NextPass, board
  <2> QED
    BY <1>15, <2>1 DEF HeartbeatTx, NextPass, SampleDecided, HeartbeatDecided
<1>16. CASE UNCHANGED vars
  BY <1>a, <1>16
  DEF vars, clock, board, SampleTracked, HeartbeatTracked, Tracks,
      SampleDecided, HeartbeatDecided
<1> QED
  BY <1>1, <1>2, <1>3, <1>4, <1>5, <1>6, <1>7, <1>8, <1>9, <1>10, <1>11,
     <1>12, <1>13, <1>14, <1>15, <1>16 DEF Next, Program

LEMMA TimersCorrect == Spec => []TimerInv
  BY TimerInit, TimerStep, PTL DEF Spec

-----------------------------------------------------------------------------
(* The timers implement pacers, and see what is due.                       *)

LEMMA SamplePacerStep ==
    TimerInv /\ [Next]_vars => [SamplePacer!Next]_SamplePacer!vars
<1> SUFFICES ASSUME TimerInv, [Next]_vars
             PROVE  SamplePacer!Next \/ UNCHANGED SamplePacer!vars
  OBVIOUS
<1> USE DEF SamplePacer!Next, SamplePacer!vars
<1>1. CASE Tick
  BY <1>1 DEF Tick, SamplePacer!Elapse, SamplePacer!Older, Older
<1>2. CASE PowerCycle
  BY <1>2 DEF PowerCycle, SamplePacer!PowerCycle
<1>3. CASE Setup
  BY <1>3 DEF Setup, NextPass, SamplePacer!Boot
<1>4. CASE StampSample
  BY <1>4 DEF StampSample, SamplePacer!Start, TimerInv, SampleDecided
<1>5. CASE Tx
  BY <1>5 DEF Tx, Goto, clock, SamplePacer!Finish
<1>6. CASE Sample
  BY <1>6 DEF Sample, Goto, clock
<1>7. CASE ReadySample
  BY <1>7 DEF ReadySample, Goto, clock
<1>8. CASE ReadyTx \/ ReadyRunCmd \/ HbDelta
  BY <1>8 DEF ReadyTx, ReadyRunCmd, HbDelta, Goto, clock
<1>9. CASE HbEnable \/ HbStamp \/ HeartbeatTx
  BY <1>9 DEF HbEnable, HbStamp, HeartbeatTx, Goto, NextPass, clock
<1>10. CASE Receive \/ LeaveCmd \/ UNCHANGED vars
  BY <1>10 DEF Receive, LeaveCmd, vars, clock
<1> QED
  BY <1>1, <1>2, <1>3, <1>4, <1>5, <1>6, <1>7, <1>8, <1>9, <1>10
  DEF Next, Program

\* Whatever the width of the counter, ready_sample keeps two samples, and
\* power-up and the first sample, at least SampleWait ticks of real time apart.
THEOREM SamplesPaced == Spec => SamplePacing
<1>1. Init => SamplePacer!Init
  BY DEF Init, SamplePacer!Init
<1> QED
  BY <1>1, SamplePacerStep, TimersCorrect, PTL
  DEF Spec, SamplePacing, SamplePacer!Spec

LEMMA HeartbeatPacerStep ==
    TimerInv /\ [Next]_vars => [HeartbeatPacer!Next]_HeartbeatPacer!vars
<1> SUFFICES ASSUME TimerInv, [Next]_vars
             PROVE  HeartbeatPacer!Next \/ UNCHANGED HeartbeatPacer!vars
  OBVIOUS
<1> USE DEF HeartbeatPacer!Next, HeartbeatPacer!vars
<1>1. CASE Tick
  BY <1>1 DEF Tick, HeartbeatPacer!Elapse, HeartbeatPacer!Older, Older
<1>2. CASE PowerCycle
  BY <1>2 DEF PowerCycle, HeartbeatPacer!PowerCycle
<1>3. CASE Setup
  BY <1>3 DEF Setup, NextPass, HeartbeatPacer!Boot
<1>4. CASE HbStamp
  BY <1>4 DEF HbStamp, HeartbeatPacer!Start, TimerInv, HeartbeatDecided
<1>5. CASE HeartbeatTx
  BY <1>5 DEF HeartbeatTx, NextPass, HeartbeatPacer!Finish
<1>6. CASE StampSample \/ Sample \/ Tx
  BY <1>6 DEF StampSample, Sample, Tx, Goto, clock
<1>7. CASE ReadySample \/ ReadyTx
  BY <1>7 DEF ReadySample, ReadyTx, Goto, clock
<1>8. CASE ReadyRunCmd
  BY <1>8 DEF ReadyRunCmd, Goto, clock
<1>9. CASE HbDelta \/ HbEnable
  BY <1>9 DEF HbDelta, HbEnable, Goto, NextPass, clock
<1>10. CASE Receive \/ LeaveCmd \/ UNCHANGED vars
  BY <1>10 DEF Receive, LeaveCmd, vars, clock
<1> QED
  BY <1>1, <1>2, <1>3, <1>4, <1>5, <1>6, <1>7, <1>8, <1>9, <1>10
  DEF Next, Program

\* ready_heartbeat_tx keeps heartbeats HbWait ticks of real time apart, although
\* the int it compares may hold anything but the true difference: squeezing a
\* difference into an int never makes it larger.
THEOREM HeartbeatsPaced == Spec => HeartbeatPacing
<1>1. Init => HeartbeatPacer!Init
  BY DEF Init, HeartbeatPacer!Init
<1> QED
  BY <1>1, HeartbeatPacerStep, TimersCorrect, PTL
  DEF Spec, HeartbeatPacing, HeartbeatPacer!Spec

\* ready_sample turns nothing down that is due, as long as the difference tells.
LEMMA DueSample ==
    ASSUME TimerInv, ReadySample, pc' = "ready_tx"
    PROVE  sampleAge < SampleWait \/ sampleAge >= ClockMod
<1>1. ~(USub(millis, prev_sample_ms) >= SampleWait)
  BY DEF ReadySample, Goto
<1>2. sampleAge < ClockMod => USub(millis, prev_sample_ms) = sampleAge
  BY DEF TimerInv, SampleTracked, Tracks
<1>3. sampleAge \in Nat
  BY CapAssumption DEF TimerInv, TypeOK
<1> QED
  BY <1>1, <1>2, <1>3, WaitAssumption, ClockAssumption

\* A sample that is due is turned down by no check made before the counter has
\* come around a whole turn.
THEOREM DueSamplesSeen == Spec => SampleDueSeen
<1>1. TimerInv /\ [Next]_vars
          => [ReadySample /\ pc' = "ready_tx" =>
                 sampleAge < SampleWait \/ sampleAge >= ClockMod]_vars
  BY DueSample
<1> QED
  BY <1>1, TimersCorrect, PTL DEF SampleDueSeen, Spec

\* How long a sample can be overdue: after the check by what the pass has taken so
\* far, and until it by the pass before as well.
OverdueInv ==
    /\ loopAge <= sampleAge
    /\ pc = "setup" => loopAge <= busy
    /\ pc \in {"ready_sample", "stamp_sample"} =>
          loopAge < SampleWait + MaxPass + busy \/ sampleAge >= ClockMod
    /\ pc \notin {"setup", "ready_sample", "stamp_sample"} =>
          loopAge < SampleWait + busy \/ sampleAge >= ClockMod

LEMMA OverdueStep ==
    ASSUME SampleWait > 0, TimerInv, OverdueInv, [Next]_vars
    PROVE  OverdueInv'
<1>1. /\ sampleAge \in 0 .. AgeCap /\ loopAge \in 0 .. AgeCap
      /\ sampleAge \in Nat /\ loopAge \in Nat /\ busy \in Nat /\ busy <= MaxPass
      /\ SampleWait \in Nat /\ MaxPass \in Nat /\ AgeCap \in Nat
      /\ ClockMod \in Nat
  BY WaitAssumption, CapAssumption, ClockAssumption DEF TimerInv, TypeOK
<1> USE DEF OverdueInv
<1>2. CASE Tick
  \* Command mode leaves loopAge alone; elsewhere it grows with busy.
  <2>1. pc' = pc /\ sampleAge' = Older(sampleAge)
    BY <1>2 DEF Tick
  <2>2. sampleAge' >= sampleAge /\ sampleAge' \in Nat
    BY <1>1, <2>1, OlderFacts
  <2>3. CASE pc = "run_cmd"
    <3>1. busy' = busy /\ loopAge' = loopAge
      BY <1>2, <2>3 DEF Tick
    <3> QED
      BY <1>1, <2>1, <2>2, <2>3, <3>1
  <2>4. CASE pc # "run_cmd"
    <3>1. busy' = busy + 1 /\ loopAge' = Older(loopAge)
      BY <1>2, <2>4 DEF Tick
    <3>2. loopAge' \in Nat /\ loopAge' <= loopAge + 1 /\ loopAge' <= sampleAge'
      BY <1>1, <2>1, <3>1 DEF Older
    <3> QED
      BY <1>1, <2>1, <2>2, <2>4, <3>1, <3>2
  <2> QED
    BY <2>3, <2>4
<1>3. CASE Setup
  <2>1. /\ pc = "setup" /\ pc' = "ready_sample" /\ busy' = 0
        /\ loopAge' = loopAge /\ sampleAge' = sampleAge
    BY <1>3 DEF Setup, NextPass
  <2> QED
    BY <1>1, <2>1
<1>4. CASE ReadySample
  <2>1. /\ pc = "ready_sample" /\ pc' \in {"stamp_sample", "ready_tx"}
        /\ busy' = busy /\ sampleAge' = sampleAge /\ loopAge' = loopAge
    BY <1>4 DEF ReadySample, Goto, clock
  <2>2. pc' = "ready_tx" => sampleAge < SampleWait \/ sampleAge >= ClockMod
    BY <1>4, DueSample
  <2> QED
    BY <1>1, <2>1, <2>2
<1>5. CASE StampSample
  <2>1. pc' = "sample" /\ sampleAge' = 0 /\ loopAge' = 0 /\ busy' = busy
    BY <1>5 DEF StampSample
  <2> QED
    BY <1>1, <2>1
<1>6. CASE \/ Sample \/ Tx \/ ReadyTx \/ ReadyRunCmd \/ HbDelta \/ LeaveCmd
           \/ HbStamp
  <2>1. /\ pc \notin {"setup", "ready_sample", "stamp_sample"}
        /\ pc' \notin {"setup", "ready_sample", "stamp_sample"}
        /\ busy' = busy /\ sampleAge' = sampleAge /\ loopAge' = loopAge
    BY <1>6 DEF Sample, Tx, ReadyTx, ReadyRunCmd, HbDelta, LeaveCmd, HbStamp, Goto,
                clock
  <2> QED
    BY <2>1
<1>7. CASE HbEnable \/ HeartbeatTx
  \* Either the heartbeat is sent next, or the next pass begins.
  <2>1. /\ pc \in {"hb_enable", "heartbeat_tx"}
        /\ sampleAge' = sampleAge /\ loopAge' = loopAge
        /\ \/ pc' = "hb_stamp" /\ busy' = busy
           \/ pc' = "ready_sample" /\ busy' = 0
    BY <1>7 DEF HbEnable, HeartbeatTx, Goto, NextPass, clock
  <2> QED
    BY <1>1, <2>1
<1>8. CASE PowerCycle
  <2>1. pc' = "setup" /\ busy' = 0 /\ sampleAge' = 0 /\ loopAge' = 0
    BY <1>8 DEF PowerCycle
  <2> QED
    BY <2>1
<1>9. CASE Receive \/ UNCHANGED vars
  BY <1>9 DEF Receive, vars, clock
<1> QED
  BY <1>2, <1>3, <1>4, <1>5, <1>6, <1>7, <1>8, <1>9 DEF Next, Program

\* At no statement of the loop has a sample been due for longer than two passes, the
\* time spent in command mode aside, if a sample has to be waited for at all.
THEOREM SamplesTimely ==
    ASSUME SampleWait > 0
    PROVE  Spec => []SampleTimely
<1>1. Init => OverdueInv
  BY DEF Init, OverdueInv
<1>2. TimerInv /\ OverdueInv /\ [Next]_vars => OverdueInv'
  BY OverdueStep
<1>3. TimerInv /\ OverdueInv => SampleTimely
  <2> SUFFICES ASSUME TimerInv, OverdueInv PROVE SampleTimely
    OBVIOUS
  <2>1. /\ busy \in Nat /\ busy <= MaxPass /\ loopAge \in Nat /\ SampleWait \in Nat
        /\ MaxPass \in Nat
    BY WaitAssumption, CapAssumption DEF TimerInv, TypeOK
  <2> QED
    BY <2>1 DEF OverdueInv, SampleTimely
<1> QED
  BY <1>1, <1>2, <1>3, TimersCorrect, PTL DEF Spec

\* A heartbeat that is due is turned down by no check made with heartbeats
\* enabled while its age still fits an int.
THEOREM DueHeartbeatsSeen == Spec => HeartbeatDueSeen
<1>1. ASSUME TimerInv, HbEnable, heartbeat_enable(millis), pc' = "ready_sample"
      PROVE  heartbeatAge < HbWait + MaxPass \/ heartbeatAge >= IntHalf
  <2>1. ~(sample_delta >= HbWait)
    BY <1>1 DEF HbEnable, Goto
  <2>2. heartbeatAge < IntHalf => heartbeatAge <= sample_delta + busy
    BY <1>1 DEF HbEnable, TimerInv, HeartbeatDecided
  <2>3. heartbeatAge \in Nat /\ busy \in 0 .. MaxPass /\ sample_delta \in Int
    BY <1>1, CapAssumption, IntAssumption DEF TimerInv, TypeOK
  <2> QED
    BY <2>1, <2>2, <2>3, WaitAssumption, IntAssumption
<1> QED
  BY <1>1, TimersCorrect, PTL DEF HeartbeatDueSeen, Spec

-----------------------------------------------------------------------------
(* What the packets say.                                                   *)

\* board_setup has put the EEPROM's address into RAM.
NodeNamed == pc # "setup" => node_address = eeprom

\* Where sample does not copy the address, board_init has put it in.
PacketNamed ==
    pc # "setup" /\ Gen \in {"cranberry", "dragonfruit"} =>
        data_packet.node_address = eeprom

\* No data packet can be taken for a heartbeat.
PacketMarked == pc # "setup" => data_packet.schema # 0

\* The packet that tx is about to send is named and is of this pass.
TxReady ==
    pc = "tx" =>
        /\ data_packet.node_address = eeprom
        /\ USub(millis, data_packet.uptime_milliseconds) <= busy

\* A heartbeat under way was found to be in its window during this pass.
InWindow ==
    ~HbForever /\ pc \in {"hb_stamp", "heartbeat_tx"} => millis < HbWindow + busy

OnAir == AddressCurrent /\ UptimeFresh /\ HeartbeatsInWindow

ContentsInv ==
    TypeOK /\ NodeNamed /\ PacketNamed /\ PacketMarked /\ TxReady /\ InWindow
           /\ OnAir

\* What board_init, sample and the heartbeat condition of all generations
\* have in common.
LEMMA BoardFacts ==
    ASSUME NEW e \in Addresses, NEW now \in Millis, NEW p \in Packets
    PROVE  /\ board_init(e).schema # 0
           /\ Gen \in {"cranberry", "dragonfruit"} =>
                  board_init(e).node_address = e
           /\ board_sample(p, e, now).schema = p.schema
           /\ board_sample(p, e, now).uptime_milliseconds = now
           /\ (Gen \in {"cranberry", "dragonfruit"} => p.node_address = e)
                 => board_sample(p, e, now).node_address = e
           /\ ~HbForever /\ heartbeat_enable(now) => now < HbWindow
<1>1. /\ board_init(e).schema # 0
      /\ Gen \in {"cranberry", "dragonfruit"} => board_init(e).node_address = e
  BY GenAssumption
  DEF board_init, ga_board_init, gc_board_init, gd_board_init, gg_board_init,
      Generations, Packet
<1>2. /\ board_sample(p, e, now).schema = p.schema
      /\ board_sample(p, e, now).uptime_milliseconds = now
      /\ (Gen \in {"cranberry", "dragonfruit"} => p.node_address = e)
            => board_sample(p, e, now).node_address = e
  BY GenAssumption
  DEF board_sample, ga_board_sample, gc_board_sample, gd_board_sample,
      gg_board_sample, Generations, Packets
<1>3. ~HbForever /\ heartbeat_enable(now) => now < HbWindow
  BY GenAssumption
  DEF heartbeat_enable, ga_heartbeat_enable, gc_heartbeat_enable,
      gd_heartbeat_enable, gg_heartbeat_enable, Generations
<1> QED
  BY <1>1, <1>2, <1>3

\* Nothing is claimed of a step after which nothing is on the air.
LEMMA Silent == air = Silence => OnAir
  BY DEF OnAir, AddressCurrent, UptimeFresh, HeartbeatsInWindow

\* A tick makes a difference larger by at most one.
LEMMA AgesByOne ==
    ASSUME NEW a \in Millis, NEW b \in Millis
    PROVE  /\ USub(a, b) \in Nat
           /\ USub(Succ(a), b) \in Nat
           /\ USub(Succ(a), b) <= USub(a, b) + 1
  BY ClockAssumption DEF USub, Succ, Millis

LEMMA ContentsInit == Init => ContentsInv
<1> SUFFICES ASSUME Init PROVE ContentsInv
  OBVIOUS
<1>1. TypeOK /\ OnAir
  BY TypeInit, Silent DEF Init
<1> QED
  BY <1>1
  DEF Init, ContentsInv, NodeNamed, PacketNamed, PacketMarked, TxReady, InWindow

\* Only the steps that write the packet, the address, the window's decision or
\* the air have anything to show.
LEMMA ContentsStep == ContentsInv /\ [Next]_vars => ContentsInv'
<1> SUFFICES ASSUME ContentsInv, [Next]_vars PROVE ContentsInv'
  OBVIOUS
<1>0. TypeOK /\ TypeOK'
  BY TypeStep DEF ContentsInv
<1>s. air' = Silence => OnAir'
  BY DEF OnAir, AddressCurrent, UptimeFresh, HeartbeatsInWindow
<1>t. /\ eeprom \in Addresses /\ millis \in Millis /\ data_packet \in Packets
      /\ busy \in Nat /\ busy <= MaxPass /\ MaxPass \in Nat /\ HbWindow \in Nat
      /\ millis \in Nat
  BY <1>0, WaitAssumption, HbAssumption DEF TypeOK, Millis
<1>u. data_packet.uptime_milliseconds \in Millis
  BY <1>t DEF Packets
<1> USE DEF ContentsInv, NodeNamed, PacketNamed, PacketMarked, TxReady, InWindow
<1>1. CASE Tick
  <2>1. /\ pc' = pc /\ node_address' = node_address /\ eeprom' = eeprom
        /\ data_packet' = data_packet /\ air' = Silence
        /\ millis' = Succ(millis)
        /\ pc # "run_cmd" => busy' = busy + 1
    BY <1>1 DEF Tick, board
  <2>2. /\ USub(millis, data_packet.uptime_milliseconds) \in Nat
        /\ USub(Succ(millis), data_packet.uptime_milliseconds) \in Nat
        /\ USub(Succ(millis), data_packet.uptime_milliseconds)
              <= USub(millis, data_packet.uptime_milliseconds) + 1
    BY <1>t, <1>u, AgesByOne
  <2>3. TxReady'
    BY <1>t, <2>1, <2>2
  <2>4. InWindow'
    BY <1>t, <2>1 DEF Succ
  <2> QED
    BY <1>0, <1>s, <2>1, <2>3, <2>4
<1>2. CASE PowerCycle
  BY <1>0, <1>2, <1>s DEF PowerCycle
<1>3. CASE Setup
  <2>1. /\ board_init(eeprom).schema # 0
        /\ Gen \in {"cranberry", "dragonfruit"} =>
               board_init(eeprom).node_address = eeprom
    BY <1>t, BoardFacts
  <2> QED
    BY <1>0, <1>3, <1>s, <2>1 DEF Setup, NextPass
<1>4. CASE Sample
  <2>1. pc = "sample" /\ node_address = eeprom
    BY <1>4 DEF Sample
  <2>2. /\ data_packet'.schema # 0
        /\ data_packet'.node_address = eeprom
        /\ data_packet'.uptime_milliseconds = millis
    BY <1>t, <1>4, <2>1, BoardFacts DEF Sample
  <2>3. USub(millis, millis) <= busy
    BY <1>t, USubFacts
  <2> QED
    BY <1>0, <1>4, <1>s, <2>1, <2>2, <2>3 DEF Sample, Goto, clock
<1>5. CASE Tx
  <2>1. /\ pc = "tx" /\ pc' = "ready_tx" /\ air' = data_packet
        /\ eeprom' = eeprom /\ millis' = millis /\ busy' = busy
        /\ node_address' = node_address /\ data_packet' = data_packet
    BY <1>5 DEF Tx, Goto, clock, board
  <2>2. OnAir'
    BY <2>1 DEF OnAir, AddressCurrent, UptimeFresh, HeartbeatsInWindow
  <2> QED
    BY <1>0, <2>1, <2>2
<1>6. CASE HbEnable
  <2>1. /\ node_address' = node_address /\ data_packet' = data_packet
        /\ eeprom' = eeprom /\ air' = Silence /\ millis' = millis
        /\ pc = "hb_enable" /\ pc' \in {"hb_stamp", "ready_sample"}
    BY <1>6 DEF HbEnable, Goto, NextPass, clock, board
  <2>2. pc' = "hb_stamp" => heartbeat_enable(millis) /\ busy' = busy
    BY <1>6 DEF HbEnable, Goto, NextPass, clock
  <2>3. ~HbForever /\ heartbeat_enable(millis) => millis < HbWindow
    BY <1>t, BoardFacts
  <2> QED
    BY <1>0, <1>t, <1>s, <2>1, <2>2, <2>3
<1>7. CASE HbStamp
  BY <1>0, <1>7, <1>s DEF HbStamp
<1>8. CASE HeartbeatTx
  <2>1. /\ air' = heartbeat_packet(eeprom, millis) /\ eeprom' = eeprom
        /\ pc = "heartbeat_tx" /\ pc' = "ready_sample"
        /\ node_address' = node_address /\ data_packet' = data_packet
    BY <1>8 DEF HeartbeatTx, NextPass, board
  <2>2. /\ air'.schema = 0 /\ air'.node_address = eeprom
        /\ air'.uptime_milliseconds = millis
    BY <2>1 DEF heartbeat_packet, Packet
  <2>3. OnAir'
    BY <1>t, <2>1, <2>2
    DEF OnAir, AddressCurrent, UptimeFresh, HeartbeatsInWindow
  <2> QED
    BY <1>0, <2>1, <2>3
<1>9. CASE ReadySample \/ ReadyTx \/ ReadyRunCmd \/ HbDelta
  BY <1>0, <1>9, <1>s
  DEF ReadySample, ReadyTx, ReadyRunCmd, HbDelta, Goto, clock, board
<1>10. CASE StampSample
  BY <1>0, <1>10, <1>s DEF StampSample
<1>11. CASE Receive \/ LeaveCmd
  BY <1>0, <1>11, <1>s DEF Receive, LeaveCmd, clock, board
<1>12. CASE UNCHANGED vars
  BY <1>0, <1>12
  DEF vars, clock, board, OnAir, AddressCurrent, UptimeFresh, HeartbeatsInWindow
<1> QED
  BY <1>1, <1>2, <1>3, <1>4, <1>5, <1>6, <1>7, <1>8, <1>9, <1>10, <1>11, <1>12
  DEF Next, Program

LEMMA ContentsCorrect == Spec => []ContentsInv
<1> QED
  BY ContentsInit, ContentsStep, PTL DEF Spec

\* Whatever the generation, and however often nodes are renamed between two
\* power-ups, no packet carries another address than the one in the EEPROM.
THEOREM AddressesCurrent == Spec => []AddressCurrent
<1>1. ContentsInv => AddressCurrent
  BY DEF ContentsInv, OnAir
<1> QED
  BY <1>1, ContentsCorrect, PTL

\* No data packet is sent that an earlier pass has filled in.
THEOREM UptimesFresh == Spec => []UptimeFresh
<1>1. ContentsInv => UptimeFresh
  BY DEF ContentsInv, OnAir
<1> QED
  BY <1>1, ContentsCorrect, PTL

\* Without HB_FOREVER no heartbeat carries an uptime beyond its window by more
\* than the pass in which the window closed.
THEOREM HeartbeatsStop == Spec => []HeartbeatsInWindow
<1>1. ContentsInv => HeartbeatsInWindow
  BY DEF ContentsInv, OnAir
<1> QED
  BY <1>1, ContentsCorrect, PTL

-----------------------------------------------------------------------------
(* HB_FOREVER.                                                             *)

\* Of the four generations only cranberry lets the uptime turn down a heartbeat
\* of a build with HB_FOREVER: in the others a check that finds a heartbeat due
\* goes on to send it.
THEOREM HbForeverKept == Gen # "cranberry" => (Spec => HbForeverHonoured)
<1> SUFFICES ASSUME Gen # "cranberry" PROVE Spec => HbForeverHonoured
  OBVIOUS
<1>1. HbForever => heartbeat_enable(millis)
  BY GenAssumption
  DEF heartbeat_enable, ga_heartbeat_enable, gd_heartbeat_enable,
      gg_heartbeat_enable, Generations
<1>2. ASSUME TypeOK, HbForever, HbEnable, pc' = "ready_sample"
      PROVE  sample_delta < HbWait
  <2>1. ~(sample_delta >= HbWait)
    BY <1>1, <1>2 DEF HbEnable, Goto
  <2>2. sample_delta \in Int /\ HbWait \in Int
    BY <1>2, IntAssumption, WaitAssumption DEF TypeOK
  <2> QED
    BY <2>1, <2>2
<1>3. TypeOK /\ [Next]_vars
        => [HbForever /\ HbEnable /\ pc' = "ready_sample"
              => sample_delta < HbWait]_vars
  BY <1>2
<1> QED
  BY <1>3, TypeCorrect, PTL DEF Spec, HbForeverHonoured
=============================================================================
