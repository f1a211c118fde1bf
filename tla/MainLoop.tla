------------------------------ MODULE MainLoop ------------------------------
(***************************************************************************)
(* The main loop of the firmware: setup(), loop() and the handlers of a    *)
(* board that loop() calls, over a millis() counter that runs on while     *)
(* they execute and wraps around.  A read of millis() is a step of its     *)
(* own, because the handlers read it several times and the counter moves   *)
(* between the reads.                                                      *)
(*                                                                         *)
(* Power may fail at any step.  The counter and RAM then start from zero   *)
(* and the EEPROM keeps the node address, unless another one is burned     *)
(* before power comes back.                                                *)
(***************************************************************************)
EXTENDS Boards

CONSTANTS
    SampleWait,  \* wait_ms of ready_sample, 1000*30 on the board
    HbWait,      \* wait_ms of ready_heartbeat_tx, 3000 on the board
    MaxPass,     \* most ticks setup or one pass of loop() takes, the time
                 \* spent in command mode aside
    AgeCap,      \* the true ages are counted up to here
    Addresses    \* node addresses an EEPROM can hold

ASSUME WaitAssumption == SampleWait \in Nat /\ HbWait \in Nat /\ MaxPass \in Nat
ASSUME CapAssumption  == AgeCap \in Nat /\ AgeCap >= ClockMod

VARIABLES
    pc,                 \* the statement about to run
    millis,             \* the counter behind millis()
    busy,               \* ticks spent in setup or this pass so far
    prev_sample_ms,     \* board.prev_sample_ms
    prev_heartbeat_ms,  \* board.prev_heartbeat_ms
    sample_delta,       \* the int local of ready_heartbeat_tx, 0 when dead
    node_address,       \* board.node_address
    data_packet,        \* board.data_packet
    rx,                 \* has the serial port bytes to read?
    eeprom,             \* the node address the EEPROM holds
    air,                \* the packet the last step gave the radio, or Silence
    sampleAge,          \* real time since prev_sample_ms was set or power-up
    heartbeatAge,       \* real time since prev_heartbeat_ms was set or power-up
    loopAge             \* sampleAge without the time spent in command mode

clock == <<millis, busy, sampleAge, heartbeatAge, loopAge>>
board == <<prev_sample_ms, prev_heartbeat_ms, node_address, data_packet>>
vars  == <<pc, clock, board, sample_delta, rx, eeprom, air>>

Steps == {"setup", "ready_sample", "stamp_sample", "sample", "tx", "ready_tx",
          "ready_run_cmd", "run_cmd", "hb_delta", "hb_enable", "hb_stamp",
          "heartbeat_tx"}

Silence == [schema |-> -1]
Packets == [schema: 0 .. 4, node_address: Addresses \union {0},
            uptime_milliseconds: Millis]

TypeOK ==
    /\ pc \in Steps
    /\ millis \in Millis
    /\ busy \in 0 .. MaxPass
    /\ prev_sample_ms \in Millis
    /\ prev_heartbeat_ms \in Millis
    /\ sample_delta \in -IntHalf .. IntHalf - 1
    /\ node_address \in Addresses \union {0}
    /\ data_packet \in Packets
    /\ rx \in BOOLEAN
    /\ eeprom \in Addresses
    /\ air \in Packets \union {Silence}
    /\ sampleAge \in 0 .. AgeCap
    /\ heartbeatAge \in 0 .. AgeCap
    /\ loopAge \in 0 .. AgeCap

\* Power comes up: .bss is zero and nothing of setup() has run.
Init ==
    /\ pc = "setup"
    /\ millis = 0 /\ busy = 0
    /\ prev_sample_ms = 0 /\ prev_heartbeat_ms = 0
    /\ sample_delta = 0
    /\ node_address = 0
    /\ data_packet = Packet(0, 0, 0)
    /\ rx = FALSE
    /\ eeprom \in Addresses
    /\ air = Silence
    /\ sampleAge = 0 /\ heartbeatAge = 0 /\ loopAge = 0

-----------------------------------------------------------------------------
(* The environment: time, the operator at the serial port, the power.      *)

Older(a) == IF a < AgeCap THEN a + 1 ELSE a

\* The timer interrupt, between any two statements.
Tick ==
    /\ \/ pc = "run_cmd" /\ UNCHANGED <<busy, loopAge>>
       \/ /\ pc # "run_cmd" /\ busy < MaxPass
          /\ busy' = busy + 1
          /\ loopAge' = Older(loopAge)
    /\ millis' = Succ(millis)
    /\ sampleAge' = Older(sampleAge)
    /\ heartbeatAge' = Older(heartbeatAge)
    /\ air' = Silence
    /\ UNCHANGED <<pc, board, sample_delta, rx, eeprom>>

\* A byte arrives at the serial port.
Receive ==
    /\ ~rx
    /\ rx' = TRUE
    /\ air' = Silence
    /\ UNCHANGED <<pc, clock, board, sample_delta, eeprom>>

\* Power goes and comes back, perhaps with another address in the EEPROM.
PowerCycle ==
    /\ pc' = "setup"
    /\ millis' = 0 /\ busy' = 0
    /\ prev_sample_ms' = 0 /\ prev_heartbeat_ms' = 0
    /\ sample_delta' = 0
    /\ node_address' = 0
    /\ data_packet' = Packet(0, 0, 0)
    /\ rx' = FALSE
    /\ eeprom' \in Addresses
    /\ air' = Silence
    /\ sampleAge' = 0 /\ heartbeatAge' = 0 /\ loopAge' = 0

-----------------------------------------------------------------------------
(* The program.  Goto is a statement that takes control to step next.      *)

Goto(next) == pc' = next /\ UNCHANGED <<clock, rx, eeprom>>

\* The loop() function returns and is called again.
NextPass ==
    /\ pc' = "ready_sample"
    /\ busy' = 0
    /\ UNCHANGED <<millis, sampleAge, heartbeatAge, loopAge, rx, eeprom>>

\* <gen>_board_init and <gen>_board_setup; POST changes no state.
Setup ==
    /\ pc = "setup"
    /\ data_packet' = board_init(eeprom)
    /\ prev_sample_ms' = 0
    /\ node_address' = eeprom
    /\ air' = Silence
    /\ NextPass
    /\ UNCHANGED <<prev_heartbeat_ms, sample_delta>>

\* Slips in ready_sample: the deadline computed instead of the difference, and
\* the difference kept in an int.
ReadySampleDeadline ==
    /\ pc = "ready_sample"
    /\ IF millis >= prev_sample_ms + SampleWait
       THEN Goto("stamp_sample")
       ELSE Goto("ready_tx")
    /\ air' = Silence
    /\ UNCHANGED <<board, sample_delta>>
ReadySampleInt ==
    /\ pc = "ready_sample"
    /\ IF AsInt(USub(millis, prev_sample_ms)) >= SampleWait
       THEN Goto("stamp_sample")
       ELSE Goto("ready_tx")
    /\ air' = Silence
    /\ UNCHANGED <<board, sample_delta>>

\* ready_sample reads millis() and compares.
ReadySample ==
    /\ pc = "ready_sample"
    /\ IF USub(millis, prev_sample_ms) >= SampleWait
       THEN Goto("stamp_sample")
       ELSE Goto("ready_tx")
    /\ air' = Silence
    /\ UNCHANGED <<board, sample_delta>>

\* A slip in ready_sample: the next period counted from the last deadline.
StampSampleCatchUp ==
    /\ pc = "stamp_sample"
    /\ pc' = "sample"
    /\ prev_sample_ms' = (prev_sample_ms + SampleWait) % ClockMod
    /\ sampleAge' = 0 /\ loopAge' = 0
    /\ air' = Silence
    /\ UNCHANGED <<millis, busy, heartbeatAge, prev_heartbeat_ms, node_address,
                   data_packet, sample_delta, rx, eeprom>>

\* ready_sample reads millis() again, to remember it, and returns 1.
StampSample ==
    /\ pc = "stamp_sample"
    /\ pc' = "sample"
    /\ prev_sample_ms' = millis
    /\ sampleAge' = 0 /\ loopAge' = 0
    /\ air' = Silence
    /\ UNCHANGED <<millis, busy, heartbeatAge, prev_heartbeat_ms, node_address,
                   data_packet, sample_delta, rx, eeprom>>

\* sample fills in the packet.
Sample ==
    /\ pc = "sample"
    /\ data_packet' = board_sample(data_packet, node_address, millis)
    /\ air' = Silence
    /\ Goto("tx")
    /\ UNCHANGED <<prev_sample_ms, prev_heartbeat_ms, node_address, sample_delta>>

\* sample calls tx, which gives the packet to the radio.
Tx ==
    /\ pc = "tx"
    /\ air' = data_packet
    /\ Goto("ready_tx")
    /\ UNCHANGED <<board, sample_delta>>

\* ready_tx returns 0, so that loop() itself never calls tx.
ReadyTx ==
    /\ pc = "ready_tx"
    /\ air' = Silence
    /\ Goto("ready_run_cmd")
    /\ UNCHANGED <<board, sample_delta>>

\* ready_run_cmd returns Serial.available().
ReadyRunCmd ==
    /\ pc = "ready_run_cmd"
    /\ Goto(IF rx THEN "run_cmd" ELSE "hb_delta")
    /\ air' = Silence
    /\ UNCHANGED <<board, sample_delta>>

\* run_cmd consumes the command E and returns; more bytes may be waiting.
LeaveCmd ==
    /\ pc = "run_cmd"
    /\ rx' \in BOOLEAN
    /\ pc' = "hb_delta"
    /\ air' = Silence
    /\ UNCHANGED <<clock, board, sample_delta, eeprom>>

\* Slips in ready_heartbeat_tx: the operands swapped, and a difference that
\* does not wrap around.
HbDeltaSwapped ==
    /\ pc = "hb_delta"
    /\ sample_delta' = AsInt(USub(prev_heartbeat_ms, millis))
    /\ air' = Silence
    /\ Goto("hb_enable")
    /\ UNCHANGED board
HbDeltaFloored ==
    /\ pc = "hb_delta"
    /\ sample_delta' = IF millis < prev_heartbeat_ms THEN 0
                       ELSE AsInt(millis - prev_heartbeat_ms)
    /\ air' = Silence
    /\ Goto("hb_enable")
    /\ UNCHANGED board

\* ready_heartbeat_tx reads millis() and squeezes the difference into an int.
HbDelta ==
    /\ pc = "hb_delta"
    /\ sample_delta' = AsInt(USub(millis, prev_heartbeat_ms))
    /\ air' = Silence
    /\ Goto("hb_enable")
    /\ UNCHANGED board

\* ready_heartbeat_tx reads millis() again, to see whether heartbeats are on.
HbEnable ==
    /\ pc = "hb_enable"
    /\ IF heartbeat_enable(millis) /\ sample_delta >= HbWait
       THEN Goto("hb_stamp")
       ELSE NextPass
    /\ sample_delta' = 0
    /\ air' = Silence
    /\ UNCHANGED board

\* A slip in ready_heartbeat_tx: the time is not remembered.
HbStampMissing ==
    /\ pc = "hb_stamp"
    /\ pc' = "heartbeat_tx"
    /\ heartbeatAge' = 0
    /\ air' = Silence
    /\ UNCHANGED <<millis, busy, sampleAge, loopAge, board, sample_delta, rx,
                   eeprom>>

\* ready_heartbeat_tx reads millis() once more, to remember it, and returns 1.
HbStamp ==
    /\ pc = "hb_stamp"
    /\ pc' = "heartbeat_tx"
    /\ prev_heartbeat_ms' = millis
    /\ heartbeatAge' = 0
    /\ air' = Silence
    /\ UNCHANGED <<millis, busy, sampleAge, loopAge, prev_sample_ms,
                   node_address, data_packet, sample_delta, rx, eeprom>>

\* A slip in loop(): while in place of if, so that ready_heartbeat_tx is asked
\* again after a heartbeat, and the samples wait for another such round.
HeartbeatTxWhile ==
    /\ pc = "heartbeat_tx"
    /\ air' = heartbeat_packet(eeprom, millis)
    /\ pc' = "hb_delta"
    /\ busy' = 0
    /\ UNCHANGED <<millis, sampleAge, heartbeatAge, loopAge, rx, eeprom>>
    /\ UNCHANGED <<board, sample_delta>>

\* heartbeat_tx gives the radio a packet of its own.
HeartbeatTx ==
    /\ pc = "heartbeat_tx"
    /\ air' = heartbeat_packet(eeprom, millis)
    /\ NextPass
    /\ UNCHANGED <<board, sample_delta>>

Program ==
    \/ Setup \/ ReadySample \/ StampSample \/ Sample \/ Tx \/ ReadyTx
    \/ ReadyRunCmd \/ HbDelta \/ HbEnable \/ HbStamp \/ HeartbeatTx

Next == Tick \/ Receive \/ PowerCycle \/ Program \/ LeaveCmd

Spec == Init /\ [][Next]_vars

\* Time goes on and the processor runs; nobody has to leave command mode.
FairSpec == Spec /\ WF_vars(Tick) /\ WF_vars(Program)

-----------------------------------------------------------------------------
(* Safety.                                                                 *)

\* Samples are paced by real time: between two of them, and between power-up
\* and the first, ready_sample lets at least SampleWait ticks go by, even
\* when millis() wraps around, when command mode held the loop up for any
\* length of time, and when power fails between any two statements.
SamplePacer ==
    INSTANCE Pacer WITH
        Wait  <- SampleWait,
        phase <- IF pc = "setup" THEN "boot"
                 ELSE IF pc \in {"sample", "tx"} THEN "tx" ELSE "idle",
        age   <- sampleAge
SamplePacing == SamplePacer!Spec

\* Heartbeats are paced the same way by ready_heartbeat_tx, although it
\* compares an int that the difference of two unsigned longs may not fit in.
HeartbeatPacer ==
    INSTANCE Pacer WITH
        Wait  <- HbWait,
        phase <- IF pc = "setup" THEN "boot"
                 ELSE IF pc = "heartbeat_tx" THEN "tx" ELSE "idle",
        age   <- heartbeatAge
HeartbeatPacing == HeartbeatPacer!Spec

\* ready_sample never turns down a sample that is due, unless the loop was
\* held up for so long that the counter came around a whole turn.
SampleDueSeen ==
    [][ReadySample /\ pc' = "ready_tx" =>
          sampleAge < SampleWait \/ sampleAge >= ClockMod]_vars

\* At no point of a pass, whatever its handlers wait for, has more than two passes
\* gone by since a sample was due, the time spent in command mode aside: only a
\* command mode that lasts a whole turn of the counter can hide one.
SampleTimely ==
    loopAge < SampleWait + 2 * MaxPass \/ sampleAge >= ClockMod

\* Every packet that reaches the radio names the node whose address the
\* EEPROM holds, whichever of board_init, setup and sample put it there.
AddressCurrent == air # Silence => air.node_address = eeprom

\* A data packet reaches the radio in the pass that put its uptime in it.
UptimeFresh ==
    air # Silence /\ air.schema # 0 =>
        USub(millis, air.uptime_milliseconds) <= busy

\* Unless the build keeps them on, heartbeats carry an uptime within their
\* window, give or take the pass during which the window closed.
HeartbeatsInWindow ==
    ~HbForever /\ air # Silence /\ air.schema = 0 =>
        air.uptime_milliseconds < HbWindow + MaxPass

\* While heartbeats are enabled, ready_heartbeat_tx does not turn down one
\* that is due, as long as the true difference still fits an int.
HeartbeatDueSeen ==
    [][HbEnable /\ heartbeat_enable(millis) /\ pc' = "ready_sample" =>
          heartbeatAge < HbWait + MaxPass \/ heartbeatAge >= IntHalf]_vars

-----------------------------------------------------------------------------
(* Liveness.                                                               *)

\* If power stays on and nobody keeps the board in command mode, it samples
\* for ever, across any number of turns of the counter.
SamplesKeepComing ==
    <>[](pc \notin {"setup", "run_cmd"}) => []<>(pc = "tx")

\* In a build with HB_FOREVER so do the heartbeats: the int that has gone
\* negative is positive again some time later, and loop() looks in time.
HeartbeatsKeepComing ==
    HbForever /\ <>[](pc \notin {"setup", "run_cmd"}) => []<>(pc = "heartbeat_tx")
=============================================================================
