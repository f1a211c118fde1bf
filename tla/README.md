# Weatherbox firmware: TLA+ models, checks and proofs

This directory holds a formal model of the weatherbox firmware with its sensors
and its radio, of the sketch that gives a board its node address, and of the
emulator: its control program and the serial port it gives the firmware, with
TLC configurations that check the models on small instances and TLAPS proofs
that do without instances. Paths below are relative to the root of the
repository's sources.

Run from this directory: `tlc -config MainLoop.cfg MCMainLoop` checks a model,
`tlapm MainLoopProofs.tla` checks the proofs. PROJECT.json lists the runs, the
correspondence of definitions and source lines (`map`), a slip for every
property that it catches (`mutants`), the disagreements of code and comments
that the models show (`findings`), and the hazards the properties are for.

## 1. Inventory

The firmware runs on an ATmega328 under the Arduino core: one thread, a timer
interrupt behind `millis()`, a receive interrupt behind `Serial`. `firmware.cpp`
calls a *board* through function pointers; each build links one of four board
generations, apple (`ga_`), cranberry (`gc_`), dragonfruit (`gd_`) and guava
(`gg_`), which are four copies of the same design that have drifted apart.

| component | state it keeps | operations | what is hard about it |
|---|---|---|---|
| Main loop and timers (`src/firmware.cpp`, `*_board.cpp`) | `prev_sample_ms`, `prev_heartbeat_ms`, `node_address`, `data_packet` in the `board` struct (RAM) | `setup`, `ready_sample`/`sample`/`tx`, `ready_tx`, `ready_run_cmd`, `ready_heartbeat_tx`/`heartbeat_tx` | `millis()` wraps around after 49.7 days and moves between two reads; a difference of unsigned longs kept in a 16-bit int; command mode holds the loop up for any time; power fails anywhere |
| Board generations | none of their own | `board_init`, `board_setup`, `sample`, the heartbeat condition | the copies differ in which field is filled in where, and in which build flags they honour |
| Command mode (`*_board_run_cmd`) | position in the line protocol, `input`, the serial buffer | read a line, run the self-test, cranberry's sensor menu, leave | typing interleaves with reading; the buffer drops bytes during the self-test; every loop blocks until a newline |
| Node address (`utils/burn_node_id`, `*_dev_eeprom_node_address.cpp`) | EEPROM bytes 2 and 3 | read a line, confirm, two EEPROM writes; the read at boot | power failure between the writes; an uninitialized line buffer of four bytes; sign and width of the number |
| Emulator control (`emulator/web_gui/server.py`, `emulator/core/run_emu.py`, `emulator/core/emu_base_model`) | `emu_state`, `emu_proc`, `emu_online.txt`, the serial port link, processes | start and stop requests, the runner's life, the model's life | requests race with the life of two levels of processes that talk through a file and a signal |
| Sensor drivers (`*_dev_*.cpp`) and their libraries (`lib/`) | library objects with the last values and the coefficients; registers of chips | `open`, `read`; request, delay or poll, fetch | one bus and sometimes one converter for several fields; narrowing; chips that do not answer and come back; stale objects |
| Power-on self-test (`*_board_post`) | none | read every sensor, compare with a range, print | range checks that can never or always fire, as the type of a local has it |
| Packet layout and radio (`*_board.h`, `*_dev_digi_xbee.cpp`, `lib/XBee`) | `_pos`, `_escape`, `_checksumTotal`, the response | frame, escape, checksum; take a frame apart over any number of calls | length and checksum count bytes before escaping; a call ends anywhere; resynchronization after a lost byte |
| Emulated serial port (`emulator/core/simavr`: `uart_pty.c`, `fifo_declare.h`, `avr_uart.c`) | FIFOs of two threads, XON/XOFF, two timers, flags of the receiver | bytes from a terminal to the simulated firmware and back | lock-free FIFOs; callbacks that call back; wake-ups that must not be lost |
| Older transmit code (`tests/Transmit_Code`, `tests/Sensor_Code`, `lib/SCEL_MillisOverflow`) | the packet under construction, an overflow counter | clear, fill and transmit a test packet | in no build; the packet builder is called by nothing |
| Logging, build files, other vendored code | | | not the repository's own logic, or output only |

How they interact: `loop()` calls the handlers of the board one after the
other; `sample` calls `tx` itself. `run_cmd` is called while the serial buffer
holds bytes and returns on the command E, so that it shares the loop's time but
none of its variables. `setup` reads the EEPROM that the sketch has written,
before the firmware was flashed, and keeps the address in RAM; `heartbeat_tx`
reads the EEPROM again. The server starts a runner, which starts a model; they
share `emu_online.txt` and the port `/tmp/simavr-uart0`, and the server signals
the runner, which signals what it has started. The model process runs two
threads, the simulated processor and the one that serves the port; what is typed
at the port reaches the boot loader or the firmware's receive interrupt.
`sample`, `heartbeat_tx` and `post` call the drivers; `tx` and `heartbeat_tx`
give packets to the XBee library.

What makes each component correct:

- *Main loop.* Samples and heartbeats are paced by real time and never stop,
  whatever the counter does; what is due is seen; every packet names the node
  and carries the uptime of its own pass; heartbeats stop when they should.
- *Command mode.* Command by command, it does what the lines typed ask for; it
  never stops in the middle of a line; a complete line is read in the end.
- *Node address.* A node is named by the number that was confirmed, and a
  power failure can damage a name in one way only; the number shown is the one
  that was typed.
- *Emulator control.* What the page shows is what will become of the runner; a
  runner uploads to the model it has started; a stop ends that model and no other.
- *Sensors.* Each field of a packet is what its own sensor saw during this
  pass, if that sensor worked, whatever the others did; the self-test complains
  of what is out of range and of nothing else; a dead chip holds nothing up.
- *Packets.* A receiver gets the packets that were sent, in order and unchanged,
  and loses a bounded number to a fault of the line.
- *Emulated serial port.* Every byte typed is read once, in order, and in the end.

## 2. Modules

| module | models | extends |
|---|---|---|
| `AvrArith` | unsigned long subtraction, narrowing to int, the tick of the counter, for any widths | |
| `Boards` | what `board_init`, `sample`, the heartbeat condition and `heartbeat_tx` of the four generations do to a packet | `AvrArith` |
| `Pacer` | abstract: a transmission at least `Wait` after the last one and after power-up | |
| `MainLoop` | `setup()`, `loop()` and the handlers, time, serial input, power | `Boards`, instances of `Pacer` |
| `MCMainLoop` | what comments and build files claim and the code does not do | `MainLoop` |
| `MainLoopProofs` | theorems about `MainLoop` | `MainLoop`, `TLAPS` |
| `CommandMode` | `run_cmd` of all generations and the receive buffer; a line-by-line reference | |
| `CommandModeProofs` | theorems about `CommandMode` | `CommandMode`, `TLAPS` |
| `BurnNodeId` | the sketch, the EEPROM, the firmware's read at boot | |
| `MCBurnNodeId` | what the stack may hold | `BurnNodeId` |
| `BurnNodeIdProofs` | theorems about `BurnNodeId` | `BurnNodeId`, `TLAPS` |
| `EmuServer` | the server, runners and models | |
| `EmuServerProofs` | theorems about `EmuServer` | `EmuServer`, `TLAPS` |
| `Sensors` | drivers, their libraries' operations, self-test and sample of the four generations; weather and chips that fail | |
| `SensorsProofs` | theorems about `Sensors` | `Sensors`, `TLAPS` |
| `XBeeLink` | `XBee::send`, `XBee::readPacket`, a lossy line between them | |
| `MCXBeeLink` | packets of control bytes | `XBeeLink` |
| `XBeeLinkProofs` | theorems about `XBeeLink` | `XBeeLink`, `TLAPS` |
| `ByteChannel` | abstract: bytes handed on once, unchanged, in order | |
| `Fifo` | the FIFO of `fifo_declare.h`, one step per access to shared memory | instance of `ByteChannel` |
| `FifoProofs` | theorems about `Fifo` | `Fifo`, `TLAPS` |
| `UartPty` | the way of a typed byte through `uart_pty.c` and `avr_uart.c` | |
| `UartProofs` | theorems about `UartPty` | `UartPty`, `TLAPS` |

`Sensors` refines what `Boards` leaves out of a packet, `CommandMode` what
`MainLoop!LeaveCmd` leaves out, `XBeeLink` what becomes of `air`, and `UartPty`
takes for granted of its FIFOs what `Fifo` shows (`ByteChannel`).

### MainLoop

`pc` names the statement about to run, and a statement ends where the program
reads `millis()`: the handlers read it up to three times and the counter moves
in between. The variables of the board have the names of the code;
`sample_delta` is the int local of `ready_heartbeat_tx` (0 while it is dead).

| action | code |
|---|---|
| `Setup` | `board_init`, `board_setup`; the self-test changes no state and takes time only |
| `ReadySample`, `StampSample` | the two reads of `millis()` in `ready_sample` |
| `Sample`, `Tx` | `sample`, and `tx` which it calls |
| `ReadyTx`, `ReadyRunCmd` | `ready_tx` is 0 in every generation, so that `loop()` never calls `tx`; `Serial.available()` |
| `LeaveCmd` | `run_cmd` returns; what it does in between is in `CommandMode` and touches nothing here |
| `HbDelta`, `HbEnable`, `HbStamp`, `HeartbeatTx` | the three reads in `ready_heartbeat_tx`, and `heartbeat_tx` |
| `Tick`, `Receive`, `PowerCycle` | timer interrupt, receive interrupt, power |

`air` is the packet the last step gave to the radio. `sampleAge`,
`heartbeatAge` and `loopAge` are history: real time since the stamps were set,
of the sample also without the time spent in command mode; they never influence
the program. `Gen`
chooses the generation, `HbForever` the build flag. The sensor readings of a
packet are left out here (`Sensors` has them). Two things exist in the source and in no build, and are
not modelled: the flag `_BCFG_ONLY_POST`, and `soft_rst`.

`MaxPass` bounds the ticks that `setup` or one pass of `loop()` takes outside
command mode. It is a constant of the model and of the theorems, of any value;
`run_cmd` may take any number of ticks.

### CommandMode

One action per byte read; `Serial.read()` of an empty buffer returns -1 and the
loops around it go round, which is no step. `Type` is the receive interrupt: it
drops what the buffer cannot hold. The properties are stated on `consumed`, the
bytes the program has actually read, so that dropped bytes are the operator's
loss and not an excuse: whatever lines are read must be obeyed. For the same reason
they do not notice when a dropped newline joins two lines into another command: of
the bytes that are left the reference makes the same lines. `SessionOf` is
the reference: it splits the bytes into lines (`Cut`) and obeys each line in turn
(`Session`), knowing nothing of buffers and positions. Both are recursive functions on
the numbers up to the length, not RECURSIVE operators, so that section 5 can speak of them.

### BurnNodeId

`incomingByte` starts with any bytes of `Stale`, because the local is never
initialized and the loop condition reads it first. The buffer has four bytes and
the code writes index 4; the model gives it five slots, that is, it takes the
byte behind the buffer to be harmless, which is a choice a compiler may make
otherwise, and no property says anything about it. Nor is what a newline on the stack does to
the line refuted: `NumberOfLine` leaves lines out that it has ended, and `NodeNamedAsConfirmed`
compares the name with the number that was shown and confirmed. Each `EEPROM.write` is a step and `PowerOff` may come between them.
An erased EEPROM reads 255.

### EmuServer

The request handlers are atomic: the server has one thread and its green
threads switch only while they wait, which the handlers do not. Runner and
model are sequences of steps, each of which touches one shared thing: the file,
the port, a signal. `shell_execs` says whether `sh -c cmd` replaces itself by
`cmd`, which according to a comment of the server (`server.py:97-103`) depends on the
distribution; a behaviour starts with either value and keeps it. The server writes
`exec` before its command and so always signals the runner; the runner does not (`run_emu.py:44-45`), so that its
handler's SIGTERM goes to the model or to a shell: `Terminated` sends it
(`signalled`, `stopped`) and `ModelTerminated` is its arrival. `created`, `eraser` and `clean` are history: who created the
online file last and during which run, who has removed it since, and whether a run began
with no earlier model alive. Logs, the websocket and the upload's data are left out.

### Sensors

A chip keeps in `reg` *which weather* its last conversion saw and for which
field, rather than counts; a driver's conversion turns that into a number with
the C types of its generation. `todo` is what `post`, `sample` or `heartbeat_tx`
has yet to read, in each generation's order. Pins, and chips that measure by themselves
(ADS1100, BME280), are read in one step, `ReadAtOnce`: what they converted last is taken to be
the weather there is (an ADS1100's is 125 ms old at most), once the first conversion is over. The other chips are read by a
request, a delay and a fetch (`Request`, `Delay` or `Poll`, `Fetch` or
`FetchHih`), and twice where the driver converts twice: the SHT1x's humidity is corrected with
a temperature converted after it, the BMP180's pressure with one before (`FetchFirst` keeps the
first result in `earlier`). The weather may change between the two, so that the SHT1x's formula is
modelled, and the BMP180's as a table over the weathers, computed with the coefficients of its data
sheet. `ChangeWeather`, `Fail`, `Repair` and `Convert` go on in between.

`Delay` waits until a conversion is over, with one exception. The library waits 8 ms for an ADS1115 that
nominally takes 7.81 ms, by a clock that may be 10 % slow; with `slow` its fetch may come early and
bring the channel before. The command after that takes the bus long enough for the conversion
to be over (`Request`).

What a chip that does not answer is read as follows
from the library: `Wire.read()` of nothing is -1, so that the ADS1115 reads
0xffff; the SP215 driver keeps its initial 555; a HIH6131 object keeps its
values; formulas with coefficients give `Nonsense`, one of two
arbitrary numbers. So does a BME280 that has lost its power and is back: only `begin()` configures it, and
until then it sleeps. A sensor is promised to be current (`Sound`) only if its chip was in service throughout
the pass, has the coefficients that belong to it, and is not `slow`.

### XBeeLink

Numbers of bytes are real: START, ESCAPE, XON and XOFF are among the payloads'
bytes, so that addresses, uptimes, lengths and checksums are escaped. One action
per branch of `readPacket`; `Call` and `Return` make a call end wherever the line is
empty. `Lose` loses a byte and `PowerFails` the rest of a frame. `weak`
remembers whether a byte was lost whose loss the format itself cannot show: a
byte of the length or half of an escape sequence. No retransmission is
modelled because the firmware does not look at the status of a transmission.
Nothing in the repository calls `readPacket`: the firmware only sends. The module takes it as what
the same library does at a receiver, which is what frames, lengths, checksums and escapes are for.

### Fifo and UartPty

In `Fifo` a step is one load or store of shared memory, in the order of the program and
seen by the other thread at once: sequential consistency is assumed. The code asks for less. `FIFO_SYNC` stands
between an access to the buffer and the store of a cursor, but nothing between the load of
`c->write` and that of the byte (`fifo_declare.h:145-147`); on x86, where loads keep their order, that is enough
if the compiler does not reorder them. Its abstract variables `given` and `taken` are the history that
`ByteChannel` is about, so that the refinement mapping is the identity on them and
`Capacity <- Size - 1`.

In `UartPty` bytes are numbers in the order typed, which makes loss, doubling and
reordering one formula. `flushing` stands for the loop of
`uart_pty_flush_incoming`, from which XOFF is raised while it runs; callbacks of
the processor's thread cannot interrupt one another, so that every other action of that
thread waits for it. The boot loader polls; the application is interrupted.
`stranded` records the one case in which the receiver is left with its flag set
and no interrupt. The receiver is enabled throughout (both
programs enable it before they use it); the tap, which the emulator switches
off, and the data register of the transmitter are left out.

## 3. Runs

| run | question | distinct states |
|---|---|---|
| `main_loop` | cranberry with the heartbeat window: pacing, punctuality, contents and window under every interleaving | 3.3 M |
| `main_loop_forever` | dragonfruit with `HB_FOREVER`, nodes renamed between power-ups: the address sent, the build flag, and do samples and heartbeats go on for ever? | 730 k |
| `command_mode` | all generations, with cranberry's menu and without, against the reference, with typing ahead and the buffer overflowing; is every complete line read? | 970 k |
| `burn_node_id` | what is shown, what a node is named after power failures at any step, whatever was on the stack | 410 k |
| `emu_server` | the state shown, stale files, which model a stop reaches, and does waiting end? | 53 k |
| `sensors` | all generations: whose reading is each field, what does the self-test complain of, does a pass end? | 1.7 M |
| `xbee_link` | what does a receiver get, and what does a lost byte or a power failure cost? | 378 k |
| `fifo` | is the FIFO a channel, whatever the interleaving? | 27 k |
| `uart_pty` | is every byte typed read, once, in order, in the end? | 13 k |

Three more runs end in a counterexample; they are the findings of section 4. `heartbeat_due`
uses guava, so that with the rest the loops of three generations are explored.

What the passing runs show:

- `SamplePacing`, `HeartbeatPacing`: both timers implement `Pacer`, which knows
  real time only. `SampleDueSeen`, `HeartbeatDueSeen`: nor do they turn down what
  is due (for heartbeats, while its age fits an int). `SampleTimely` is about the
  loop as a whole: at every statement, the time since the last sample, that in command mode not
  counted, exceeds the wait by less than two passes (one of the pass in which the sample became due
  behind the check, one of the pass that takes it).
- `AddressCurrent`, `UptimeFresh`, `HeartbeatsInWindow`, `HbForeverHonoured`: what is sent, and when
  heartbeats stop (that the window opens again with the next turn of the counter is within
  `HeartbeatsInWindow`, see section 4).
- `SamplesKeepComing`, `HeartbeatsKeepComing`: no turn of the counter and no
  negative int stops the board.
- `LinesObeyed`, `LineAligned`, `NoLineLeft`: command mode does what its lines
  ask for, one exception aside: an empty line where a command is expected makes it
  swallow the next line, because the newline is taken for the command and the
  flush reads on. The reference marks such sessions and `LinesObeyed` leaves them out.
- `NodeNamedAsConfirmed`, `TornOneWay`, `NumberOfLine`: a torn write leaves the
  old name, or the new low byte with the old high byte, and nothing else; a number is shown as
  typed once its line was ended by the operator.
- `StoppedIsStopping`, `FreshOnline`, `StopReachesModel`, `WaitEnds`: the page
  tells the truth about the runner's future. No upload trusts a file of an earlier run, and if no earlier
  model was alive when the run began, the file and the port are its own model's. A stop ends the model of
  its run if the handler was installed and the shell became the model, and a model is ended in no other way:
  stopped earlier, or behind a shell that stays, it outlives its run. A
  runner does not wait for ever, unless its own model has crashed, or the model of
  another run has removed the file and ended before creating its own.
- `FieldsCurrent`, `ComplaintsRight`, `HygrometerRepeats`, `PassEnds`: a field is
  never the reading of another channel or of an earlier pass while its chip is in service and
  punctual, although three fields of cranberry share one converter; one that is corrected with a
  temperature of another moment is off by a bounded amount per degree. Units are those the code
  returns, see section 4. Complaints are
  deserved and made; what a HIH6131 that does not answer returns is an old value
  and nothing else; no chip holds a pass up.
- `ReceivedWereSent`, `FaultCost`, `PacketsArrive`: whatever is received was sent, but for
  two kinds of loss the format cannot show; a fault costs two packets, or three if it hit a
  length or left half of an escape sequence. One fault is meant: with two, TLC finds a packet in
  which the escape bytes before 0x11 and 0x7d are lost, so that one byte is 0x20 too large, another
  0x20 too small, and the sum is right.
- `FifoInv`, `IsChannel`: the FIFO is the abstract channel, liveness included.
- `NothingLost`, `ByteAnnounced`, `TypedIsRead`: XON, XOFF and the two timers never
  overrun a FIFO and never forget a byte, but for the stranded receiver of section 4.

Deadlock is not checked: in `MainLoop` a power cycle is always possible, so that
the check would be empty; the operator of `CommandMode` may stop typing; the
sketch ends in `while(1)`, the emulator may rest after its last run, and the passes,
packets and bytes of the other modules come to an end.

Bounds, and why they are enough:

- *Clock.* `ClockMod` 16 and `IntHalf` 4 in `main_loop` (32 and 8 in `heartbeat_due`): the
  counter wraps, the int changes sign and comes back to
  positive while the unsigned difference has not wrapped, the three regions the
  code's behaviour depends on. `SampleWait` 3 and `HbWait` 2 (5 and 2) keep the order
  3000 < 30000 < 32768 < window < 2^32. In `main_loop_forever` (8 and 4) the int is negative for half of
  each turn, and in `cranberry_hb_forever` (16 and 8) nothing depends on it. Ages count to `ClockMod`, where they saturate:
  no property tells ages beyond a turn apart. For pacing and punctuality the
  theorems of section 5 remove the bounds.
- *Passes.* `MaxPass` 1 lets the counter move between any two reads of a pass.
- *Window.* `HbWindow` 11 of 16 lies after several samples and heartbeats and before the wrap.
  (The code's constant 1000\*69\*5 is 345 s, where its comment says five minutes.)
- *Typing.* `RxCap` 3 and at most 8 typed bytes: lines longer than the buffer, whole
  sessions in and out of the menu, commands typed ahead and dropped. One letter
  of each class of command.
- *Burning.* The digit 9 makes numbers of one byte and of two; two confirmed
  numbers make an old and a new name. Lines of five bytes and more are read.
- *Emulator.* Three runs: a model left over by one run can meet the file of
  another while a third waits.
- *Sensors.* A self-test and one more pass, two mishaps: a chip can fail in one
  pass and be back in the next, or the weather change twice within a pass. Three
  weathers: below zero and dark, bright, and thin air, so that each range check has a case on either
  side. Two polls instead of a hundred. Tolerances (80 mV, 10 W/m2, 1 kPa) are those of the converters' steps
  and of integer division, and less than the weathers are apart.
- *Radio.* Four packets, one fault and a receiver up to two bytes behind: the
  packet hit, the one after it, and, where a fault costs three, one that arrives. One payload is a heartbeat
  with an address, an uptime and a voltage of control bytes; the other has a length that is escaped.
- *Serial port.* A FIFO of four slots and two turns of its cursors; theorems
  remove these bounds. Five bytes typed into FIFOs of one to three: each of them is
  full and empty while the others are not.

Fairness. `MainLoop`: weak fairness of `Tick` and `Program`: the timer is
hardware, and the program is one thread that never blocks outside command mode.
None on `LeaveCmd` (nobody has to type E), `Receive` or `PowerCycle`; the
liveness properties assume instead that from some time on the board is neither
power cycled nor kept in command mode. `CommandMode`: weak fairness of `Program`. `EmuServer`: of the
runner, of each model and of the arrival of a signal, which the operating system
schedules; none on requests and crashes. `Sensors`: of the program and of conversions, which take
a bounded time; none on weather or chips. `XBeeLink`: of the sender that has
begun a frame and of the receiver's loop; none on sending. `Fifo`: of
the reader, and of a write once begun. `UartPty`: weak fairness of the thread and
of the flushing loop (the thread writes to the terminal, so that this also takes for granted that somebody
reads it); strong fairness of timers and of the steps of the simulated program,
which callbacks interrupt but do not stop: the cycle counter goes on, and the firmware
prints (a heartbeat or a command's answer) again and again.

## 4. Findings

Each is a run that TLC ends with a counterexample to what the repository says.

| run | what is said | what the code does |
|---|---|---|
| `cranberry_hb_forever` | `platformio.ini`: stub_hb keeps heartbeats permanently on | `gc_board_ready_heartbeat_tx` does not look at `HB_FOREVER` |
| `heartbeat_due` | a heartbeat is sent after three seconds | after a hold-up of 32.8 to 68.5 s (modulo 65.5 s) the int is negative or small, and the heartbeat is turned down |
| `sp215_reference` | a reading multiplied by a 5 V reference; 0x7FFF is its maximum | the signed count is kept unsigned, and a reading just below zero becomes 10 V |

Seen while modelling, without a run of their own:

- The heartbeat window is compared with the wrapping counter and opens again
  every 49.7 days (`ga_board.cpp:365`, where a comment says five minutes after boot).
- `burn_node_id.ino:29` tests a byte of the line buffer that nothing has written:
  a newline left on the stack ends the line before it is typed.
- `run_emu.py:52`: a model left over by a stop during the upload passes for
  the one just started; `run_emu.py:72`: such a stop comes before the handler is installed and
  leaves the model running. So does every stop where `sh` stays the parent of its command:
  `run_emu.py:64-65` says that the handler gets the model killed properly, but `run_emu.py:44-45` starts
  it without the `exec` that `server.py:97-103` found necessary on Debian.
- A BME280 that loses its power while the board keeps it sleeps from then on: it is configured in `begin()` only
  (`Adafruit_BME280.cpp:82`), its readings are NAN (375, 404, 438), and guava sends what NAN
  becomes in an integer. Guava's setup waits 100 ms after it (`gg_board.cpp:117`) for a first conversion that may take 113;
  the self-test may read before it.
- The delay for an ADS1115 (`Adafruit_ADS1015.cpp:184`) is shorter than the conversion of a chip at the slow end of
  its tolerance, which then answers with the channel before.
- `gc_dev_honeywell_HIH6131_temperature.cpp` is named and described as
  centi-kelvins and returns degrees Celsius; the MPL115A2 drivers say pascals (`gc_dev_adafruit_MPL115A2_pressure.cpp:36`) and return kilopascals.
  Apple's and dragonfruit's temperature is a constant, whatever was read.
- Guava's pressure is a `uint16_t`, which one atmosphere in pascals does not
  fit, and the self-test, which wants 80000, complains of every reading.
- `Adafruit_BME280::begin` waits without a bound for a chip that says it is busy.
- `XBee.cpp:904` says that a start byte inside a frame discards the previous packet and starts over; the
  start byte is dropped too, and the next packet is lost with it. `getPacketLength` shifts and masks
  the high byte of the length away; the firmware's frames are shorter than 256 bytes.
- A byte that arrives between the boot loader's last look at RXC and
  `Serial.begin` strands the emulated receiver: RXC is set, no interrupt is pending
  (`sim_interrupts.c:129`), the timer starts only for an empty FIFO (`avr_uart.c:220`)
  and XON is raised only for an empty FIFO, although `avr_uart.h` calls it
  signaled continuously when the FIFO is not full.
- What is left in the terminal thread's buffer is passed on only when `select`
  reports something else (`uart_pty.c:178`), that is, when the firmware prints.

## 5. Proofs

Eight modules hold proofs; each proves its theorems of the specification for
every value of the constants, from the named assumptions of the module alone.

### The main loop

`MainLoopProofs` proves, for every clock width, int width, wait, pass length,
generation and set of addresses:

| theorem | statement |
|---|---|
| `TypeCorrect` | `Spec => []TypeOK` |
| `SamplesPaced` | `Spec => SamplePacing`: the sample timer implements `Pacer` |
| `HeartbeatsPaced` | `Spec => HeartbeatPacing`: so does the heartbeat timer, int and all |
| `DueSamplesSeen` | `Spec => SampleDueSeen` |
| `DueHeartbeatsSeen` | `Spec => HeartbeatDueSeen` |
| `SamplesTimely` | `SampleWait > 0 => (Spec => []SampleTimely)` |
| `AddressesCurrent` | `Spec => []AddressCurrent` |
| `UptimesFresh` | `Spec => []UptimeFresh` |
| `HeartbeatsStop` | `Spec => []HeartbeatsInWindow` |
| `HbForeverKept` | `Gen # "cranberry" => (Spec => HbForeverHonoured)`: the finding about cranberry is about cranberry alone |

Assumptions, named where the constants are declared: the clock and an int have
at least one value and an int fits an unsigned long (`ClockAssumption`,
`IntAssumption`), waits and `MaxPass` are naturals, `AgeCap >= ClockMod`, `Gen`
is a generation. TLC evaluates all of them on every run. Nothing is assumed of the
size of a wait relative to the clock.

The argument. Pacing speaks of real time and the code of a wrapped difference,
so the invariant `TimerInv` relates them: for each timer, the wrapped difference
is at most the true age, and equal to it while the age is less than a turn
(`SampleTracked`, `HeartbeatTracked`). It also has to remember, between the
comparison and the stamp, that the age had reached the wait (`SampleDecided`,
`HeartbeatDecided`), since the comparison is a step before the one `Pacer`
counts. Then a wrapped difference of at least the wait means a true age of at
least the wait, which is `SamplesPaced`. For heartbeats the narrowed int adds
one fact, `AsInt(x) <= x`: narrowing may hide a heartbeat that is due, as
`heartbeat_due` shows, but never makes one up. `DueSamplesSeen` and
`DueHeartbeatsSeen` use the other half, equality below a turn, with
`AsInt(x) = x` for `x < IntHalf`.

`SamplesTimely` carries a budget through the pass (`OverdueInv`): behind the check a sample is overdue by at
most the ticks that the pass has taken, before it by a pass more. Command mode needs no case of its own,
because the time spent there counts for `sampleAge` only, from which the check decides. A wait that is not
zero is assumed; with none and no ticks in a pass every sample is due at once, and the strict bound fails.

What packets say needs an invariant of its own, `ContentsInv`. `AddressCurrent`
holds of two designs at once: apple and guava copy the address in each sample,
cranberry and dragonfruit only in `board_init`; `NodeNamed` and `PacketNamed`
are the two halves and `TxReady` joins them. `TxReady` and `InWindow` carry the
time of a read to the step that uses it, with the ticks of the pass as the
allowance.

### Command mode

`CommandModeProofs` proves, for every size of the receive buffer, any number of bytes
typed and any alphabet with a newline in it (`LineAssumption`):

| theorem | statement |
|---|---|
| `CommandTypes` | `Spec => []TypeOK` |
| `LinesAligned` | `Spec => []LineAligned`: where a command is awaited, the last byte read was the end of a line |
| `LinesCarriedOut` | `Spec => []LinesObeyed`: what was carried out is what the line-by-line reference asks for |

`LineInv` is the first two together with `PostTyped` (the self-test is entered only when
its letter can be typed), which the types of the step after the self-test need.
`ReadFacts` says that reading moves the head of the buffer to the end of what was read.

`LinesCarriedOut` compares two programs, one that goes byte by byte and one that sees whole
lines. `Follows` is the bridge: for each place of `run_cmd` it says where the reference stands, which
part of a line has been read, and what is still to be carried out (at `post`, the self-test itself).
A session with an empty line where a command is expected is left out by the property and stays
left out. The reference is recursive, and what is proved about it is proved by induction: `Induction` (a
set of naturals that holds 0 and every successor is all of them, from the library's well-foundedness of <),
`Recursion` (a function whose values are given one after the other exists),
hence `CutResults` and `SessionResults`, and `CutAppend` and `SessionAppend`, which say what one more byte
and one more line do. `SessionByte` puts them together.

### The node's address

`BurnNodeIdProofs` proves, for any number of numbers burned, any digits and anything on the stack
(`BurnAssumption`, `BoundAssumption`):

| theorem | statement |
|---|---|
| `BurnInvariant` | `Spec => []BurnInv` |
| `Types` | `Spec => []TypeOK` |
| `Named` | `Spec => []NodeNamedAsConfirmed` |
| `Torn` | `Spec => []TornOneWay` |
| `Shown` | `Spec => []NumberOfLine` |

`BurnInv` adds to the types and to `NumberOfLine` what the properties leave unsaid because they look at a
node that has booted: `EepromWritten` says what the EEPROM holds before, between and after
the two writes, and `LineIsBuffer` that until the line ends the buffer holds what was typed. `AtoiEndOfLine`
is why the number shown is that of the line although the buffer goes on behind it with what was on the stack:
`atoi` stops at the newline. `BytesOfNumber` and `NumberOfBytes` are the arithmetic of the two bytes.

### Emulator control

`EmuServerProofs` proves, for any number of runs and with either shell (`StartsAssumption`):

| theorem | statement |
|---|---|
| `ControlTypes` | `Spec => []TypeOK` |
| `StopsShown` | `Spec => []StoppedIsStopping` |
| `UploadsFresh` | `Spec => []FreshOnline` |
| `StopsReachModels` | `Spec => []StopReachesModel` |

`ControlInv` adds four parts. `RunnerStarted`: a runner belongs to a run that exists. `FileFresh`: from the moment a
runner has removed the file, the file, if it is there, was created in its run; that a leftover *model*
may have created it is not excluded, and is what happens (section 4). `OwnModel`: in a run that began without
any other model, no other is alive and the port is its own model's once that has opened it, hence the second half
of `FreshOnline`. `StopKnown`: a run that was stopped has had its model, and is over, so that no model can
come to life after the SIGTERM that was to end it.

### The sensors

`SensorsProofs` proves, for every generation and any number of passes, of mishaps and of polls (`BoundsAssumption`),
for the weathers of the model:

| theorem | statement |
|---|---|
| `SensorsInvariant` | `Spec => []SensorsInv` |
| `Types` | `Spec => []TypeOK`: no reading outgrows the type its driver returns |
| `Current` | `Spec => []FieldsCurrent` |
| `Complaints` | `Spec => []ComplaintsRight` |
| `Repeats` | `Spec => HygrometerRepeats` |

The properties look at a pass that is over; `SensorsInv` follows it on its way. `RequestServed` is the heart:
a punctual chip that was in service throughout holds, at the fetch, a conversion of the very field that was requested and
of a weather of this pass, although three fields share a converter; `EarlierHeld` says the same of what a driver
keeps of the first of its two rounds. `OutNoticed` says that a chip
that is out of service now has been noticed in this pass, `HeldReturned` what the object of a hygrometer keeps, and
`ReadCurrent` and `ComplaintsSoFar` are the properties for the fields read so far. `FetchedServed` turns `RequestServed` into
what a fetch brings, and `DriversTell` goes through the drivers board by board, for any two weathers of the
pass where a driver converts twice (`AppleHumidityTells`, `ApplePressureTells`). Two alternatives of a `CASE`
in `Values` and in `Tells` have been made disjoint for the proof: TLC takes the first that holds, the semantics either.

### The FIFO

`FifoProofs` proves, for every size, any bytes with 0 among them and any number of
writes (`SizeAssumption`, `BytesAssumption`, `GivenAssumption`):

| theorem | statement |
|---|---|
| `FifoCorrect` | `Spec => []FifoInv` |
| `FifoImplementsChannel` | `Spec => Channel!Spec`: the abstract channel with one place less than slots |

`FifoInv` is inductive as it stands: cursors are the numbers of bytes written and read modulo
the size (`Cursors`), the slots between them hold the bytes given and not taken
(`SlotsHold`), and what either thread is in the middle of is still true (`InFlight`). The
arithmetic is in lemmas about remainders: two bytes that are in the FIFO at the same time never
share a slot. Then each step is a `Give`, a `Take` or a stutter of the channel.

### The emulated serial port

`UartProofs` proves, for all sizes of the four FIFOs and any number of bytes (`UartAssumption`):

| theorem | statement |
|---|---|
| `UartTypes` | `Spec => []TypeOK` |
| `BytesKept` | `Spec => []NothingLost` |
| `BytesAnnounced` | `Spec => []ByteAnnounced` |

None of the three is inductive. `FlowInv` says why no FIFO is overrun: while the
terminal may send, the UART has room and the irq of XOFF is not already raised, so that its filter
lets the next XOFF pass. `ReceiverInv` says that at most one of timer, flag, interrupt and
handler is on its way and only while there is a byte, so that UDR is never read in
vain. `HandOn` is the lemma about sequences: a head that moves from one to the end of the
one before leaves the whole unchanged.

### The XBee library

`XBeeLinkProofs` proves, for any set of packets of up to 90 bytes, any number of packets and
however far the receiver falls behind (`LinkAssumption`; the firmware's packets are far shorter, and a response
to 90 bytes stays below `MAX_FRAME_DATA_SIZE`):

| theorem | statement |
|---|---|
| `Types` | `Spec => []TypeOK`, for any number of faults |
| `Genuine` | `Spec => [](faults <= 1 => ReceivedWereSent)` |
| `Losses` | `Spec => [](faults <= 1 /\ ~weak => FaultCost)` |

`Genuine` needs its hypothesis, as section 3 shows; the run has at most one fault. Its escape clause `weak` is
part of `ReceivedWereSent` itself. `Losses` leaves out the faults that cost three packets.

The invariant `Sound` says, as long as there has been one fault at most and at no weak spot, what is
on its way: there are a number K of packets that are over and a number d of a packet that is damaged (0 is none), and
what goes out for the packets behind K, end to end, is what the line and the sender still hold. Either the receiver
is between packets (`Between`), or it is within packet K + 1 (`Within`): position, sum and frame data are
what the bytes before the position make, and what is to come is the rest of its encoding, the escape byte
included that a call has left behind in `_escape` (`Half`). `Told` says which packets have been received. A damaged
packet is described by what matters about it: it is without a start byte, so that all of it is skipped, or it can
be read like a packet of other bytes that is too short for its length or has the wrong sum (`Spoilt`).

The steps of sender and receiver keep `Sound` by following the encoding byte by byte (`TakeBetween`, `TakeWithin`,
`NextPacket`); that a damaged packet is never accepted is then `Spoilt` at its last byte, and that the packet behind
it may be lost as well is `UnexpectedStart`, after which its bytes have no start and are skipped.
What is left to prove is that a fault makes a packet of the kind described (`FaultSound`). `Sending` says that what is left
to send is the end of a frame; `StrongSpot`, that outside weak spots it begins where the encoding of a byte does;
and `Broken`, that losing a byte there gives the encoding of a packet that is one byte shorter (a plain byte lost),
of the same length with one byte changed (an escape byte lost), or cut off (power). For the second the sum must
be wrong: a sum modulo 256 tells any one byte from any other (`SumsDiffer`). What the receiver has read by then is the same
in both packets (`ReadOn`, by `Heads` and `SumsAgree`). `Losses` adds `AllOver`: when nothing is on its way, either all packets
are over or only the damaged last one is not.

`Escaped` and `Checksums` are recursive functions; `EscapedResults` and `ChecksumsResults`
show that they exist and what they are, by the induction described for command mode.

### What the prover does not show

Only model-checked: `FaultCost` for a fault at a weak spot, which costs three packets; and all liveness, which
is out of the prover's reach: `SamplesKeepComing`, `HeartbeatsKeepComing`, `NoLineLeft`,
`WaitEnds`, `PassEnds`, `PacketsArrive`, `TypedIsRead`, and the fairness that `IsChannel` has beyond
`Channel!Spec`. Induction over data was within reach after all, where the data are reached by
numbers: the library's induction theorems take an operator as a parameter and cannot be used, but a
set of naturals can stand for the operator.

## 6. Not modelled, and the plan

Not modelled, and why:

- `tests/Transmit_Code`, `tests/Sensor_Code`, `lib/SCEL_MillisOverflow`: in no
  build. The sketch calls `ClearBIN`, `Test_Packet_GenBIN` and `TransmitBIN` one after the other;
  `Packet_ConBIN`, the builder with the interesting indices, is called by nothing, so that its
  calls would be invented. (Read closely: an 84-byte schema is copied
  into an 80-byte payload, and the overflow counter misses a wrap across a clear.)
- `log.cpp`: excluded from every build; the web page and the log routes of the
  server: they copy text.
- Vendored code, which is five sixths of the repository's C: the instruction
  set, timers, USB, TWI and ADC of simavr and its example boards; the requests and
  responses of the XBee library the firmware does not use; libraries of devices no
  board has. Of this code the parts between which the firmware's or the emulator's own data
  passes are modelled. The timer pool of simavr (`sim_cycle_timers.c`) is taken as timers that
  expire; a timer that puts itself back into a full pool is lost there, which four timers do not meet.
- Stub sensor builds: constants.
- `_BCFG_ONLY_POST` and `soft_rst`, which no build reaches.

Done, in this order: `AvrArith`, `Boards`, `Pacer`, `MainLoop` and its proofs;
`CommandMode`; `BurnNodeId`; `EmuServer`; `Sensors`; `XBeeLink`; `ByteChannel`, `Fifo`
and its proofs; `UartPty`; the proofs about `EmuServer`, `CommandMode` and `UartPty`; those about
`BurnNodeId`, `Sensors` and `XBeeLink`, and that of `LinesObeyed`.

What could follow: `MainLoop`, `CommandMode` and `BurnNodeId` composed, with `LeaveCmd` and
`Receive` replaced by what `run_cmd` does; the way out of the emulated port, whose
printed bytes are dropped when `pty.in` is full; a proof of what a fault at a weak spot of a frame costs, with an invariant
that follows the receiver through bytes it takes for something else.
