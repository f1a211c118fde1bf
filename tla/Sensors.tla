------------------------------- MODULE Sensors -------------------------------
(***************************************************************************)
(* The sensors of the four board generations, as setup(), the power-on     *)
(* self-test and a sample read them: the drivers, the conversions of their *)
(* readings at the widths of the AVR, and the libraries that drive the     *)
(* chips on the bus with a request, a delay and a fetch.  Meanwhile the    *)
(* weather changes, and chips stop answering and come back.                *)
(*                                                                         *)
(* A chip keeps in its registers the weather of its last conversion, an    *)
(* abstraction of the counts it holds; a driver turns it into a number.    *)
(* What is printed is left out, but for the complaints of the self-test.   *)
(***************************************************************************)
EXTENDS Integers, Sequences

CONSTANTS
    MaxPasses,  \* self-tests and samples in a behaviour
    MaxEvents,  \* changes of weather, failures and repairs of chips in it
    MaxTries    \* polls of an SHT1x before it is read anyway, 100 on the board

ASSUME BoundsAssumption ==
    MaxPasses \in Nat /\ MaxEvents \in Nat /\ MaxTries \in Nat \ {0}

VARIABLES
    gen,        \* the board generation of the build
    phase,      \* "setup", "post", "sample", "heartbeat", or "idle" between them
    todo,       \* the fields the pass has yet to read, in the code's order
    step,       \* how far the driver of Head(todo) is
    earlier,    \* what it fetched in the first of two rounds, or None
    reading,    \* what each driver returned last: of a sample, its packet
    complaints, \* fields the self-test complained about
    held,       \* the weather a HIH613x object converted last, per field
    calibrated, \* chips whose coefficients were read by the library's begin()
    tries,      \* polls of the SHT1x
    weather,    \* the weather there is
    up,         \* chips that answer
    slow,       \* may a conversion of this ADS1115 outlast the library's delay?
    conv,       \* per chip: "idle", the field it converts, or "ready", not yet read;
                \* of a chip that measures by itself "first" until it has, "running"
    reg,        \* per chip: what its last conversion saw
    seen,       \* the weathers of this pass so far
    missed,     \* chips out of service at some moment of this pass
    passes, events

driver == <<phase, todo, step, earlier, reading, complaints, held, calibrated, tries>>
world  == <<weather, up, slow, conv, reg>>
vars   == <<gen, driver, world, seen, missed, passes, events>>

-----------------------------------------------------------------------------
(* The boards.                                                             *)

Generations == {"apple", "cranberry", "dragonfruit", "guava"}

Fields == {"battery", "panel", "irradiance", "temperature", "humidity", "pressure"}

\* The chip behind a field, or "adc" for a pin of the processor.
ChipOf(g, f) ==
    CASE g = "cranberry" /\ f \in {"battery", "panel", "irradiance"}  -> "ads1115"
      [] g \in {"cranberry", "dragonfruit"} /\ f = "humidity"         -> "hih6131"
      [] g = "cranberry" /\ f = "temperature"                         -> "hih6131"
      [] g \in {"cranberry", "dragonfruit"} /\ f = "pressure"         -> "mpl115a2"
      [] g = "dragonfruit" /\ f = "temperature"                       -> "mpl115a2"
      [] g = "dragonfruit" /\ f = "irradiance"                        -> "ads1100"
      [] g = "apple" /\ f = "humidity"                                -> "sht1x"
      [] g = "apple" /\ f \in {"temperature", "pressure"}             -> "bmp180"
      [] g = "guava" /\ f \in {"temperature", "humidity", "pressure"} -> "bme280"
      [] OTHER                                                        -> "adc"

Chip(f) == ChipOf(gen, f)

Chips == {Chip(f): f \in Fields} \ {"adc"}

\* The order of <gen>_board_sample and of <gen>_board_post.
SampleOrder ==
    CASE gen = "apple" ->
           <<"battery", "panel", "pressure", "temperature", "humidity", "irradiance">>
      [] gen = "cranberry" ->
           <<"battery", "panel", "irradiance", "temperature", "humidity", "pressure">>
      [] gen = "dragonfruit" ->
           <<"battery", "panel", "pressure", "temperature", "humidity", "irradiance">>
      [] gen = "guava" ->
           <<"battery", "panel", "pressure", "temperature", "humidity", "irradiance">>

PostOrder ==
    CASE gen = "apple" ->
           <<"humidity", "pressure", "temperature", "irradiance", "battery", "panel">>
      [] gen = "guava" ->
           <<"humidity", "pressure", "temperature", "irradiance", "battery", "panel">>
      [] OTHER ->
           <<"temperature", "humidity", "pressure", "irradiance", "battery", "panel">>

Order(kind) ==
    CASE kind = "sample"    -> SampleOrder
      [] kind = "post"      -> PostOrder
      [] kind = "heartbeat" -> <<"battery">>

\* Chips read by a request, a delay and a fetch, chips that measure by themselves
\* once they are told to, and chips with coefficients.
Converters == {"ads1115", "bmp180", "hih6131", "mpl115a2", "sht1x"}
SelfTimed  == {"ads1100", "bme280"}
Trimmed    == {"bmp180", "bme280", "mpl115a2"}

\* What the driver of f has its chip convert: the SHT1x's humidity is corrected
\* with a temperature converted after it, the BMP180's pressure with one before.
First(f) == IF Chip(f) = "bmp180" THEN "temperature" ELSE f
Last(f)  == IF Chip(f) = "sht1x" THEN "temperature" ELSE f
TwoRounds(f) == First(f) # Last(f)

-----------------------------------------------------------------------------
(* The weather, in millivolts, degrees Celsius, percent and pascals.  The  *)
(* irradiance sensor is a little below ground in the dark.                 *)

Weathers == {"night", "noon", "summit"}

Real(w) ==
    CASE w = "night"  -> [battery |-> 3650, panel |-> 0, irradiance |-> -2,
                          temperature |-> -7, humidity |-> 96, pressure |-> 101325]
      [] w = "noon"   -> [battery |-> 4150, panel |-> 5900, irradiance |-> 380,
                          temperature |-> 31, humidity |-> 40, pressure |-> 100650]
      [] w = "summit" -> [battery |-> 3900, panel |-> 300, irradiance |-> 25,
                          temperature |-> 4, humidity |-> 70, pressure |-> 61000]

\* What a register holds that no conversion of the weather filled.
Blank == "blank"        \* the chip since it got power, an object since boot
Mute  == "mute"         \* nobody drove the bus: all ones

Readings == Weathers \union {Blank, Mute}

\* What a fetch brings.
Raws == [field: Fields, source: Readings]
None == [field |-> "none", source |-> Blank]

-----------------------------------------------------------------------------
(* Conversions.  Integers of the AVR: int has 16 bits.                     *)

AsInt(x) == LET u == x % 65536 IN IF u < 32768 THEN u ELSE u - 65536
AsUint16(x) == x % 65536

Clamp(x, lo, hi) == IF x < lo THEN lo ELSE IF x > hi THEN hi ELSE x

\* analogRead(): ten bits of five volts.
AnalogRead(mv) == Clamp((mv * 1023) \div 5000, 0, 1023)

\* The pins see half of a solar panel's voltage, and on cranberry half of the
\* battery's; apple and guava have a diode of 70 mV before the panel's divider.
PinOf(f, w) ==
    LET mv == Real(w)[f]
    IN  CASE f = "panel" /\ gen \in {"apple", "guava"} -> (mv - 70) \div 2
          [] f = "panel" /\ gen = "dragonfruit"        -> mv \div 2
          [] f = "battery" /\ gen = "cranberry"        -> mv \div 2
          [] OTHER                                     -> mv

\* The voltages that apple, guava and dragonfruit read from their own pins.
AnalogMillivolts(f, w) ==
    LET adc == AnalogRead(PinOf(f, w))
    IN  CASE f = "panel" /\ gen # "dragonfruit" -> (2 * adc * 5000) \div 1023 + 70
          [] f = "panel" /\ gen = "dragonfruit" -> (2 * adc * 5000) \div 1023
          [] OTHER                              -> (adc * 5000) \div 1023

\* The counts of an ADS1115, 187.5 microvolts each, which cranberry takes for 188.
AdsCount(raw) ==
    CASE raw.source = Mute  -> 65535
      [] raw.source = Blank -> 0
      [] OTHER -> Clamp((PinOf(raw.field, raw.source) * 16) \div 3, -32768, 32767) % 65536
AdsMillivolts(f, count) ==
    AsUint16((count * 188) \div (IF f = "battery" THEN 500 ELSE 1000))

\* gd_dev_apogee_SP215_irradiance_read: a signed count in an unsigned variable,
\* and its initial value where the converter does not answer.
Sp215Count(src) ==
    CASE src = Mute  -> 555
      [] src = Blank -> 0
      [] OTHER       -> ((Real(src).irradiance * 32767) \div 5000) % 65536
Sp215Millivolts(src) == (Sp215Count(src) * 5000) \div 32767

\* HIH613x: both values of an object are 1 until the first good fetch.
HihPercent(src) == IF src = Blank THEN 1 ELSE Real(src).humidity
HihCelsius(src) == AsUint16(IF src = Blank THEN 1 ELSE Real(src).temperature)

\* The counts of an SHT1x, -1 for a line that stays high, and readHumidity's formula
\* in units of 10^-7 percent, which a conversion to int cuts off.
ShtCount(raw) ==
    CASE raw.source \notin Weathers -> -1
      [] raw.source \in Weathers /\ raw.field = "humidity" ->
             (CASE raw.source = "night" -> 3624
                [] raw.source = "noon" -> 1177
                [] raw.source = "summit" -> 2306)
      [] OTHER -> (Real(raw.source).temperature + 40) * 100
ShtPercent(val, temp) ==
    LET e7 == -40000000 + 405000 * val - 28 * val * val + (temp - 6500) * (1000 + 8 * val)
    IN  IF e7 < 0 THEN -((-e7) \div 10000000) ELSE e7 \div 10000000

\* Adafruit_BMP085::readPressure with the coefficients of the chip's data sheet, of
\* a pressure converted in the weather w and a temperature in the weather t.
CompensatedPascals(w, t) ==
    CASE t = w                        -> Real(w).pressure
      [] t = "night" /\ w = "noon"    -> 92414
      [] t = "night" /\ w = "summit"  -> 59460
      [] t = "noon" /\ w = "night"    -> 110345
      [] t = "noon" /\ w = "summit"   -> 64805
      [] t = "summit" /\ w = "night"  -> 103925
      [] t = "summit" /\ w = "noon"   -> 94787

\* Readings of the libraries for a BMP180, BME280 or MPL115A2: without the
\* coefficients, without an answer, or from a BME280 that sleeps (NAN in an int) the
\* result is some number.
Nonsense == {0, 90}

Measured(f, a, b) ==
    /\ a.source \in Weathers /\ b.source \in Weathers
    /\ Chip(f) = "bmp180" => a.field = First(f) /\ b.field = Last(f)

\* A slip in guava's driver: a value as wide as the library's.
PressureWide(a, b) ==
    IF ~Measured("pressure", a, b) THEN Nonsense
    ELSE CASE gen = "apple" -> {CompensatedPascals(b.source, a.source)}
           [] gen = "guava" -> {Real(b.source).pressure}
           [] OTHER         -> {Real(b.source).pressure \div 1000}

Pressure(a, b) ==
    IF ~Measured("pressure", a, b) THEN Nonsense
    ELSE CASE gen = "apple" -> {CompensatedPascals(b.source, a.source)}
           [] gen = "guava" -> {AsUint16(Real(b.source).pressure)}
           [] OTHER         -> {Real(b.source).pressure \div 1000}
Temperature(src) ==
    CASE gen = "apple"       -> {1000}      \* what is read is not used
      [] gen = "dragonfruit" -> {0}         \* nor is it here
      [] gen = "guava"       -> IF src \notin Weathers THEN Nonsense
                                ELSE {AsUint16(Real(src).temperature)}
Humidity(a, b) ==
    CASE gen = "apple" -> {ShtPercent(ShtCount(a), ShtCount(b))}
      [] gen = "guava" -> IF b.source \notin Weathers THEN Nonsense
                          ELSE {Real(b.source).humidity}

\* What the driver of f may return when it fetched a in its first round and b in its
\* last, which are the same where it has but one.
Values(f, a, b) ==
    LET formula == Chip(f) \in {"bmp180", "bme280", "mpl115a2", "sht1x"}
    IN  CASE Chip(f) = "adc"               -> {AnalogMillivolts(f, b.source)}
          [] Chip(f) = "ads1115"           -> {AdsMillivolts(f, AdsCount(b))}
          [] Chip(f) = "ads1100"           -> {Sp215Millivolts(b.source)}
          [] Chip(f) = "hih6131"           ->
                 {IF f = "humidity" THEN HihPercent(b.source) ELSE HihCelsius(b.source)}
          [] formula /\ f = "pressure"     -> Pressure(a, b)
          [] formula /\ f = "temperature"  -> Temperature(b.source)
          [] formula /\ f = "humidity"     -> Humidity(a, b)

-----------------------------------------------------------------------------
(* Init, and what goes on around the program.                              *)

Init ==
    /\ gen \in Generations
    /\ phase = "setup"
    /\ todo = <<>>
    /\ step = "request"
    /\ earlier = None
    /\ reading = [f \in Fields |-> IF Chip(f) = "hih6131" THEN 1 ELSE 0]
    /\ complaints = {}
    /\ held = [f \in Fields |-> Blank]
    /\ calibrated = {}
    /\ tries = 0
    /\ weather \in Weathers
    /\ up \in {Chips, {}}
    /\ slow \in BOOLEAN
    /\ slow => "ads1115" \in Chips
    /\ conv = [c \in Chips |-> IF c = "ads1100" /\ c \in up THEN "first" ELSE "idle"]
    /\ reg = [c \in Chips |-> [field |-> "battery", source |-> Blank]]
    /\ seen = {weather}
    /\ missed = {}
    /\ passes = 0
    /\ events = 0

ChangeWeather ==
    /\ events < MaxEvents
    /\ events' = events + 1
    /\ \E w \in Weathers \ {weather}: weather' = w /\ seen' = seen \union {w}
    /\ UNCHANGED <<gen, driver, up, slow, conv, reg, missed, passes>>

\* A chip without power forgets what it has converted and how it was configured.
Fail ==
    /\ events < MaxEvents
    /\ events' = events + 1
    /\ \E c \in up:
          /\ up' = up \ {c}
          /\ missed' = missed \union {c}
          /\ conv' = [conv EXCEPT ![c] = "idle"]
          /\ reg' = [reg EXCEPT ![c].source = Blank]
    /\ UNCHANGED <<gen, driver, weather, slow, seen, passes>>

\* Its power comes back: an ADS1100 measures at once, as gd_dev_apogee_SP215 would
\* have it, but a BME280 sleeps until it is configured, which only begin() does.
Repair ==
    /\ events < MaxEvents
    /\ events' = events + 1
    /\ \E c \in Chips \ up:
          /\ up' = up \union {c}
          /\ conv' = IF c = "ads1100" THEN [conv EXCEPT ![c] = "first"] ELSE conv
    /\ UNCHANGED <<gen, driver, weather, slow, reg, seen, missed, passes>>

Converting(c) == c \in up /\ conv[c] \in Fields

\* A conversion ends, or the first one of a chip that measures by itself.
Convert ==
    /\ \E c \in up:
          \/ /\ Converting(c)
             /\ conv' = [conv EXCEPT ![c] = "ready"]
             /\ reg' = [reg EXCEPT ![c] = [field |-> conv[c], source |-> weather]]
          \/ /\ conv[c] = "first"
             /\ conv' = [conv EXCEPT ![c] = "running"]
             /\ UNCHANGED reg
    /\ UNCHANGED <<gen, driver, weather, up, slow, seen, missed, passes, events>>

-----------------------------------------------------------------------------
(* A pass: the self-test at boot or in command mode, a sample, a heartbeat.*)

\* The chips are found, a BME280 is configured, and coefficients are read; a chip
\* that does not answer is not tried again.
Setup ==
    /\ phase = "setup"
    /\ calibrated' = Trimmed \intersect up
    /\ conv' = [c \in Chips |-> IF c = "bme280" /\ c \in up THEN "first" ELSE conv[c]]
    /\ phase' = "idle"
    /\ UNCHANGED <<gen, todo, step, earlier, reading, complaints, held, tries, weather,
                   up, slow, reg, seen, missed, passes, events>>

\* Chips that answer and, if they measure by themselves, have done so.
InService == {c \in up: c \in SelfTimed => conv[c] = "running"}

Begin ==
    /\ phase = "idle"
    /\ passes < MaxPasses
    /\ passes' = passes + 1
    /\ phase' \in (IF passes = 0 THEN {"post"} ELSE {"post", "sample", "heartbeat"})
    /\ todo' = Order(phase')
    /\ step' = "request"
    /\ earlier' = None
    /\ complaints' = {}
    /\ seen' = {weather}
    /\ missed' = Chips \ InService
    /\ UNCHANGED <<gen, reading, held, calibrated, tries, world, events>>

End ==
    /\ phase \in {"post", "sample", "heartbeat"}
    /\ todo = <<>>
    /\ phase' = "idle"
    /\ UNCHANGED <<gen, todo, step, earlier, reading, complaints, held, calibrated,
                   tries, world, seen, missed, passes, events>>

\* A slip in the self-test: apple's limit copied to boards that read kilopascals.
ComplainsCopied(f, v) ==
    \/ f = "panel" /\ v < 100
    \/ f = "pressure" /\ v < 80000
    \/ f = "temperature" /\ gen = "cranberry" /\ AsInt(v) < 0
    \/ f \in {"battery", "irradiance", "humidity"} /\ AsInt(v) < 0

\* What the self-test finds out of range, at the types of its variables: as an
\* unsigned value nothing is below 0.
Complains(f, v) ==
    \/ f = "panel" /\ v < 100
    \/ f = "pressure" /\ gen \in {"apple", "guava"} /\ v < 80000
    \/ f = "battery" /\ gen \in {"apple", "guava"} /\ AsInt(v) < 0
    \/ f = "temperature" /\ gen = "cranberry" /\ AsInt(v) < 0
    \/ f \in {"irradiance", "humidity"} /\ AsInt(v) < 0

\* The driver of the first field of todo returns v.
Return(v) ==
    /\ reading' = [reading EXCEPT ![Head(todo)] = v]
    /\ complaints' = IF phase = "post" /\ Complains(Head(todo), v)
                     THEN complaints \union {Head(todo)} ELSE complaints
    /\ todo' = Tail(todo)
    /\ step' = "request"
    /\ earlier' = None

Reads(kinds) == todo # <<>> /\ Chip(Head(todo)) \in kinds

\* Pins, and chips that measure by themselves: what is read was converted a moment
\* before, unless the chip still sleeps or is at its first conversion.
ReadAtOnce ==
    /\ Reads({"adc"} \union SelfTimed)
    /\ LET f == Head(todo)
           c == Chip(f)
           src == CASE c = "adc" -> weather
                    [] c # "adc" /\ ~(c \in up /\ (c \in Trimmed => c \in calibrated)) ->
                           Mute
                    [] OTHER -> IF conv[c] = "running" THEN weather ELSE Blank
           raw == [field |-> f, source |-> src]
       IN  \E v \in Values(f, raw, raw): Return(v)
    /\ UNCHANGED <<gen, phase, held, calibrated, tries, world, seen, missed,
                   passes, events>>

\* What the running driver has the chip convert in this round.
Asked == IF earlier = None THEN First(Head(todo)) ELSE Last(Head(todo))

\* The command that starts a conversion, lost on a chip that does not answer.  By the
\* time the bus has carried it, a conversion that outlasted its delay is over too.
Request ==
    /\ Reads(Converters) /\ step = "request"
    /\ ~\E c \in Chips: Converting(c)
    /\ conv' = LET c == Chip(Head(todo))
               IN  IF c \in up THEN [conv EXCEPT ![c] = Asked] ELSE conv
    /\ step' = "delay"
    /\ tries' = 0
    /\ UNCHANGED <<gen, phase, todo, earlier, reading, complaints, held, calibrated,
                   weather, up, slow, reg, seen, missed, passes, events>>

\* Do the delays of the library outlast the conversions of c?
Punctual(c) == c = "ads1115" => ~slow

\* A slip in the libraries: no delay.
DelayNot ==
    /\ Reads(Converters \ {"sht1x"}) /\ step = "delay"
    /\ step' = "fetch"
    /\ UNCHANGED <<gen, phase, todo, earlier, reading, complaints, held, calibrated,
                   tries, world, seen, missed, passes, events>>

\* The libraries wait for as long as a conversion takes by the data sheet, but the
\* 8 ms for an ADS1115 are short for one whose clock is up to 10 % slow.
Delay ==
    /\ Reads(Converters \ {"sht1x"}) /\ step = "delay"
    /\ LET c == Chip(Head(todo)) IN Punctual(c) => ~Converting(c)
    /\ step' = "fetch"
    /\ UNCHANGED <<gen, phase, todo, earlier, reading, complaints, held, calibrated,
                   tries, world, seen, missed, passes, events>>

\* A slip in waitForResultSHT: it waits until the sensor answers.
PollForever ==
    /\ Reads({"sht1x"}) /\ step = "delay"
    /\ conv["sht1x"] = "ready"
    /\ step' = "fetch"
    /\ UNCHANGED <<gen, phase, todo, earlier, reading, complaints, held, calibrated,
                   tries, world, seen, missed, passes, events>>

\* waitForResultSHT: a conversion ends well before the last poll.
Poll ==
    /\ Reads({"sht1x"}) /\ step = "delay"
    /\ tries + 1 = MaxTries => ~Converting("sht1x")
    /\ tries' = tries + 1
    /\ step' = IF conv["sht1x"] = "ready" \/ tries' = MaxTries THEN "fetch" ELSE "delay"
    /\ UNCHANGED <<gen, phase, todo, earlier, reading, complaints, held, calibrated,
                   world, seen, missed, passes, events>>

\* A slip in dataFetch: the values reset before the answer is looked at.
FetchHihReset ==
    /\ Reads({"hih6131"}) /\ step = "fetch"
    /\ LET f == Head(todo)
           fresh == "hih6131" \in up /\ conv["hih6131"] = "ready"
           raw == [field |-> f, source |-> held'[f]]
       IN  /\ held' = [held EXCEPT ![f] =
                          IF fresh THEN reg["hih6131"].source ELSE Blank]
           /\ conv' = IF fresh THEN [conv EXCEPT !["hih6131"] = "idle"] ELSE conv
           /\ \E v \in Values(f, raw, raw): Return(v)
    /\ UNCHANGED <<gen, phase, calibrated, tries, weather, up, slow, reg, seen, missed,
                   passes, events>>

\* HIH613x::dataFetch, and the value of the object: without an answer, or with
\* the status of an answer already fetched, the object keeps its old values.
FetchHih ==
    /\ Reads({"hih6131"}) /\ step = "fetch"
    /\ LET f == Head(todo)
           fresh == "hih6131" \in up /\ conv["hih6131"] = "ready"
           raw == [field |-> f, source |-> held'[f]]
       IN  /\ held' = IF fresh THEN [held EXCEPT ![f] = reg["hih6131"].source] ELSE held
           /\ conv' = IF fresh THEN [conv EXCEPT !["hih6131"] = "idle"] ELSE conv
           /\ \E v \in Values(f, raw, raw): Return(v)
    /\ UNCHANGED <<gen, phase, calibrated, tries, weather, up, slow, reg, seen, missed,
                   passes, events>>

\* What the other libraries fetch from c; they do not look whether it answered.
Fetched(c) ==
    LET answers == /\ c \in up
                   /\ c \in Trimmed => c \in calibrated
                   /\ c = "sht1x" => conv[c] = "ready"
    IN  [field |-> reg[c].field, source |-> IF answers THEN reg[c].source ELSE Mute]

Emptied(c) == IF conv[c] = "ready" THEN [conv EXCEPT ![c] = "idle"] ELSE conv

\* The first of two rounds.
FetchFirst ==
    /\ Reads(Converters \ {"hih6131"}) /\ step = "fetch"
    /\ TwoRounds(Head(todo)) /\ earlier = None
    /\ earlier' = Fetched(Chip(Head(todo)))
    /\ conv' = Emptied(Chip(Head(todo)))
    /\ step' = "request"
    /\ UNCHANGED <<gen, phase, todo, reading, complaints, held, calibrated, tries,
                   weather, up, slow, reg, seen, missed, passes, events>>

\* The only round or the second, after which the driver returns.
Fetch ==
    /\ Reads(Converters \ {"hih6131"}) /\ step = "fetch"
    /\ TwoRounds(Head(todo)) => earlier # None
    /\ LET f == Head(todo)
           raw == Fetched(Chip(f))
       IN  /\ conv' = Emptied(Chip(f))
           /\ \E v \in Values(f, IF TwoRounds(f) THEN earlier ELSE raw, raw): Return(v)
    /\ UNCHANGED <<gen, phase, held, calibrated, tries, weather, up, slow, reg, seen,
                   missed, passes, events>>

Pass ==
    \/ ReadAtOnce \/ Request \/ Delay \/ Poll \/ FetchHih \/ FetchFirst \/ Fetch \/ End

Next ==
    \/ Setup \/ Begin \/ Pass
    \/ ChangeWeather \/ Fail \/ Repair \/ Convert

Spec == Init /\ [][Next]_vars

\* The processor runs, and a conversion takes a bounded time.
FairSpec == Spec /\ WF_vars(Pass) /\ WF_vars(Convert)

-----------------------------------------------------------------------------
(* Properties.                                                             *)

\* An int or an unsigned one of the AVR, or the long of the other pressures.
Fits(f, v) ==
    /\ v \in Int /\ v >= -32768
    /\ gen = "guava" \/ f # "pressure" => v < 65536

DriverTypes ==
    /\ phase \in {"setup", "idle", "post", "sample", "heartbeat"}
    /\ step \in {"request", "delay", "fetch"}
    /\ todo \in Seq(Fields)
    /\ earlier \in Raws \union {None}
    /\ complaints \subseteq Fields
    /\ calibrated \subseteq Trimmed
    /\ tries \in 0 .. MaxTries

ReadingTypes ==
    /\ reading \in [Fields -> Int]
    /\ \A f \in Fields: Fits(f, reading[f])
    /\ held \in [Fields -> Weathers \union {Blank}]

ChipTypes ==
    /\ up \subseteq Chips /\ missed \subseteq Chips
    /\ slow \in BOOLEAN
    /\ conv \in [Chips -> Fields \union {"idle", "ready", "first", "running"}]
    /\ reg \in [Chips -> [field: Fields, source: Weathers \union {Blank}]]

WeatherTypes == weather \in seen /\ seen \subseteq Weathers

CountTypes == passes \in 0 .. MaxPasses /\ events \in 0 .. MaxEvents

TypeOK ==
    /\ gen \in Generations
    /\ DriverTypes /\ ReadingTypes /\ ChipTypes /\ WeatherTypes /\ CountTypes

Within(a, b, tolerance) == a - b \in -tolerance .. tolerance

Abs(a) == IF a < 0 THEN -a ELSE a

\* v says of the field f what the weather w is, as far as the generation reports it
\* at all: in millivolts, percent and degrees Celsius, where apple and guava return
\* pascals, of which guava keeps sixteen bits, but cranberry and dragonfruit
\* kilopascals, whatever their drivers are called and their comments say.  A humidity
\* or a pressure corrected with the temperature of another weather t is off by so much
\* a degree.
Tells(f, v, w, t) ==
    LET real == Real(w)[f]
        degrees == Abs(Real(w).temperature - Real(t).temperature)
    IN  /\ f \in {"battery", "panel"} => Within(v, real, 80)
        /\ f = "irradiance" => real < 0 \/ Within(v, real, 10)
        /\ f = "humidity" /\ gen = "apple" => Within(v, real, (3 * degrees + 9) \div 10)
        /\ f = "humidity" /\ gen # "apple" => v = real
        /\ f = "pressure" =>
              /\ gen = "apple" => Within(v, real, 240 * degrees)
              /\ gen = "guava" => (real - v) % 65536 = 0
              /\ gen \in {"cranberry", "dragonfruit"} => Within(1000 * v, real, 1000)
        /\ f = "temperature" /\ gen \in {"cranberry", "guava"} => (real - v) % 65536 = 0

\* A chip that was in service throughout the pass, with the coefficients that belong to
\* it, and not slower than the library takes it to be.
Sound(f) ==
    \/ Chip(f) = "adc"
    \/ /\ Chip(f) \notin missed
       /\ Chip(f) \in Trimmed => Chip(f) \in calibrated
       /\ Punctual(Chip(f))

Done == todo = <<>> /\ phase \in {"post", "sample", "heartbeat"}
Read == IF phase = "heartbeat" THEN {"battery"} ELSE Fields

\* Every field of a finished pass is what its sensor saw during this pass, on
\* its own channel, corrected with a temperature of this pass, if the chip behind it
\* was in service throughout, however the weather, the conversions, earlier failures and
\* the other chips of the bus behaved.
FieldsCurrent ==
    Done => \A f \in Read: Sound(f) => \E w, t \in seen: Tells(f, reading[f], w, t)

\* A hygrometer that does not answer repeats what its object last returned, and
\* never returns what no fetch brought.
HygrometerRepeats ==
    [][\A f \in Fields:
          Chip(f) = "hih6131" /\ "hih6131" \notin up /\ todo # <<>> =>
              reading'[f] = reading[f]]_vars

\* What the self-test does not miss: a dark panel, frost on cranberry, thin air on
\* apple.
Noticed ==
    {"panel"} \union (IF gen = "cranberry" THEN {"temperature"} ELSE {})
              \union (IF gen = "apple" THEN {"pressure"} ELSE {})

\* What would deserve a complaint about f in the weather w.
OutOfRange(f, w) ==
    \/ f = "panel" /\ Real(w).panel < 100
    \/ f = "pressure" /\ (gen = "guava" \/ Real(w).pressure < 80000)
    \/ f = "temperature" /\ Real(w).temperature < 0

\* The self-test complains of a sensor that could be read only if it saw something
\* out of range during the test, of guava's pressure whatever it saw, and it
\* does not miss a dark panel, frost on cranberry or thin air on apple that
\* lasts throughout the test.
ComplaintsRight ==
    Done /\ phase = "post" =>
        /\ \A f \in complaints: Sound(f) => \E w \in seen: OutOfRange(f, w)
        /\ \A f \in Noticed:
              Sound(f) /\ (\A w \in seen: OutOfRange(f, w)) => f \in complaints

\* A pass ends whatever the chips do: no driver waits for an answer for ever.
PassEnds == phase \in {"post", "sample", "heartbeat"} ~> phase = "idle"

\* "Multiply by 5V reference voltage then divide by 0x7FFF to convert the 16-bit
\* ADC reading to voltage": dragonfruit's irradiance is within the reference.
IrradianceInReference ==
    gen = "dragonfruit" => reading["irradiance"] \in 0 .. 5000
=============================================================================
