---------------------------- MODULE SensorsProofs ----------------------------
(***************************************************************************)
(* Theorems about the sensors, for passes and mishaps of any number and    *)
(* any patience with the SHT1x: a finished pass says what its sensors saw  *)
(* while it went on, and the self-test complains of that and of no more.   *)
(***************************************************************************)
EXTENDS Sensors, TLAPS

-----------------------------------------------------------------------------
(* The inductive invariant.                                                *)

Passing == phase \in {"post", "sample", "heartbeat"}

ToRead(f) == \E k \in 1 .. Len(todo): todo[k] = f

\* Of a chip out of service the running pass knows.
OutNoticed ==
    /\ todo # <<>> => Passing
    /\ Passing => Chips \ InService \subseteq missed

\* What a punctual chip that was in service throughout makes of the request of the
\* driver that runs: what was asked for, with a weather of this pass.
Converted(c, f) ==
    conv[c] = "ready" /\ reg[c].field = f /\ reg[c].source \in seen

RequestServed ==
    Reads(Converters) =>
        LET c == Chip(Head(todo))
        IN  c \notin missed /\ Punctual(c) =>
                /\ step = "delay" => conv[c] = Asked \/ Converted(c, Asked)
                /\ step = "fetch" => Converted(c, Asked)

\* What a driver keeps of its first round.
EarlierHeld ==
    earlier # None =>
        /\ todo # <<>> /\ TwoRounds(Head(todo))
        /\ Sound(Head(todo)) =>
              earlier.field = First(Head(todo)) /\ earlier.source \in seen

\* A driver that waits has polls left.
PollsLeft == step = "delay" => tries < MaxTries

\* What a hygrometer's object holds is what its driver returned last.
HeldReturned ==
    \A f \in Fields:
        Chip(f) = "hih6131" =>
            reading[f] = IF f = "humidity" THEN HihPercent(held[f]) ELSE HihCelsius(held[f])

\* The fields read so far are current.
ReadCurrent ==
    Passing => \A f \in Read: ~ToRead(f) /\ Sound(f) =>
                   \E w, t \in seen: Tells(f, reading[f], w, t)

\* The complaints so far are right, and none about a field read so far is missing.
ComplaintsSoFar ==
    phase = "post" =>
        /\ \A f \in complaints: Sound(f) => \E w \in seen: OutOfRange(f, w)
        /\ \A f \in Noticed:
              ~ToRead(f) /\ Sound(f) /\ (\A w \in seen: OutOfRange(f, w)) =>
                  f \in complaints

SensorsInv ==
    /\ TypeOK /\ OutNoticed /\ RequestServed /\ EarlierHeld /\ PollsLeft
    /\ HeldReturned /\ ReadCurrent /\ ComplaintsSoFar

-----------------------------------------------------------------------------
(* What the drivers return, board by board and field by field.             *)

\* What a driver's value v, the weather w its sensor saw and the weather t of the
\* correcting temperature have to do with each other.
Truthful(f, v, w, t) ==
    /\ Tells(f, v, w, t)
    /\ Complains(f, v) => OutOfRange(f, w)
    /\ f \in Noticed /\ OutOfRange(f, w) => Complains(f, v)

\* What a fetch brings of what was asked for in the weather w.
Brought(f, w) == [field |-> f, source |-> w]

\* What the driver of a single round returns of the weather w.
LEMMA PlainValues ==
    ASSUME gen \in Generations, NEW f \in Fields, NEW w \in Weathers,
           NEW v \in Values(f, Brought(f, w), Brought(f, w))
    PROVE  /\ Chip(f) = "adc" => v = AnalogMillivolts(f, w)
           /\ Chip(f) = "ads1115" => v = AdsMillivolts(f, AdsCount(Brought(f, w)))
           /\ Chip(f) = "ads1100" => v = Sp215Millivolts(w)
           /\ Chip(f) = "hih6131" =>
                 v = IF f = "humidity" THEN HihPercent(w) ELSE HihCelsius(w)
           /\ Chip(f) = "mpl115a2" /\ f = "pressure" => v = Real(w).pressure \div 1000
           /\ Chip(f) = "bme280" =>
                 /\ f = "pressure" => v = AsUint16(Real(w).pressure)
                 /\ f = "temperature" => v = AsUint16(Real(w).temperature)
                 /\ f = "humidity" => v = Real(w).humidity
<1>1. Brought(f, w).source = w
  BY DEF Brought
<1>2. Chip(f) = "adc" => v = AnalogMillivolts(f, w)
  BY <1>1, Zenon DEF Values
<1>3. Chip(f) = "ads1115" => v = AdsMillivolts(f, AdsCount(Brought(f, w)))
  BY Zenon DEF Values
<1>4. Chip(f) = "ads1100" => v = Sp215Millivolts(w)
  BY <1>1, Zenon DEF Values
<1>5. Chip(f) = "hih6131" => v = IF f = "humidity" THEN HihPercent(w) ELSE HihCelsius(w)
  BY <1>1, Zenon DEF Values
<1>6. Chip(f) \in {"mpl115a2", "bme280"} /\ f = "pressure" =>
         v \in Pressure(Brought(f, w), Brought(f, w))
  BY Zenon DEF Values
<1>7. /\ Chip(f) = "mpl115a2" => gen \in {"cranberry", "dragonfruit"}
      /\ Chip(f) = "bme280" => gen = "guava"
  BY DEF Generations, Fields, Chip, ChipOf
<1>8. /\ Chip(f) = "mpl115a2" /\ f = "pressure" => v = Real(w).pressure \div 1000
      /\ Chip(f) = "bme280" /\ f = "pressure" => v = AsUint16(Real(w).pressure)
  BY <1>1, <1>6, <1>7 DEF Pressure, Measured
<1>9. Chip(f) = "bme280" /\ f = "temperature" => v = AsUint16(Real(w).temperature)
  <2> SUFFICES ASSUME Chip(f) = "bme280", f = "temperature"
               PROVE  v = AsUint16(Real(w).temperature)
    OBVIOUS
  <2>1. v \in Temperature(w)
    BY <1>1, Zenon DEF Values
  <2> QED
    BY <1>7, <2>1, Zenon DEF Temperature
<1>10. Chip(f) = "bme280" /\ f = "humidity" => v = Real(w).humidity
  <2> SUFFICES ASSUME Chip(f) = "bme280", f = "humidity"
               PROVE  v = Real(w).humidity
    OBVIOUS
  <2>1. v \in Humidity(Brought(f, w), Brought(f, w))
    BY Zenon DEF Values
  <2> QED
    BY <1>1, <1>7, <2>1, Zenon DEF Humidity
<1> QED
  BY <1>2, <1>3, <1>4, <1>5, <1>8, <1>9, <1>10

\* Apple's humidity and pressure, of every two weathers.
LEMMA AppleHumidityTells ==
    ASSUME gen = "apple", NEW w \in Weathers, NEW t \in Weathers,
           NEW v \in Values("humidity", Brought("humidity", w), Brought("temperature", t))
    PROVE  Truthful("humidity", v, w, t)
<1>1. v = ShtPercent(ShtCount(Brought("humidity", w)), ShtCount(Brought("temperature", t)))
  <2>1. Chip("humidity") = "sht1x"
    BY DEF Chip, ChipOf
  <2> QED
    BY <2>1, Zenon DEF Values, Humidity
<1> DEFINE val  == ShtCount(Brought("humidity", w))
           temp == ShtCount(Brought("temperature", t))
<1>2. /\ w = "night" => val = 3624
      /\ w = "noon" => val = 1177
      /\ w = "summit" => val = 2306
  BY DEF ShtCount, Brought, Weathers
<1>3. temp = (Real(t).temperature + 40) * 100
  BY DEF ShtCount, Brought, Weathers
<1>4. v = ShtPercent(val, temp)
  BY <1>1
<1> HIDE DEF val, temp
<1>5. Real(t).temperature \in {-7, 31, 4}
  BY DEF Real, Weathers
<1>6. CASE w = "night"
  <2>1. \/ Real(t).temperature = -7 /\ v = 96
        \/ Real(t).temperature = 31 /\ v = 107
        \/ Real(t).temperature = 4 /\ v = 99
    <3>1. val = 3624 /\ temp \in {3300, 7100, 4400}
      BY <1>2, <1>3, <1>5, <1>6
    <3> QED
      BY <1>3, <1>4, <1>5, <3>1 DEF ShtPercent
  <2>2. Real(w).temperature = -7 /\ Real(w).humidity = 96
    BY <1>6 DEF Real
  <2> QED
    BY <2>1, <2>2 DEF Truthful, Tells, Abs, Within, Complains, Noticed, AsInt
<1>7. CASE w = "noon"
  <2>1. \/ Real(t).temperature = -7 /\ v = 36
        \/ Real(t).temperature = 31 /\ v = 40
        \/ Real(t).temperature = 4 /\ v = 37
    <3>1. val = 1177 /\ temp \in {3300, 7100, 4400}
      BY <1>2, <1>3, <1>5, <1>7
    <3> QED
      BY <1>3, <1>4, <1>5, <3>1 DEF ShtPercent
  <2>2. Real(w).temperature = 31 /\ Real(w).humidity = 40
    BY <1>7 DEF Real
  <2> QED
    BY <2>1, <2>2 DEF Truthful, Tells, Abs, Within, Complains, Noticed, AsInt
<1>8. CASE w = "summit"
  <2>1. \/ Real(t).temperature = -7 /\ v = 68
        \/ Real(t).temperature = 31 /\ v = 75
        \/ Real(t).temperature = 4 /\ v = 70
    <3>1. val = 2306 /\ temp \in {3300, 7100, 4400}
      BY <1>2, <1>3, <1>5, <1>8
    <3> QED
      BY <1>3, <1>4, <1>5, <3>1 DEF ShtPercent
  <2>2. Real(w).temperature = 4 /\ Real(w).humidity = 70
    BY <1>8 DEF Real
  <2> QED
    BY <2>1, <2>2 DEF Truthful, Tells, Abs, Within, Complains, Noticed, AsInt
<1> QED
  BY <1>6, <1>7, <1>8 DEF Weathers

LEMMA ApplePressureTells ==
    ASSUME gen = "apple", NEW w \in Weathers, NEW t \in Weathers,
           NEW v \in Values("pressure", Brought("temperature", t), Brought("pressure", w))
    PROVE  Truthful("pressure", v, w, t)
<1>1. v = CompensatedPascals(w, t)
  <2>1. Chip("pressure") = "bmp180"
    BY DEF Chip, ChipOf
  <2>2. v \in Pressure(Brought("temperature", t), Brought("pressure", w))
    BY <2>1, Zenon DEF Values
  <2> QED
    BY <2>1, <2>2 DEF Pressure, Measured, Brought, First, Last
<1> QED
  BY <1>1
  DEF CompensatedPascals, Real, Weathers, Truthful, Tells, Abs, Within, Complains,
      OutOfRange, Noticed

\* Apple's other fields.
LEMMA AppleTells ==
    ASSUME gen = "apple", NEW f \in Fields, NEW w \in Weathers,
           NEW v \in Values(f, Brought(f, w), Brought(f, w)),
           f \notin {"humidity", "pressure"}
    PROVE  Truthful(f, v, w, w)
<1>0. gen \in Generations
  BY DEF Generations
<1>1. CASE f = "battery"
  <2>1. Real(w)[f] \in {3650, 4150, 3900}
    BY <1>1 DEF Real, Weathers
  <2>2. v = AnalogMillivolts(f, w)
    <3>1. Chip(f) = "adc"
      BY <1>1 DEF Chip, ChipOf
    <3> QED
      BY <1>0, <1>1, <3>1, PlainValues
  <2>3. PinOf(f, w) = Real(w)[f]
    BY <1>1 DEF PinOf
  <2> QED
    BY <1>1, <2>1, <2>2, <2>3
    DEF AnalogMillivolts, AnalogRead, Clamp,
        Truthful, Tells, Within, Complains, OutOfRange, Noticed, AsInt,
        AsUint16
<1>2. CASE f = "panel"
  <2>1. Real(w)[f] \in {0, 5900, 300}
    BY <1>2 DEF Real, Weathers
  <2>2. v = AnalogMillivolts(f, w)
    <3>1. Chip(f) = "adc"
      BY <1>2 DEF Chip, ChipOf
    <3> QED
      BY <1>0, <1>2, <3>1, PlainValues
  <2>3. PinOf(f, w) = (Real(w)[f] - 70) \div 2
    BY <1>2 DEF PinOf
  <2> QED
    BY <1>2, <2>1, <2>2, <2>3
    DEF AnalogMillivolts, AnalogRead, Clamp,
        Truthful, Tells, Within, Complains, OutOfRange, Noticed, AsInt,
        AsUint16
<1>3. CASE f = "irradiance"
  <2>1. Real(w)[f] \in {-2, 380, 25}
    BY <1>3 DEF Real, Weathers
  <2>2. v = AnalogMillivolts(f, w)
    <3>1. Chip(f) = "adc"
      BY <1>3 DEF Chip, ChipOf
    <3> QED
      BY <1>0, <1>3, <3>1, PlainValues
  <2>3. PinOf(f, w) = Real(w)[f]
    BY <1>3 DEF PinOf
  <2> QED
    BY <1>3, <2>1, <2>2, <2>3
    DEF AnalogMillivolts, AnalogRead, Clamp,
        Truthful, Tells, Within, Complains, OutOfRange, Noticed, AsInt,
        AsUint16
<1>4. CASE f = "temperature"
  <2>1. Real(w)[f] \in {-7, 31, 4}
    BY <1>4 DEF Real, Weathers
  <2> QED
    BY <1>4, <2>1
    DEF Truthful, Tells, Within, Complains, OutOfRange, Noticed, AsInt,
        AsUint16
<1> QED
  BY <1>1, <1>2, <1>3, <1>4 DEF Fields

LEMMA CranberryTells ==
    ASSUME gen = "cranberry", NEW f \in Fields, NEW w \in Weathers,
           NEW v \in Values(f, Brought(f, w), Brought(f, w))
    PROVE  Truthful(f, v, w, w)
<1>0. gen \in Generations
  BY DEF Generations
<1>1. CASE f = "battery"
  <2>1. Real(w)[f] \in {3650, 4150, 3900}
    BY <1>1 DEF Real, Weathers
  <2>2. v = AdsMillivolts(f, AdsCount(Brought(f, w)))
    <3>1. Chip(f) = "ads1115"
      BY <1>1 DEF Chip, ChipOf
    <3> QED
      BY <1>0, <1>1, <3>1, PlainValues
  <2>3. PinOf(f, w) = Real(w)[f] \div 2
    BY <1>1 DEF PinOf
  <2> QED
    BY <1>1, <2>1, <2>2, <2>3
    DEF AdsMillivolts, AdsCount, Brought, Clamp, Blank, Mute, Weathers,
        Truthful, Tells, Within, Complains, OutOfRange, Noticed, AsInt,
        AsUint16
<1>2. CASE f = "panel"
  <2>1. Real(w)[f] \in {0, 5900, 300}
    BY <1>2 DEF Real, Weathers
  <2>2. v = AdsMillivolts(f, AdsCount(Brought(f, w)))
    <3>1. Chip(f) = "ads1115"
      BY <1>2 DEF Chip, ChipOf
    <3> QED
      BY <1>0, <1>2, <3>1, PlainValues
  <2>3. PinOf(f, w) = Real(w)[f]
    BY <1>2 DEF PinOf
  <2> QED
    BY <1>2, <2>1, <2>2, <2>3
    DEF AdsMillivolts, AdsCount, Brought, Clamp, Blank, Mute, Weathers,
        Truthful, Tells, Within, Complains, OutOfRange, Noticed, AsInt,
        AsUint16
<1>3. CASE f = "irradiance"
  <2>1. Real(w)[f] \in {-2, 380, 25}
    BY <1>3 DEF Real, Weathers
  <2>2. v = AdsMillivolts(f, AdsCount(Brought(f, w)))
    <3>1. Chip(f) = "ads1115"
      BY <1>3 DEF Chip, ChipOf
    <3> QED
      BY <1>0, <1>3, <3>1, PlainValues
  <2>3. PinOf(f, w) = Real(w)[f]
    BY <1>3 DEF PinOf
  <2> QED
    BY <1>3, <2>1, <2>2, <2>3
    DEF AdsMillivolts, AdsCount, Brought, Clamp, Blank, Mute, Weathers,
        Truthful, Tells, Within, Complains, OutOfRange, Noticed, AsInt,
        AsUint16
<1>4. CASE f = "temperature"
  <2>1. Real(w)[f] \in {-7, 31, 4}
    BY <1>4 DEF Real, Weathers
  <2>2. v = HihCelsius(w)
    <3>1. Chip(f) = "hih6131"
      BY <1>4 DEF Chip, ChipOf
    <3> QED
      BY <1>0, <1>4, <3>1, PlainValues
  <2> QED
    BY <1>4, <2>1, <2>2
    DEF HihCelsius, Blank, Weathers,
        Truthful, Tells, Within, Complains, OutOfRange, Noticed, AsInt,
        AsUint16
<1>5. CASE f = "humidity"
  <2>1. Real(w)[f] \in {96, 40, 70}
    BY <1>5 DEF Real, Weathers
  <2>2. v = HihPercent(w)
    <3>1. Chip(f) = "hih6131"
      BY <1>5 DEF Chip, ChipOf
    <3> QED
      BY <1>0, <1>5, <3>1, PlainValues
  <2> QED
    BY <1>5, <2>1, <2>2
    DEF HihPercent, Blank, Weathers,
        Truthful, Tells, Within, Complains, OutOfRange, Noticed, AsInt,
        AsUint16
<1>6. CASE f = "pressure"
  <2>1. Real(w)[f] \in {101325, 100650, 61000}
    BY <1>6 DEF Real, Weathers
  <2>2. v = Real(w).pressure \div 1000
    <3>1. Chip(f) = "mpl115a2"
      BY <1>6 DEF Chip, ChipOf
    <3> QED
      BY <1>0, <1>6, <3>1, PlainValues
  <2> QED
    BY <1>6, <2>1, <2>2
    DEF Truthful, Tells, Within, Complains, OutOfRange, Noticed, AsInt,
        AsUint16
<1> QED
  BY <1>1, <1>2, <1>3, <1>4, <1>5, <1>6 DEF Fields

LEMMA DragonfruitTells ==
    ASSUME gen = "dragonfruit", NEW f \in Fields, NEW w \in Weathers,
           NEW v \in Values(f, Brought(f, w), Brought(f, w))
    PROVE  Truthful(f, v, w, w)
<1>0. gen \in Generations
  BY DEF Generations
<1>1. CASE f = "battery"
  <2>1. Real(w)[f] \in {3650, 4150, 3900}
    BY <1>1 DEF Real, Weathers
  <2>2. v = AnalogMillivolts(f, w)
    <3>1. Chip(f) = "adc"
      BY <1>1 DEF Chip, ChipOf
    <3> QED
      BY <1>0, <1>1, <3>1, PlainValues
  <2>3. PinOf(f, w) = Real(w)[f]
    BY <1>1 DEF PinOf
  <2> QED
    BY <1>1, <2>1, <2>2, <2>3
    DEF AnalogMillivolts, AnalogRead, Clamp,
        Truthful, Tells, Within, Complains, OutOfRange, Noticed, AsInt,
        AsUint16
<1>2. CASE f = "panel"
  <2>1. Real(w)[f] \in {0, 5900, 300}
    BY <1>2 DEF Real, Weathers
  <2>2. v = AnalogMillivolts(f, w)
    <3>1. Chip(f) = "adc"
      BY <1>2 DEF Chip, ChipOf
    <3> QED
      BY <1>0, <1>2, <3>1, PlainValues
  <2>3. PinOf(f, w) = Real(w)[f] \div 2
    BY <1>2 DEF PinOf
  <2> QED
    BY <1>2, <2>1, <2>2, <2>3
    DEF AnalogMillivolts, AnalogRead, Clamp,
        Truthful, Tells, Within, Complains, OutOfRange, Noticed, AsInt,
        AsUint16
<1>3. CASE f = "irradiance"
  <2>1. Real(w)[f] \in {-2, 380, 25}
    BY <1>3 DEF Real, Weathers
  <2>2. v = Sp215Millivolts(w)
    <3>1. Chip(f) = "ads1100"
      BY <1>3 DEF Chip, ChipOf
    <3> QED
      BY <1>0, <1>3, <3>1, PlainValues
  <2> QED
    BY <1>3, <2>1, <2>2
    DEF Sp215Millivolts, Sp215Count, Blank, Mute, Weathers,
        Truthful, Tells, Within, Complains, OutOfRange, Noticed, AsInt,
        AsUint16
<1>4. CASE f = "temperature"
  <2>1. Real(w)[f] \in {-7, 31, 4}
    BY <1>4 DEF Real, Weathers
  <2> QED
    BY <1>4, <2>1
    DEF Truthful, Tells, Within, Complains, OutOfRange, Noticed, AsInt,
        AsUint16
<1>5. CASE f = "humidity"
  <2>1. Real(w)[f] \in {96, 40, 70}
    BY <1>5 DEF Real, Weathers
  <2>2. v = HihPercent(w)
    <3>1. Chip(f) = "hih6131"
      BY <1>5 DEF Chip, ChipOf
    <3> QED
      BY <1>0, <1>5, <3>1, PlainValues
  <2> QED
    BY <1>5, <2>1, <2>2
    DEF HihPercent, Blank, Weathers,
        Truthful, Tells, Within, Complains, OutOfRange, Noticed, AsInt,
        AsUint16
<1>6. CASE f = "pressure"
  <2>1. Real(w)[f] \in {101325, 100650, 61000}
    BY <1>6 DEF Real, Weathers
  <2>2. v = Real(w).pressure \div 1000
    <3>1. Chip(f) = "mpl115a2"
      BY <1>6 DEF Chip, ChipOf
    <3> QED
      BY <1>0, <1>6, <3>1, PlainValues
  <2> QED
    BY <1>6, <2>1, <2>2
    DEF Truthful, Tells, Within, Complains, OutOfRange, Noticed, AsInt,
        AsUint16
<1> QED
  BY <1>1, <1>2, <1>3, <1>4, <1>5, <1>6 DEF Fields

LEMMA GuavaTells ==
    ASSUME gen = "guava", NEW f \in Fields, NEW w \in Weathers,
           NEW v \in Values(f, Brought(f, w), Brought(f, w))
    PROVE  Truthful(f, v, w, w)
<1>0. gen \in Generations
  BY DEF Generations
<1>1. CASE f = "battery"
  <2>1. Real(w)[f] \in {3650, 4150, 3900}
    BY <1>1 DEF Real, Weathers
  <2>2. v = AnalogMillivolts(f, w)
    <3>1. Chip(f) = "adc"
      BY <1>1 DEF Chip, ChipOf
    <3> QED
      BY <1>0, <1>1, <3>1, PlainValues
  <2>3. PinOf(f, w) = Real(w)[f]
    BY <1>1 DEF PinOf
  <2> QED
    BY <1>1, <2>1, <2>2, <2>3
    DEF AnalogMillivolts, AnalogRead, Clamp,
        Truthful, Tells, Within, Complains, OutOfRange, Noticed, AsInt,
        AsUint16
<1>2. CASE f = "panel"
  <2>1. Real(w)[f] \in {0, 5900, 300}
    BY <1>2 DEF Real, Weathers
  <2>2. v = AnalogMillivolts(f, w)
    <3>1. Chip(f) = "adc"
      BY <1>2 DEF Chip, ChipOf
    <3> QED
      BY <1>0, <1>2, <3>1, PlainValues
  <2>3. PinOf(f, w) = (Real(w)[f] - 70) \div 2
    BY <1>2 DEF PinOf
  <2> QED
    BY <1>2, <2>1, <2>2, <2>3
    DEF AnalogMillivolts, AnalogRead, Clamp,
        Truthful, Tells, Within, Complains, OutOfRange, Noticed, AsInt,
        AsUint16
<1>3. CASE f = "irradiance"
  <2>1. Real(w)[f] \in {-2, 380, 25}
    BY <1>3 DEF Real, Weathers
  <2>2. v = AnalogMillivolts(f, w)
    <3>1. Chip(f) = "adc"
      BY <1>3 DEF Chip, ChipOf
    <3> QED
      BY <1>0, <1>3, <3>1, PlainValues
  <2>3. PinOf(f, w) = Real(w)[f]
    BY <1>3 DEF PinOf
  <2> QED
    BY <1>3, <2>1, <2>2, <2>3
    DEF AnalogMillivolts, AnalogRead, Clamp,
        Truthful, Tells, Within, Complains, OutOfRange, Noticed, AsInt,
        AsUint16
<1>4. CASE f = "temperature"
  <2>1. Real(w)[f] \in {-7, 31, 4}
    BY <1>4 DEF Real, Weathers
  <2>2. v = AsUint16(Real(w).temperature)
    <3>1. Chip(f) = "bme280"
      BY <1>4 DEF Chip, ChipOf
    <3> QED
      BY <1>0, <1>4, <3>1, PlainValues
  <2> QED
    BY <1>4, <2>1, <2>2
    DEF Truthful, Tells, Within, Complains, OutOfRange, Noticed, AsInt,
        AsUint16
<1>5. CASE f = "humidity"
  <2>1. Real(w)[f] \in {96, 40, 70}
    BY <1>5 DEF Real, Weathers
  <2>2. v = Real(w).humidity
    <3>1. Chip(f) = "bme280"
      BY <1>5 DEF Chip, ChipOf
    <3> QED
      BY <1>0, <1>5, <3>1, PlainValues
  <2> QED
    BY <1>5, <2>1, <2>2
    DEF Truthful, Tells, Within, Complains, OutOfRange, Noticed, AsInt,
        AsUint16
<1>6. CASE f = "pressure"
  <2>1. Real(w)[f] \in {101325, 100650, 61000}
    BY <1>6 DEF Real, Weathers
  <2>2. v = AsUint16(Real(w).pressure)
    <3>1. Chip(f) = "bme280"
      BY <1>6 DEF Chip, ChipOf
    <3> QED
      BY <1>0, <1>6, <3>1, PlainValues
  <2> QED
    BY <1>6, <2>1, <2>2
    DEF Truthful, Tells, Within, Complains, OutOfRange, Noticed, AsInt,
        AsUint16
<1> QED
  BY <1>1, <1>2, <1>3, <1>4, <1>5, <1>6 DEF Fields

\* Which fields take two rounds.
LEMMA Rounds ==
    ASSUME gen \in Generations, NEW f \in Fields
    PROVE  /\ First(f) \in Fields /\ Last(f) \in Fields
           /\ TwoRounds(f) => gen = "apple" /\ f \in {"humidity", "pressure"}
           /\ ~TwoRounds(f) => First(f) = f /\ Last(f) = f
           /\ gen = "apple" /\ f = "humidity" =>
                 TwoRounds(f) /\ First(f) = "humidity" /\ Last(f) = "temperature"
           /\ gen = "apple" /\ f = "pressure" =>
                 TwoRounds(f) /\ First(f) = "temperature" /\ Last(f) = "pressure"
  BY DEF Generations, Fields, TwoRounds, First, Last, Chip, ChipOf

\* A driver whose chip saw the weathers x and y of what it was asked for tells of one,
\* corrected with the other, and the self-test complains of the value if and, for what
\* it must notice, only if that weather is out of range.
LEMMA DriversTell ==
    ASSUME gen \in Generations, NEW f \in Fields, NEW x \in Weathers, NEW y \in Weathers,
           TwoRounds(f) \/ x = y,
           NEW v \in Values(f, Brought(First(f), x), Brought(Last(f), y))
    PROVE  Truthful(f, v, x, y) \/ Truthful(f, v, y, x)
<1>1. CASE TwoRounds(f)
  <2>1. gen = "apple" /\ f \in {"humidity", "pressure"}
    BY <1>1, Rounds
  <2>2. CASE f = "humidity"
    BY <2>1, <2>2, Rounds, AppleHumidityTells
  <2>3. CASE f = "pressure"
    BY <2>1, <2>3, Rounds, ApplePressureTells
  <2> QED
    BY <2>1, <2>2, <2>3
<1>2. CASE ~TwoRounds(f)
  <2>1. v \in Values(f, Brought(f, x), Brought(f, x)) /\ x = y
    BY <1>2, Rounds
  <2>2. gen = "apple" => f \notin {"humidity", "pressure"}
    BY <1>2, Rounds
  <2> QED
    BY <2>1, <2>2, AppleTells, CranberryTells, DragonfruitTells, GuavaTells
    DEF Generations
<1> QED
  BY <1>1, <1>2

LEMMA SixteenBits == \A x \in Int: AsUint16(x) \in Nat /\ AsUint16(x) < 65536
  BY DEF AsUint16

LEMMA PinInt == \A f \in Fields, w \in Weathers: PinOf(f, w) \in Int /\ Real(w)[f] \in Int
<1> SUFFICES ASSUME NEW f \in Fields, NEW w \in Weathers
             PROVE  PinOf(f, w) \in Int /\ Real(w)[f] \in Int
  OBVIOUS
<1>1. Real(w)[f] \in Int
  BY DEF Fields, Weathers, Real
<1>2. PinOf(f, w) \in Int
  <2>1. \/ PinOf(f, w) = Real(w)[f]
        \/ PinOf(f, w) = (Real(w)[f] - 70) \div 2
        \/ PinOf(f, w) = Real(w)[f] \div 2
    BY DEF PinOf
  <2> QED
    BY <1>1, <2>1
<1> QED
  BY <1>1, <1>2

LEMMA AdsTyped ==
    ASSUME NEW f, NEW raw \in Raws
    PROVE  LET v == AdsMillivolts(f, AdsCount(raw))
           IN  v \in Nat /\ v < 65536
<1>1. AdsCount(raw) \in Int
  <2>1. raw.field \in Fields /\ raw.source \in Readings
    BY DEF Raws
  <2>2. \/ AdsCount(raw) = 65535
        \/ AdsCount(raw) = 0
        \/ /\ raw.source \in Weathers
           /\ AdsCount(raw)
                = Clamp((PinOf(raw.field, raw.source) * 16) \div 3, -32768, 32767) % 65536
    BY <2>1 DEF AdsCount, Readings
  <2> QED
    BY <2>1, <2>2, PinInt DEF Clamp
<1> DEFINE count == AdsCount(raw)
           scaled == (count * 188) \div (IF f = "battery" THEN 500 ELSE 1000)
<1>2. scaled \in Int
  <2> HIDE DEF count
  <2> QED
    BY <1>1 DEF count
<1>3. AdsMillivolts(f, count) = AsUint16(scaled)
  BY DEF AdsMillivolts
<1> HIDE DEF scaled, count
<1> QED
  BY <1>2, <1>3, SixteenBits DEF count

LEMMA ChipKinds ==
    ASSUME gen \in Generations, NEW f \in Fields
    PROVE  /\ Chip(f) \in {"adc", "ads1115", "ads1100", "hih6131", "mpl115a2", "sht1x",
                          "bmp180", "bme280"}
           /\ Chip(f) = "hih6131" => f \in {"humidity", "temperature"}
           /\ Chip(f) = "adc" \/ Chip(f) \in Chips
<1>1. /\ Chip(f) \in {"adc", "ads1115", "ads1100", "hih6131", "mpl115a2", "sht1x",
                      "bmp180", "bme280"}
      /\ Chip(f) = "hih6131" => f \in {"humidity", "temperature"}
  BY DEF Generations, Fields, Chip, ChipOf
<1> QED
  BY <1>1 DEF Chips

LEMMA HihValues ==
    ASSUME NEW f, NEW a, NEW b, Chip(f) = "hih6131"
    PROVE  Values(f, a, b)
             = {IF f = "humidity" THEN HihPercent(b.source) ELSE HihCelsius(b.source)}
  BY Zenon DEF Values

LEMMA AdcTyped ==
    ASSUME NEW f \in Fields, NEW w \in Weathers
    PROVE  Fits(f, AnalogMillivolts(f, w))
<1> DEFINE adc == AnalogRead(PinOf(f, w))
<1>1. adc \in 0 .. 1023
  <2>1. (PinOf(f, w) * 1023) \div 5000 \in Int
    BY PinInt
  <2> QED
    BY <2>1 DEF AnalogRead, Clamp
<1>2. \/ AnalogMillivolts(f, w) = (2 * adc * 5000) \div 1023 + 70
      \/ AnalogMillivolts(f, w) = (2 * adc * 5000) \div 1023
      \/ AnalogMillivolts(f, w) = (adc * 5000) \div 1023
  BY DEF AnalogMillivolts
<1> HIDE DEF adc
<1> QED
  BY <1>1, <1>2 DEF Fits

LEMMA Sp215Typed ==
    ASSUME NEW f \in Fields, NEW src \in Readings
    PROVE  Fits(f, Sp215Millivolts(src))
<1>1. Sp215Count(src) \in Nat /\ Sp215Count(src) < 65536
  <2>1. \/ Sp215Count(src) = 555
        \/ Sp215Count(src) = 0
        \/ /\ src \in Weathers
           /\ Sp215Count(src) = ((Real(src).irradiance * 32767) \div 5000) % 65536
    BY DEF Sp215Count, Readings
  <2>2. src \in Weathers => Real(src).irradiance \in Int
    BY PinInt DEF Fields
  <2> QED
    BY <2>1, <2>2
<1> QED
  BY <1>1 DEF Fits, Sp215Millivolts

LEMMA HihTyped ==
    ASSUME NEW f \in Fields, NEW src \in Weathers \union {Blank}
    PROVE  Fits(f, HihPercent(src)) /\ Fits(f, HihCelsius(src))
<1>1. src \in Weathers => /\ Real(src).humidity \in {96, 40, 70}
                         /\ Real(src).temperature \in {-7, 31, 4}
  BY DEF Weathers, Real
<1> QED
  BY <1>1, SixteenBits DEF Fits, HihPercent, HihCelsius

\* Apple's humidity is a percentage or not far from one, whatever two counts it is of.
LEMMA ShtTyped ==
    ASSUME NEW a \in Raws, NEW b \in Raws
    PROVE  LET v == ShtPercent(ShtCount(a), ShtCount(b)) IN v \in Int /\ v \in -300 .. 300
<1> DEFINE Counts == {-1, 3624, 1177, 2306, 3300, 7100, 4400}
<1>1. ASSUME NEW raw \in Raws
      PROVE  ShtCount(raw) \in Counts
  <2>1. raw.source \in Weathers => Real(raw.source).temperature \in {-7, 31, 4}
    BY DEF Weathers, Real
  <2>2. raw.source \notin Weathers => ShtCount(raw) = -1
    BY DEF ShtCount
  <2>3. raw.source \in Weathers /\ raw.field # "humidity" =>
           ShtCount(raw) = (Real(raw.source).temperature + 40) * 100
    BY DEF ShtCount
  <2>4. raw.source \in Weathers /\ raw.field = "humidity" =>
           ShtCount(raw) \in {3624, 1177, 2306}
    BY DEF ShtCount, Weathers
  <2> QED
    BY <2>1, <2>2, <2>3, <2>4
<1>2. ASSUME NEW val \in Counts, NEW temp \in Counts
      PROVE  ShtPercent(val, temp) \in Int /\ ShtPercent(val, temp) \in -300 .. 300
  <2> DEFINE e7 == -40000000 + 405000 * val - 28 * val * val
                   + (temp - 6500) * (1000 + 8 * val)
  <2>1. e7 \in Int /\ -3000000000 <= e7 /\ e7 <= 3000000000
    <3>1. \/ val = -1 \/ val = 3624 \/ val = 1177 \/ val = 2306
          \/ val = 3300 \/ val = 7100 \/ val = 4400
      BY <1>2
    <3>2. temp \in Int /\ temp >= -1 /\ temp <= 7100
      BY <1>2
    <3> QED
      BY <3>1, <3>2
  <2>2. ShtPercent(val, temp) = IF e7 < 0 THEN -((-e7) \div 10000000)
                                ELSE e7 \div 10000000
    BY DEF ShtPercent
  <2> HIDE DEF e7
  <2> QED
    BY <2>1, <2>2
<1> QED
  BY <1>1, <1>2

LEMMA FormulasTyped ==
    ASSUME gen \in Generations, NEW a \in Raws, NEW b \in Raws
    PROVE  /\ \A v \in Pressure(a, b): Fits("pressure", v)
           /\ gen # "cranberry" => \A v \in Temperature(b.source): Fits("temperature", v)
           /\ gen \in {"apple", "guava"} => \A v \in Humidity(a, b): Fits("humidity", v)
<1> DEFINE src == b.source
<1>1. src \in Weathers =>
        /\ Real(src).pressure \in {101325, 100650, 61000}
        /\ Real(src).humidity \in {96, 40, 70}
        /\ Real(src).temperature \in {-7, 31, 4}
  BY DEF Weathers, Real
<1> HIDE DEF src
<1>2. ASSUME NEW v \in Pressure(a, b)
      PROVE  Fits("pressure", v)
  <2>1. \/ v \in {0, 90}
        \/ /\ src \in Weathers /\ a.source \in Weathers
           /\ \/ gen = "apple" /\ v = CompensatedPascals(src, a.source)
              \/ v = AsUint16(Real(src).pressure)
              \/ v = Real(src).pressure \div 1000
    BY DEF Pressure, Nonsense, Measured, src
  <2>2. src \in Weathers /\ a.source \in Weathers =>
           /\ CompensatedPascals(src, a.source) \in Int
           /\ CompensatedPascals(src, a.source) >= 0
    <3>1. \A w, t \in Weathers:
             \/ CompensatedPascals(w, t) = Real(w).pressure /\ w = t
             \/ CompensatedPascals(w, t) \in {92414, 59460, 110345, 64805, 103925, 94787}
      BY DEF CompensatedPascals, Weathers
    <3> QED
      BY <1>1, <3>1
  <2> QED
    BY <1>1, <2>1, <2>2, SixteenBits DEF Fits
<1>3. ASSUME gen # "cranberry", NEW v \in Temperature(src)
      PROVE  Fits("temperature", v)
  <2>1. \/ v \in {0, 90, 1000}
        \/ src \in Weathers /\ v = AsUint16(Real(src).temperature)
    <3>1. gen = "apple" \/ gen = "dragonfruit" \/ gen = "guava"
      BY <1>3 DEF Generations
    <3>2. CASE gen = "apple"
      BY <1>3, <3>2, Zenon DEF Temperature
    <3>3. CASE gen = "dragonfruit"
      BY <1>3, <3>3, Zenon DEF Temperature
    <3>4. CASE gen = "guava"
      <4>1. Temperature(src) = IF src \notin Weathers THEN Nonsense
                               ELSE {AsUint16(Real(src).temperature)}
        BY <3>4, Zenon DEF Temperature
      <4> QED
        BY <1>3, <4>1 DEF Nonsense
    <3> QED
      BY <3>1, <3>2, <3>3, <3>4
  <2> QED
    BY <1>1, <2>1, SixteenBits DEF Fits
<1>4. ASSUME gen \in {"apple", "guava"}, NEW v \in Humidity(a, b)
      PROVE  Fits("humidity", v)
  <2>1. CASE gen = "apple"
    <3>1. v = ShtPercent(ShtCount(a), ShtCount(b))
      BY <1>4, <2>1, Zenon DEF Humidity
    <3> QED
      BY <3>1, ShtTyped DEF Fits
  <2>2. CASE gen = "guava"
    <3>1. v \in IF src \notin Weathers THEN Nonsense ELSE {Real(src).humidity}
      BY <1>4, <2>2, Zenon DEF Humidity, src
    <3> QED
      BY <1>1, <3>1 DEF Fits, Nonsense
  <2> QED
    BY <1>4, <2>1, <2>2
<1> QED
  BY <1>2, <1>3, <1>4 DEF src

\* Whatever a chip holds of whatever was measured, its driver's value fits.
LEMMA ValuesFit ==
    ASSUME gen \in Generations, NEW f \in Fields, NEW a \in Raws, NEW b \in Raws,
           Chip(f) = "adc" => b.source \in Weathers,
           Chip(f) = "hih6131" => b.source # Mute,
           NEW v \in Values(f, a, b)
    PROVE  Fits(f, v)
<1>0. b.source \in Readings
  BY DEF Raws
<1>1. CASE Chip(f) = "adc"
  <2>1. v = AnalogMillivolts(f, b.source)
    BY <1>1, Zenon DEF Values
  <2> QED
    BY <1>1, <2>1, AdcTyped
<1>2. CASE Chip(f) = "ads1115"
  <2>1. v = AdsMillivolts(f, AdsCount(b))
    BY <1>2, Zenon DEF Values
  <2> QED
    BY <2>1, AdsTyped DEF Fits
<1>3. CASE Chip(f) = "ads1100"
  <2>1. v = Sp215Millivolts(b.source)
    BY <1>3, Zenon DEF Values
  <2> QED
    BY <1>0, <2>1, Sp215Typed
<1>4. CASE Chip(f) = "hih6131"
  <2>1. v = HihPercent(b.source) \/ v = HihCelsius(b.source)
    BY <1>4, HihValues
  <2>2. b.source \in Weathers \union {Blank}
    BY <1>0, <1>4 DEF Readings
  <2> QED
    BY <2>1, <2>2, HihTyped
<1>5. CASE Chip(f) \in {"bmp180", "bme280", "mpl115a2", "sht1x"}
  <2>1. /\ f \in {"pressure", "temperature", "humidity"}
        /\ f = "temperature" => gen # "cranberry"
        /\ f = "humidity" => gen \in {"apple", "guava"}
    BY <1>5 DEF Generations, Fields, Chip, ChipOf
  <2>2. CASE f = "pressure"
    <3>1. v \in Pressure(a, b)
      BY <1>5, <2>2, Zenon DEF Values
    <3> QED
      BY <2>2, <3>1, FormulasTyped
  <2>3. CASE f = "temperature"
    <3>1. v \in Temperature(b.source)
      BY <1>5, <2>3, Zenon DEF Values
    <3> QED
      BY <2>1, <2>3, <3>1, FormulasTyped
  <2>4. CASE f = "humidity"
    <3>1. v \in Humidity(a, b)
      BY <1>5, <2>4, Zenon DEF Values
    <3> QED
      BY <2>1, <2>4, <3>1, FormulasTyped
  <2> QED
    BY <2>1, <2>2, <2>3, <2>4
<1> QED
  BY <1>1, <1>2, <1>3, <1>4, <1>5, ChipKinds

-----------------------------------------------------------------------------
(* What a step leaves as it was.                                           *)

\* The chips of a board do not change while it runs.
LEMMA SameBoard ==
    ASSUME gen' = gen
    PROVE  Chips' = Chips /\ Noticed' = Noticed
  BY DEF Chips, Chip, Noticed

\* A step that reads no field: more weathers and more missed chips promise less.
LEMMA KeepsReading ==
    ASSUME SensorsInv, UNCHANGED <<gen, phase, todo, reading, complaints, calibrated, slow>>,
           missed \subseteq missed', seen \subseteq seen'
    PROVE  ReadCurrent' /\ ComplaintsSoFar'
<1>1. /\ \A f: Sound(f)' => Sound(f)
      /\ \A f: ToRead(f)' <=> ToRead(f)
      /\ Passing' <=> Passing
      /\ Read' = Read
  BY DEF Sound, Punctual, ToRead, Chip, Passing, Read
<1>2. ReadCurrent'
  <2> SUFFICES ASSUME Passing', NEW f \in Read', ~ToRead(f)', Sound(f)'
               PROVE  \E w, t \in seen': Tells(f, reading[f], w, t)'
    BY DEF ReadCurrent
  <2>1. PICK w, t \in seen: Tells(f, reading[f], w, t)
    BY <1>1 DEF SensorsInv, ReadCurrent
  <2>2. Tells(f, reading[f], w, t)'
    BY <2>1 DEF Tells
  <2> QED
    BY <2>2
<1>3. ComplaintsSoFar'
  <2> SUFFICES ASSUME phase' = "post"
               PROVE  /\ \A f \in complaints':
                            Sound(f)' => \E w \in seen': OutOfRange(f, w)'
                      /\ \A f \in Noticed':
                            ~ToRead(f)' /\ Sound(f)'
                              /\ (\A w \in seen': OutOfRange(f, w)') => f \in complaints'
    BY DEF ComplaintsSoFar
  <2>1. \A f, w: OutOfRange(f, w)' <=> OutOfRange(f, w)
    BY DEF OutOfRange
  <2>2. ASSUME NEW f \in complaints', Sound(f)'
        PROVE  \E w \in seen': OutOfRange(f, w)'
    BY <1>1, <2>1, <2>2 DEF SensorsInv, ComplaintsSoFar
  <2>3. ASSUME NEW f \in Noticed', ~ToRead(f)', Sound(f)',
               \A w \in seen': OutOfRange(f, w)'
        PROVE  f \in complaints'
    BY <1>1, <2>1, <2>3, SameBoard DEF SensorsInv, ComplaintsSoFar
  <2> QED
    BY <2>2, <2>3
<1> QED
  BY <1>2, <1>3

\* A step that touches neither the request of the driver nor the chips.
LEMMA KeepsServed ==
    ASSUME SensorsInv, UNCHANGED <<gen, todo, step, earlier, slow, conv, reg>>,
           missed \subseteq missed', seen \subseteq seen'
    PROVE  RequestServed'
  BY DEF SensorsInv, RequestServed, Converted, Reads, Asked, First, Last, Punctual, Chip

LEMMA KeepsEarlier ==
    ASSUME SensorsInv, UNCHANGED <<gen, todo, earlier, calibrated, slow>>,
           missed \subseteq missed', seen \subseteq seen'
    PROVE  EarlierHeld'
  BY DEF SensorsInv, EarlierHeld, TwoRounds, First, Last, Sound, Punctual, Chip

LEMMA KeepsOut ==
    ASSUME SensorsInv, UNCHANGED <<gen, phase, todo>>,
           InService \subseteq InService', missed \subseteq missed'
    PROVE  OutNoticed'
  BY SameBoard DEF SensorsInv, OutNoticed, Passing

LEMMA KeepsPolls ==
    ASSUME SensorsInv, UNCHANGED <<step, tries>>
    PROVE  PollsLeft'
  BY DEF SensorsInv, PollsLeft

LEMMA KeepsHeld ==
    ASSUME SensorsInv, UNCHANGED <<gen, reading, held>>
    PROVE  HeldReturned'
  BY DEF SensorsInv, HeldReturned, Chip

LEMMA KeepsReadings ==
    ASSUME SensorsInv, UNCHANGED <<gen, reading, held>>
    PROVE  ReadingTypes'
  BY DEF SensorsInv, TypeOK, ReadingTypes, Fits

-----------------------------------------------------------------------------
(* The first state, and what goes on around the program.                   *)

LEMMA InitInv == Init => SensorsInv
<1> SUFFICES ASSUME Init PROVE SensorsInv
  OBVIOUS
<1> USE DEF Init
<1>1. TypeOK
  <2>1. DriverTypes
    BY BoundsAssumption DEF DriverTypes
  <2>2. ReadingTypes
    BY DEF ReadingTypes, Fits
  <2>3. ChipTypes
    BY DEF ChipTypes, Fields
  <2>4. WeatherTypes /\ CountTypes
    BY BoundsAssumption DEF WeatherTypes, CountTypes
  <2> QED
    BY <2>1, <2>2, <2>3, <2>4 DEF TypeOK
<1>2. OutNoticed /\ RequestServed /\ EarlierHeld /\ PollsLeft
  BY DEF OutNoticed, Passing, RequestServed, EarlierHeld, PollsLeft, Reads
<1>3. HeldReturned
  <2>1. HihPercent(Blank) = 1 /\ HihCelsius(Blank) = 1
    BY DEF HihPercent, HihCelsius, AsUint16
  <2> QED
    BY <2>1 DEF HeldReturned
<1>4. ReadCurrent /\ ComplaintsSoFar
  BY DEF ReadCurrent, ComplaintsSoFar, Passing
<1> QED
  BY <1>1, <1>2, <1>3, <1>4 DEF SensorsInv

LEMMA WeatherStep == SensorsInv /\ ChangeWeather => SensorsInv'
<1> SUFFICES ASSUME SensorsInv, ChangeWeather PROVE SensorsInv'
  OBVIOUS
<1>1. /\ UNCHANGED <<gen, driver, up, slow, conv, reg, missed, passes>>
      /\ seen \subseteq seen'
  BY DEF ChangeWeather
<1>2. TypeOK'
  <2>1. DriverTypes'
    BY <1>1 DEF driver, SensorsInv, TypeOK, DriverTypes
  <2>2. ChipTypes'
    BY <1>1, SameBoard DEF SensorsInv, TypeOK, ChipTypes
  <2>3. WeatherTypes' /\ CountTypes'
    BY BoundsAssumption DEF ChangeWeather, SensorsInv, TypeOK, WeatherTypes, CountTypes
  <2>4. gen' \in Generations
    BY <1>1 DEF SensorsInv, TypeOK
  <2> QED
    BY <1>1, <2>1, <2>2, <2>3, <2>4, KeepsReadings DEF driver, TypeOK
<1>3. OutNoticed'
  BY <1>1, KeepsOut DEF driver, InService
<1> QED
  BY <1>1, <1>2, <1>3, KeepsServed, KeepsEarlier, KeepsPolls, KeepsHeld, KeepsReading
  DEF driver, SensorsInv

LEMMA FailStep == SensorsInv /\ Fail => SensorsInv'
<1> SUFFICES ASSUME SensorsInv, Fail PROVE SensorsInv'
  OBVIOUS
<1>1. PICK c \in up:
         /\ up' = up \ {c}
         /\ missed' = missed \union {c}
         /\ conv' = [conv EXCEPT ![c] = "idle"]
         /\ reg' = [reg EXCEPT ![c].source = Blank]
  BY DEF Fail
<1>2. UNCHANGED <<gen, driver, weather, slow, seen, passes>>
  BY DEF Fail
<1>3. TypeOK'
  <2>1. DriverTypes' /\ WeatherTypes' /\ gen' \in Generations
    BY <1>2 DEF driver, SensorsInv, TypeOK, DriverTypes, WeatherTypes
  <2>2. ChipTypes'
    BY <1>1, <1>2, SameBoard DEF SensorsInv, TypeOK, ChipTypes
  <2>3. CountTypes'
    BY BoundsAssumption DEF Fail, SensorsInv, TypeOK, CountTypes
  <2> QED
    BY <1>2, <2>1, <2>2, <2>3, KeepsReadings DEF driver, TypeOK
<1>4. OutNoticed'
  <2>1. InService \ {c} \subseteq InService'
    BY <1>1, <1>2 DEF InService, SensorsInv, TypeOK, ChipTypes
  <2> QED
    BY <1>1, <1>2, <2>1, SameBoard DEF driver, SensorsInv, OutNoticed, Passing
<1>5. RequestServed'
  <2>1. \A d \in Chips: d \notin missed' => conv'[d] = conv[d] /\ reg'[d] = reg[d]
    BY <1>1 DEF SensorsInv, TypeOK, ChipTypes
  <2>2. Reads(Converters) => Chip(Head(todo)) \in Chips
    <3>1. todo # <<>> => Head(todo) \in Fields
      BY DEF SensorsInv, TypeOK, DriverTypes
    <3> QED
      BY <3>1, ChipKinds DEF Reads, Converters, SensorsInv, TypeOK
  <2> QED
    BY <1>1, <1>2, <2>1, <2>2
    DEF driver, SensorsInv, RequestServed, Converted, Reads, Asked, First, Last, Punctual,
        Chip
<1> QED
  BY <1>1, <1>2, <1>3, <1>4, <1>5, KeepsEarlier, KeepsPolls, KeepsHeld, KeepsReading
  DEF driver, SensorsInv

LEMMA RepairStep == SensorsInv /\ Repair => SensorsInv'
<1> SUFFICES ASSUME SensorsInv, Repair PROVE SensorsInv'
  OBVIOUS
<1>1. UNCHANGED <<gen, driver, weather, slow, reg, seen, missed, passes>>
  BY DEF Repair
<1>2. PICK c \in Chips \ up:
         /\ up' = up \union {c}
         /\ conv' = IF c = "ads1100" THEN [conv EXCEPT ![c] = "first"] ELSE conv
  BY DEF Repair
<1>3. TypeOK'
  <2>1. DriverTypes' /\ WeatherTypes' /\ gen' \in Generations
    BY <1>1 DEF driver, SensorsInv, TypeOK, DriverTypes, WeatherTypes
  <2>2. ChipTypes'
    BY <1>1, <1>2, SameBoard DEF SensorsInv, TypeOK, ChipTypes
  <2>3. CountTypes'
    BY BoundsAssumption DEF Repair, SensorsInv, TypeOK, CountTypes
  <2> QED
    BY <1>1, <2>1, <2>2, <2>3, KeepsReadings DEF driver, TypeOK
<1>4. OutNoticed'
  <2>1. InService \subseteq InService'
    BY <1>2 DEF InService, SensorsInv, TypeOK, ChipTypes
  <2> QED
    BY <1>1, <2>1, KeepsOut DEF driver
<1>5. RequestServed'
  <2>1. Reads(Converters) => Chip(Head(todo)) # "ads1100"
    BY DEF Reads, Converters
  <2>2. \A d \in Chips \ {"ads1100"}: conv'[d] = conv[d]
    BY <1>2 DEF SensorsInv, TypeOK, ChipTypes
  <2>3. Reads(Converters) => Chip(Head(todo)) \in Chips
    <3>1. todo # <<>> => Head(todo) \in Fields
      BY DEF SensorsInv, TypeOK, DriverTypes
    <3> QED
      BY <3>1, ChipKinds DEF Reads, Converters, SensorsInv, TypeOK
  <2> QED
    BY <1>1, <2>1, <2>2, <2>3
    DEF driver, SensorsInv, RequestServed, Converted, Reads, Asked, First, Last, Punctual,
        Chip
<1> QED
  BY <1>1, <1>3, <1>4, <1>5, KeepsEarlier, KeepsPolls, KeepsHeld, KeepsReading
  DEF driver, SensorsInv

LEMMA ConvertStep == SensorsInv /\ Convert => SensorsInv'
<1> SUFFICES ASSUME SensorsInv, Convert PROVE SensorsInv'
  OBVIOUS
<1>1. PICK c \in up:
         \/ /\ conv[c] \in Fields
            /\ conv' = [conv EXCEPT ![c] = "ready"]
            /\ reg' = [reg EXCEPT ![c] = [field |-> conv[c], source |-> weather]]
         \/ /\ conv[c] = "first"
            /\ conv' = [conv EXCEPT ![c] = "running"]
            /\ reg' = reg
  BY DEF Convert, Converting
<1>2. UNCHANGED <<gen, driver, weather, up, slow, seen, missed, passes, events>>
  BY DEF Convert
<1>3. /\ "ready" \notin Fields /\ "running" \notin Fields /\ "first" \notin Fields
      /\ weather \in seen /\ weather \in Weathers
  BY DEF Fields, SensorsInv, TypeOK, WeatherTypes
<1>4. TypeOK'
  <2>1. DriverTypes' /\ WeatherTypes' /\ CountTypes' /\ gen' \in Generations
    BY <1>2 DEF driver, SensorsInv, TypeOK, DriverTypes, WeatherTypes, CountTypes
  <2>2. ChipTypes'
    BY <1>1, <1>2, <1>3, SameBoard DEF SensorsInv, TypeOK, ChipTypes
  <2> QED
    BY <1>2, <2>1, <2>2, KeepsReadings DEF driver, TypeOK
<1>5. OutNoticed'
  <2>1. InService \subseteq InService'
    BY <1>1, <1>2, <1>3 DEF InService, SensorsInv, TypeOK, ChipTypes
  <2> QED
    BY <1>2, <2>1, KeepsOut DEF driver
<1>6. RequestServed'
  <2> DEFINE f == Asked
             d == Chip(Head(todo))
  <2>1. /\ Asked' = Asked /\ Chip(Head(todo))' = d
        /\ Reads(Converters)' <=> Reads(Converters)
        /\ Punctual(d)' <=> Punctual(d)
    BY <1>2 DEF driver, Reads, Asked, First, Last, Punctual, Chip
  <2> DEFINE Has == conv'[d] = "ready" /\ reg'[d].field = f /\ reg'[d].source \in seen
  <2> SUFFICES ASSUME Reads(Converters), d \notin missed, Punctual(d)
               PROVE  /\ step = "delay" => conv'[d] = f \/ Has
                      /\ step = "fetch" => Has
    BY <1>2, <2>1 DEF driver, RequestServed, Converted
  <2>2. d \in Chips /\ f \in Fields
    <3>1. Head(todo) \in Fields
      BY DEF Reads, SensorsInv, TypeOK, DriverTypes
    <3> QED
      BY <3>1, ChipKinds, Rounds DEF Reads, Converters, SensorsInv, TypeOK, Asked
  <2>3. /\ step = "delay" => conv[d] = f \/ Converted(d, f)
        /\ step = "fetch" => Converted(d, f)
    BY DEF SensorsInv, RequestServed
  <2> HIDE DEF f, d
  <2>4. CASE c # d
    <3>1. conv'[d] = conv[d] /\ reg'[d] = reg[d]
      BY <1>1, <2>2, <2>4 DEF SensorsInv, TypeOK, ChipTypes
    <3> QED
      BY <1>2, <2>1, <2>3, <3>1 DEF Converted
  <2>5. CASE c = d
    <3>1. step # "fetch" /\ (step = "delay" => conv[d] = f)
      BY <1>1, <1>3, <2>3, <2>5 DEF Converted
    <3>2. step = "delay" => /\ conv'[d] = "ready"
                            /\ reg'[d] = [field |-> f, source |-> weather]
      BY <1>1, <1>3, <2>2, <2>5, <3>1 DEF SensorsInv, TypeOK, ChipTypes
    <3> QED
      BY <1>2, <1>3, <2>1, <3>1, <3>2 DEF Converted
  <2> QED
    BY <2>4, <2>5
<1> QED
  BY <1>2, <1>4, <1>5, <1>6, KeepsEarlier, KeepsPolls, KeepsHeld, KeepsReading
  DEF driver, SensorsInv

-----------------------------------------------------------------------------
(* A pass.                                                                 *)

LEMMA SetupStep == SensorsInv /\ Setup => SensorsInv'
<1> SUFFICES ASSUME SensorsInv, Setup PROVE SensorsInv'
  OBVIOUS
<1>1. /\ UNCHANGED <<gen, todo, step, earlier, reading, complaints, held, tries, weather,
                     up, slow, reg, seen, missed, passes, events>>
      /\ phase = "setup" /\ phase' = "idle" /\ calibrated' = Trimmed \intersect up
      /\ conv' = [c \in Chips |-> IF c = "bme280" /\ c \in up THEN "first" ELSE conv[c]]
  BY DEF Setup
<1>2. todo = <<>> /\ earlier = None
  BY <1>1 DEF SensorsInv, OutNoticed, EarlierHeld, Passing
<1>3. TypeOK'
  <2>1. DriverTypes' /\ WeatherTypes' /\ CountTypes' /\ gen' \in Generations
    BY <1>1 DEF SensorsInv, TypeOK, DriverTypes, WeatherTypes, CountTypes
  <2>2. ChipTypes'
    BY <1>1, SameBoard DEF SensorsInv, TypeOK, ChipTypes
  <2> QED
    BY <1>1, <2>1, <2>2, KeepsReadings DEF TypeOK
<1>4. OutNoticed' /\ RequestServed' /\ EarlierHeld'
  BY <1>1, <1>2 DEF OutNoticed, RequestServed, EarlierHeld, Passing, Reads
<1>5. ReadCurrent' /\ ComplaintsSoFar'
  BY <1>1 DEF ReadCurrent, ComplaintsSoFar, Passing
<1> QED
  BY <1>1, <1>3, <1>4, <1>5, KeepsPolls, KeepsHeld DEF SensorsInv

\* Every field that a pass reads is in its order.
LEMMA Orders ==
    ASSUME gen \in Generations, NEW kind \in {"post", "sample", "heartbeat"}
    PROVE  /\ Order(kind) \in Seq(Fields)
           /\ \A f \in (IF kind = "heartbeat" THEN {"battery"} ELSE Fields):
                 \E k \in 1 .. Len(Order(kind)): Order(kind)[k] = f
<1>1. CASE kind = "heartbeat"
  <2>1. Order(kind) = <<"battery">>
    BY <1>1, Zenon DEF Order
  <2>2. <<"battery">> \in Seq(Fields) /\ Len(<<"battery">>) = 1
    BY DEF Fields
  <2>3. <<"battery">>[1] = "battery"
    OBVIOUS
  <2>4. \E k \in 1 .. Len(Order(kind)): Order(kind)[k] = "battery"
    BY <2>1, <2>2, <2>3
  <2> QED
    BY <1>1, <2>1, <2>2, <2>4
<1>2. ASSUME NEW order, NEW a, NEW b, NEW c, NEW d, NEW e, NEW g,
             order = <<a, b, c, d, e, g>>, Fields = {a, b, c, d, e, g}
      PROVE  /\ order \in Seq(Fields)
             /\ \A f \in Fields: \E k \in 1 .. Len(order): order[k] = f
  <2>1. Len(order) = 6 /\ order \in Seq(Fields)
    BY <1>2
  <2>2. /\ order[1] = a /\ order[2] = b /\ order[3] = c
        /\ order[4] = d /\ order[5] = e /\ order[6] = g
    BY <1>2
  <2> QED
    BY <1>2, <2>1, <2>2
<1>3. CASE kind # "heartbeat"
  <2>1. \/ Order(kind) = <<"battery", "panel", "pressure", "temperature", "humidity",
                           "irradiance">>
        \/ Order(kind) = <<"battery", "panel", "irradiance", "temperature", "humidity",
                           "pressure">>
        \/ Order(kind) = <<"humidity", "pressure", "temperature", "irradiance",
                           "battery", "panel">>
        \/ Order(kind) = <<"temperature", "humidity", "pressure", "irradiance",
                           "battery", "panel">>
    <3>1. CASE kind = "sample"
      BY <3>1, Zenon DEF Order, SampleOrder, Generations
    <3>2. CASE kind = "post"
      BY <3>2, Zenon DEF Order, PostOrder, Generations
    <3> QED
      BY <1>3, <3>1, <3>2
  <2>2. /\ Order(kind) \in Seq(Fields)
        /\ \A f \in Fields: \E k \in 1 .. Len(Order(kind)): Order(kind)[k] = f
    BY <1>2, <2>1 DEF Fields
  <2> QED
    BY <1>3, <2>2
<1> QED
  BY <1>1, <1>3

LEMMA BeginStep == SensorsInv /\ Begin => SensorsInv'
<1> SUFFICES ASSUME SensorsInv, Begin PROVE SensorsInv'
  OBVIOUS
<1>1. /\ passes < MaxPasses /\ passes' = passes + 1
      /\ phase' \in {"post", "sample", "heartbeat"}
      /\ todo' = Order(phase') /\ step' = "request" /\ earlier' = None
      /\ complaints' = {}
      /\ seen' = {weather} /\ missed' = Chips \ InService
      /\ UNCHANGED <<gen, reading, held, calibrated, tries, weather, up, slow, conv,
                     reg, events>>
  BY DEF Begin, world
<1>2. gen \in Generations
  BY DEF SensorsInv, TypeOK
<1>3. TypeOK'
  <2>1. todo' \in Seq(Fields)
    BY <1>1, <1>2, Orders
  <2>2. DriverTypes'
    BY <1>1, <2>1 DEF SensorsInv, TypeOK, DriverTypes
  <2>3. ChipTypes'
    BY <1>1, SameBoard DEF SensorsInv, TypeOK, ChipTypes
  <2>4. WeatherTypes' /\ CountTypes'
    BY <1>1, BoundsAssumption DEF SensorsInv, TypeOK, WeatherTypes, CountTypes
  <2> QED
    BY <1>1, <1>2, <2>2, <2>3, <2>4, KeepsReadings DEF TypeOK
<1>4. OutNoticed'
  <2>1. InService' = InService /\ Chips' = Chips
    BY <1>1, SameBoard DEF InService
  <2> QED
    BY <1>1, <2>1 DEF OutNoticed, Passing
<1>5. RequestServed' /\ EarlierHeld' /\ PollsLeft'
  BY <1>1 DEF RequestServed, EarlierHeld, PollsLeft
<1>6. ReadCurrent' /\ ComplaintsSoFar'
  <2>1. \A f \in Read': ToRead(f)'
    BY <1>1, <1>2, Orders DEF Read, ToRead
  <2>2. phase' = "post" => Noticed' \subseteq Read'
    BY DEF Noticed, Read, Fields
  <2>3. ReadCurrent'
    BY <2>1 DEF ReadCurrent
  <2>4. ComplaintsSoFar'
    BY <1>1, <2>1, <2>2 DEF ComplaintsSoFar
  <2> QED
    BY <2>3, <2>4
<1> QED
  BY <1>1, <1>3, <1>4, <1>5, <1>6, KeepsHeld DEF SensorsInv

LEMMA EndStep == SensorsInv /\ End => SensorsInv'
<1> SUFFICES ASSUME SensorsInv, End PROVE SensorsInv'
  OBVIOUS
<1>1. /\ UNCHANGED <<gen, todo, step, earlier, reading, complaints, held, calibrated,
                     tries, weather, up, slow, conv, reg, seen, missed, passes, events>>
      /\ phase' = "idle" /\ todo = <<>>
  BY DEF End, world
<1>2. TypeOK'
  <2>1. DriverTypes' /\ WeatherTypes' /\ CountTypes' /\ gen' \in Generations
    BY <1>1 DEF SensorsInv, TypeOK, DriverTypes, WeatherTypes, CountTypes
  <2>2. ChipTypes'
    BY <1>1, SameBoard DEF SensorsInv, TypeOK, ChipTypes
  <2> QED
    BY <1>1, <2>1, <2>2, KeepsReadings DEF TypeOK
<1>3. OutNoticed'
  BY <1>1 DEF OutNoticed, Passing
<1>4. ReadCurrent' /\ ComplaintsSoFar'
  BY <1>1 DEF ReadCurrent, ComplaintsSoFar, Passing
<1> QED
  BY <1>1, <1>2, <1>3, <1>4, KeepsServed, KeepsEarlier, KeepsPolls, KeepsHeld
  DEF SensorsInv

-----------------------------------------------------------------------------
(* A request, a delay, a fetch.                                            *)

LEMMA FirstToRead ==
    ASSUME SensorsInv, todo # <<>>
    PROVE  /\ Head(todo) \in Fields /\ gen \in Generations
           /\ Chip(Head(todo)) = "adc" \/ Chip(Head(todo)) \in Chips
  BY ChipKinds DEF SensorsInv, TypeOK, DriverTypes

LEMMA RequestStep == SensorsInv /\ Request => SensorsInv'
<1> SUFFICES ASSUME SensorsInv, Request PROVE SensorsInv'
  OBVIOUS
<1> DEFINE c == Chip(Head(todo))
<1>1. /\ UNCHANGED <<gen, phase, todo, earlier, reading, complaints, held, calibrated,
                     weather, up, slow, reg, seen, missed, passes, events>>
      /\ step' = "delay" /\ tries' = 0
      /\ conv' = IF c \in up THEN [conv EXCEPT ![c] = Asked] ELSE conv
      /\ todo # <<>> /\ c \in Converters
  BY DEF Request, Reads
<1>2. /\ Head(todo) \in Fields /\ c \in Chips /\ Asked \in Fields
      /\ Asked' = Asked
  BY <1>1, FirstToRead, Rounds DEF Converters, Asked, First, Last, Chip
<1>3. TypeOK'
  <2>1. DriverTypes' /\ WeatherTypes' /\ CountTypes' /\ gen' \in Generations
    BY <1>1, BoundsAssumption
    DEF SensorsInv, TypeOK, DriverTypes, WeatherTypes, CountTypes
  <2>2. ChipTypes'
    BY <1>1, <1>2, SameBoard DEF SensorsInv, TypeOK, ChipTypes
  <2> QED
    BY <1>1, <2>1, <2>2, KeepsReadings DEF TypeOK
<1>4. OutNoticed'
  <2>1. c \notin SelfTimed
    BY <1>1 DEF Converters, SelfTimed
  <2>2. InService \subseteq InService'
    BY <1>1, <1>2, <2>1 DEF InService, SensorsInv, TypeOK, ChipTypes
  <2> QED
    BY <1>1, <2>2, KeepsOut
<1>5. RequestServed'
  <2>1. c \notin missed => conv'[c] = Asked
    <3>1. Passing
      BY <1>1 DEF SensorsInv, OutNoticed
    <3>2. c \notin missed => c \in up
      BY <1>2, <3>1 DEF SensorsInv, OutNoticed, InService
    <3> QED
      BY <1>1, <1>2, <3>2 DEF SensorsInv, TypeOK, ChipTypes
  <2> QED
    BY <1>1, <1>2, <2>1 DEF RequestServed, Chip
<1>6. PollsLeft'
  BY <1>1, BoundsAssumption DEF PollsLeft
<1> QED
  BY <1>1, <1>3, <1>4, <1>5, <1>6, KeepsEarlier, KeepsHeld, KeepsReading DEF SensorsInv

\* A punctual chip that was in service throughout the pass and converts no longer has
\* converted what its driver asked for.
LEMMA DelayServed ==
    ASSUME SensorsInv, Reads(Converters), step = "delay",
           ~Converting(Chip(Head(todo))) \/ conv[Chip(Head(todo))] = "ready",
           Chip(Head(todo)) \notin missed, Punctual(Chip(Head(todo)))
    PROVE  Converted(Chip(Head(todo)), Asked)
<1> DEFINE c == Chip(Head(todo))
<1>1. Asked \in Fields /\ c \in Chips /\ Passing
  BY FirstToRead, Rounds DEF Converters, Reads, Asked, SensorsInv, OutNoticed
<1>2. c \in up
  BY <1>1 DEF SensorsInv, OutNoticed, InService
<1>3. conv[c] # Asked
  BY <1>1, <1>2 DEF Converting, Fields
<1>4. conv[c] = Asked \/ Converted(c, Asked)
  BY DEF SensorsInv, RequestServed
<1> QED
  BY <1>3, <1>4

LEMMA DelayStep == SensorsInv /\ Delay => SensorsInv'
<1> SUFFICES ASSUME SensorsInv, Delay PROVE SensorsInv'
  OBVIOUS
<1>1. /\ UNCHANGED <<gen, phase, todo, earlier, reading, complaints, held, calibrated,
                     tries, weather, up, slow, conv, reg, seen, missed, passes, events>>
      /\ step = "delay" /\ step' = "fetch" /\ Reads(Converters)
      /\ Punctual(Chip(Head(todo))) => ~Converting(Chip(Head(todo)))
  BY DEF Delay, world, Reads
<1>2. TypeOK'
  <2>1. DriverTypes' /\ WeatherTypes' /\ CountTypes' /\ gen' \in Generations
    BY <1>1 DEF SensorsInv, TypeOK, DriverTypes, WeatherTypes, CountTypes
  <2>2. ChipTypes'
    BY <1>1, SameBoard DEF SensorsInv, TypeOK, ChipTypes
  <2> QED
    BY <1>1, <2>1, <2>2, KeepsReadings DEF TypeOK
<1>3. OutNoticed'
  BY <1>1, KeepsOut DEF InService
<1>4. RequestServed'
  BY <1>1, DelayServed
  DEF RequestServed, Converted, Asked, First, Last, Punctual, Chip
<1>5. PollsLeft'
  BY <1>1 DEF PollsLeft
<1> QED
  BY <1>1, <1>2, <1>3, <1>4, <1>5, KeepsEarlier, KeepsHeld, KeepsReading DEF SensorsInv

LEMMA PollStep == SensorsInv /\ Poll => SensorsInv'
<1> SUFFICES ASSUME SensorsInv, Poll PROVE SensorsInv'
  OBVIOUS
<1>1. /\ UNCHANGED <<gen, phase, todo, earlier, reading, complaints, held, calibrated,
                     weather, up, slow, conv, reg, seen, missed, passes, events>>
      /\ step = "delay" /\ step' \in {"delay", "fetch"} /\ Reads(Converters)
      /\ tries' = tries + 1 /\ Chip(Head(todo)) = "sht1x"
      /\ step' = "fetch" => \/ ~Converting(Chip(Head(todo)))
                            \/ conv[Chip(Head(todo))] = "ready"
      /\ tries' = MaxTries => step' = "fetch"
  BY DEF Poll, world, Reads, Converters
<1>2. TypeOK'
  <2>1. DriverTypes' /\ WeatherTypes' /\ CountTypes' /\ gen' \in Generations
    BY <1>1, BoundsAssumption
    DEF SensorsInv, PollsLeft, TypeOK, DriverTypes, WeatherTypes, CountTypes
  <2>2. ChipTypes'
    BY <1>1, SameBoard DEF SensorsInv, TypeOK, ChipTypes
  <2> QED
    BY <1>1, <2>1, <2>2, KeepsReadings DEF TypeOK
<1>3. OutNoticed'
  BY <1>1, KeepsOut DEF InService
<1>4. RequestServed'
  <2>1. CASE step' = "delay"
    BY <1>1, <2>1
    DEF SensorsInv, RequestServed, Converted, Asked, First, Last, Punctual, Chip, Reads
  <2>2. CASE step' = "fetch"
    BY <1>1, <2>2, DelayServed
    DEF RequestServed, Converted, Asked, First, Last, Punctual, Chip
  <2> QED
    BY <1>1, <2>1, <2>2
<1>5. PollsLeft'
  BY <1>1, <1>2, BoundsAssumption DEF PollsLeft, TypeOK, DriverTypes
<1> QED
  BY <1>1, <1>2, <1>3, <1>4, <1>5, KeepsEarlier, KeepsHeld, KeepsReading DEF SensorsInv

\* What a sound chip brings at a fetch is what its driver asked for.
LEMMA FetchedServed ==
    ASSUME SensorsInv, Reads(Converters), step = "fetch", Sound(Head(todo))
    PROVE  /\ Chip(Head(todo)) \in up
           /\ Converted(Chip(Head(todo)), Asked)
           /\ \E w \in seen: Fetched(Chip(Head(todo))) = Brought(Asked, w)
<1> DEFINE c == Chip(Head(todo))
<1>1. c \in Chips /\ c # "adc" /\ Passing
  BY FirstToRead DEF Converters, Reads, SensorsInv, OutNoticed
<1>2. c \notin missed /\ (c \in Trimmed => c \in calibrated) /\ Punctual(c)
  BY <1>1 DEF Sound
<1>3. c \in up
  BY <1>1, <1>2 DEF SensorsInv, OutNoticed, InService
<1>4. Converted(c, Asked)
  BY <1>2 DEF SensorsInv, RequestServed
<1>5. Fetched(c) = Brought(Asked, reg[c].source)
  BY <1>2, <1>3, <1>4 DEF Converted, Fetched, Brought
<1> QED
  BY <1>3, <1>4, <1>5 DEF Converted

\* Whatever it brings is typed.
LEMMA FetchedTyped ==
    ASSUME SensorsInv, NEW c \in Chips
    PROVE  /\ Fetched(c) \in Raws
           /\ Emptied(c) \in [Chips -> Fields \union {"idle", "ready", "first", "running"}]
           /\ \A d \in Chips: conv[d] = "running" => Emptied(c)[d] = "running"
<1>1. /\ reg[c].field \in Fields /\ reg[c].source \in Weathers \union {Blank}
      /\ conv \in [Chips -> Fields \union {"idle", "ready", "first", "running"}]
  BY DEF SensorsInv, TypeOK, ChipTypes
<1> QED
  BY <1>1 DEF Fetched, Emptied, Raws, Readings

LEMMA FetchFirstStep == SensorsInv /\ FetchFirst => SensorsInv'
<1> SUFFICES ASSUME SensorsInv, FetchFirst PROVE SensorsInv'
  OBVIOUS
<1> DEFINE f == Head(todo)
           c == Chip(f)
<1>1. /\ UNCHANGED <<gen, phase, todo, reading, complaints, held, calibrated, tries,
                     weather, up, slow, reg, seen, missed, passes, events>>
      /\ Reads(Converters) /\ todo # <<>> /\ c # "adc" /\ TwoRounds(f)
      /\ step = "fetch" /\ step' = "request"
      /\ earlier = None /\ earlier' = Fetched(c) /\ conv' = Emptied(c)
  BY DEF FetchFirst, Reads, Converters
<1>2. f \in Fields /\ c \in Chips /\ gen \in Generations
  BY <1>1, FirstToRead
<1>3. TypeOK'
  <2>1. DriverTypes' /\ WeatherTypes' /\ CountTypes' /\ gen' \in Generations
    BY <1>1, <1>2, FetchedTyped
    DEF SensorsInv, TypeOK, DriverTypes, WeatherTypes, CountTypes
  <2>2. ChipTypes'
    BY <1>1, <1>2, FetchedTyped, SameBoard DEF SensorsInv, TypeOK, ChipTypes
  <2> QED
    BY <1>1, <2>1, <2>2, KeepsReadings DEF TypeOK
<1>4. OutNoticed'
  <2>1. InService \subseteq InService'
    BY <1>1, <1>2, FetchedTyped DEF InService, SensorsInv, TypeOK, ChipTypes
  <2> QED
    BY <1>1, <2>1, KeepsOut
<1>5. RequestServed' /\ PollsLeft'
  BY <1>1 DEF RequestServed, PollsLeft
<1>6. EarlierHeld'
  <2>1. Asked = First(f)
    BY <1>1 DEF Asked
  <2>2. /\ Sound(f)' <=> Sound(f)
        /\ TwoRounds(f)' /\ First(f)' = First(f)
    BY <1>1 DEF Sound, Punctual, TwoRounds, First, Last, Chip
  <2>3. Sound(f) => earlier'.field = First(f) /\ earlier'.source \in seen
    BY <1>1, <2>1, FetchedServed DEF Brought
  <2> QED
    BY <1>1, <2>2, <2>3 DEF EarlierHeld
<1> QED
  BY <1>1, <1>3, <1>4, <1>5, <1>6, KeepsHeld, KeepsReading DEF SensorsInv

-----------------------------------------------------------------------------
(* A driver returns.                                                       *)

\* The field just read is current, and complained about as it should be, if its
\* driver returned what a weather of this pass looks like.
LEMMA ReturnTells ==
    ASSUME SensorsInv, todo # <<>>, NEW v, Return(v),
           UNCHANGED <<gen, phase, calibrated, slow, seen, missed>>,
           Sound(Head(todo)) =>
               \E x, y \in seen:
                   /\ TwoRounds(Head(todo)) \/ x = y
                   /\ v \in Values(Head(todo), Brought(First(Head(todo)), x),
                                   Brought(Last(Head(todo)), y))
    PROVE  ReadCurrent' /\ ComplaintsSoFar'
<1> DEFINE f == Head(todo)
<1>1. /\ f \in Fields /\ gen \in Generations /\ todo \in Seq(Fields)
      /\ reading \in [Fields -> Int] /\ seen \subseteq Weathers
  BY FirstToRead DEF SensorsInv, TypeOK, DriverTypes, ReadingTypes, WeatherTypes
<1>2. ASSUME NEW g, ToRead(g), g # f
      PROVE  ToRead(g)'
  <2>1. PICK k \in 1 .. Len(todo): todo[k] = g
    BY <1>2 DEF ToRead
  <2>2. k # 1 /\ k - 1 \in 1 .. Len(Tail(todo)) /\ Tail(todo)[k - 1] = g
    BY <1>1, <1>2, <2>1
  <2> QED
    BY <2>2 DEF ToRead, Return
<1>3. \A g: Sound(g)' <=> Sound(g)
  BY DEF Sound, Punctual, Chip
<1>4. Sound(f) => \E w, t \in seen: Truthful(f, v, w, t)
  <2> SUFFICES ASSUME Sound(f) PROVE \E w, t \in seen: Truthful(f, v, w, t)
    OBVIOUS
  <2>1. PICK x \in seen, y \in seen:
           /\ TwoRounds(f) \/ x = y
           /\ v \in Values(f, Brought(First(f), x), Brought(Last(f), y))
    OBVIOUS
  <2>2. Truthful(f, v, x, y) \/ Truthful(f, v, y, x)
    BY <1>1, <2>1, DriversTell
  <2> QED
    BY <2>2
<1>5. ReadCurrent'
  <2> SUFFICES ASSUME Passing', NEW g \in Read', ~ToRead(g)', Sound(g)'
               PROVE  \E w, t \in seen': Tells(g, reading[g], w, t)'
    BY DEF ReadCurrent
  <2>1. Passing /\ g \in Read /\ Sound(g) /\ g \in Fields
    BY <1>3 DEF Passing, Read, Fields
  <2>2. CASE g = f
    <3>1. reading'[g] = v
      BY <1>1, <2>2 DEF Return
    <3>2. PICK w, t \in seen: Tells(g, v, w, t)
      BY <1>4, <2>1, <2>2 DEF Truthful
    <3>3. Tells(g, reading[g], w, t)'
      BY <3>1, <3>2 DEF Tells
    <3> QED
      BY <3>3
  <2>3. CASE g # f
    <3>1. reading'[g] = reading[g]
      BY <1>1, <2>1, <2>3 DEF Return
    <3>2. PICK w, t \in seen: Tells(g, reading[g], w, t)
      BY <1>2, <2>1, <2>3 DEF SensorsInv, ReadCurrent
    <3>3. Tells(g, reading[g], w, t)'
      BY <3>1, <3>2 DEF Tells
    <3> QED
      BY <3>3
  <2> QED
    BY <2>2, <2>3
<1>6. ComplaintsSoFar'
  <2>1. \A g, w: OutOfRange(g, w)' <=> OutOfRange(g, w)
    BY DEF OutOfRange
  <2> SUFFICES ASSUME phase = "post"
               PROVE  /\ \A g \in complaints':
                            Sound(g) => \E w \in seen: OutOfRange(g, w)
                      /\ \A g \in Noticed:
                            ~ToRead(g)' /\ Sound(g)
                              /\ (\A w \in seen: OutOfRange(g, w)) => g \in complaints'
    BY <1>3, <2>1, SameBoard DEF ComplaintsSoFar
  <2>2. complaints' = IF Complains(f, v) THEN complaints \union {f} ELSE complaints
    BY DEF Return
  <2>3. ASSUME NEW g \in complaints', Sound(g)
        PROVE  \E w \in seen: OutOfRange(g, w)
    <3>1. CASE g \in complaints
      BY <2>3, <3>1 DEF SensorsInv, ComplaintsSoFar
    <3>2. CASE g = f /\ Complains(f, v)
      BY <1>4, <2>3, <3>2 DEF Truthful
    <3> QED
      BY <2>2, <3>1, <3>2
  <2>4. ASSUME NEW g \in Noticed, ~ToRead(g)', Sound(g), \A w \in seen: OutOfRange(g, w)
        PROVE  g \in complaints'
    <3>1. CASE g = f
      BY <1>4, <2>2, <2>4, <3>1 DEF Truthful
    <3>2. CASE g # f
      BY <1>2, <2>2, <2>4, <3>2 DEF SensorsInv, ComplaintsSoFar
    <3> QED
      BY <3>1, <3>2
  <2> QED
    BY <2>3, <2>4
<1> QED
  BY <1>5, <1>6

\* What any return leaves in order, if its value fits.
LEMMA ReturnTypes ==
    ASSUME SensorsInv, todo # <<>>, NEW v, Return(v), Fits(Head(todo), v),
           UNCHANGED <<gen, phase, calibrated, tries, weather, up, slow, reg, seen,
                       missed, passes, events>>,
           conv' \in [Chips -> Fields \union {"idle", "ready", "first", "running"}],
           \A c \in Chips: conv[c] = "running" => conv'[c] = "running",
           held' \in [Fields -> Weathers \union {Blank}]
    PROVE  TypeOK' /\ OutNoticed' /\ RequestServed' /\ EarlierHeld' /\ PollsLeft'
<1> DEFINE f == Head(todo)
<1>1. /\ f \in Fields /\ todo \in Seq(Fields) /\ reading \in [Fields -> Int]
      /\ \A g \in Fields: Fits(g, reading[g])
  BY FirstToRead DEF SensorsInv, TypeOK, DriverTypes, ReadingTypes
<1>2. reading' = [reading EXCEPT ![f] = v] /\ todo' = Tail(todo) /\ step' = "request"
      /\ earlier' = None
      /\ complaints' \subseteq complaints \union {f}
  BY DEF Return
<1>3. TypeOK'
  <2>1. DriverTypes' /\ WeatherTypes' /\ CountTypes' /\ gen' \in Generations
    BY <1>1, <1>2 DEF SensorsInv, TypeOK, DriverTypes, WeatherTypes, CountTypes
  <2>2. ChipTypes'
    BY SameBoard DEF SensorsInv, TypeOK, ChipTypes
  <2>3. \A g \in Fields: Fits(g, reading'[g])
    BY <1>1, <1>2
  <2>4. ReadingTypes'
    <3>1. \A g \in Fields: Fits(g, reading[g])'
      BY <2>3 DEF Fits
    <3>2. reading' \in [Fields -> Int]
      BY <1>1, <1>2 DEF Fits
    <3> QED
      BY <3>1, <3>2 DEF ReadingTypes
  <2> QED
    BY <2>1, <2>2, <2>4 DEF TypeOK
<1>4. OutNoticed'
  <2>1. InService \subseteq InService'
    BY DEF InService, SensorsInv, TypeOK, ChipTypes
  <2> QED
    BY <2>1, SameBoard DEF SensorsInv, OutNoticed, Passing
<1>5. RequestServed' /\ EarlierHeld' /\ PollsLeft'
  BY <1>2 DEF RequestServed, EarlierHeld, PollsLeft
<1> QED
  BY <1>3, <1>4, <1>5

\* A driver that is no hygrometer's leaves what those returned.
LEMMA ReturnOther ==
    ASSUME SensorsInv, todo # <<>>, NEW v, Return(v), Chip(Head(todo)) # "hih6131",
           UNCHANGED <<gen, held>>
    PROVE  HeldReturned'
<1>1. \A f \in Fields: Chip(f) = "hih6131" => reading'[f] = reading[f]
  BY DEF Return, SensorsInv, TypeOK, ReadingTypes
<1> QED
  BY <1>1 DEF HeldReturned, SensorsInv, Chip

LEMMA ReadAtOnceStep == SensorsInv /\ ReadAtOnce => SensorsInv'
<1> SUFFICES ASSUME SensorsInv, ReadAtOnce PROVE SensorsInv'
  OBVIOUS
<1> DEFINE f == Head(todo)
           c == Chip(f)
           src == CASE c = "adc" -> weather
                    [] c # "adc" /\ ~(c \in up /\ (c \in Trimmed => c \in calibrated)) ->
                           Mute
                    [] OTHER -> IF conv[c] = "running" THEN weather ELSE Blank
           raw == Brought(f, src)
<1>1. PICK v \in Values(f, raw, raw): Return(v)
  BY Zenon DEF ReadAtOnce, Brought
<1>2. /\ todo # <<>> /\ c \in {"adc", "ads1100", "bme280"}
      /\ UNCHANGED <<gen, phase, held, calibrated, tries, weather, up, slow, conv, reg,
                     seen, missed, passes, events>>
  BY DEF ReadAtOnce, Reads, SelfTimed, world
<1>3. /\ f \in Fields /\ gen \in Generations
      /\ c = "adc" \/ c \in Chips
      /\ weather \in seen /\ weather \in Weathers /\ Passing
      /\ conv' \in [Chips -> Fields \union {"idle", "ready", "first", "running"}]
      /\ held' \in [Fields -> Weathers \union {Blank}]
  BY <1>2, FirstToRead
  DEF SensorsInv, TypeOK, WeatherTypes, ChipTypes, ReadingTypes, OutNoticed
<1>4. src \in Readings /\ (c = "adc" => src = weather)
  BY <1>3 DEF Readings
<1>5. Fits(f, v)
  <2>1. raw \in Raws /\ raw.source = src
    BY <1>3, <1>4 DEF Raws, Brought
  <2> HIDE DEF raw, src
  <2> QED
    BY <1>1, <1>2, <1>3, <1>4, <2>1, ValuesFit
<1>6. Sound(f) => src = weather
  <2> SUFFICES ASSUME Sound(f), c # "adc" PROVE src = weather
    BY <1>4
  <2>1. c \notin missed /\ (c \in Trimmed => c \in calibrated) /\ c \in SelfTimed
    BY <1>2 DEF Sound, SelfTimed
  <2>2. c \in up /\ conv[c] = "running"
    BY <1>3, <2>1 DEF SensorsInv, OutNoticed, InService
  <2> QED
    BY <2>1, <2>2
<1>7. ~TwoRounds(f) /\ First(f) = f /\ Last(f) = f
  <2>1. c \notin {"bmp180", "sht1x"}
    BY <1>2
  <2> QED
    BY <2>1 DEF TwoRounds, First, Last
<1> HIDE DEF src
<1>8. Sound(f) => \E x, y \in seen:
                     /\ TwoRounds(f) \/ x = y
                     /\ v \in Values(f, Brought(First(f), x), Brought(Last(f), y))
  BY <1>1, <1>3, <1>6, <1>7
<1>9. TypeOK' /\ OutNoticed' /\ RequestServed' /\ EarlierHeld' /\ PollsLeft'
  BY <1>1, <1>2, <1>3, <1>5, ReturnTypes
<1>10. ReadCurrent' /\ ComplaintsSoFar'
  BY <1>1, <1>2, <1>8, ReturnTells
<1>11. HeldReturned'
  BY <1>1, <1>2, ReturnOther
<1> QED
  BY <1>9, <1>10, <1>11 DEF SensorsInv

LEMMA FetchStep == SensorsInv /\ Fetch => SensorsInv'
<1> SUFFICES ASSUME SensorsInv, Fetch PROVE SensorsInv'
  OBVIOUS
<1> DEFINE f == Head(todo)
           c == Chip(f)
           b == Fetched(c)
           a == IF TwoRounds(f) THEN earlier ELSE b
<1>1. PICK v \in Values(f, a, b): Return(v)
  BY Zenon DEF Fetch
<1>2. /\ Reads(Converters) /\ todo # <<>> /\ c # "hih6131" /\ c # "adc" /\ step = "fetch"
      /\ TwoRounds(f) => earlier # None
      /\ conv' = Emptied(c)
      /\ UNCHANGED <<gen, phase, held, calibrated, tries, weather, up, slow, reg, seen,
                     missed, passes, events>>
  BY DEF Fetch, Reads, Converters
<1>3. /\ f \in Fields /\ gen \in Generations /\ c \in Chips
  BY <1>2, FirstToRead
<1>4. /\ a \in Raws /\ b \in Raws
      /\ conv' \in [Chips -> Fields \union {"idle", "ready", "first", "running"}]
      /\ \A d \in Chips: conv[d] = "running" => conv'[d] = "running"
      /\ held' \in [Fields -> Weathers \union {Blank}]
  <2>1. earlier \in Raws \union {None}
    BY DEF SensorsInv, TypeOK, DriverTypes
  <2> QED
    BY <1>2, <1>3, <2>1, FetchedTyped DEF SensorsInv, TypeOK, ReadingTypes
<1>5. Fits(f, v)
  <2> HIDE DEF a, b
  <2> QED
    BY <1>1, <1>2, <1>3, <1>4, ValuesFit
<1>6. Sound(f) => \E x, y \in seen:
                     /\ TwoRounds(f) \/ x = y
                     /\ v \in Values(f, Brought(First(f), x), Brought(Last(f), y))
  <2> SUFFICES ASSUME Sound(f)
               PROVE  \E x, y \in seen:
                         /\ TwoRounds(f) \/ x = y
                         /\ v \in Values(f, Brought(First(f), x), Brought(Last(f), y))
    OBVIOUS
  <2>1. PICK y \in seen: b = Brought(Asked, y)
    BY <1>2, FetchedServed
  <2>2. CASE TwoRounds(f)
    <3>1. Asked = Last(f)
      BY <1>2, <2>2 DEF Asked
    <3>2. earlier.field = First(f) /\ earlier.source \in seen /\ earlier \in Raws
      BY <1>2, <1>4, <2>2 DEF SensorsInv, EarlierHeld
    <3>3. a = Brought(First(f), earlier.source)
      BY <2>2, <3>2 DEF Raws, Brought
    <3> HIDE DEF a, b
    <3> QED
      BY <1>1, <2>1, <2>2, <3>1, <3>2, <3>3
  <2>3. CASE ~TwoRounds(f)
    <3>1. Asked = First(f) /\ Last(f) = First(f)
      BY <2>3 DEF Asked, TwoRounds
    <3>2. a = b
      BY <2>3
    <3> HIDE DEF a, b
    <3> QED
      BY <1>1, <2>1, <2>3, <3>1, <3>2
  <2> QED
    BY <2>2, <2>3
<1>7. TypeOK' /\ OutNoticed' /\ RequestServed' /\ EarlierHeld' /\ PollsLeft'
  BY <1>1, <1>2, <1>4, <1>5, ReturnTypes
<1>8. ReadCurrent' /\ ComplaintsSoFar'
  BY <1>1, <1>2, <1>6, ReturnTells
<1>9. HeldReturned'
  BY <1>1, <1>2, ReturnOther
<1> QED
  BY <1>7, <1>8, <1>9 DEF SensorsInv

LEMMA FetchHihStep == SensorsInv /\ FetchHih => SensorsInv'
<1> SUFFICES ASSUME SensorsInv, FetchHih PROVE SensorsInv'
  OBVIOUS
<1> DEFINE f == Head(todo)
           c == "hih6131"
           fresh == c \in up /\ conv[c] = "ready"
           raw == Brought(f, held'[f])
<1>1. PICK v \in Values(f, raw, raw): Return(v)
  BY Zenon DEF FetchHih, Brought
<1>2. /\ todo # <<>> /\ Chip(f) = c /\ step = "fetch"
      /\ held' = IF fresh THEN [held EXCEPT ![f] = reg[c].source] ELSE held
      /\ conv' = IF fresh THEN [conv EXCEPT ![c] = "idle"] ELSE conv
      /\ UNCHANGED <<gen, phase, calibrated, tries, weather, up, slow, reg, seen, missed,
                     passes, events>>
  BY DEF FetchHih, Reads
<1>3. /\ f \in Fields /\ gen \in Generations /\ c \in Chips /\ c \in Converters
  BY <1>2, FirstToRead DEF Converters
<1>4. /\ reg[c].source \in Weathers \union {Blank}
      /\ conv' \in [Chips -> Fields \union {"idle", "ready", "first", "running"}]
      /\ \A d \in Chips: conv[d] = "running" => conv'[d] = "running"
      /\ held' \in [Fields -> Weathers \union {Blank}]
  BY <1>2, <1>3 DEF SensorsInv, TypeOK, ChipTypes, ReadingTypes
<1>5. Fits(f, v)
  <2>1. held'[f] \in Readings /\ held'[f] # Mute
    BY <1>3, <1>4 DEF Readings, Weathers, Blank, Mute
  <2>2. raw \in Raws /\ raw.source = held'[f]
    BY <1>3, <2>1 DEF Raws, Brought
  <2> HIDE DEF raw
  <2> QED
    BY <1>1, <1>2, <1>3, <2>1, <2>2, ValuesFit
<1>6. ~TwoRounds(f) /\ First(f) = f /\ Last(f) = f
  BY <1>2 DEF TwoRounds, First, Last
<1>7. Sound(f) => \E x, y \in seen:
                     /\ TwoRounds(f) \/ x = y
                     /\ v \in Values(f, Brought(First(f), x), Brought(Last(f), y))
  <2> SUFFICES ASSUME Sound(f)
               PROVE  \E x, y \in seen:
                         /\ TwoRounds(f) \/ x = y
                         /\ v \in Values(f, Brought(First(f), x), Brought(Last(f), y))
    OBVIOUS
  <2>1. c \in up /\ Converted(c, Asked)
    BY <1>2, <1>3, FetchedServed DEF Reads
  <2>2. held'[f] = reg[c].source
    BY <1>2, <1>3, <2>1 DEF Converted, SensorsInv, TypeOK, ReadingTypes
  <2>3. held'[f] \in seen
    BY <2>1, <2>2 DEF Converted
  <2> QED
    BY <1>1, <1>6, <2>3
<1>8. TypeOK' /\ OutNoticed' /\ RequestServed' /\ EarlierHeld' /\ PollsLeft'
  BY <1>1, <1>2, <1>4, <1>5, ReturnTypes
<1>9. ReadCurrent' /\ ComplaintsSoFar'
  BY <1>1, <1>2, <1>7, ReturnTells
<1>10. HeldReturned'
  <2>1. v = IF f = "humidity" THEN HihPercent(held'[f]) ELSE HihCelsius(held'[f])
    <3>1. raw.source = held'[f]
      BY DEF Brought
    <3> HIDE DEF raw
    <3> QED
      BY <1>1, <1>2, <3>1, HihValues
  <2>2. reading'[f] = v
    BY <1>1, <1>3 DEF Return, SensorsInv, TypeOK, ReadingTypes
  <2>3. \A g \in Fields \ {f}: reading'[g] = reading[g] /\ held'[g] = held[g]
    BY <1>1, <1>2, <1>3 DEF Return, SensorsInv, TypeOK, ReadingTypes
  <2> QED
    BY <1>2, <2>1, <2>2, <2>3 DEF HeldReturned, SensorsInv, Chip
<1> QED
  BY <1>8, <1>9, <1>10 DEF SensorsInv

-----------------------------------------------------------------------------
(* The theorems.                                                           *)

LEMMA StepInv == SensorsInv /\ [Next]_vars => SensorsInv'
<1> SUFFICES ASSUME SensorsInv, [Next]_vars PROVE SensorsInv'
  OBVIOUS
<1>1. CASE Setup \/ Begin
  BY <1>1, SetupStep, BeginStep
<1>2. CASE Pass
  BY <1>2, ReadAtOnceStep, RequestStep, DelayStep, PollStep, FetchHihStep,
     FetchFirstStep, FetchStep, EndStep DEF Pass
<1>3. CASE ChangeWeather \/ Fail \/ Repair \/ Convert
  BY <1>3, WeatherStep, FailStep, RepairStep, ConvertStep
<1>4. CASE UNCHANGED vars
  <2>1. UNCHANGED <<gen, driver, weather, up, slow, conv, reg, seen, missed, passes,
                  events>>
    BY <1>4 DEF vars, world
  <2>2. DriverTypes' /\ WeatherTypes' /\ CountTypes' /\ gen' \in Generations
    BY <2>1 DEF driver, SensorsInv, TypeOK, DriverTypes, WeatherTypes, CountTypes
  <2>3. ChipTypes' /\ OutNoticed'
    BY <2>1, SameBoard, KeepsOut DEF driver, SensorsInv, TypeOK, ChipTypes, InService
  <2>4. TypeOK'
    BY <2>1, <2>2, <2>3, KeepsReadings DEF driver, TypeOK
  <2> QED
    BY <2>1, <2>3, <2>4, KeepsServed, KeepsEarlier, KeepsPolls, KeepsHeld, KeepsReading
    DEF driver, SensorsInv
<1> QED
  BY <1>1, <1>2, <1>3, <1>4 DEF Next

\* The inductive invariant: what each driver has in hand between its request and its
\* fetch, and what the fields read so far hold, in post, sample and heartbeat_tx.
THEOREM SensorsInvariant == Spec => []SensorsInv
  BY InitInv, StepInv, PTL DEF Spec

\* Every reading fits the integer its driver returns it in, whatever its chip held of
\* whatever field, and a chip is polled MaxTries times at most.
THEOREM Types == Spec => []TypeOK
<1>1. SensorsInv => TypeOK
  BY DEF SensorsInv
<1> QED
  BY <1>1, SensorsInvariant, PTL

\* A finished self-test, sample or heartbeat holds, of every sensor that was in service
\* throughout, what that sensor saw on its own channel during the pass; an ADS1115 slower
\* than its library takes it to be is not promised.
THEOREM Current == Spec => []FieldsCurrent
<1>1. SensorsInv => FieldsCurrent
  BY DEF SensorsInv, ReadCurrent, FieldsCurrent, Done, Passing, ToRead
<1> QED
  BY <1>1, SensorsInvariant, PTL

\* The self-test complains of what its sensors saw, and misses no dark panel, frost or
\* thin air that lasts.
THEOREM Complaints == Spec => []ComplaintsRight
<1>1. SensorsInv => ComplaintsRight
  BY DEF SensorsInv, ComplaintsSoFar, ComplaintsRight, Done, ToRead
<1> QED
  BY <1>1, SensorsInvariant, PTL

\* A hygrometer that is down repeats its last reading.
THEOREM Repeats == Spec => HygrometerRepeats
<1> DEFINE Repeating ==
        \A f \in Fields:
           Chip(f) = "hih6131" /\ "hih6131" \notin up /\ todo # <<>> =>
               reading'[f] = reading[f]
<1>1. SensorsInv /\ [Next]_vars => [Repeating]_vars
  <2> SUFFICES ASSUME SensorsInv, [Next]_vars PROVE [Repeating]_vars
    OBVIOUS
  <2>1. CASE UNCHANGED reading
    BY <2>1
  <2>2. CASE ReadAtOnce \/ Fetch
    <3>1. /\ todo # <<>> /\ Chip(Head(todo)) # "hih6131"
          /\ \E v: Return(v)
      BY <2>2 DEF ReadAtOnce, Fetch, Reads, Converters, SelfTimed
    <3> QED
      BY <3>1 DEF Return, SensorsInv, TypeOK, ReadingTypes
  <2>3. CASE FetchHih
    <3> SUFFICES ASSUME NEW g \in Fields, Chip(g) = "hih6131", "hih6131" \notin up
                 PROVE  reading'[g] = reading[g]
      OBVIOUS
    <3> DEFINE f == Head(todo)
    <3>1. held' = held /\ Chip(f) = "hih6131" /\ todo # <<>>
      BY <2>3 DEF FetchHih, Reads
    <3>2. PICK v \in Values(f, Brought(f, held[f]), Brought(f, held[f])): Return(v)
      BY <2>3, <3>1, Zenon DEF FetchHih, Brought
    <3>3. f \in Fields
      BY <3>1, FirstToRead
    <3>4. v = reading[f]
      <4>1. Brought(f, held[f]).source = held[f]
        BY DEF Brought
      <4> QED
        BY <3>1, <3>2, <3>3, <4>1, HihValues DEF SensorsInv, HeldReturned
    <3> QED
      BY <3>2, <3>3, <3>4 DEF Return, SensorsInv, TypeOK, ReadingTypes
  <2> QED
    BY <2>1, <2>2, <2>3
    DEF Next, Pass, vars, driver, Setup, Begin, End, Request, Delay, Poll, FetchFirst,
        ChangeWeather, Fail, Repair, Convert
<1> QED
  BY <1>1, SensorsInvariant, PTL DEF Spec, HygrometerRepeats
=============================================================================
