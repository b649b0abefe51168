---------------------------- MODULE DeviceProofs ----------------------------
(***************************************************************************)
(* Proofs about Device, for every value of its constants: the clock of the *)
(* main loop, the filter of the light sensor, and booting with the ticker  *)
(* thread that goes through the vector of timers meanwhile.                *)
(***************************************************************************)
EXTENDS Device, NumberLemmas

-----------------------------------------------------------------------------
(* The clock of the main loop: how long it sleeps and how far apart the    *)
(* TICKs are, for every width of millis(), every tick period and every     *)
(* blocking time.                                                          *)

\* What the loop knows of the time since the last TICK.
ClockInv ==
  /\ LoopTypeOK
  /\ queue # <<>> => millis = last_time_stamp /\ wraps = 0 /\ waited = 0
  /\ wraps = 0 =>
       /\ last_time_stamp <= millis
       /\ waited <= millis - last_time_stamp
       /\ since = Capped(millis - last_time_stamp, SinceCap)
  /\ wraps = 1 /\ SumWraps => waited <= millis /\ (waited > 0 => millis <= TickPeriod)
  /\ wraps = 1 /\ ~SumWraps => since = SinceCap
  /\ TicksComeInTime

\* The steps of others leave the loop's variables alone.
LEMMA LoopSteps ==
  [Next]_vars =>
    \/ PushTick
    \/ Sleep
    \/ DispatchTick
    \/ UNCHANGED loopVars
BY DEF Next, MainThread, BootStep, LoopPushesTick, LoopSleeps, LoopDispatches, Ticker, Environment,
       vars, loopVars

\* The times of the clock, without the remainder.
LEMMA ElapseTime ==
  ASSUME LoopTypeOK, NEW ms \in 0..MaxBlock \cup {1}, ms < ClockSize, Elapse(ms)
  PROVE  /\ millis' \in 0..(ClockSize - 1)
         /\ millis + ms < ClockSize => millis' = millis + ms /\ wraps' = wraps
         /\ millis + ms >= ClockSize => millis' = millis + ms - ClockSize /\ wraps' = 1
         /\ since' = Capped(since + ms, SinceCap)
         /\ since' \in 0..SinceCap
<1>1. /\ ms \in Nat /\ millis \in Nat /\ millis < ClockSize /\ millis + ms < 2 * ClockSize
      /\ since \in 0..SinceCap /\ SinceCap \in Nat /\ wraps \in 0..1
  BY ClockAssumption DEF LoopTypeOK, SinceCap
<1>2. (millis + ms) % ClockSize =
        IF millis + ms < ClockSize THEN millis + ms ELSE millis + ms - ClockSize
  BY <1>1, ClockAssumption
<1> QED BY <1>1, <1>2, ClockAssumption DEF Elapse, Capped

\* When a TICK is due, without the remainder.
LEMMA TickDueTime ==
  ASSUME LoopTypeOK
  PROVE  TickDue <=> millis > (IF SumWraps THEN last_time_stamp + TickPeriod - ClockSize
                               ELSE last_time_stamp + TickPeriod)
<1>1. /\ last_time_stamp \in Nat /\ last_time_stamp < ClockSize /\ TickPeriod \in Nat
      /\ TickPeriod < ClockSize /\ ClockSize \in Nat /\ millis \in Nat
  BY ClockAssumption DEF LoopTypeOK
<1>2. (last_time_stamp + TickPeriod) % ClockSize =
        IF SumWraps THEN last_time_stamp + TickPeriod - ClockSize ELSE last_time_stamp + TickPeriod
  BY <1>1 DEF SumWraps
<1> QED BY <1>1, <1>2 DEF TickDue

LEMMA ClockInvInit == Init => ClockInv
BY ClockAssumption
DEF Init, LoopInit, ClockInv, LoopTypeOK, TicksComeInTime, Capped, SinceCap, WaitCap

LEMMA ClockInvStep == ClockInv /\ [Next]_vars => ClockInv'
<1> SUFFICES ASSUME ClockInv, [Next]_vars PROVE ClockInv'
  OBVIOUS
<1>1. /\ LoopTypeOK /\ ClockSize \in Nat /\ TickPeriod \in Nat \ {0} /\ TickPeriod < ClockSize
      /\ MaxBlock \in 0..(ClockSize - 1) /\ SinceCap = TickPeriod + 1 /\ WaitCap = TickPeriod + 2
      /\ millis \in 0..(ClockSize - 1) /\ last_time_stamp \in 0..(ClockSize - 1)
      /\ since \in 0..SinceCap /\ waited \in 0..WaitCap /\ wraps \in 0..1
  BY ClockAssumption DEF ClockInv, LoopTypeOK, SinceCap, WaitCap
<1>2. CASE PushTick
  <2>1. /\ queue' = <<"TICK">> /\ last_time_stamp' = millis /\ millis' = millis
        /\ wraps' = 0 /\ since' = 0 /\ waited' = 0
    BY <1>2 DEF PushTick, Stamp, Post
  <2> QED BY <1>1, <2>1 DEF ClockInv, LoopTypeOK, TicksComeInTime, Capped
<1>3. CASE Sleep
  <2>1. /\ queue = <<>> /\ ~TickDue /\ queue' = queue /\ last_time_stamp' = last_time_stamp
        /\ waited' = Capped(waited + 1, WaitCap)
        /\ Elapse(1)
    BY <1>3 DEF Sleep
  <2>2. /\ millis + 1 < ClockSize => millis' = millis + 1 /\ wraps' = wraps
        /\ millis + 1 >= ClockSize => millis' = millis + 1 - ClockSize /\ wraps' = 1
        /\ since' = Capped(since + 1, SinceCap)
        /\ wraps' \in 0..1
        /\ millis' \in 0..(ClockSize - 1) /\ since' \in 0..SinceCap
    BY <1>1, <2>1, ElapseTime DEF Elapse
  <2>3. /\ SumWraps => millis <= last_time_stamp + TickPeriod - ClockSize
        /\ ~SumWraps => millis <= last_time_stamp + TickPeriod
        /\ SumWraps' = SumWraps
    BY <1>1, <2>1, TickDueTime DEF SumWraps
  <2>4. LoopTypeOK'
    BY <1>1, <2>1, <2>2 DEF LoopTypeOK, Capped
  <2>5. CASE SumWraps
    <3>1. wraps = 1
      BY <1>1, <2>3, <2>5 DEF ClockInv, SumWraps
    <3>2. /\ waited <= millis /\ millis < TickPeriod
          /\ millis' = millis + 1 /\ wraps' = 1 /\ waited' = waited + 1
      BY <1>1, <2>1, <2>2, <2>3, <2>5, <3>1 DEF ClockInv, Capped
    <3>3. TicksComeInTime'
      BY <1>1, <3>2 DEF TicksComeInTime
    <3> QED BY <1>1, <2>1, <2>3, <2>4, <2>5, <3>2, <3>3 DEF ClockInv
  <2>6. CASE ~SumWraps
    <3>1. wraps' = 0 => /\ wraps = 0 /\ millis' = millis + 1
                        /\ waited' = Capped(waited + 1, WaitCap) /\ waited' <= waited + 1
      BY <1>1, <2>1, <2>2 DEF Capped
    <3>2. wraps' = 0 => /\ last_time_stamp <= millis'
                        /\ waited' <= millis' - last_time_stamp
                        /\ since' = Capped(millis' - last_time_stamp, SinceCap)
      BY <1>1, <2>2, <3>1 DEF ClockInv, Capped
    <3>3. wraps' = 1 => since' = SinceCap
      BY <1>1, <2>2, <2>3, <2>6 DEF ClockInv, Capped, SumWraps
    <3>4. wraps' = 0 => waited' <= TickPeriod + 1
      BY <1>1, <2>2, <2>3, <2>6, <3>1, <3>2, <2>4 DEF LoopTypeOK
    <3>5. TicksComeInTime'
      BY <2>2, <2>3, <2>6, <3>4 DEF TicksComeInTime
    <3> QED BY <2>1, <2>3, <2>4, <2>6, <3>2, <3>3, <3>5 DEF ClockInv
  <2> QED BY <2>5, <2>6
<1>4. CASE DispatchTick
  <2>1. PICK ms \in 0..MaxBlock : Elapse(ms)
    BY <1>4 DEF DispatchTick
  <2>2. /\ queue = <<"TICK">> /\ queue' = <<>> /\ last_time_stamp' = last_time_stamp
        /\ waited' = waited
    <3>1. Tail(<<"TICK">>) = <<>>
      OBVIOUS
    <3> QED BY <1>1, <1>4, <3>1 DEF DispatchTick, LoopTypeOK
  <2>3. /\ millis + ms < ClockSize => millis' = millis + ms /\ wraps' = wraps
        /\ millis + ms >= ClockSize => millis' = millis + ms - ClockSize /\ wraps' = 1
        /\ since' = Capped(since + ms, SinceCap)
        /\ wraps' \in 0..1
        /\ millis' \in 0..(ClockSize - 1) /\ since' \in 0..SinceCap
    BY <1>1, <2>1, ElapseTime DEF Elapse
  <2>4. LoopTypeOK' /\ SumWraps' = SumWraps
    BY <1>1, <2>2, <2>3 DEF LoopTypeOK, SumWraps
  <2>5. millis = last_time_stamp /\ wraps = 0 /\ waited = 0 /\ since = 0 /\ ms \in 0..(ClockSize - 1)
    BY <1>1, <2>2 DEF ClockInv, Capped
  <2>6. wraps' = 1 /\ ~SumWraps => since' = SinceCap
    BY <1>1, <2>3, <2>5 DEF Capped, SumWraps
  <2>7. wraps' = 0 => /\ last_time_stamp <= millis' /\ waited' <= millis' - last_time_stamp
                      /\ since' = Capped(millis' - last_time_stamp, SinceCap)
    <3>1. wraps' = 0 => millis' = millis + ms /\ millis' - last_time_stamp = ms
      <4>1. millis \in Int /\ ms \in Int /\ ClockSize \in Int
        BY <1>1, <2>5
      <4>2. wraps' = 0 => millis + ms < ClockSize
        BY <2>3, <4>1
      <4> QED BY <2>3, <2>5, <4>1, <4>2
    <3>2. since' = Capped(ms, SinceCap) /\ waited' = 0
      BY <1>1, <2>2, <2>3, <2>5 DEF Capped
    <3> QED BY <1>1, <2>5, <3>1, <3>2
  <2>8. TicksComeInTime' /\ waited' <= millis'
    BY <1>1, <2>2, <2>3, <2>5 DEF TicksComeInTime
  <2> QED BY <2>2, <2>4, <2>5, <2>6, <2>7, <2>8 DEF ClockInv
<1>5. CASE UNCHANGED loopVars
  BY <1>5 DEF loopVars, ClockInv, LoopTypeOK, TicksComeInTime, SumWraps
<1> QED BY <1>2, <1>3, <1>4, <1>5, LoopSteps

LEMMA ClockInvCorrect == Spec => []ClockInv
BY ClockInvInit, ClockInvStep, PTL DEF Spec

\* The loop sleeps at most a period and a millisecond between two TICKs, but for the
\* one stall: millis() goes round during a blocking call and the sum does not.
THEOREM LoopWakesInTime == Spec => []TicksComeInTime
<1>1. ClockInv => TicksComeInTime
  BY DEF ClockInv
<1> QED BY <1>1, ClockInvCorrect, PTL

\* More than a period passes between two TICKs, but for the last period before
\* millis() goes round.
THEOREM TicksKeepDistance == Spec => TicksAreSpaced
<1>1. ASSUME ClockInv, [Next]_vars, queue = <<>>, queue' # <<>>
      PROVE  since > TickPeriod \/ SumWraps
  <2>1. TickDue
    BY <1>1, LoopSteps DEF PushTick, Sleep, DispatchTick, loopVars
  <2> QED BY <1>1, <2>1, TickDueTime, ClockAssumption DEF ClockInv, LoopTypeOK, SinceCap, Capped, SumWraps
<1> QED BY <1>1, ClockInvCorrect, PTL DEF Spec, TicksAreSpaced

-----------------------------------------------------------------------------
(* The filter of the light sensor: it stays within its two bytes, and one  *)
(* sample moves the brightness by a bounded amount, for every size of a    *)
(* byte and every weight that divides it.                                  *)

\* Nothing is left of a multiple.
LEMMA NothingLeft ==
  ASSUME NEW a \in Nat, NEW n \in Nat \ {0}, a % n = 0
  PROVE  a = n * (a \div n)
OBVIOUS

\* How far one sample may move the brightness.
Reach == ByteSize \div FilterWeight

LEMMA WeightDivides ==
  /\ ByteSize \in Nat \ {0} /\ FilterWeight \in Nat \ {0} /\ Reach \in Nat
  /\ ByteSize = FilterWeight * Reach
  /\ RawMax \in Nat /\ RawMax = ByteSize * ByteSize - 1
<1>1. /\ ByteSize \in Nat \ {0} /\ FilterWeight \in Nat \ {0} /\ ByteSize % FilterWeight = 0
  BY LightSensorAssumption
<1>2. ByteSize = FilterWeight * (ByteSize \div FilterWeight)
  BY <1>1, NothingLeft
<1> QED BY <1>1, <1>2, DivisionLeaves DEF Reach, RawMax

\* The filter stays within two bytes and moves by at most that many units of the upper.
LEMMA FilterMoves ==
  ASSUME NEW f \in 0..RawMax, NEW r \in 0..RawMax
  PROVE  /\ Filtered(f, r) \in 0..RawMax
         /\ Filtered(f, r) <= f + ByteSize * Reach
         /\ f <= Filtered(f, r) + ByteSize * Reach
<1> DEFINE W == FilterWeight
           sum == (W - 1) * f + r
           g == sum \div W
<1>1. W \in Nat \ {0} /\ f \in Nat /\ r \in Nat /\ RawMax \in Nat /\ f <= RawMax /\ r <= RawMax
  BY WeightDivides
<1>2. sum = W * f - f + r /\ sum \in Nat
  <2>1. (W - 1) * f \in Nat /\ (W - 1) * f = W * f - f
    BY <1>1
  <2> QED BY <1>1, <2>1
<1>3. g \in Nat /\ W * g <= sum /\ sum < W * g + W
  BY <1>1, <1>2, DivisionLeaves
<1>4. ByteSize * Reach \in Nat /\ W * (ByteSize * Reach) = RawMax + 1
  <2>1. W * (ByteSize * Reach) = ByteSize * (W * Reach)
    BY WeightDivides
  <2> QED BY <2>1, WeightDivides
<1> HIDE DEF W, g, sum
<1>5. g <= RawMax
  <2>1. W * f - f + r <= W * RawMax
    <3>1. (W - 1) * f <= (W - 1) * RawMax
      BY <1>1
    <3>2. (W - 1) * f = W * f - f /\ (W - 1) * RawMax = W * RawMax - RawMax
      BY <1>1
    <3> QED BY <1>1, <3>1, <3>2
  <2>2. W * g < W * RawMax + W
    BY <1>1, <1>2, <1>3, <2>1
  <2>3. W * RawMax + W = W * (RawMax + 1)
    BY <1>1
  <2>4. g < RawMax + 1
    BY <1>1, <1>3, <2>2, <2>3, FactorCancels
  <2> QED BY <1>1, <1>3, <2>4
<1>6. g <= f + ByteSize * Reach
  <2>1. W * g < W * f + W * (ByteSize * Reach) + W
    BY <1>1, <1>2, <1>3, <1>4
  <2>2. W * f + W * (ByteSize * Reach) + W = W * (f + ByteSize * Reach + 1)
    BY <1>1, <1>4
  <2>3. g < f + ByteSize * Reach + 1
    BY <1>1, <1>3, <1>4, <2>1, <2>2, FactorCancels
  <2> QED BY <1>1, <1>3, <1>4, <2>3
<1>7. f <= g + ByteSize * Reach
  <2>1. W * f < W * g + W * (ByteSize * Reach) + W
    BY <1>1, <1>2, <1>3, <1>4
  <2>2. W * g + W * (ByteSize * Reach) + W = W * (g + ByteSize * Reach + 1)
    BY <1>1, <1>3, <1>4
  <2>3. f < g + ByteSize * Reach + 1
    BY <1>1, <1>3, <1>4, <2>1, <2>2, FactorCancels
  <2> QED BY <1>1, <1>3, <1>4, <2>3
<1>8. g = Filtered(f, r)
  BY DEF g, sum, W, Filtered
<1> QED BY <1>1, <1>3, <1>5, <1>6, <1>7, <1>8

\* The mask never cuts, and the brightness fits into its byte.
LEMMA BrightnessOfRange ==
  ASSUME NEW f \in 0..RawMax
  PROVE  /\ Brightness(f) = f \div ByteSize
         /\ Brightness(f) \in 0..(ByteSize - 1)
<1>1. f \in Nat /\ f < ByteSize * ByteSize /\ ByteSize \in Nat \ {0}
  BY WeightDivides
<1>2. f % (ByteSize * ByteSize) = f
  <2>1. ByteSize * ByteSize \in Nat \ {0}
    BY <1>1
  <2> QED BY <1>1, <2>1
<1>3. f \div ByteSize \in Nat /\ ByteSize * (f \div ByteSize) <= f
  BY <1>1, DivisionLeaves
<1>4. f \div ByteSize < ByteSize
  BY <1>1, <1>3, FactorCancels
<1> QED BY <1>1, <1>2, <1>3, <1>4 DEF Brightness

-----------------------------------------------------------------------------
\* The type of what the sensor writes, and that the byte is the filter's upper one.
SensorInv ==
  /\ SensorTypeOK
  /\ brightness = filtered_brightness \div ByteSize
  /\ led_brightness \in MinimumBrightness..(ByteSize - 1)

LEMMA SensorInvInit == Init => SensorInv
<1> SUFFICES ASSUME Init PROVE SensorInv
  OBVIOUS
<1>1. /\ DefaultBrightness \in Nat /\ DefaultBrightness < ByteSize
      /\ MinimumBrightness \in Nat /\ MinimumBrightness <= DefaultBrightness
      /\ ByteSize \in Nat \ {0} /\ RawMax = ByteSize * ByteSize - 1 /\ MaxCnt \in Nat
  BY LightSensorAssumption, WeightDivides
<1> DEFINE f == DefaultBrightness * ByteSize
<1>2. f \in Nat /\ f < ByteSize * ByteSize
  <2>1. DefaultBrightness * ByteSize <= (ByteSize - 1) * ByteSize
    BY <1>1
  <2>2. (ByteSize - 1) * ByteSize = ByteSize * ByteSize - ByteSize
    BY <1>1
  <2> QED BY <1>1, <2>1, <2>2
<1>3. f \div ByteSize = DefaultBrightness
  BY <1>1
<1>4. filtered_brightness = f /\ brightness = DefaultBrightness /\ led_brightness = DefaultBrightness
  BY DEF Init, SensorInit
<1>5. f \in 0..RawMax
  BY <1>1, <1>2
<1> HIDE DEF f
<1>6. /\ brightness \in 0..(ByteSize - 1) /\ filtered_brightness \in 0..RawMax
      /\ led_brightness \in MinimumBrightness..(ByteSize - 1)
  BY <1>1, <1>4, <1>5
<1>7. /\ is_sensor_available \in BOOLEAN /\ bus_works \in BOOLEAN /\ light \in Lights
      /\ sensor_cnt = 0
  BY DEF Init, SensorInit
<1>8. sensor_cnt \in 0..MaxCnt
  BY <1>1, <1>7
<1> QED BY <1>3, <1>4, <1>6, <1>7, <1>8 DEF SensorInv, SensorTypeOK

\* What a sample does.
LEMMA SampleStep ==
  ASSUME SensorInv, Sample
  PROVE  /\ brightness' \in 0..(ByteSize - 1) /\ filtered_brightness' \in 0..RawMax
         /\ brightness' = filtered_brightness' \div ByteSize
         /\ brightness' - brightness <= Reach
         /\ brightness - brightness' <= Reach
<1>1. PICK reading \in Readings :
        /\ filtered_brightness' = Filtered(filtered_brightness, reading)
        /\ brightness' = Brightness(filtered_brightness')
  BY DEF Sample
<1>2. reading \in 0..RawMax /\ filtered_brightness \in 0..RawMax
  BY LightSensorAssumption, WeightDivides DEF Readings, SensorInv, SensorTypeOK
<1>3. /\ filtered_brightness' \in 0..RawMax
      /\ filtered_brightness' <= filtered_brightness + ByteSize * Reach
      /\ filtered_brightness <= filtered_brightness' + ByteSize * Reach
  BY <1>1, <1>2, FilterMoves
<1>4. /\ brightness' \in 0..(ByteSize - 1)
      /\ brightness' = filtered_brightness' \div ByteSize
      /\ brightness = filtered_brightness \div ByteSize
  BY <1>1, <1>3, BrightnessOfRange DEF SensorInv
<1>5. /\ filtered_brightness \in Nat /\ filtered_brightness' \in Nat
      /\ ByteSize \in Nat \ {0} /\ Reach \in Nat
  BY <1>2, <1>3, WeightDivides
<1>6. brightness' - brightness <= Reach /\ brightness - brightness' <= Reach
  BY <1>3, <1>4, <1>5, QuotientsApart
<1> QED BY <1>3, <1>4, <1>6

\* A step leaves the sensor and the brightness of the LEDs alone, but the dispatch of
\* a TICK, the search for the sensor, and the world.
LEMMA SensorSteps ==
  ASSUME [Next]_vars
  PROVE  \/ SensorTick /\ led_brightness' = GetBrightness /\ UNCHANGED <<is_sensor_available, world>>
         \/ FindSensor /\ UNCHANGED led_brightness
         \/ WorldChanges /\ UNCHANGED <<sensorState, is_sensor_available, led_brightness>>
         \/ UNCHANGED <<sensorVars, led_brightness>>
<1>1. CASE BootStep
  BY <1>1 DEF BootStep, Setup, ReadHwVersion, InitFailed, EspRestart, BootStartTicker,
              BootFindSensor, BootRegister
<1>2. CASE ~BootStep
  BY <1>2 DEF Next, MainThread, LoopPushesTick, LoopSleeps, LoopDispatches, SetBrightness, Ticker,
              Environment, vars
<1> QED BY <1>1, <1>2

LEMMA SensorInvStep ==
  SensorInv /\ [Next]_vars => /\ SensorInv'
                             /\ brightness' - brightness <= Reach
                             /\ brightness - brightness' <= Reach
<1> SUFFICES ASSUME SensorInv, [Next]_vars
             PROVE  /\ SensorInv'
                    /\ brightness' - brightness <= Reach
                    /\ brightness - brightness' <= Reach
  OBVIOUS
<1>1. /\ ByteSize \in Nat \ {0} /\ MinimumBrightness \in Nat /\ MinimumBrightness < ByteSize
      /\ MaxCnt \in Nat /\ Reach \in Nat
  BY LightSensorAssumption, WeightDivides
<1>2. /\ brightness \in 0..(ByteSize - 1) /\ filtered_brightness \in 0..RawMax
      /\ sensor_cnt \in 0..MaxCnt /\ light \in Lights
      /\ brightness = filtered_brightness \div ByteSize
      /\ led_brightness \in MinimumBrightness..(ByteSize - 1)
  BY DEF SensorInv, SensorTypeOK
<1>3. is_sensor_available \in BOOLEAN /\ bus_works \in BOOLEAN
  BY DEF SensorInv, SensorTypeOK
<1>4. brightness - brightness <= Reach
  BY <1>1, <1>2
<1>5. CASE SensorTick /\ led_brightness' = GetBrightness /\ UNCHANGED <<is_sensor_available, world>>
  <2>1. led_brightness' \in MinimumBrightness..(ByteSize - 1)
    BY <1>1, <1>2, <1>5 DEF GetBrightness
  <2>2. sensor_cnt' \in 0..MaxCnt
    BY <1>1, <1>2, <1>5 DEF SensorTick, sensorState
  <2>3. Sample \/ UNCHANGED <<brightness, filtered_brightness>>
    BY <1>5 DEF SensorTick, sensorState
  <2>4. /\ brightness' \in 0..(ByteSize - 1) /\ filtered_brightness' \in 0..RawMax
        /\ brightness' = filtered_brightness' \div ByteSize
        /\ brightness' - brightness <= Reach
        /\ brightness - brightness' <= Reach
    BY <1>2, <1>4, <2>3, SampleStep
  <2>5. is_sensor_available' \in BOOLEAN /\ bus_works' \in BOOLEAN /\ light' \in Lights
    BY <1>2, <1>3, <1>5 DEF world
  <2> QED BY <2>1, <2>2, <2>4, <2>5 DEF SensorInv, SensorTypeOK
<1>6. CASE FindSensor /\ UNCHANGED led_brightness
  BY <1>2, <1>3, <1>4, <1>6 DEF FindSensor, sensorState, world, SensorInv, SensorTypeOK
<1>7. CASE WorldChanges /\ UNCHANGED <<sensorState, is_sensor_available, led_brightness>>
  BY <1>2, <1>3, <1>4, <1>7 DEF WorldChanges, sensorState, SensorInv, SensorTypeOK
<1>8. CASE UNCHANGED <<sensorVars, led_brightness>>
  BY <1>2, <1>3, <1>4, <1>8 DEF sensorVars, sensorState, world, SensorInv, SensorTypeOK
<1> QED BY <1>5, <1>6, <1>7, <1>8, SensorSteps

LEMMA SensorInvCorrect == Spec => []SensorInv
BY SensorInvInit, SensorInvStep, PTL DEF Spec

\* One sample changes the brightness by at most the size of a byte divided by the
\* weight of the filter, whatever is read.
THEOREM BrightnessMovesSlowly == Spec => NoJump
<1>1. SensorInv /\ [Next]_vars => [/\ brightness' - brightness <= ByteSize \div FilterWeight
                                  /\ brightness - brightness' <= ByteSize \div FilterWeight]_vars
  BY SensorInvStep DEF Reach
<1> QED BY <1>1, SensorInvCorrect, PTL DEF Spec, NoJump

-----------------------------------------------------------------------------
(* Booting, and the ticker thread that goes through the vector of timers   *)
(* while they are registered: whatever the interleaving, and for every     *)
(* number of timers.                                                       *)

\* How many slots have been written.
Written == IF pushing = "slot" THEN Complete + 1 ELSE Complete

\* The vector holds the timers in the order of their registration, and nothing else.
VectorInv ==
  /\ BootTypeOK
  /\ TickerTypeOK
  /\ size <= Len(TimersInOrder)
  /\ pushing = "size" => size > 0
  /\ \A i \in Slots : slots[i] = IF i < Written THEN TimersInOrder[i + 1] ELSE NoTimer
  /\ pushing # "none" => pc \in BoardTimers
  /\ pc \in BoardTimers => Complete < Len(TimersInOrder) /\ pc = TimersInOrder[Complete + 1]
  /\ pc = "loop" => Complete = Len(TimersInOrder)
  /\ pc \in BoardTimers \cup {"LightSensorLtr303_Init", "loop"} =>
       tick_period_ms = TimerPeriod /\ round # "none"
  /\ pc \in BoardTimers \cup {"TimerTicker_Start", "LightSensorLtr303_Init", "loop"} =>
       hw_version # "kUnknown"
  /\ pc \notin BoardTimers \cup {"loop"} => size = 0

\* Where a round stands.
RoundInv ==
  /\ end <= size
  /\ \A timer \in BoardTimers : ticked[timer] <= 1
  /\ \A timer \in BoardTimers :
       ticked[timer] = 1 => \E i \in Slots : i < next /\ slots[i] = timer
  /\ \A timer \in due :
       \E i \in Slots : i < end /\ slots[i] = timer /\ (i < next => ticked[timer] = 1)

-----------------------------------------------------------------------------
LEMMA TimersKnown ==
  /\ TimersInOrder \in Seq(STRING) /\ Len(TimersInOrder) \in Nat
  /\ MaxTimers \in Nat /\ Len(TimersInOrder) <= MaxTimers
  /\ \A i \in 1..Len(TimersInOrder) : TimersInOrder[i] \in BoardTimers
  /\ \A i, j \in 1..Len(TimersInOrder) : TimersInOrder[i] = TimersInOrder[j] => i = j
  /\ NoTimer \notin BoardTimers
  /\ BoardTimers \cap OtherPlaces = {}
BY TimerTickerAssumption, BootAssumption DEF BoardTimers, NoTimer

\* Two elements before a sequence.
LEMMA TwoInFront ==
  ASSUME NEW S, NEW a \in S, NEW b \in S, NEW t \in Seq(S)
  PROVE  /\ Len(<<a, b>> \o t) = Len(t) + 2
         /\ (<<a, b>> \o t)[1] = a
         /\ (<<a, b>> \o t)[2] = b
         /\ \A i \in 1..Len(t) : (<<a, b>> \o t)[i + 2] = t[i]
<1> DEFINE two == <<a, b>>
<1>1. two \in Seq(S)
  OBVIOUS
<1>2. Len(two) = 2 /\ two[1] = a /\ two[2] = b
  OBVIOUS
<1> HIDE DEF two
<1>3. /\ Len(two \o t) = Len(two) + Len(t)
      /\ \A i \in 1..(Len(two) + Len(t)) :
           (two \o t)[i] = IF i <= Len(two) THEN two[i] ELSE t[i - Len(two)]
  BY <1>1
<1>4. /\ Len(two \o t) = Len(t) + 2
      /\ (two \o t)[1] = a
      /\ (two \o t)[2] = b
      /\ \A i \in 1..Len(t) : (two \o t)[i + 2] = t[i]
  BY <1>2, <1>3
<1> QED BY <1>4 DEF two

\* What Application_Init does, by number.
LEMMA InitSteps ==
  /\ Len(InitSequence) = Len(TimersInOrder) + 2
  /\ InitSequence[1] = "TimerTicker_Start"
  /\ InitSequence[2] = "LightSensorLtr303_Init"
  /\ \A i \in 1..Len(TimersInOrder) : InitSequence[i + 2] = TimersInOrder[i]
<1> DEFINE places == BoardTimers \cup OtherPlaces
<1>1. "TimerTicker_Start" \in places /\ "LightSensorLtr303_Init" \in places
  BY DEF OtherPlaces
<1>2. TimersInOrder \in Seq(places)
  <2>1. \A i \in 1..Len(TimersInOrder) : TimersInOrder[i] \in places
    BY TimersKnown
  <2> HIDE DEF places
  <2> QED BY <2>1, TimersKnown
<1> HIDE DEF places
<1> QED BY <1>1, <1>2, TwoInFront DEF InitSequence

\* No step comes twice.
LEMMA InitStepsDiffer ==
  ASSUME NEW i \in 1..Len(InitSequence), NEW j \in 1..Len(InitSequence),
         InitSequence[i] = InitSequence[j]
  PROVE  i = j
<1> DEFINE T == TimersInOrder
<1>1. \A k \in 1..Len(InitSequence) :
        k = 1 \/ k = 2 \/ (k - 2 \in 1..Len(T) /\ InitSequence[k] = T[k - 2])
  BY InitSteps, TimersKnown
<1>2. \A k \in 1..Len(T) : T[k] # "TimerTicker_Start" /\ T[k] # "LightSensorLtr303_Init"
  BY TimersKnown DEF OtherPlaces
<1> QED BY <1>1, <1>2, InitSteps, TimersKnown

\* What follows each step.
LEMMA AfterSteps ==
  /\ After("TimerTicker_Start") = "LightSensorLtr303_Init"
  /\ After("LightSensorLtr303_Init") = IF Len(TimersInOrder) = 0 THEN "loop" ELSE TimersInOrder[1]
  /\ \A i \in 1..Len(TimersInOrder) :
       After(TimersInOrder[i]) = IF i = Len(TimersInOrder) THEN "loop" ELSE TimersInOrder[i + 1]
<1>1. ASSUME NEW i \in 1..Len(InitSequence)
      PROVE  After(InitSequence[i]) = IF i = Len(InitSequence) THEN "loop" ELSE InitSequence[i + 1]
  <2> DEFINE k == CHOOSE j \in 1..Len(InitSequence) : InitSequence[j] = InitSequence[i]
  <2>1. k \in 1..Len(InitSequence) /\ InitSequence[k] = InitSequence[i]
    OBVIOUS
  <2>2. k = i
    BY <2>1, InitStepsDiffer
  <2> QED BY <2>2 DEF After
<1>2. 1 \in 1..Len(InitSequence) /\ 2 \in 1..Len(InitSequence)
  BY InitSteps, TimersKnown
<1>3. After("TimerTicker_Start") = "LightSensorLtr303_Init"
  BY <1>1, <1>2, InitSteps, TimersKnown
<1>4. After("LightSensorLtr303_Init") = IF Len(TimersInOrder) = 0 THEN "loop" ELSE TimersInOrder[1]
  <2>1. Len(InitSequence) = 2 <=> Len(TimersInOrder) = 0
    BY InitSteps, TimersKnown
  <2>2. Len(TimersInOrder) # 0 => InitSequence[3] = TimersInOrder[1]
    BY InitSteps, TimersKnown
  <2> QED BY <1>1, <1>2, <2>1, <2>2, InitSteps
<1>5. ASSUME NEW i \in 1..Len(TimersInOrder)
      PROVE  After(TimersInOrder[i]) = IF i = Len(TimersInOrder) THEN "loop" ELSE TimersInOrder[i + 1]
  <2>1. i + 2 \in 1..Len(InitSequence) /\ InitSequence[i + 2] = TimersInOrder[i]
    BY InitSteps, TimersKnown
  <2>2. i + 2 = Len(InitSequence) <=> i = Len(TimersInOrder)
    BY InitSteps, TimersKnown
  <2>3. i # Len(TimersInOrder) => InitSequence[i + 2 + 1] = TimersInOrder[i + 1]
    BY InitSteps, TimersKnown
  <2> QED BY <1>1, <2>1, <2>2, <2>3
<1> QED BY <1>3, <1>4, <1>5

-----------------------------------------------------------------------------
\* The steps that write what setup() and the ticker thread know.
LEMMA BootSteps ==
  ASSUME [Next]_vars
  PROVE  \/ ReadHwVersion \/ InitFailed \/ EspRestart
         \/ BootStartTicker \/ BootFindSensor \/ BootRegister
         \/ TickerThread /\ UNCHANGED <<bootVars, pin>>
         \/ PinChanges /\ UNCHANGED <<bootVars, tickerVars>>
         \/ UNCHANGED <<bootVars, pin, tickerVars>>
BY DEF Next, MainThread, BootStep, Setup, LoopPushesTick, LoopSleeps, LoopDispatches, Ticker,
       Environment, vars

LEMMA VectorInvInit == Init => VectorInv
<1> SUFFICES ASSUME Init PROVE VectorInv
  OBVIOUS
<1>1. BootTypeOK
  BY BootAssumption DEF Init, BootInit, BootTypeOK, OtherPlaces
<1>2. TickerTypeOK
  BY TimersKnown DEF Init, TickerInit, TickerTypeOK, NotTicked
<1>3. /\ size = 0 /\ pushing = "none" /\ pc = "setup" /\ Written = 0
      /\ \A i \in Slots : slots[i] = NoTimer
  BY DEF Init, BootInit, TickerInit, Written, Complete
<1>4. pc \notin BoardTimers
  BY <1>3, TimersKnown DEF OtherPlaces
<1> QED BY <1>1, <1>2, <1>3, <1>4, TimersKnown DEF VectorInv, Slots

\* A timer is registered at most once and finds its period.
LEMMA Accepted ==
  ASSUME VectorInv, pc \in BoardTimers, pushing = "none"
  PROVE  Accepts(pc)
<1>1. /\ Complete = size /\ Written = size /\ size \in Nat /\ size <= MaxTimers
      /\ size < Len(TimersInOrder) /\ pc = TimersInOrder[size + 1]
      /\ tick_period_ms = TimerPeriod
  BY TimersKnown DEF VectorInv, TickerTypeOK, Complete, Written
<1>2. \A i \in 0..(size - 1) : slots[i] = TimersInOrder[i + 1]
  BY <1>1, TimersKnown DEF VectorInv, Slots
<1>3. pc \notin InVector
  BY <1>1, <1>2, TimersKnown DEF InVector
<1> QED BY <1>1, <1>3, TimersKnown DEF Accepts

\* The writes of push_back.
LEMMA PushWrites ==
  ASSUME VectorInv, pc \in BoardTimers, Push(pc)
  PROVE  /\ slots' \in [Slots -> BoardTimers \cup {NoTimer}]
         /\ size' \in 0..MaxTimers /\ size' <= Len(TimersInOrder)
         /\ pushing' \in {"none", "slot", "size"}
         /\ pushing' = "size" => size' > 0
         /\ size <= size'
         /\ \A i \in Slots : slots'[i] = IF i < Written' THEN TimersInOrder[i + 1] ELSE NoTimer
         /\ \A i \in Slots : slots[i] # NoTimer => slots'[i] = slots[i]
         /\ pushing' = "none" => Complete' = Complete + 1
         /\ pushing' # "none" => Complete' = Complete
         /\ UNCHANGED <<tick_period_ms, roundVars>>
<1>1. /\ size \in Nat /\ Len(TimersInOrder) \in Nat /\ MaxTimers \in Nat
      /\ Len(TimersInOrder) <= MaxTimers /\ size <= Len(TimersInOrder)
      /\ Complete < Len(TimersInOrder) /\ pc = TimersInOrder[Complete + 1]
      /\ pushing \in {"none", "slot", "size"} /\ (pushing = "size" => size > 0)
      /\ slots \in [Slots -> BoardTimers \cup {NoTimer}] /\ Slots = 0..(MaxTimers - 1)
      /\ pc # NoTimer
  BY TimersKnown DEF VectorInv, TickerTypeOK, Slots
<1>2. \A i \in Slots : slots[i] = IF i < Written THEN TimersInOrder[i + 1] ELSE NoTimer
  BY DEF VectorInv
<1>3. UNCHANGED <<tick_period_ms, roundVars>>
  BY DEF Push
<1>4. CASE PushSlot(pc) /\ pushing = "none"
  <2>1. slots' = [slots EXCEPT ![size] = pc] /\ pushing' = "slot" /\ size' = size
    BY <1>4 DEF PushSlot
  <2>2. Complete = size /\ Written = size /\ Complete' = size /\ Written' = size + 1
    BY <1>1, <1>4, <2>1 DEF Complete, Written
  <2> QED BY <1>1, <1>2, <1>3, <2>1, <2>2
<1>5. CASE PushSlot(pc) /\ pushing = "size"
  <2>1. slots' = [slots EXCEPT ![size - 1] = pc] /\ pushing' = "none" /\ size' = size
    BY <1>5 DEF PushSlot
  <2>2. Complete = size - 1 /\ Written = size - 1 /\ Complete' = size /\ Written' = size
    BY <1>1, <1>5, <2>1 DEF Complete, Written
  <2>3. size - 1 \in Slots /\ pc = TimersInOrder[size] /\ pc \in BoardTimers
    BY <1>1, <1>5, <2>2
  <2>4. \A i \in Slots : slots'[i] = IF i = size - 1 THEN pc ELSE slots[i]
    BY <1>1, <2>1, <2>3
  <2>5. slots' \in [Slots -> BoardTimers \cup {NoTimer}]
    BY <1>1, <2>1, <2>3
  <2>6. \A i \in Slots : slots'[i] = IF i < size THEN TimersInOrder[i + 1] ELSE NoTimer
    <3>1. TimersInOrder[(size - 1) + 1] = pc
      BY <1>1, <2>3
    <3>2. \A i \in Slots : i \in Nat /\ (i = size - 1 \/ (i < size <=> i < size - 1))
      BY <1>1
    <3> QED BY <1>1, <1>2, <2>2, <2>4, <3>1, <3>2
  <2>7. \A i \in Slots : slots[i] # NoTimer => slots'[i] = slots[i]
    BY <1>1, <1>2, <2>2, <2>3, <2>4
  <2> QED BY <1>1, <1>3, <2>1, <2>2, <2>5, <2>6, <2>7
<1>6. CASE PushSize /\ pushing = "none"
  <2>1. slots' = slots /\ pushing' = "size" /\ size' = size + 1
    BY <1>6 DEF PushSize
  <2>2. Complete = size /\ Written = size /\ Complete' = size /\ Written' = size
    BY <1>1, <1>6, <2>1 DEF Complete, Written
  <2> QED BY <1>1, <1>2, <1>3, <2>1, <2>2
<1>7. CASE PushSize /\ pushing = "slot"
  <2>1. slots' = slots /\ pushing' = "none" /\ size' = size + 1
    BY <1>7 DEF PushSize
  <2>2. Complete = size /\ Written = size + 1 /\ Complete' = size + 1 /\ Written' = size + 1
    BY <1>1, <1>7, <2>1 DEF Complete, Written
  <2> QED BY <1>1, <1>2, <1>3, <2>1, <2>2
<1> QED BY <1>4, <1>5, <1>6, <1>7 DEF Push, PushSlot, PushSize

\* The timers whose registration has returned come first.
LEMMA RegisteredInOrder ==
  ASSUME VectorInv
  PROVE  /\ Complete \in 0..size /\ Complete <= Len(TimersInOrder) /\ size <= MaxTimers
         /\ Registered = {TimersInOrder[i] : i \in 1..Complete}
<1>1. /\ size \in Nat /\ size <= Len(TimersInOrder) /\ Len(TimersInOrder) <= MaxTimers
      /\ Len(TimersInOrder) \in Nat /\ MaxTimers \in Nat /\ Slots = 0..(MaxTimers - 1)
      /\ Complete \in 0..size /\ Written >= Complete /\ Written \in Nat
  BY TimersKnown DEF VectorInv, TickerTypeOK, Complete, Written, Slots
<1>2. \A i \in 0..(Complete - 1) : slots[i] = TimersInOrder[i + 1]
  BY <1>1 DEF VectorInv
<1>3. ASSUME NEW i \in 1..Complete
      PROVE  i - 1 \in 0..(Complete - 1) /\ slots[i - 1] = TimersInOrder[i]
  BY <1>1, <1>2
<1>4. ASSUME NEW i \in 0..(Complete - 1)
      PROVE  i + 1 \in 1..Complete /\ slots[i] = TimersInOrder[i + 1]
  BY <1>1, <1>2
<1>5. Registered \subseteq {TimersInOrder[i] : i \in 1..Complete}
  BY <1>4 DEF Registered
<1>6. {TimersInOrder[i] : i \in 1..Complete} \subseteq Registered
  BY <1>3 DEF Registered
<1> QED BY <1>1, <1>5, <1>6

LEMMA VectorInvStep == VectorInv /\ [Next]_vars => VectorInv'
<1> SUFFICES ASSUME VectorInv, [Next]_vars PROVE VectorInv'
  OBVIOUS
<1> USE DEF OtherPlaces
<1>1. BootTypeOK /\ TickerTypeOK
  BY DEF VectorInv
<1>2. CASE ReadHwVersion \/ InitFailed \/ EspRestart
  <2>1. UNCHANGED tickerVars /\ pc \notin BoardTimers \cup {"LightSensorLtr303_Init", "loop"}
    BY <1>2, TimersKnown DEF ReadHwVersion, InitFailed, EspRestart
  <2>2. /\ size' = 0 /\ pushing' = "none" /\ UNCHANGED <<Written, Complete>>
        /\ pc' \notin BoardTimers \cup {"LightSensorLtr303_Init", "loop"}
        /\ pc' = "TimerTicker_Start" => hw_version' # "kUnknown"
    <3>1. size = 0 /\ pushing = "none"
      BY <2>1 DEF VectorInv
    <3>2. UNCHANGED <<Written, Complete>>
      BY <2>1 DEF Written, Complete, tickerVars, vectorVars
    <3>3. /\ pc' \in {"setup", "failed", "esp_restart", "waiting", "TimerTicker_Start"}
          /\ pc' = "TimerTicker_Start" => hw_version' # "kUnknown"
      BY <1>2, InitSteps DEF ReadHwVersion, InitFailed, EspRestart
    <3> QED BY <2>1, <3>1, <3>2, <3>3, TimersKnown DEF tickerVars, vectorVars
  <2>3. BootTypeOK'
    <3>1. HwVersion(pin) \in {"kUnknown", "kV1", "kV1_1", "kV1_2"}
      BY DEF HwVersion
    <3>2. hw_version' \in {"kUnknown", "kV1", "kV1_1", "kV1_2"} /\ pin' \in PinLevels
      BY <1>1, <1>2, <3>1 DEF BootTypeOK, ReadHwVersion, InitFailed, EspRestart
    <3>3. restart_cnt' \in 0..MaxRestarts
      BY <1>1, <1>2, BootAssumption
      DEF BootTypeOK, ReadHwVersion, InitFailed, EspRestart
    <3>4. pc' \in BoardTimers \cup OtherPlaces
      BY <1>2, InitSteps DEF ReadHwVersion, InitFailed, EspRestart
    <3> QED BY <3>2, <3>3, <3>4 DEF BootTypeOK
  <2>4. TickerTypeOK'
    BY <1>1, <2>1 DEF TickerTypeOK, tickerVars, vectorVars, roundVars
  <2> QED BY <2>1, <2>2, <2>3, <2>4 DEF VectorInv, tickerVars, vectorVars, roundVars
<1>3. CASE BootStartTicker
  <2>1. /\ pc = "TimerTicker_Start" /\ pc' = "LightSensorLtr303_Init"
        /\ tick_period_ms' = TimerPeriod /\ round' = "delay"
        /\ UNCHANGED <<slots, size, pushing, end, next, ticked, due>>
        /\ UNCHANGED <<restart_cnt, hw_version, pin>>
    BY <1>3, AfterSteps DEF BootStartTicker, StartTicker
  <2>2. /\ size' = 0 /\ pushing' = "none" /\ UNCHANGED <<Written, Complete>>
        /\ hw_version' # "kUnknown" /\ pc' \notin BoardTimers
    <3>1. pc \notin BoardTimers /\ pc' \notin BoardTimers
      BY <2>1, TimersKnown
    <3> QED BY <2>1, <3>1 DEF VectorInv, Written, Complete
  <2>3. BootTypeOK' /\ TickerTypeOK'
    BY <1>1, <2>1 DEF BootTypeOK, TickerTypeOK
  <2> QED BY <2>1, <2>2, <2>3 DEF VectorInv
<1>4. CASE BootFindSensor
  <2>1. /\ pc = "LightSensorLtr303_Init" /\ UNCHANGED <<restart_cnt, hw_version, pin, tickerVars>>
        /\ pc' = IF Len(TimersInOrder) = 0 THEN "loop" ELSE TimersInOrder[1]
    BY <1>4, AfterSteps DEF BootFindSensor
  <2>2. /\ size' = 0 /\ pushing' = "none" /\ Complete' = 0 /\ UNCHANGED <<Written, Complete>>
        /\ hw_version' # "kUnknown" /\ tick_period_ms' = TimerPeriod /\ round' # "none"
    <3>1. pc \notin BoardTimers /\ pc # "loop"
      BY <2>1, TimersKnown
    <3> QED BY <2>1, <3>1 DEF VectorInv, Written, Complete, tickerVars, vectorVars, roundVars
  <2>3. /\ pc' \in BoardTimers \cup {"loop"}
        /\ pc' \in BoardTimers => 0 < Len(TimersInOrder) /\ pc' = TimersInOrder[0 + 1]
        /\ pc' = "loop" => Len(TimersInOrder) = 0
    BY <2>1, TimersKnown
  <2>4. BootTypeOK' /\ TickerTypeOK'
    BY <1>1, <2>1, <2>3
    DEF BootTypeOK, TickerTypeOK, tickerVars, vectorVars, roundVars
  <2> QED BY <2>1, <2>2, <2>3, <2>4 DEF VectorInv, tickerVars, vectorVars, roundVars
<1>5. CASE BootRegister
  <2>1. /\ pc \in BoardTimers /\ Push(pc)
        /\ pc' = IF pushing' = "none" THEN After(pc) ELSE pc
        /\ UNCHANGED <<restart_cnt, hw_version, pin>>
    BY <1>5, Accepted DEF BootRegister
  <2> DEFINE n == Complete
  <2>2. /\ n \in Nat /\ n < Len(TimersInOrder) /\ pc = TimersInOrder[n + 1]
        /\ n + 1 \in 1..Len(TimersInOrder)
        /\ tick_period_ms = TimerPeriod /\ round # "none" /\ hw_version # "kUnknown"
    <3>1. n \in Nat
      BY <1>1 DEF Complete, TickerTypeOK, VectorInv
    <3> QED BY <2>1, <3>1, TimersKnown DEF VectorInv
  <2>3. After(pc) = IF n + 1 = Len(TimersInOrder) THEN "loop" ELSE TimersInOrder[(n + 1) + 1]
    BY <2>2, AfterSteps
  <2>4. /\ slots' \in [Slots -> BoardTimers \cup {NoTimer}]
        /\ size' \in 0..MaxTimers /\ size' <= Len(TimersInOrder) /\ size <= size'
        /\ pushing' \in {"none", "slot", "size"} /\ (pushing' = "size" => size' > 0)
        /\ \A i \in Slots : slots'[i] = IF i < Written' THEN TimersInOrder[i + 1] ELSE NoTimer
        /\ pushing' = "none" => Complete' = n + 1
        /\ pushing' # "none" => Complete' = n
        /\ UNCHANGED <<tick_period_ms, roundVars>>
    BY <2>1, PushWrites
  <2> HIDE DEF n
  <2>5. /\ pc' \in BoardTimers \cup {"loop"}
        /\ pc' \in BoardTimers => Complete' < Len(TimersInOrder) /\ pc' = TimersInOrder[Complete' + 1]
        /\ pc' = "loop" => Complete' = Len(TimersInOrder)
        /\ pushing' # "none" => pc' \in BoardTimers
    <3>1. CASE pushing' # "none"
      BY <2>1, <2>2, <2>4, <3>1, TimersKnown
    <3>2. CASE pushing' = "none" /\ n + 1 = Len(TimersInOrder)
      BY <2>1, <2>2, <2>3, <2>4, <3>2, TimersKnown
    <3>3. CASE pushing' = "none" /\ n + 1 # Len(TimersInOrder)
      <4>1. (n + 1) + 1 \in 1..Len(TimersInOrder)
        BY <2>2, <3>3, TimersKnown
      <4> QED BY <2>1, <2>2, <2>3, <2>4, <3>3, <4>1, TimersKnown
    <3> QED BY <3>1, <3>2, <3>3
  <2>6. BootTypeOK' /\ TickerTypeOK'
    BY <1>1, <2>1, <2>4, <2>5 DEF BootTypeOK, TickerTypeOK, roundVars
  <2> QED BY <2>1, <2>2, <2>4, <2>5, <2>6 DEF VectorInv, roundVars
<1>6. CASE TickerThread /\ UNCHANGED <<bootVars, pin>>
  <2>1. /\ UNCHANGED vectorVars /\ round # "none" /\ round' # "none" /\ UNCHANGED <<pc, restart_cnt, hw_version, pin>>
    BY <1>6 DEF TickerThread, RoundBegins, TickNext, RoundEnds, bootVars
  <2>2. BootTypeOK' /\ UNCHANGED <<Written, Complete>>
    BY <1>1, <2>1 DEF BootTypeOK, vectorVars, Written, Complete
  <2>3. TickerTypeOK'
    <3>1. CASE RoundBegins
      <4>1. Registered \subseteq BoardTimers
        BY RegisteredInOrder, TimersKnown
      <4> QED BY <1>1, <2>1, <3>1, <4>1 DEF TickerTypeOK, RoundBegins, vectorVars, NotTicked
    <3>2. CASE TickNext
      BY <1>1, <2>1, <3>2 DEF TickerTypeOK, TickNext, vectorVars
    <3>3. CASE RoundEnds
      BY <1>1, <2>1, <3>3 DEF TickerTypeOK, RoundEnds, vectorVars
    <3> QED BY <1>6, <3>1, <3>2, <3>3 DEF TickerThread
  <2> QED BY <2>1, <2>2, <2>3 DEF VectorInv, vectorVars
<1>7. CASE PinChanges /\ UNCHANGED <<bootVars, tickerVars>>
  BY <1>1, <1>7
  DEF PinChanges, VectorInv, BootTypeOK, TickerTypeOK, Written, Complete, bootVars, tickerVars,
      vectorVars, roundVars
<1>8. CASE UNCHANGED <<bootVars, pin, tickerVars>>
  BY <1>1, <1>8
  DEF VectorInv, BootTypeOK, TickerTypeOK, Written, Complete, bootVars, tickerVars,
      vectorVars, roundVars
<1> QED BY <1>2, <1>3, <1>4, <1>5, <1>6, <1>7, <1>8, BootSteps

LEMMA VectorInvCorrect == Spec => []VectorInv
BY VectorInvInit, VectorInvStep, PTL DEF Spec

\* The loop finds the ticker running, with every timer registered.
THEOREM LoopIsPrepared == Spec => []LoopFindsEverything
<1>1. ASSUME VectorInv, pc = "loop" PROVE BoardTimers \subseteq Registered
  <2>1. Complete = Len(TimersInOrder)
    BY <1>1 DEF VectorInv
  <2> QED BY <1>1, <2>1, RegisteredInOrder DEF BoardTimers
<1>2. VectorInv => LoopFindsEverything
  BY <1>1 DEF LoopFindsEverything, VectorInv
<1> QED BY <1>2, VectorInvCorrect, PTL

-----------------------------------------------------------------------------
\* What has been written to the vector stays.
LEMMA SlotsStay ==
  ASSUME VectorInv, [Next]_vars
  PROVE  /\ size <= size'
         /\ \A i \in Slots : slots[i] # NoTimer => slots'[i] = slots[i]
<1>1. size \in Nat
  BY DEF VectorInv, TickerTypeOK
<1>2. CASE BootRegister
  BY <1>2, Accepted, PushWrites DEF BootRegister
<1>3. CASE ~BootRegister
  BY <1>1, <1>3, BootSteps
  DEF ReadHwVersion, InitFailed, EspRestart, BootStartTicker, StartTicker, BootFindSensor,
      TickerThread, RoundBegins, TickNext, RoundEnds, tickerVars, vectorVars
<1> QED BY <1>2, <1>3

\* No timer stands in the vector twice.
LEMMA SlotsDiffer ==
  ASSUME VectorInv, NEW i \in Slots, NEW j \in Slots, slots[i] = slots[j], slots[i] # NoTimer
  PROVE  i = j
<1>1. Written \in Nat /\ Written <= Len(TimersInOrder)
  BY TimersKnown DEF VectorInv, TickerTypeOK, Written, Complete
<1>2. i \in Nat /\ j \in Nat /\ i < Written /\ j < Written
  BY <1>1 DEF VectorInv, Slots
<1>3. i + 1 \in 1..Len(TimersInOrder) /\ j + 1 \in 1..Len(TimersInOrder)
  BY <1>1, <1>2, TimersKnown
<1>4. TimersInOrder[i + 1] = TimersInOrder[j + 1]
  BY <1>1, <1>2 DEF VectorInv
<1>5. i + 1 = j + 1
  BY <1>3, <1>4, TimersKnown
<1> QED BY <1>2, <1>5

LEMMA RoundInvInit == Init => RoundInv
BY DEF Init, TickerInit, RoundInv, NotTicked

LEMMA RoundInvStep == VectorInv /\ RoundInv /\ [Next]_vars => RoundInv'
<1> SUFFICES ASSUME VectorInv, RoundInv, [Next]_vars PROVE RoundInv'
  OBVIOUS
<1>1. /\ size \in Nat /\ end \in Nat /\ next \in 0..end /\ MaxTimers \in Nat /\ size <= MaxTimers
      /\ Slots = 0..(MaxTimers - 1) /\ ticked \in [BoardTimers -> Nat] /\ due \subseteq BoardTimers
      /\ end <= size
  BY TimersKnown DEF VectorInv, TickerTypeOK, Slots, RoundInv
<1>2. size \in Nat /\ size' \in Nat /\ size <= size'
  BY <1>1, VectorInvStep, SlotsStay DEF VectorInv, TickerTypeOK
<1>3. CASE RoundBegins
  <2>1. /\ end' = size /\ size' = size /\ next' = 0 /\ ticked' = NotTicked /\ due' = Registered
        /\ slots' = slots
    BY <1>3 DEF RoundBegins, vectorVars
  <2>2. \A timer \in Registered : \E i \in Slots : i < size /\ slots[i] = timer
    BY <1>1, RegisteredInOrder DEF Registered
  <2>3. \A timer \in BoardTimers : ticked'[timer] = 0
    BY <2>1 DEF NotTicked
  <2>4. \A i \in Slots : ~(i < next')
    BY <1>1, <2>1
  <2> QED BY <1>1, <2>1, <2>2, <2>3, <2>4 DEF RoundInv
<1>4. CASE TickNext
  <2>1. /\ next < end /\ next' = next + 1 /\ UNCHANGED <<slots, size, end, due>>
        /\ ticked' = [timer \in BoardTimers |->
                        IF timer = slots[next] THEN ticked[timer] + 1 ELSE ticked[timer]]
    BY <1>4 DEF TickNext, vectorVars
  <2>2. next \in Slots
    BY <1>1, <2>1
  <2>3. ASSUME NEW timer \in BoardTimers, timer = slots[next]
        PROVE  ticked[timer] = 0
    <3>1. ~(ticked[timer] = 1)
      <4> SUFFICES ASSUME ticked[timer] = 1 PROVE FALSE
        OBVIOUS
      <4>1. PICK i \in Slots : i < next /\ slots[i] = timer
        BY DEF RoundInv
      <4>2. i = next
        BY <2>2, <2>3, <4>1, SlotsDiffer, TimersKnown
      <4> QED BY <1>1, <4>1, <4>2
    <3> QED BY <1>1, <3>1 DEF RoundInv
  <2>4. \A timer \in BoardTimers :
          ticked'[timer] = IF timer = slots[next] THEN 1 ELSE ticked[timer]
    BY <2>1, <2>3
  <2>5. \A timer \in BoardTimers : ticked'[timer] <= 1
    BY <1>1, <2>4 DEF RoundInv
  <2>6. \A i \in Slots : i < next' <=> i < next \/ i = next
    BY <1>1, <2>1
  <2>7. \A timer \in BoardTimers : ticked'[timer] = 1 => \E i \in Slots : i < next' /\ slots[i] = timer
    BY <2>2, <2>4, <2>6 DEF RoundInv
  <2>8. \A timer \in due :
          \E i \in Slots : i < end /\ slots[i] = timer /\ (i < next' => ticked'[timer] = 1)
    BY <1>1, <2>4, <2>6 DEF RoundInv
  <2> QED BY <1>1, <2>1, <2>5, <2>7, <2>8 DEF RoundInv
<1>5. CASE UNCHANGED <<end, next, ticked, due>>
  <2>1. \A timer \in BoardTimers : timer # NoTimer
    BY TimersKnown
  <2>2. end <= size'
    BY <1>1, <1>2
  <2> QED BY <1>1, <1>5, <2>1, <2>2, SlotsStay DEF RoundInv
<1>6. RoundBegins \/ TickNext \/ UNCHANGED <<end, next, ticked, due>>
  <2>1. CASE BootRegister
    BY <2>1 DEF BootRegister, Push, roundVars, tickerVars
  <2>2. CASE ~BootRegister
    BY <2>2, BootSteps
    DEF ReadHwVersion, InitFailed, EspRestart, BootStartTicker, StartTicker, BootFindSensor,
        TickerThread, RoundEnds, tickerVars, roundVars
  <2> QED BY <2>1, <2>2
<1> QED BY <1>3, <1>4, <1>5, <1>6

LEMMA RoundInvCorrect == Spec => []RoundInv
BY VectorInvCorrect, RoundInvInit, RoundInvStep, PTL DEF Spec

\* A round ticks what was registered when it began, each timer once and none twice.
THEOREM TimersTickOnce == Spec => []RoundTicksEach
<1>1. ASSUME VectorInv, RoundInv PROVE RoundTicksEach
  <2>1. \A i \in Slots : i \in Nat
    BY TimersKnown DEF Slots
  <2> QED BY <1>1, <2>1 DEF RoundTicksEach, RoundInv, VectorInv, TickerTypeOK
<1> QED BY <1>1, VectorInvCorrect, RoundInvCorrect, PTL

\* Every variable of Device keeps its type.
THEOREM DeviceTypeOK == Spec => []TypeOK
<1>1. ClockInv /\ SensorInv /\ VectorInv => TypeOK
  BY DEF TypeOK, ClockInv, SensorInv, VectorInv
<1> QED BY <1>1, ClockInvCorrect, SensorInvCorrect, VectorInvCorrect, PTL
=============================================================================
