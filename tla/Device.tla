------------------------------ MODULE Device ------------------------------
(***************************************************************************)
(* What Firmware takes for granted, put together: the board boots, its     *)
(* loop makes the TICKs out of the clock, the ticker thread reaches every  *)
(* timer, and the light sensor, at the end of each dispatch, sets the      *)
(* brightness the next TICK gives to the LEDs.  The state machine is left  *)
(* to Firmware: here a TICK takes some time.                               *)
(***************************************************************************)
EXTENDS MainLoop, Boot

VARIABLE led_brightness   \* what FastLED multiplies every LED with

vars == <<loopVars, bootVars, pin, tickerVars, sensorVars, led_brightness>>

TypeOK ==
  /\ LoopTypeOK
  /\ BootTypeOK
  /\ TickerTypeOK
  /\ SensorTypeOK
  /\ led_brightness \in MinimumBrightness..(ByteSize - 1)

Init ==
  /\ LoopInit
  /\ BootInit
  /\ TickerInit
  /\ SensorInit
  /\ led_brightness = DefaultBrightness

-----------------------------------------------------------------------------
BootStep == Setup /\ UNCHANGED <<loopVars, led_brightness>>

LoopPushesTick ==
  /\ pc = "loop"
  /\ PushTick
  /\ UNCHANGED <<bootVars, pin, tickerVars, sensorVars, led_brightness>>

LoopSleeps ==
  /\ pc = "loop"
  /\ Sleep
  /\ UNCHANGED <<bootVars, pin, tickerVars, sensorVars, led_brightness>>

\* FastLedPresenter::SetBrightness
SetBrightness(value) == led_brightness' = value

\* Application_Dispatch: Trainboard::DispatchEvent sets the brightness of the LEDs
\* before the light sensor is asked.
LoopDispatches ==
  /\ pc = "loop"
  /\ DispatchTick
  /\ SetBrightness(GetBrightness)
  /\ SensorTick
  /\ UNCHANGED <<bootVars, pin, tickerVars, is_sensor_available, world>>

MainThread == BootStep \/ LoopPushesTick \/ LoopSleeps \/ LoopDispatches

Ticker ==
  /\ TickerThread
  /\ UNCHANGED <<loopVars, bootVars, pin, sensorVars, led_brightness>>

Environment ==
  \/ WorldChanges /\ UNCHANGED <<sensorState, is_sensor_available, pin>>
                  /\ UNCHANGED <<loopVars, bootVars, tickerVars, led_brightness>>
  \/ PinChanges /\ UNCHANGED <<loopVars, bootVars, tickerVars, sensorVars, led_brightness>>

Next == MainThread \/ Ticker \/ Environment

Spec == Init /\ [][Next]_vars

\* The sensor measures every 100 ms and is asked every 120: it does not say for ever
\* that there is nothing new.
SensorSamples == LoopDispatches /\ bus_works /\ Sample

\* setup() and loop() go on: every call in them has a timeout.
Fairness == WF_vars(MainThread) /\ SF_vars(SensorSamples)

FairSpec == Spec /\ Fairness

-----------------------------------------------------------------------------
(* The clock.                                                              *)

\* The sum of a time stamp and the period goes past the end of the clock.
SumWraps == last_time_stamp + TickPeriod >= ClockSize

\* The loop sleeps no longer than a period, whatever blocks and wherever the clock
\* stands.  Unless millis() started again before the TICK and the sum did not: then
\* the loop sleeps until the clock has gone round, for 49.7 days (main.cpp 62).
TicksComeInTime == waited <= TickPeriod + 1 \/ (wraps = 1 /\ ~SumWraps)

\* TICKs are more than a period apart, for they are what all counters count.  Unless
\* the sum went past the end of the clock and millis() did not yet: for less than a
\* period, each turn of the loop is a TICK.
TicksAreSpaced == [][queue = <<>> /\ queue' # <<>> => since > TickPeriod \/ SumWraps]_vars

\* TICKs go on for ever: also the stall ends, when the clock has gone round.  Unless
\* the sum is the end of the clock; no time is later than that.
TicksGoOn ==
  <>[](pc = "loop") => []<>(queue # <<>>) \/ <>[](last_time_stamp + TickPeriod = ClockSize - 1)

-----------------------------------------------------------------------------
(* Booting.                                                                *)

\* The loop only runs on a board of a known version, and finds a running ticker with
\* every timer of the state machine registered: nobody looks at the result of
\* TimerTicker_RegisterTimer, which depends on the order in Application_Init.
LoopFindsEverything ==
  pc = "loop" =>
    /\ hw_version # "kUnknown"
    /\ round # "none"
    /\ BoardTimers \subseteq Registered

\* main.cpp 42: "After too many restarts, just send out a message periodically on the
\* console", and 46: "restarted 3 times. Now just waiting for power cycle".  A board whose
\* version is never read does not come to that: each restart clears the count.
WaitsAfterRestarts == [](HwVersion(pin) = "kUnknown") => <>(pc = "waiting")

\* A round of the ticker ticks every timer that was registered when it began, and no
\* timer twice, whichever write of a registration it gets to see.
RoundTicksEach ==
  /\ \A timer \in BoardTimers : ticked[timer] <= 1
  /\ round = "ticking" /\ next = end => due \subseteq {timer \in BoardTimers : ticked[timer] = 1}

-----------------------------------------------------------------------------
(* The brightness.                                                         *)

\* One sample, be it the 0 of a failed reading (LightSensorLtr303.cpp 74), changes the
\* brightness by 8 of 255 at most: the filter stays within its two bytes, so that the
\* mask never cuts off a carry.
NoJump ==
  [][/\ brightness' - brightness <= ByteSize \div FilterWeight
     /\ brightness - brightness' <= ByteSize \div FilterWeight]_vars

\* In constant light the LEDs get the brightness of the light, or one less (what is
\* left of the division by 32 never moves the filter up), and not less than the minimum.
Seen(level) == IF level < MinimumBrightness THEN MinimumBrightness ELSE level

BrightnessSettles ==
  \A l \in Lights :
    /\ <>[](pc = "loop" /\ is_sensor_available /\ bus_works /\ light = l)
    /\ []<>(queue # <<>>)
    => <>[](led_brightness \in {Seen(l \div ByteSize), Seen(l \div ByteSize - 1)})
=============================================================================
