------------------------------- MODULE Boot -------------------------------
(***************************************************************************)
(* setup() of main.cpp and Application_Init: the board reads its version   *)
(* from an analog pin, starts the ticker thread, looks for the light       *)
(* sensor, and enters the state machine, whose states register their       *)
(* timers.  A board whose version cannot be read restarts.  What the state *)
(* machine starts with is Init of Firmware.                                *)
(***************************************************************************)
EXTENDS TimerTicker, LightSensor

CONSTANTS PinLevels,     \* what the analog pin may show, in millivolts
          MaxRestarts    \* 3 in the code

\* The other places of the main thread: in setup() and, at the end, in loop().
OtherPlaces ==
  {"setup", "failed", "esp_restart", "waiting", "TimerTicker_Start", "LightSensorLtr303_Init", "loop"}

ASSUME BootAssumption ==
  /\ PinLevels \subseteq Nat
  /\ MaxRestarts \in Nat \ {0}
  /\ BoardTimers \cap OtherPlaces = {}

VARIABLES pc,            \* where setup() is, then "loop"
          restart_cnt, hw_version,
          pin            \* what the analog pin shows now

bootVars == <<pc, restart_cnt, hw_version>>

\* BoardConfig::ReadHwVersionAnalogPin.
HwVersion(analog_reading) ==
  CASE 1550 < analog_reading /\ analog_reading < 1750 -> "kV1"
    [] 910 < analog_reading /\ analog_reading < 1110 -> "kV1_1"
    [] 2080 < analog_reading /\ analog_reading < 2280 -> "kV1_2"
    [] OTHER -> "kUnknown"

\* Mutant: the ticker, which sets the period timers must have, is started last.
InitSequenceTickerLast ==
  <<"LightSensorLtr303_Init">> \o TimersInOrder \o <<"TimerTicker_Start">>

\* What Application_Init does for a known version: of Trainboard::Init, only the
\* registration of each timer.
InitSequence ==
  <<"TimerTicker_Start", "LightSensorLtr303_Init">> \o TimersInOrder

\* What follows a step of it.
After(step) ==
  LET i == CHOOSE j \in 1..Len(InitSequence) : InitSequence[j] = step
  IN IF i = Len(InitSequence) THEN "loop" ELSE InitSequence[i + 1]

BootTypeOK ==
  /\ pc \in BoardTimers \cup OtherPlaces
  /\ restart_cnt \in 0..MaxRestarts
  /\ hw_version \in {"kUnknown", "kV1", "kV1_1", "kV1_2"}
  /\ pin \in PinLevels

BootInit ==
  /\ pc = "setup"
  /\ restart_cnt = 0
  /\ hw_version = "kUnknown"
  /\ pin \in PinLevels

-----------------------------------------------------------------------------
ReadHwVersion ==
  /\ pc = "setup"
  /\ hw_version' = HwVersion(pin)
  /\ pc' = IF hw_version' = "kUnknown" THEN "failed" ELSE InitSequence[1]
  /\ UNCHANGED <<restart_cnt, pin, tickerVars, sensorVars>>

\* Application_Init returned FALSE.  In "waiting" setup() never returns.
InitFailed ==
  /\ pc = "failed"
  /\ IF restart_cnt < MaxRestarts
       THEN restart_cnt' = restart_cnt + 1 /\ pc' = "esp_restart"
       ELSE pc' = "waiting" /\ UNCHANGED restart_cnt
  /\ UNCHANGED <<hw_version, pin, tickerVars, sensorVars>>

\* restart_cnt is a static variable, in RAM like all others.
EspRestart ==
  /\ pc = "esp_restart"
  /\ pc' = "setup"
  /\ restart_cnt' = 0
  /\ hw_version' = "kUnknown"
  /\ UNCHANGED <<pin, tickerVars, sensorVars>>

BootStartTicker ==
  /\ pc = "TimerTicker_Start"
  /\ StartTicker
  /\ pc' = After(pc)
  /\ UNCHANGED <<restart_cnt, hw_version, pin, sensorVars>>

BootFindSensor ==
  /\ pc = "LightSensorLtr303_Init"
  /\ FindSensor
  /\ pc' = After(pc)
  /\ UNCHANGED <<restart_cnt, hw_version, pin, tickerVars>>

\* InitTimers of the states: TimerTicker_RegisterTimer, whose result is ignored.
BootRegister ==
  /\ pc \in BoardTimers
  /\ IF pushing # "none" \/ Accepts(pc)
       THEN Push(pc) /\ pc' = IF pushing' = "none" THEN After(pc) ELSE pc
       ELSE pc' = After(pc) /\ UNCHANGED tickerVars
  /\ UNCHANGED <<restart_cnt, hw_version, pin, sensorVars>>

Setup ==
  \/ ReadHwVersion \/ InitFailed \/ EspRestart
  \/ BootStartTicker \/ BootFindSensor \/ BootRegister

\* The voltage at the pin has settled by the time the loop runs.
PinChanges == pc # "loop" /\ pin' \in PinLevels
=============================================================================
