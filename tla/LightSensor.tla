---------------------------- MODULE LightSensor ----------------------------
(***************************************************************************)
(* Periphery/LightSensorLtr303.cpp: the brightness of the LEDs, a byte,    *)
(* follows the light through a filter in fixed-point arithmetic with as    *)
(* many bits again behind the point.  The chip on the I2C bus is external: *)
(* it may have nothing new when it is asked, and a bus that fails may      *)
(* leave the reading at the 0 it was initialized with.                     *)
(***************************************************************************)
EXTENDS Integers

CONSTANTS ByteSize,            \* 2^8 in the code
          FilterWeight,        \* the 32 of the filter
          DefaultBrightness,   \* kDefaultBrightness
          MinimumBrightness,   \* kMinimumBrightness
          MaxCnt,              \* kMaxCnt, ticks between two looks at the sensor
          Lights               \* what the sensor may measure

RawMax == ByteSize * ByteSize - 1   \* UINT16_MAX

ASSUME LightSensorAssumption ==
  /\ FilterWeight \in Nat \ {0}
  /\ ByteSize \in Nat \ {0}
  /\ ByteSize % FilterWeight = 0
  /\ MinimumBrightness \in 0..DefaultBrightness
  /\ DefaultBrightness \in 0..(ByteSize - 1)
  /\ MaxCnt \in Nat
  /\ Lights \subseteq 0..RawMax

VARIABLES brightness, filtered_brightness, is_sensor_available, sensor_cnt,
          light,     \* what the sensor would measure now
          bus_works  \* the I2C bus does

sensorState == <<brightness, filtered_brightness, sensor_cnt>>
world == <<light, bus_works>>
sensorVars == <<sensorState, is_sensor_available, world>>

\* filtered_brightness is a uint32_t; more than RawMax would be cut by the mask.
SensorTypeOK ==
  /\ brightness \in 0..(ByteSize - 1)
  /\ filtered_brightness \in 0..RawMax
  /\ is_sensor_available \in BOOLEAN
  /\ sensor_cnt \in 0..MaxCnt
  /\ light \in Lights
  /\ bus_works \in BOOLEAN

SensorInit ==
  /\ brightness = DefaultBrightness
  /\ filtered_brightness = DefaultBrightness * ByteSize
  /\ is_sensor_available = FALSE
  /\ sensor_cnt = 0
  /\ light \in Lights
  /\ bus_works \in BOOLEAN

\* LightSensorLtr303_Init: one of five attempts to find it succeeds, or none.
FindSensor ==
  /\ is_sensor_available' \in BOOLEAN
  /\ UNCHANGED <<sensorState, world>>

-----------------------------------------------------------------------------
\* Mutant: the last value weighs as much as all of them.
FilteredHeavy(f, reading) == (FilterWeight * f + reading) \div FilterWeight

\* Mutant: the weights the other way round.
FilteredSwapped(f, reading) == (f + (FilterWeight - 1) * reading) \div FilterWeight

\* Mutant: what is behind the point is not kept.
FilteredBytes(f, reading) ==
  ((FilterWeight - 1) * ((f \div ByteSize) * ByteSize) + reading) \div FilterWeight

Filtered(f, reading) == ((FilterWeight - 1) * f + reading) \div FilterWeight

\* The upper byte of the lower two.
Brightness(f) == (f % (ByteSize * ByteSize)) \div ByteSize

\* What readBothChannels leaves in its argument, whose result is ignored.
Readings == IF bus_works THEN {light} ELSE {0, light}

Sample ==
  \E reading \in Readings :
    /\ filtered_brightness' = Filtered(filtered_brightness, reading)
    /\ brightness' = Brightness(filtered_brightness')

\* LightSensorLtr393_Dispatch of a TICK.
SensorTick ==
  \/ /\ ~is_sensor_available
     /\ UNCHANGED sensorState
  \/ /\ is_sensor_available /\ sensor_cnt < MaxCnt
     /\ sensor_cnt' = sensor_cnt + 1
     /\ UNCHANGED <<brightness, filtered_brightness>>
  \/ /\ is_sensor_available /\ sensor_cnt = MaxCnt
     /\ sensor_cnt' = 0
     /\ \/ Sample
        \/ UNCHANGED <<brightness, filtered_brightness>>

\* LightSensor_GetBrightness.
GetBrightness == IF brightness < MinimumBrightness THEN MinimumBrightness ELSE brightness

\* The light, and the bus.
WorldChanges ==
  /\ light' \in Lights
  /\ bus_works' \in BOOLEAN
=============================================================================
