---------------------------- MODULE PushButton ----------------------------
(***************************************************************************)
(* PushButton: samples its pin on every TICK and sends SHORT_PUSH when the *)
(* button is released after it was down for more than ShortPushTicks       *)
(* ticks.  is_pushed_ (debounce_cnt_ above the 50 ms debounce time) has    *)
(* no reader in the firmware and is left out.                              *)
(***************************************************************************)
EXTENDS EventQueue

CONSTANT ShortPushTicks   \* kShortPushMinDurationMilliSeconds / kTickPeriodMilliSeconds

ASSUME ShortPushAssumption == ShortPushTicks \in Nat

VARIABLE debounce_cnt

\* The code's counter is a uint32_t that runs on while the button is down;
\* only "> ShortPushTicks" is read, so it is kept at ShortPushTicks + 1.
DebounceCap == ShortPushTicks + 1

ButtonTypeOK == debounce_cnt \in 0..DebounceCap

ButtonInit == debounce_cnt = 0

ButtonDown ==
  /\ debounce_cnt' = IF debounce_cnt < DebounceCap THEN debounce_cnt + 1 ELSE debounce_cnt
  /\ UNCHANGED queue

ButtonUp ==
  /\ debounce_cnt' = 0
  /\ IF debounce_cnt > ShortPushTicks THEN Post("SHORT_PUSH") ELSE UNCHANGED queue

\* PushButton::Dispatch; the level of the pin is free at every tick.
ButtonDispatch(event) ==
  \/ event = "TICK" /\ (ButtonDown \/ ButtonUp)
  \/ event # "TICK" /\ UNCHANGED <<queue, debounce_cnt>>
=============================================================================
