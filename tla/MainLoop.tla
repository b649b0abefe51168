----------------------------- MODULE MainLoop -----------------------------
(***************************************************************************)
(* loop() of main.cpp and its clock.  millis() counts milliseconds in 32   *)
(* bits and starts again at 0 every 49.7 days; the sum it is compared with *)
(* has 32 bits, too.  A TICK is dispatched together with all signals that  *)
(* are sent in answer, before the queue is empty and the clock is read     *)
(* again (Firmware has what happens in between); some of the calls block.  *)
(***************************************************************************)
EXTENDS EventQueue

CONSTANTS ClockSize,    \* 2^32 in the code
          TickPeriod,   \* kTickPeriodMilliSeconds
          MaxBlock      \* the longest time a TICK and its answers take

ASSUME ClockAssumption ==
  /\ ClockSize \in Nat
  /\ TickPeriod \in Nat \ {0}
  /\ TickPeriod < ClockSize
  /\ MaxBlock \in 0..(ClockSize - 1)

VARIABLES millis, last_time_stamp,
          wraps,    \* 1 if millis() has started again at 0 since the last TICK
          since,    \* milliseconds since the last TICK
          waited    \* those of them the loop has slept

loopVars == <<queue, millis, last_time_stamp, wraps, since, waited>>

\* Enough for "long enough", and for "too long".
SinceCap == TickPeriod + 1
WaitCap == TickPeriod + 2

Capped(n, cap) == IF n > cap THEN cap ELSE n

LoopTypeOK ==
  /\ queue \in {<<>>, <<"TICK">>}
  /\ millis \in 0..(ClockSize - 1)
  /\ last_time_stamp \in 0..(ClockSize - 1)
  /\ wraps \in 0..1
  /\ since \in 0..SinceCap
  /\ waited \in 0..WaitCap

\* The time setup() takes is left out.
LoopInit ==
  /\ queue = <<>>
  /\ millis = 0
  /\ last_time_stamp = 0
  /\ wraps = 0
  /\ since = 0
  /\ waited = 0

\* Time goes on by ms, less than the clock takes to go round.
Elapse(ms) ==
  /\ millis' = (millis + ms) % ClockSize
  /\ wraps' = IF millis + ms >= ClockSize THEN 1 ELSE wraps
  /\ since' = Capped(since + ms, SinceCap)

\* Mutant: the sum is computed in 64 bits.
TickDueWide == millis > last_time_stamp + TickPeriod

TickDue == millis > (last_time_stamp + TickPeriod) % ClockSize

\* Mutant: the time of the next TICK is stored and the period added again.
StampNext == (millis + TickPeriod) % ClockSize

\* Mutant: the TICKs of a blocking call are made up for.
StampCatchesUp == (last_time_stamp + TickPeriod) % ClockSize

Stamp == millis

PushTick ==
  /\ queue = <<>>
  /\ TickDue
  /\ last_time_stamp' = Stamp
  /\ Post("TICK")
  /\ wraps' = 0
  /\ since' = 0
  /\ waited' = 0
  /\ UNCHANGED millis

Sleep ==
  /\ queue = <<>>
  /\ ~TickDue
  /\ Elapse(1)
  /\ waited' = Capped(waited + 1, WaitCap)
  /\ UNCHANGED <<queue, last_time_stamp>>

DispatchTick ==
  /\ queue # <<>>
  /\ \E ms \in 0..MaxBlock : Elapse(ms)
  /\ queue' = Tail(queue)
  /\ UNCHANGED <<last_time_stamp, waited>>
=============================================================================
