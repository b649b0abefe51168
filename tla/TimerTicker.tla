---------------------------- MODULE TimerTicker ----------------------------
(***************************************************************************)
(* The registration of timers of Util/TimerTicker.cpp, by the main thread, *)
(* while the ticker thread goes through the same vector without a lock.    *)
(* The program has a data race: of the two writes of push_back, the slot   *)
(* and the size, either may come first, and the ticker may run in between. *)
(* The thread takes the size when a round begins, then reads slot by slot. *)
(* What a tick does to a timer is modelled in Timer.                       *)
(***************************************************************************)
EXTENDS Naturals, Sequences

CONSTANTS MaxTimers,       \* kMaxTimers, 10 in the code
          DefaultPeriod,   \* kDefaultTickPeriodMilliseconds
          TimerPeriod,     \* the one of every timer, kTickPeriodMilliSeconds
          TimersInOrder    \* the timers of the board, as its states register them: five

ASSUME TimerTickerAssumption ==
  /\ MaxTimers \in Nat
  /\ DefaultPeriod \in Nat \ {0}
  /\ TimerPeriod \in Nat \ {0}
  /\ TimersInOrder \in Seq(STRING)
  /\ Len(TimersInOrder) <= MaxTimers
  /\ \A i, j \in 1..Len(TimersInOrder) : TimersInOrder[i] = TimersInOrder[j] => i = j
  /\ \A i \in 1..Len(TimersInOrder) : TimersInOrder[i] # "nullptr"

BoardTimers == {TimersInOrder[i] : i \in 1..Len(TimersInOrder)}

NoTimer == "nullptr"
Slots == 0..(MaxTimers - 1)

VARIABLES tick_period_ms,
          slots, size,    \* _timers
          pushing,        \* the half of push_back that has been written: "none", "slot", "size"
          round,          \* of the ticker thread: "none" without a thread, "delay", "ticking"
          end, next,      \* of its loop over _timers
          ticked,         \* how often each timer was ticked in this round
          due             \* the timers whose registration had returned when it began

vectorVars == <<tick_period_ms, slots, size, pushing>>
roundVars == <<round, end, next, ticked, due>>
tickerVars == <<vectorVars, roundVars>>

NotTicked == [timer \in BoardTimers |-> 0]

TickerTypeOK ==
  /\ tick_period_ms \in {DefaultPeriod, TimerPeriod}
  /\ slots \in [Slots -> BoardTimers \cup {NoTimer}]
  /\ size \in 0..MaxTimers
  /\ pushing \in {"none", "slot", "size"}
  /\ round \in {"none", "delay", "ticking"}
  /\ end \in 0..MaxTimers
  /\ next \in 0..end
  /\ ticked \in [BoardTimers -> Nat]
  /\ due \subseteq BoardTimers

\* A vector of static storage is zero at first.
TickerInit ==
  /\ tick_period_ms = DefaultPeriod
  /\ slots = [slot \in Slots |-> NoTimer]
  /\ size = 0
  /\ pushing = "none"
  /\ round = "none"
  /\ end = 0 /\ next = 0
  /\ ticked = NotTicked
  /\ due = {}

\* The timers between begin() and end().
InVector == {slots[i] : i \in 0..(size - 1)}

\* Those whose registration has returned.
Complete == IF pushing = "size" THEN size - 1 ELSE size
Registered == {slots[i] : i \in 0..(Complete - 1)}

-----------------------------------------------------------------------------
(* The main thread.                                                        *)

\* TimerTicker_Start.  The flag _is_started stays FALSE; it is called once.
StartTicker ==
  /\ tick_period_ms' = TimerPeriod
  /\ round' = "delay"
  /\ UNCHANGED <<slots, size, pushing, end, next, ticked, due>>

\* TimerTicker_RegisterTimer goes on to push_back.
Accepts(timer) ==
  /\ tick_period_ms = TimerPeriod
  /\ timer \notin InVector
  /\ size < MaxTimers

\* Mutant: the size has grown before the slot is looked up.
PushSlotLate(timer) ==
  \/ /\ pushing = "none"
     /\ slots' = [slots EXCEPT ![size] = timer]
     /\ pushing' = "slot"
     /\ UNCHANGED size
  \/ /\ pushing = "size"
     /\ slots' = [slots EXCEPT ![size] = timer]
     /\ pushing' = "none"
     /\ UNCHANGED size

\* The pointer is written behind the last one.
PushSlot(timer) ==
  \/ /\ pushing = "none"
     /\ slots' = [slots EXCEPT ![size] = timer]
     /\ pushing' = "slot"
     /\ UNCHANGED size
  \/ /\ pushing = "size"
     /\ slots' = [slots EXCEPT ![size - 1] = timer]
     /\ pushing' = "none"
     /\ UNCHANGED size

PushSize ==
  /\ pushing \in {"none", "slot"}
  /\ size' = size + 1
  /\ pushing' = IF pushing = "none" THEN "size" ELSE "none"
  /\ UNCHANGED slots

\* One write of push_back, of a timer that is accepted or on its way.
Push(timer) ==
  /\ PushSlot(timer) \/ PushSize
  /\ UNCHANGED <<tick_period_ms, roundVars>>

-----------------------------------------------------------------------------
(* The ticker thread: TimerTickerThread and Tick.                          *)

RoundBegins ==
  /\ round = "delay"
  /\ round' = "ticking"
  /\ end' = size
  /\ next' = 0
  /\ ticked' = NotTicked
  /\ due' = Registered
  /\ UNCHANGED vectorVars

\* A null pointer is only logged.
TickNext ==
  /\ round = "ticking" /\ next < end
  /\ ticked' = [timer \in BoardTimers |->
                  IF timer = slots[next] THEN ticked[timer] + 1 ELSE ticked[timer]]
  /\ next' = next + 1
  /\ UNCHANGED <<vectorVars, round, end, due>>

RoundEnds ==
  /\ round = "ticking" /\ next = end
  /\ round' = "delay"
  /\ UNCHANGED <<vectorVars, end, next, ticked, due>>

TickerThread == RoundBegins \/ TickNext \/ RoundEnds
=============================================================================
