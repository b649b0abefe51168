------------------------------ MODULE Timer -------------------------------
(***************************************************************************)
(* Util/Timer.cpp and the thread of Util/TimerTicker.cpp that ticks it.    *)
(* The main loop, the client, calls one method after the other; each takes *)
(* the timer's mutex for itself, so that the ticker may run in between.    *)
(* Timers share no state: one stands for all that are registered.          *)
(*                                                                         *)
(* The mutex is held for a few instructions, and its timeout of 10 ms is   *)
(* taken not to pass: after it the code would go on without the mutex      *)
(* (Util/Mutex.cpp 32-36).                                                 *)
(***************************************************************************)
EXTENDS Naturals, Sequences

CONSTANTS TickPeriod,    \* tick_period_ms_
          Durations,     \* what StartOneShot is called with, in milliseconds
          CounterSize    \* ticks_ wraps here: 2^32 in the code

ASSUME TimerAssumption ==
  /\ TickPeriod \in Nat \ {0}
  /\ Durations \subseteq Nat
  /\ CounterSize \in Nat \ {0}
  /\ \A ms \in Durations : ms \div TickPeriod < CounterSize

VARIABLES state, ticks, duration_in_ticks,
          mutex,    \* who holds it: "nobody", "client" or "ticker"
          call,     \* the methods the client calls in a row
          done,     \* how many of them have returned
          ticker    \* the next thing the ticker thread does

timerVars == <<state, ticks, duration_in_ticks>>
timerThreadVars == <<timerVars, mutex, call, done, ticker>>

\* Mutant: the two calls the other way round.
ExitResetFirst == <<"Reset", "Stop">>

\* What the states of the board do in one go: Exit of Live and Offline, Enter
\* of Live for its 15 minutes; the other methods on their own.
Exit == <<"Stop", "Reset">>

StartUnlessRunning == <<"IsRunning", "StartOneShot">>

Reads == {<<"HasExpired">>, <<"IsRunning">>}

Calls ==
  {Exit, StartUnlessRunning}
    \cup {<<m>> : m \in {"StartOneShot", "Stop", "Reset", "Restart", "Halt", "Continue"}}
    \cup Reads

TypeOK ==
  /\ state \in {"kStopped", "kRunning", "kHalted", "kExpired"}
  /\ ticks \in 0..(CounterSize - 1)
  /\ duration_in_ticks \in 0..(CounterSize - 1)
  /\ mutex \in {"nobody", "client", "ticker"}
  /\ call \in Calls \cup {<<>>}
  /\ done \in 0..Len(call)
  /\ ticker \in {"lock", "count", "compare"}

Init ==
  /\ state = "kStopped"
  /\ ticks = 0
  /\ duration_in_ticks = 0
  /\ mutex = "nobody"
  /\ call = <<>>
  /\ done = 0
  /\ ticker = "lock"

-----------------------------------------------------------------------------
(* The methods, with the mutex held.  Each is refused, and nothing is      *)
(* changed, in the states it does not name.                                *)

Refused == UNCHANGED timerVars

\* Not zero and not longer than a tick: the duration cannot be resolved.
StartOneShot(ms) ==
  \/ /\ state = "kStopped" /\ ms > TickPeriod
     /\ duration_in_ticks' = ms \div TickPeriod
     /\ state' = "kRunning"
     /\ UNCHANGED ticks
  \/ /\ state = "kStopped" /\ ms = 0
     /\ state' = "kExpired"
     /\ UNCHANGED <<ticks, duration_in_ticks>>
  \/ (state # "kStopped" \/ ms \in 1..TickPeriod) /\ Refused

\* Leave for to with a cleared counter, from one of the states in from.
ClearTicks(from, to) ==
  \/ /\ state \in from
     /\ state' = to
     /\ ticks' = 0
     /\ UNCHANGED duration_in_ticks
  \/ state \notin from /\ Refused

Stop == ClearTicks({"kStopped", "kRunning", "kHalted"}, "kStopped")
Reset == ClearTicks({"kStopped", "kExpired"}, "kStopped")
Restart == ClearTicks({"kRunning", "kHalted", "kExpired"}, "kRunning")

Halt ==
  /\ state' = IF state = "kRunning" THEN "kHalted" ELSE state
  /\ UNCHANGED <<ticks, duration_in_ticks>>

Continue ==
  /\ state' = IF state = "kHalted" THEN "kRunning" ELSE state
  /\ UNCHANGED <<ticks, duration_in_ticks>>

Method(m) ==
  \/ m = "StartOneShot" /\ \E ms \in Durations : StartOneShot(ms)
  \/ m = "Stop" /\ Stop
  \/ m = "Reset" /\ Reset
  \/ m = "Restart" /\ Restart
  \/ m = "Halt" /\ Halt
  \/ m = "Continue" /\ Continue
  \/ m \in {"IsRunning", "HasExpired"} /\ UNCHANGED timerVars

-----------------------------------------------------------------------------
(* The client.                                                             *)

Idle == done = Len(call)
Current == call[done + 1]

ClientCalls ==
  /\ Idle
  /\ call' \in Calls
  /\ done' = 0
  /\ UNCHANGED <<timerVars, mutex, ticker>>

ClientLocks ==
  /\ ~Idle
  /\ mutex = "nobody"
  /\ mutex' = "client"
  /\ UNCHANGED <<timerVars, call, done, ticker>>

\* A running timer is not started.
ClientRuns ==
  /\ mutex = "client"
  /\ Method(Current)
  /\ done' = IF Current = "IsRunning" /\ state = "kRunning" THEN Len(call) ELSE done + 1
  /\ mutex' = "nobody"
  /\ UNCHANGED <<call, ticker>>

-----------------------------------------------------------------------------
(* The ticker thread: Timer::Tick in steps, between two delays.            *)

\* Mutant: the ticker does not take the mutex.
TickerDoesNotLock ==
  /\ ticker = "lock"
  /\ ticker' = "count"
  /\ UNCHANGED <<timerVars, mutex, call, done>>

TickerLocks ==
  /\ ticker = "lock"
  /\ mutex = "nobody"
  /\ mutex' = "ticker"
  /\ ticker' = "count"
  /\ UNCHANGED <<timerVars, call, done>>

\* Mutant: the counter is wider than the duration it is compared with.
TickerCountsWide ==
  /\ ticker = "count"
  /\ \/ /\ state = "kRunning"
        /\ ticks' = ticks + 1
        /\ ticker' = "compare"
        /\ UNCHANGED mutex
     \/ /\ state # "kRunning"
        /\ mutex' = "nobody"
        /\ ticker' = "lock"
        /\ UNCHANGED ticks
  /\ UNCHANGED <<state, duration_in_ticks, call, done>>

TickerCounts ==
  /\ ticker = "count"
  /\ \/ /\ state = "kRunning"
        /\ ticks' = IF ticks + 1 = CounterSize THEN 0 ELSE ticks + 1
        /\ ticker' = "compare"
        /\ UNCHANGED mutex
     \/ /\ state # "kRunning"
        /\ mutex' = "nobody"
        /\ ticker' = "lock"
        /\ UNCHANGED ticks
  /\ UNCHANGED <<state, duration_in_ticks, call, done>>

\* Mutant: the mutex is only given back by the tick that ends the run.
TickerComparesKeepsLock ==
  /\ ticker = "compare"
  /\ state' = IF ticks = duration_in_ticks THEN "kExpired" ELSE state
  /\ mutex' = IF ticks = duration_in_ticks THEN "nobody" ELSE mutex
  /\ ticker' = "lock"
  /\ UNCHANGED <<ticks, duration_in_ticks, call, done>>

TickerCompares ==
  /\ ticker = "compare"
  /\ state' = IF ticks = duration_in_ticks THEN "kExpired" ELSE state
  /\ mutex' = "nobody"
  /\ ticker' = "lock"
  /\ UNCHANGED <<ticks, duration_in_ticks, call, done>>

-----------------------------------------------------------------------------
Client == ClientCalls \/ ClientLocks \/ ClientRuns
Ticker == TickerLocks \/ TickerCounts \/ TickerCompares

Next == Client \/ Ticker

Spec == Init /\ [][Next]_timerThreadVars

\* The ticker thread goes on, and the operating system hands it the mutex it
\* waits for, also when the client asks for it again and again; a method that was
\* called returns.  Nothing makes the client call any.
FairSpec ==
  /\ Spec
  /\ SF_timerThreadVars(TickerLocks)
  /\ WF_timerThreadVars(TickerCounts \/ TickerCompares)
  /\ WF_timerThreadVars(ClientLocks \/ ClientRuns)

-----------------------------------------------------------------------------
\* Ticks left of a run that has counted t of d; the counter has to go round once
\* where d is zero.
TicksLeft(d, t) == IF t < d THEN d - t ELSE CounterSize - t

\* Half a tick has not happened yet.
CountedTicks == IF ticker # "compare" THEN ticks
                ELSE IF ticks = 0 THEN CounterSize - 1 ELSE ticks - 1

\* The methods of the timer behave as single steps, and a started timer expires
\* after exactly duration_ms / tick_period_ms ticks, whatever was done to it
\* before: StartOneShot leaves the counter as the last run left it.
OneShot == INSTANCE OneShotTimer
             WITH Periods <- {ms \div TickPeriod : ms \in {n \in Durations : n > TickPeriod}},
                  Forever <- CounterSize,
                  remaining <- IF state \in {"kRunning", "kHalted"}
                                 THEN TicksLeft(duration_in_ticks, CountedTicks) ELSE 0,
                  period <- TicksLeft(duration_in_ticks, 0)

TimerIsOneShot == OneShot!Spec

\* StateLive::Exit and StateOffline::Exit leave their timer stopped, also when it
\* expires between the two calls: Stop works on a running timer and Reset on an
\* expired one, in this order.
ExitStops ==
  [][call = Exit /\ ~Idle /\ Idle' => state' = "kStopped"]_timerThreadVars

\* A timer that is only looked at does not run forever.  This is the fairness
\* Firmware assumes of its TimerThread.
RunsEnd == <>[](call \in Reads \/ Idle) => <>[](state # "kRunning")
=============================================================================
