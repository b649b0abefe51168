--------------------------- MODULE TimerProofs ----------------------------
(***************************************************************************)
(* That Timer implements OneShotTimer, for every tick period, duration and *)
(* width of the counter, and whatever the ticker and the client do.        *)
(***************************************************************************)
EXTENDS Timer, TLAPS

States == {"kStopped", "kRunning", "kHalted", "kExpired"}
Remaining == IF state \in {"kRunning", "kHalted"} THEN TicksLeft(duration_in_ticks, CountedTicks) ELSE 0
Period == TicksLeft(duration_in_ticks, 0)

\* Who holds the mutex, and what the ticker knows while it does.
MutexInv ==
  /\ mutex = "ticker" <=> ticker \in {"count", "compare"}
  /\ mutex = "client" => ~Idle
  /\ ticker = "compare" => state = "kRunning"

\* A stopped timer starts from zero, and a run has not counted past its end; a run
\* of zero ticks goes round once.
CountInv ==
  /\ state = "kStopped" => ticks = 0
  /\ state \in {"kRunning", "kHalted"} => duration_in_ticks = 0 \/ CountedTicks < duration_in_ticks

\* Between Stop and Reset the timer does not count.
ExitInv == call = Exit /\ done = 1 => state \in {"kStopped", "kExpired"}

TimerInv == TypeOK /\ MutexInv /\ CountInv /\ ExitInv

\* A duration longer than a tick is at least one tick.
LEMMA AtLeastOneTick ==
  ASSUME NEW ms \in Durations, ms > TickPeriod
  PROVE  ms \div TickPeriod \in 1..(CounterSize - 1)
<1>1. ms \in Nat /\ TickPeriod \in Nat \ {0} /\ CounterSize \in Nat \ {0}
      /\ ms \div TickPeriod < CounterSize
  BY TimerAssumption
<1>2. ms \div TickPeriod \in Nat /\ ms \div TickPeriod >= 1
  BY <1>1
<1> QED BY <1>1, <1>2
-----------------------------------------------------------------------------
(* A method of the client, with the mutex held.                            *)

VarsTypeOK ==
  /\ state \in States
  /\ ticks \in 0..(CounterSize - 1)
  /\ duration_in_ticks \in 0..(CounterSize - 1)

PeriodTicks == {ms \div TickPeriod : ms \in {n \in Durations : n > TickPeriod}}

\* The steps a method may be seen as.
OneShotStep == [OneShot!Next]_<<state, Remaining, Period>>

\* A method is a step of the one-shot timer or changes nothing, and keeps the count.
LEMMA MethodStep ==
  ASSUME TimerInv, ticker # "compare", ticker' = ticker, NEW m, Method(m)
  PROVE  /\ VarsTypeOK' /\ CountInv' /\ OneShotStep
         /\ m = "Stop" => state' \in {"kStopped", "kExpired"}
         /\ m = "Reset" /\ state \in {"kStopped", "kExpired"} => state' = "kStopped"
<1> USE DEF VarsTypeOK, CountInv, States, OneShotStep, Remaining, Period, TicksLeft
<1>1. /\ VarsTypeOK /\ CountInv /\ CounterSize \in Nat \ {0}
      /\ CountedTicks = ticks /\ CountedTicks' = ticks'
  BY TimerAssumption DEF TimerInv, TypeOK, CountedTicks
<1>2. CASE m = "StartOneShot" /\ \E ms \in Durations : StartOneShot(ms)
  <2>1. PICK ms \in Durations : StartOneShot(ms)
    BY <1>2
  <2>2. CASE /\ state = "kStopped" /\ ms > TickPeriod
             /\ duration_in_ticks' = ms \div TickPeriod
             /\ state' = "kRunning"
             /\ UNCHANGED ticks
    <3> DEFINE n == ms \div TickPeriod
    <3>1. n \in 1..(CounterSize - 1) /\ n \in PeriodTicks
      BY <2>2, AtLeastOneTick DEF PeriodTicks
    <3> HIDE DEF n
    <3>2. duration_in_ticks' = n /\ ticks' = 0 /\ state = "kStopped" /\ state' = "kRunning"
      BY <1>1, <2>2 DEF n
    <3>3. VarsTypeOK' /\ CountInv'
      BY <1>1, <3>1, <3>2
    <3>4. Remaining' = n /\ Period' = n
      BY <1>1, <3>1, <3>2
    <3>5. OneShot!Next
      BY <3>1, <3>2, <3>4 DEF OneShot!Next, OneShot!Start, PeriodTicks
    <3> QED BY <1>2, <3>3, <3>5
  <2>3. CASE state = "kStopped" /\ ms = 0 /\ state' = "kExpired" /\ UNCHANGED <<ticks, duration_in_ticks>>
    BY <1>1, <1>2, <2>3 DEF OneShot!Next, OneShot!StartElapsed
  <2>4. CASE Refused
    BY <1>1, <1>2, <2>4 DEF Refused, timerVars
  <2> QED BY <2>1, <2>2, <2>3, <2>4 DEF StartOneShot
<1>3. CASE m = "Stop" /\ Stop
  BY <1>1, <1>3 DEF Stop, ClearTicks, Refused, timerVars, OneShot!Next, OneShot!Stop
<1>4. CASE m = "Reset" /\ Reset
  BY <1>1, <1>4 DEF Reset, ClearTicks, Refused, timerVars, OneShot!Next, OneShot!Reset
<1>5. CASE m = "Restart" /\ Restart
  BY <1>1, <1>5 DEF Restart, ClearTicks, Refused, timerVars, OneShot!Next, OneShot!Restart
<1>6. CASE m = "Halt" /\ Halt
  BY <1>1, <1>6 DEF Halt, OneShot!Next, OneShot!Halt
<1>7. CASE m = "Continue" /\ Continue
  BY <1>1, <1>7 DEF Continue, OneShot!Next, OneShot!Continue
<1>8. CASE m \in {"IsRunning", "HasExpired"} /\ UNCHANGED timerVars
  BY <1>1, <1>8 DEF timerVars
<1> QED BY <1>2, <1>3, <1>4, <1>5, <1>6, <1>7, <1>8 DEF Method
-----------------------------------------------------------------------------
(* The two threads.                                                        *)

\* StateLive::Exit and StateOffline::Exit leave the timer stopped.
ExitStep == call = Exit /\ ~Idle /\ Idle' => state' = "kStopped"

\* Every sequence of calls is a short sequence.
LEMMA CallsAreSequences == \A c \in Calls \cup {<<>>} : Len(c) \in Nat
BY DEF Calls, Exit, StartUnlessRunning, Reads

\* The client.
LEMMA ClientStep ==
  ASSUME TimerInv, Client
  PROVE  TimerInv' /\ OneShotStep /\ ExitStep
<1>1. /\ TypeOK /\ MutexInv /\ CountInv /\ ExitInv
      /\ Len(call) \in Nat /\ done \in 0..Len(call)
  BY CallsAreSequences DEF TimerInv, TypeOK
<1>2. UNCHANGED <<timerVars, ticker>> => /\ VarsTypeOK' /\ CountInv' /\ OneShotStep
                                         /\ ticker' \in {"lock", "count", "compare"}
  BY <1>1
  DEF TypeOK, VarsTypeOK, States, CountInv, CountedTicks, OneShotStep, Remaining, Period, timerVars
<1>3. CASE ClientCalls
  <2>1. call' \in Calls /\ done' = 0 /\ Idle /\ UNCHANGED <<timerVars, mutex, ticker>>
    BY <1>3 DEF ClientCalls
  <2>2. done' \in 0..Len(call')
    BY <2>1, CallsAreSequences
  <2>3. TypeOK'
    BY <1>1, <1>2, <2>1, <2>2 DEF TypeOK, VarsTypeOK, States
  <2>4. MutexInv' /\ ExitInv' /\ ExitStep
    BY <1>1, <2>1 DEF MutexInv, ExitInv, ExitStep, timerVars
  <2> QED BY <1>2, <2>1, <2>3, <2>4 DEF TimerInv
<1>4. CASE ClientLocks
  <2>1. ~Idle /\ mutex = "nobody" /\ mutex' = "client" /\ UNCHANGED <<timerVars, call, done, ticker>>
    BY <1>4 DEF ClientLocks
  <2>2. Idle' = Idle
    BY <2>1 DEF Idle
  <2>3. TypeOK'
    BY <1>1, <1>2, <2>1 DEF TypeOK, VarsTypeOK, States
  <2>4. MutexInv' /\ ExitInv' /\ ExitStep
    BY <1>1, <2>1, <2>2 DEF MutexInv, ExitInv, ExitStep, timerVars
  <2> QED BY <1>2, <2>1, <2>3, <2>4 DEF TimerInv
<1>5. CASE ClientRuns
  <2>1. /\ mutex = "client" /\ mutex' = "nobody" /\ Method(Current) /\ call' = call /\ ticker' = ticker
        /\ done' = IF Current = "IsRunning" /\ state = "kRunning" THEN Len(call) ELSE done + 1
        /\ done < Len(call) /\ ticker \notin {"count", "compare"}
    BY <1>1, <1>5 DEF ClientRuns, MutexInv, Idle
  <2>2. /\ VarsTypeOK' /\ CountInv' /\ OneShotStep
        /\ Current = "Stop" => state' \in {"kStopped", "kExpired"}
        /\ Current = "Reset" /\ state \in {"kStopped", "kExpired"} => state' = "kStopped"
    BY <2>1, MethodStep
  <2>3. done' \in 0..Len(call')
    BY <1>1, <2>1
  <2>4. TypeOK'
    BY <1>1, <2>1, <2>2, <2>3 DEF TypeOK, VarsTypeOK, States
  <2>5. MutexInv'
    BY <2>1 DEF MutexInv
  <2>6. call = Exit => /\ done = 0 => Current = "Stop" /\ done' = 1
                       /\ done = 1 => Current = "Reset" /\ done' = 2
                       /\ done \in {0, 1} /\ Len(call) = 2
    BY <1>1, <2>1 DEF Current, Exit
  <2>7. ExitInv'
    BY <2>1, <2>2, <2>6 DEF ExitInv
  <2>8. ExitStep
    BY <1>1, <2>1, <2>2, <2>6 DEF ExitStep, ExitInv, Idle
  <2> QED BY <2>2, <2>4, <2>5, <2>7, <2>8 DEF TimerInv
<1> QED BY <1>3, <1>4, <1>5 DEF Client

\* The ticker: only the comparison, its last step, is a step of the one-shot timer.
LEMMA TickerStep ==
  ASSUME TimerInv, Ticker
  PROVE  TimerInv' /\ OneShotStep /\ ExitStep
<1> USE DEF TicksLeft, States
<1>1. /\ VarsTypeOK /\ MutexInv /\ CountInv /\ ExitInv
      /\ mutex \in {"nobody", "client", "ticker"} /\ ticker \in {"lock", "count", "compare"}
      /\ call \in Calls \cup {<<>>} /\ done \in 0..Len(call)
      /\ CounterSize \in Nat \ {0}
  BY TimerAssumption DEF TimerInv, TypeOK, VarsTypeOK
<1>2. UNCHANGED <<call, done>>
  BY DEF Ticker, TickerLocks, TickerCounts, TickerCompares
<1>3. ExitStep /\ Idle' = Idle
  BY <1>2 DEF ExitStep, Idle
<1>4. ASSUME VarsTypeOK', MutexInv', CountInv', OneShotStep,
             mutex' \in {"nobody", "client", "ticker"}, ticker' \in {"lock", "count", "compare"},
             state' = state \/ (state = "kRunning" /\ state' = "kExpired")
      PROVE  TimerInv' /\ OneShotStep
  <2>1. TypeOK'
    BY <1>1, <1>2, <1>4 DEF TypeOK, VarsTypeOK
  <2>2. ExitInv'
    BY <1>1, <1>2, <1>4 DEF ExitInv
  <2> QED BY <1>4, <2>1, <2>2 DEF TimerInv
<1>5. CASE TickerLocks
  <2>1. /\ ticker = "lock" /\ mutex = "nobody" /\ mutex' = "ticker" /\ ticker' = "count"
        /\ UNCHANGED <<state, ticks, duration_in_ticks>>
    BY <1>5 DEF TickerLocks, timerVars
  <2>2. CountedTicks' = CountedTicks
    BY <2>1 DEF CountedTicks
  <2>3. VarsTypeOK' /\ MutexInv' /\ CountInv' /\ OneShotStep
    BY <1>1, <2>1, <2>2 DEF VarsTypeOK, MutexInv, CountInv, OneShotStep, Remaining, Period
  <2> QED BY <1>3, <1>4, <2>1, <2>3
<1>6. CASE TickerCounts
  <2>1. /\ ticker = "count" /\ mutex = "ticker" /\ UNCHANGED <<state, duration_in_ticks>>
        /\ \/ /\ state = "kRunning" /\ ticker' = "compare" /\ mutex' = mutex
              /\ ticks' = IF ticks + 1 = CounterSize THEN 0 ELSE ticks + 1
           \/ state # "kRunning" /\ ticker' = "lock" /\ mutex' = "nobody" /\ ticks' = ticks
    BY <1>1, <1>6 DEF TickerCounts, MutexInv
  <2>2. VarsTypeOK' /\ MutexInv'
    BY <1>1, <1>3, <2>1 DEF VarsTypeOK, MutexInv
  <2>3. CountedTicks' = CountedTicks
    BY <1>1, <2>1 DEF CountedTicks, VarsTypeOK
  <2>4. CountInv' /\ OneShotStep
    BY <1>1, <2>1, <2>3 DEF CountInv, OneShotStep, Remaining, Period
  <2> QED BY <1>3, <1>4, <2>1, <2>2, <2>4
<1>7. CASE TickerCompares
  <2>1. /\ ticker = "compare" /\ ticker' = "lock" /\ mutex = "ticker" /\ mutex' = "nobody"
        /\ state = "kRunning"
        /\ state' = IF ticks = duration_in_ticks THEN "kExpired" ELSE "kRunning"
        /\ UNCHANGED <<ticks, duration_in_ticks>>
    BY <1>1, <1>7 DEF TickerCompares, MutexInv
  <2>2. VarsTypeOK' /\ MutexInv'
    BY <1>1, <1>3, <2>1 DEF VarsTypeOK, MutexInv
  <2>3. /\ CountedTicks = IF ticks = 0 THEN CounterSize - 1 ELSE ticks - 1
        /\ CountedTicks' = ticks
        /\ duration_in_ticks = 0 \/ CountedTicks < duration_in_ticks
    BY <1>1, <2>1 DEF CountedTicks, CountInv
  <2>4. /\ ticks = duration_in_ticks => Remaining = 1 /\ Remaining' = 0
        /\ ticks # duration_in_ticks =>
             /\ Remaining' = Remaining - 1 /\ Remaining # 1
             /\ duration_in_ticks = 0 \/ ticks < duration_in_ticks
        /\ Period' = Period
    BY <1>1, <2>1, <2>3 DEF Remaining, Period, VarsTypeOK
  <2>5. CountInv'
    BY <2>1, <2>3, <2>4 DEF CountInv
  <2>6. OneShot!Tick
    BY <2>1, <2>4 DEF OneShot!Tick, Remaining, Period
  <2> QED BY <1>3, <1>4, <2>1, <2>2, <2>5, <2>6 DEF OneShotStep, OneShot!Next
<1> QED BY <1>3, <1>5, <1>6, <1>7 DEF Ticker

\* Both, and the initial states.
LEMMA TimerInvStep ==
  TimerInv /\ [Next]_timerThreadVars => TimerInv' /\ OneShotStep /\ ExitStep
<1> SUFFICES ASSUME TimerInv, UNCHANGED timerThreadVars
             PROVE  TimerInv' /\ OneShotStep /\ ExitStep
  BY ClientStep, TickerStep DEF Next
<1>1. UNCHANGED <<state, ticks, duration_in_ticks, mutex, call, done, ticker>>
  BY DEF timerThreadVars, timerVars
<1>2. Idle' = Idle /\ ExitStep
  BY <1>1 DEF Idle, ExitStep
<1> QED
  BY <1>1, <1>2
  DEF TimerInv, TypeOK, MutexInv, CountInv, ExitInv, CountedTicks, OneShotStep, Remaining, Period

\* The initial states.
LEMMA TimerInvInit == Init => TimerInv /\ OneShot!Init
<1> SUFFICES ASSUME Init PROVE TimerInv /\ OneShot!Init
  OBVIOUS
<1>1. CounterSize \in Nat \ {0}
  BY TimerAssumption
<1>2. TimerInv
  BY <1>1 DEF Init, TimerInv, TypeOK, MutexInv, CountInv, ExitInv
<1>3. OneShot!Init
  BY <1>1 DEF Init, OneShot!Init, TicksLeft
<1> QED BY <1>2, <1>3

\* The invariant holds in every reachable state.
LEMMA TimerInvCorrect == Spec => []TimerInv
BY TimerInvInit, TimerInvStep, PTL DEF Spec

\* The counter and the duration stay within the width of the counter.
THEOREM TimerTypeCorrect == Spec => []TypeOK
<1>1. TimerInv => TypeOK
  BY DEF TimerInv
<1> QED BY <1>1, TimerInvCorrect, PTL

\* Every operation takes effect in one step, whatever the ticker is doing, and a
\* started timer expires after exactly its number of ticks.
THEOREM TimerImplementsOneShot == Spec => TimerIsOneShot
<1>1. Init => OneShot!Init
  BY TimerInvInit
<1>2. TimerInv /\ [Next]_timerThreadVars
        => [OneShot!Next]_<<state,
                            IF state \in {"kRunning", "kHalted"}
                              THEN TicksLeft(duration_in_ticks, CountedTicks) ELSE 0,
                            TicksLeft(duration_in_ticks, 0)>>
  BY TimerInvStep DEF OneShotStep, Remaining, Period
<1> QED BY <1>1, <1>2, TimerInvCorrect, PTL DEF Spec, TimerIsOneShot, OneShot!Spec

\* A timer that expires between Stop and Reset is left stopped all the same.
THEOREM ExitLeavesStopped == Spec => ExitStops
<1>1. TimerInv /\ [Next]_timerThreadVars
        => [call = Exit /\ ~Idle /\ Idle' => state' = "kStopped"]_timerThreadVars
  BY TimerInvStep DEF ExitStep
<1> QED BY <1>1, TimerInvCorrect, PTL DEF Spec, ExitStops
=============================================================================
