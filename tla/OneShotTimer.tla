--------------------------- MODULE OneShotTimer ---------------------------
(***************************************************************************)
(* What Util/Timer promises the state machine: a timer runs for exactly as *)
(* many ticks as it was started for, and every operation is one step.      *)
(***************************************************************************)
EXTENDS Naturals

CONSTANTS Periods,   \* the numbers of ticks a timer may be started for
          Forever    \* ticks of a timer that is restarted and never had a period

VARIABLES state,       \* "kStopped", "kRunning", "kHalted" or "kExpired"
          remaining,   \* ticks to go; 0 unless running or halted
          period       \* what Restart starts again

Init ==
  /\ state = "kStopped"
  /\ remaining = 0
  /\ period = Forever

Start(n) ==
  /\ state = "kStopped"
  /\ state' = "kRunning"
  /\ remaining' = n
  /\ period' = n

\* A duration of zero has passed as soon as it begins.
StartElapsed ==
  /\ state = "kStopped"
  /\ state' = "kExpired"
  /\ UNCHANGED <<remaining, period>>

Tick ==
  /\ state = "kRunning"
  /\ remaining' = remaining - 1
  /\ state' = IF remaining = 1 THEN "kExpired" ELSE "kRunning"
  /\ UNCHANGED period

Stop ==
  /\ state \in {"kRunning", "kHalted"}
  /\ state' = "kStopped"
  /\ remaining' = 0
  /\ UNCHANGED period

Reset == state = "kExpired" /\ state' = "kStopped" /\ UNCHANGED <<remaining, period>>
Halt == state = "kRunning" /\ state' = "kHalted" /\ UNCHANGED <<remaining, period>>
Continue == state = "kHalted" /\ state' = "kRunning" /\ UNCHANGED <<remaining, period>>

Restart ==
  /\ state # "kStopped"
  /\ state' = "kRunning"
  /\ remaining' = period
  /\ UNCHANGED period

Next ==
  \/ \E n \in Periods : Start(n)
  \/ StartElapsed \/ Tick \/ Stop \/ Reset \/ Halt \/ Continue \/ Restart

Spec == Init /\ [][Next]_<<state, remaining, period>>
=============================================================================
