---------------------------- MODULE Trainboard ----------------------------
(***************************************************************************)
(* The state machine of the board: Trainboard.h, the nine states under     *)
(* StateMachine/, lib/fsm/Fsm.cpp, which runs them, and the part of the    *)
(* data manager and of the LED manager they drive.  One operator per       *)
(* ProcessEvent; event is the signal being dispatched, still the front of  *)
(* the queue.                                                              *)
(*                                                                         *)
(* A frame of train positions is abstracted to where it came from.         *)
(*   store  "empty": nothing was saved yet; "full": all history frames are *)
(*          there; "short": a save left fewer frames, as the history       *)
(*          writer reads one byte of a length the validator reads two of   *)
(* A timer is its state; the ticker thread may expire a running one at any *)
(* time (TimerExpires), which stands for every duration.                   *)
(***************************************************************************)
EXTENDS EventQueue, Connectivity, Display

CONSTANTS MaxFails,         \* kMaxFails of StatePolling, 5 in the code
          MaxConversions    \* failed conversions before FAKE, 3 in the code

ASSUME FailBoundsAssumption == MaxFails \in Nat \ {0} /\ MaxConversions \in Nat \ {0}

VARIABLES fsm,                  \* actual_state_
          reader, writer,       \* modes of the data manager
          store,                \* _real_data
          fail_cnt, delegate,   \* StatePolling: failed polls, mode of its delegates
          conversion_fail_cnt,  \* StateTransitioning
          led,                  \* the LED manager
          timer                 \* state of every registered timer

dataVars == <<reader, writer, store>>
pollVars == <<fail_cnt, delegate>>
boardVars == <<fsm, dataVars, pollVars, conversion_fail_cnt, led, timer>>

States == {"Starting", "Resetting", "Connecting", "Pinging", "Polling",
           "Transitioning", "Live", "Offline", "Updating"}
WriterModes == {"kSingle", "kMultiple"}
Timers == {"starting", "resetting", "live_1min", "live_15min", "offline_1min"}

BoardTypeOK ==
  /\ fsm \in States
  /\ reader \in ReaderModes
  /\ writer \in WriterModes
  /\ store \in {"empty", "full", "short"}
  /\ fail_cnt \in Nat
  /\ delegate \in WriterModes \cup {"none"}
  /\ conversion_fail_cnt \in 0..(MaxConversions - 1)
  /\ led \in Displays
  /\ timer \in [Timers -> {"Stopped", "Running", "Expired"}]

-----------------------------------------------------------------------------
(* Timers (Util/Timer.cpp): each operation on the states t of all timers.  *)

StartOneShot(t, id) == IF t[id] = "Stopped" THEN [t EXCEPT ![id] = "Running"] ELSE t
StopTimer(t, id) == IF t[id] = "Expired" THEN t ELSE [t EXCEPT ![id] = "Stopped"]
ResetTimer(t, id) == IF t[id] = "Running" THEN t ELSE [t EXCEPT ![id] = "Stopped"]
HasExpired(id) == timer[id] = "Expired"

\* The ticker thread counts a running timer to its end (Timer::Tick).
TimerExpires(id) ==
  /\ timer[id] = "Running"
  /\ timer' = [timer EXCEPT ![id] = "Expired"]

\* What Enter() does to the timers.  Live starts its 15 minutes unless they run
\* already.
EnterTimers(s, t) ==
  CASE s = "Resetting" -> StartOneShot(t, "resetting")
    [] s = "Live" -> StartOneShot(StartOneShot(t, "live_1min"), "live_15min")
    [] s = "Offline" -> StartOneShot(t, "offline_1min")
    [] OTHER -> t

\* Mutant: Exit stops its timer and does not reset it.
ExitTimersNoReset(s, t) ==
  CASE s = "Starting" -> StopTimer(t, "starting")
    [] s = "Resetting" -> StopTimer(t, "resetting")
    [] s = "Live" -> StopTimer(t, "live_1min")
    [] s = "Offline" -> StopTimer(t, "offline_1min")
    [] OTHER -> t

\* What Exit() does.  Live and Offline stop and then reset: the first works on a
\* timer that runs, the second on one that expired.
ExitTimers(s, t) ==
  CASE s = "Starting" -> StopTimer(t, "starting")
    [] s = "Resetting" -> StopTimer(t, "resetting")
    [] s = "Live" -> ResetTimer(StopTimer(t, "live_1min"), "live_1min")
    [] s = "Offline" -> ResetTimer(StopTimer(t, "offline_1min"), "offline_1min")
    [] OTHER -> t

-----------------------------------------------------------------------------
(* Enter() of the destination, on the display d the handler left.  It sees *)
(* the modes the transition wrote (reader', writer').                      *)

EnterStatusState(s, d) ==
  /\ led' = SetStatusLed(d, IF s = "Connecting" THEN "kBlue" ELSE "kPurple")
  /\ UNCHANGED <<queue, pollVars, conversion_fail_cnt>>

\* Mutant: the failures of the last visit still count.
EnterPollingKeepFails(d) ==
  /\ delegate' = writer'
  /\ led' = d
  /\ UNCHANGED <<queue, fail_cnt, conversion_fail_cnt>>

\* Mutant: Enter runs before the transition's own action.
EnterPollingFirst(d) ==
  /\ fail_cnt' = 0
  /\ delegate' = writer
  /\ led' = d
  /\ UNCHANGED <<queue, conversion_fail_cnt>>

\* fail_cnt_ = 0, AssignDelegates
EnterPolling(d) ==
  /\ fail_cnt' = 0
  /\ delegate' = writer'
  /\ led' = d
  /\ UNCHANGED <<queue, conversion_fail_cnt>>

\* DataConv_DataToLeds fails on a frame of no bytes only: a slot beyond the
\* frames of a short history.  Anything may come of a store with no frame.
ConversionResults(mode) ==
  IF mode # "kOffline" /\ (store = "empty" \/ (mode = "kHistory" /\ store = "short"))
    THEN BOOLEAN
    ELSE {TRUE}

\* Mutant: Enter reads with the mode from before the transition's action.
EnterTransitioningFirst(d) ==
  /\ \E converted \in ConversionResults(reader) :
       /\ converted
       /\ led' = SetLeds(reader)
       /\ conversion_fail_cnt' = 0
  /\ UNCHANGED <<queue, pollVars>>

\* Mutant: the count of failed conversions is not cleared when FAKE is sent.
EnterTransitioningKeepCount(d) ==
  /\ \E converted \in ConversionResults(reader') :
       \/ /\ converted
          /\ led' = SetLeds(reader')
          /\ conversion_fail_cnt' = 0
          /\ UNCHANGED queue
       \/ /\ ~converted
          /\ led' = d
          /\ conversion_fail_cnt' = conversion_fail_cnt + 1
          /\ IF conversion_fail_cnt' >= MaxConversions THEN Post("FAKE") ELSE UNCHANGED queue
  /\ UNCHANGED pollVars

\* StateTransitioning::Enter with SetNewLedsToLedManager.
EnterTransitioning(d) ==
  /\ \E converted \in ConversionResults(reader') :
       \/ /\ converted
          /\ led' = SetLeds(reader')
          /\ conversion_fail_cnt' = 0
          /\ UNCHANGED queue
       \/ /\ ~converted
          /\ led' = d
          /\ IF conversion_fail_cnt + 1 >= MaxConversions
               THEN conversion_fail_cnt' = 0 /\ Post("FAKE")
               ELSE conversion_fail_cnt' = conversion_fail_cnt + 1 /\ UNCHANGED queue
  /\ UNCHANGED pollVars

Enter(s, d) ==
  \/ s \in {"Connecting", "Pinging"} /\ EnterStatusState(s, d)
  \/ s = "Polling" /\ EnterPolling(d)
  \/ s = "Transitioning" /\ EnterTransitioning(d)
  \/ /\ s \in {"Live", "Offline", "Updating", "Resetting"}
     /\ led' = IF s = "Resetting" THEN SetTestLeds(d) ELSE d
     /\ UNCHANGED <<queue, pollVars, conversion_fail_cnt>>

\* Fsm::Execute: Exit of the source with timers t, the transition's own action
\* (the modes r and w it leaves), Enter of the destination, and the new state.
Execute(destination, r, w, d, t) ==
  /\ reader' = r
  /\ writer' = w
  /\ timer' = EnterTimers(destination, ExitTimers(fsm, t))
  /\ Enter(destination, d)
  /\ fsm' = destination
  /\ UNCHANGED store

-----------------------------------------------------------------------------
(* The transitions of Trainboard.h, with the display d the handler leaves. *)

\* A transition with no action of its own.
PlainTransition(destination, d) == Execute(destination, reader, writer, d, timer)

\* TransitionFake, TransitionLoadHistory (reader mode r set by the handler
\* before) and TransitionPollServer.
TransitionFake(d) == Execute("Transitioning", "kOffline", writer, d, timer)
TransitionLoadHistory(r, d) == Execute("Polling", r, "kMultiple", d, timer)
TransitionPollServer(d) == Execute("Polling", reader, "kSingle", d, timer)

\* No transition, and nothing else done: the event is ignored.
Ignore == UNCHANGED <<boardVars, queue, netVars>>

\* No transition, but a signal for the next round.
Send(event) == Post(event) /\ UNCHANGED <<boardVars, netVars>>

-----------------------------------------------------------------------------
(* ProcessEvent of each state.                                             *)

\* Mutant: the two transitions are given to StateStarting the other way round.
StartingSwapped(event) ==
  \/ event = "TICK" /\ HasExpired("starting") /\ Send("DELAY_DONE")
  \/ event = "TICK" /\ ~HasExpired("starting") /\ Ignore
  \/ event = "DELAY_DONE" /\ PlainTransition("Resetting", led) /\ ResetCredentials
  \/ event = "SHORT_PUSH" /\ PlainTransition("Connecting", led) /\ UNCHANGED netVars
  \/ event \notin {"TICK", "DELAY_DONE", "SHORT_PUSH"} /\ Ignore

Starting(event) ==
  \/ /\ event = "TICK"
     /\ \/ HasExpired("starting") /\ Send("DELAY_DONE")
        \/ ~HasExpired("starting") /\ Ignore
  \/ event = "DELAY_DONE" /\ PlainTransition("Connecting", led) /\ UNCHANGED netVars
  \/ event = "SHORT_PUSH" /\ PlainTransition("Resetting", led) /\ ResetCredentials
  \/ event \notin {"TICK", "DELAY_DONE", "SHORT_PUSH"} /\ Ignore

Resetting(event) ==
  \/ /\ event = "TICK" /\ HasExpired("resetting")
     /\ PlainTransition("Connecting", led) /\ UNCHANGED netVars
  \/ ~(event = "TICK" /\ HasExpired("resetting")) /\ Ignore

\* Mutant: a lost network takes Connecting offline, as it does other states.
ConnectingLeavesOnNetworkDown(event) ==
  \/ /\ event = "TICK"
     /\ \E ok \in BOOLEAN : WifiConnect(ok) /\ Post(IF ok THEN "PING" ELSE "FAKE")
     /\ UNCHANGED boardVars
  \/ event \in {"SHORT_PUSH", "NETWORK_DOWN"} /\ TransitionFake(led) /\ UNCHANGED netVars
  \/ event = "PING" /\ PlainTransition("Pinging", led) /\ UNCHANGED netVars
  \/ event \notin {"TICK", "SHORT_PUSH", "PING", "NETWORK_DOWN"} /\ Ignore

\* WifiProv_Connect blocks for up to five minutes.  FAKE is not handled.
Connecting(event) ==
  \/ /\ event = "TICK"
     /\ \E ok \in BOOLEAN : WifiConnect(ok) /\ Post(IF ok THEN "PING" ELSE "FAKE")
     /\ UNCHANGED boardVars
  \/ event = "SHORT_PUSH" /\ TransitionFake(led) /\ UNCHANGED netVars
  \/ event = "PING" /\ PlainTransition("Pinging", led) /\ UNCHANGED netVars
  \/ event \notin {"TICK", "SHORT_PUSH", "PING"} /\ Ignore

Pinging(event) ==
  \/ event = "TICK" /\ Send(IF ServerAnswers THEN "LOAD_HISTORY" ELSE "FAKE")
  \/ event = "FAKE" /\ TransitionFake(led) /\ UNCHANGED netVars
  \/ event = "LOAD_HISTORY" /\ TransitionLoadHistory(reader, led) /\ UNCHANGED netVars
  \/ event \notin {"TICK", "FAKE", "LOAD_HISTORY"} /\ Ignore

\* What SaveData may leave.  A valid history always holds a first frame.
StoresAfterSave == IF writer = "kSingle" /\ store = "full" THEN {"full"} ELSE {"short", "full"}

\* HandleTickEvent: the server's data is valid, or it is invalid or empty.
PollSucceeds ==
  /\ ServerAnswers
  /\ store' \in StoresAfterSave
  /\ Post("DATA_OK")
  /\ UNCHANGED fail_cnt

\* Mutant: failures are not counted.
PollFailsUncounted ==
  /\ IF fail_cnt + 1 >= MaxFails + 1 THEN Post("FAKE") ELSE UNCHANGED queue
  /\ UNCHANGED <<fail_cnt, store>>

PollFails ==
  /\ fail_cnt' = fail_cnt + 1
  /\ IF fail_cnt' >= MaxFails THEN Post("FAKE") ELSE UNCHANGED queue
  /\ UNCHANGED store

Polling(event) ==
  \/ /\ event = "TICK"
     /\ PollSucceeds \/ PollFails
     /\ UNCHANGED <<fsm, reader, writer, delegate, conversion_fail_cnt, led, timer, netVars>>
  \/ event = "DATA_OK" /\ PlainTransition("Transitioning", led) /\ UNCHANGED netVars
  \/ /\ event \in {"FAKE", "DISCONNECTED", "NETWORK_DOWN"}
     /\ TransitionFake(led) /\ UNCHANGED netVars
  \/ event \notin {"TICK", "DATA_OK", "FAKE", "DISCONNECTED", "NETWORK_DOWN"} /\ Ignore

\* HandleTick: where the board goes when the cross-fade is done.
AfterTransition ==
  CASE reader = "kLive" -> "Live"
    [] reader = "kHistory" -> "Transitioning"
    [] reader = "kOffline" -> "Offline"

Transitioning(event) ==
  \/ /\ event = "TICK"
     /\ \/ IsLastRefresh(led) /\ PlainTransition(AfterTransition, RefreshTransition(led))
        \/ /\ ~IsLastRefresh(led)
           /\ led' = RefreshTransition(led)
           /\ UNCHANGED <<fsm, dataVars, pollVars, conversion_fail_cnt, timer, queue>>
     /\ UNCHANGED netVars
  \/ /\ event = "SHORT_PUSH" /\ reader # "kOffline"
     /\ TransitionLoadHistory(IF reader = "kLive" THEN "kHistory" ELSE "kLive", ClearAllLeds)
     /\ UNCHANGED netVars
  \/ /\ event \in {"DISCONNECTED", "NETWORK_DOWN"}
     /\ PlainTransition("Offline", led) /\ UNCHANGED netVars
  \/ event = "FAKE" /\ TransitionFake(led) /\ UNCHANGED netVars
  \/ event = "SHORT_PUSH" /\ reader = "kOffline" /\ Ignore
  \/ event \notin {"TICK", "SHORT_PUSH", "DISCONNECTED", "NETWORK_DOWN", "FAKE"} /\ Ignore

Live(event) ==
  \/ /\ event = "TICK"
     /\ \/ HasExpired("live_1min") /\ TransitionPollServer(led)
        \/ /\ ~HasExpired("live_1min") /\ HasExpired("live_15min")
           /\ Execute("Updating", reader, writer, led, ResetTimer(timer, "live_15min"))
        \/ /\ ~HasExpired("live_1min") /\ ~HasExpired("live_15min")
           /\ UNCHANGED <<boardVars, queue>>
     /\ UNCHANGED netVars
  \/ /\ event \in {"DISCONNECTED", "NETWORK_DOWN"}
     /\ TransitionFake(ClearAllLeds) /\ UNCHANGED netVars
  \/ /\ event = "SHORT_PUSH"
     /\ TransitionLoadHistory("kHistory", ClearAllLeds) /\ UNCHANGED netVars
  \/ event \notin {"TICK", "DISCONNECTED", "NETWORK_DOWN", "SHORT_PUSH"} /\ Ignore

\* Mutant: CONNECTED shows live data at once instead of loading it.
OfflineShowsLiveAtOnce(event) ==
  \/ event = "TICK" /\ HasExpired("offline_1min") /\ PlainTransition("Transitioning", led)
     /\ UNCHANGED netVars
  \/ event = "TICK" /\ ~HasExpired("offline_1min") /\ UNCHANGED <<boardVars, queue>>
     /\ IF wifi # "up" /\ creds THEN \E ok \in BOOLEAN : WifiConnect(ok) ELSE UNCHANGED netVars
  \/ /\ event = "CONNECTED"
     /\ Execute("Transitioning", "kLive", writer, ClearAllLeds, timer) /\ UNCHANGED netVars
  \/ event = "SHORT_PUSH" /\ PlainTransition("Connecting", ClearAllLeds) /\ UNCHANGED netVars
  \/ event \notin {"TICK", "CONNECTED", "SHORT_PUSH"} /\ Ignore

\* A TICK first tries to get the wifi back, for up to ten seconds, and ignores
\* the result.
Offline(event) ==
  \/ /\ event = "TICK"
     /\ \/ ~IsConnectedToWifi /\ creds /\ (\E ok \in BOOLEAN : WifiConnect(ok))
        \/ (IsConnectedToWifi \/ ~creds) /\ UNCHANGED netVars
     /\ \/ HasExpired("offline_1min") /\ PlainTransition("Transitioning", led)
        \/ ~HasExpired("offline_1min") /\ UNCHANGED <<boardVars, queue>>
  \/ /\ event = "CONNECTED"
     /\ TransitionLoadHistory("kLive", ClearAllLeds) /\ UNCHANGED netVars
  \/ event = "SHORT_PUSH" /\ PlainTransition("Connecting", ClearAllLeds) /\ UNCHANGED netVars
  \/ event \notin {"TICK", "CONNECTED", "SHORT_PUSH"} /\ Ignore

\* No wifi, a failed update or nothing to update.  A successful update restarts
\* the board instead (OtaRestart in Firmware).
Updating(event) ==
  \/ event = "TICK" /\ Send("NO_UPDATE")
  \/ event = "NO_UPDATE" /\ PlainTransition("Live", led) /\ UNCHANGED netVars
  \/ event \notin {"TICK", "NO_UPDATE"} /\ Ignore

ProcessEvent(event) ==
  \/ fsm = "Starting" /\ Starting(event)
  \/ fsm = "Resetting" /\ Resetting(event)
  \/ fsm = "Connecting" /\ Connecting(event)
  \/ fsm = "Pinging" /\ Pinging(event)
  \/ fsm = "Polling" /\ Polling(event)
  \/ fsm = "Transitioning" /\ Transitioning(event)
  \/ fsm = "Live" /\ Live(event)
  \/ fsm = "Offline" /\ Offline(event)
  \/ fsm = "Updating" /\ Updating(event)

-----------------------------------------------------------------------------
\* Trainboard::Init: the state machine enters Starting, which shows white and
\* starts its two seconds.
BoardInit ==
  /\ fsm = "Starting"
  /\ reader = "kLive"
  /\ writer = "kMultiple"
  /\ store = "empty"
  /\ fail_cnt = 0
  /\ delegate = "none"
  /\ conversion_fail_cnt = 0
  /\ led = SetStatusLed(DarkDisplay, "kWhite")
  /\ timer = StartOneShot([id \in Timers |-> "Stopped"], "starting")
=============================================================================
