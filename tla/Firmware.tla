----------------------------- MODULE Firmware -----------------------------
(***************************************************************************)
(* The firmware at run time: the main loop of main.cpp takes one event     *)
(* from the queue at a time and hands it to the connection listener, the   *)
(* state machine and the push button, in the order of                      *)
(* Application_Dispatch.  The event stays at the front until all three     *)
(* have seen it.  Between two steps of the loop the WiFi task may change   *)
(* the network and the timer thread may expire a timer.                    *)
(***************************************************************************)
EXTENDS Trainboard, ConnectionListener, PushButton

VARIABLE pc   \* where the loop is: who sees the front of the queue next

vars == <<queue, netVars, boardVars, listenerVars, debounce_cnt, pc>>

TypeOK ==
  /\ queue \in Seq(Events)
  /\ NetTypeOK
  /\ BoardTypeOK
  /\ ListenerTypeOK
  /\ ButtonTypeOK
  /\ pc \in {"loop", "board", "button", "pop"}

Init ==
  /\ queue = <<>>
  /\ NetInit
  /\ BoardInit
  /\ ListenerInit
  /\ ButtonInit
  /\ pc = "loop"

-----------------------------------------------------------------------------
(* The main loop.                                                          *)

Event == Head(queue)

\* Mutant: a TICK is pushed whenever a period has passed.
PushTickAnyTime ==
  /\ pc = "loop"
  /\ Post("TICK")
  /\ UNCHANGED <<netVars, boardVars, listenerVars, debounce_cnt, pc>>

\* The queue is empty and more than a tick period passed since the last TICK.
\* Until then the loop only sleeps.
PushTick ==
  /\ pc = "loop"
  /\ queue = <<>>
  /\ Post("TICK")
  /\ UNCHANGED <<netVars, boardVars, listenerVars, debounce_cnt, pc>>

DispatchToListener ==
  /\ pc = "loop"
  /\ queue # <<>>
  /\ ListenerDispatch(Event)
  /\ pc' = "board"
  /\ UNCHANGED <<boardVars, debounce_cnt>>

DispatchToBoard ==
  /\ pc = "board"
  /\ ProcessEvent(Event)
  /\ pc' = "button"
  /\ UNCHANGED <<listenerVars, debounce_cnt>>

DispatchToButton ==
  /\ pc = "button"
  /\ ButtonDispatch(Event)
  /\ pc' = "pop"
  /\ UNCHANGED <<netVars, boardVars, listenerVars>>

\* The light sensor, called last, only sets the brightness.
PopEvent ==
  /\ pc = "pop"
  /\ queue' = Tail(queue)
  /\ pc' = "loop"
  /\ UNCHANGED <<netVars, boardVars, listenerVars, debounce_cnt>>

\* ServerCom_UpdateOta succeeded: the library restarts the board, and only the
\* credentials and the rest of the world stay as they are.
OtaRestart ==
  /\ pc = "board"
  /\ fsm = "Updating"
  /\ Event = "TICK"
  /\ ServerAnswers
  /\ queue' = <<>>
  /\ wifi' = "off"
  /\ UNCHANGED <<server, creds>>
  /\ fsm' = "Starting"
  /\ reader' = "kLive"
  /\ writer' = "kMultiple"
  /\ store' = "empty"
  /\ fail_cnt' = 0
  /\ delegate' = "none"
  /\ conversion_fail_cnt' = 0
  /\ led' = SetStatusLed(DarkDisplay, "kWhite")
  /\ timer' = StartOneShot([id \in Timers |-> "Stopped"], "starting")
  /\ listener' = "WifiNok"
  /\ cnt' = 0
  /\ debounce_cnt' = 0
  /\ pc' = "loop"

MainLoop ==
  \/ PushTick
  \/ DispatchToListener
  \/ DispatchToBoard
  \/ DispatchToButton
  \/ PopEvent
  \/ OtaRestart

-----------------------------------------------------------------------------
(* The other threads.                                                      *)

TimerThread(id) ==
  /\ TimerExpires(id)
  /\ UNCHANGED <<queue, netVars, fsm, dataVars, pollVars, conversion_fail_cnt, led>>
  /\ UNCHANGED <<listenerVars, debounce_cnt, pc>>

Network ==
  /\ NetworkChanges
  /\ UNCHANGED <<queue, boardVars, listenerVars, debounce_cnt, pc>>

Next == MainLoop \/ (\E id \in Timers : TimerThread(id)) \/ Network

Spec == Init /\ [][Next]_vars

\* The loop never returns and every blocking call has a timeout, so the loop goes
\* on; the ticker thread counts every running timer to its end.  Nothing is
\* assumed of the network, the server or the user.
Fairness == WF_vars(MainLoop) /\ \A id \in Timers : WF_vars(TimerThread(id))

FairSpec == Spec /\ Fairness

-----------------------------------------------------------------------------
(* Safety.                                                                 *)

\* The queue never holds more than it has room for (etl::queue is pushed
\* without a look at full(), Signals.h 49-53): a tick and what the listener, the
\* state machine and the button answer to it, four signals at most.
QueueBounded == Len(queue) <= QueueSize

\* The signals the state machine has yet to see: the front counts until it has
\* been dispatched.
Unseen == {queue[i] : i \in (IF pc \in {"button", "pop"} THEN 2 ELSE 1)..Len(queue)}

\* A signal a state sends to itself finds that state still active, whatever was
\* queued before it: no state takes the PING, LOAD_HISTORY, DATA_OK or NO_UPDATE
\* of another for its own.  Polling may be left before its DATA_OK arrives, for
\* Transitioning, which ignores it.
\*
\* FAKE is the exception.  Connecting and Pinging find theirs.  Before the FAKE of
\* Polling's last failure the listener's DISCONNECTED or NETWORK_DOWN may stand
\* (Application.cpp 132): Transitioning, in fake mode already, then takes the FAKE for
\* its own and begins the cross-fade again (StateTransitioning.cpp 59).  Transitioning
\* itself sends FAKE, but only if the history is short (full_store), and a push or a
\* lost connection before it may bring it to Polling, which gives up without a
\* failure, or to Offline, which ignores it.
SignalsReachTheirState ==
  /\ "DELAY_DONE" \in Unseen => fsm = "Starting"
  /\ "PING" \in Unseen => fsm = "Connecting"
  /\ "LOAD_HISTORY" \in Unseen => fsm = "Pinging"
  /\ "DATA_OK" \in Unseen => fsm \in {"Polling", "Transitioning"}
  /\ "NO_UPDATE" \in Unseen => fsm = "Updating"
  /\ "FAKE" \in Unseen =>
       \/ fsm \in {"Connecting", "Pinging"}
       \/ fsm = "Polling" /\ fail_cnt = MaxFails
       \/ fsm = "Transitioning" /\ reader = "kOffline"
       \/ fsm \in {"Polling", "Transitioning", "Offline"} /\ store = "short"

\* While the board polls, the functions that fetch and check the data
\* (StatePolling::AssignDelegates, on entry) are those of the writer that saves
\* it (DataMgr_GetWriter, at every tick): a history is never saved as one frame.
DelegatesMatchWriter == fsm = "Polling" => delegate = writer

\* No state that shows stored data is active before some was saved (back() and
\* operator[] of an empty circular buffer are undefined), and a single frame is
\* only polled on top of a history.
StoreReadAfterSave ==
  /\ fsm \in {"Transitioning", "Live", "Updating", "Offline"} /\ reader # "kOffline"
       => store # "empty"
  /\ writer = "kSingle" => store # "empty"

\* In Live (and in Updating, which returns to it) the reader is in live mode and
\* the cross-fade to a live frame has been completed.
LiveShowsLiveData ==
  fsm \in {"Live", "Updating"} =>
    reader = "kLive" /\ led.picture = "kLive" /\ ~led.is_transitioning

\* A frame on the LEDs is a frame of the reader's mode: every change of mode
\* comes with a cleared display or with the new frame.
PictureMatchesMode == led.picture \in ReaderModes => led.picture = reader

\* The status colour of Starting, Connecting and Pinging is on the LEDs: none of
\* them is entered while a cross-fade makes SetStatusLed refuse.
StatusLedShown ==
  /\ fsm = "Starting" => led.picture = "kWhite"
  /\ fsm = "Connecting" => led.picture = "kBlue"
  /\ fsm = "Pinging" => led.picture = "kPurple"

\* A timer is counting or expired in the state that waits for it; the minute
\* timers are stopped outside of theirs, whether they ran or had expired when
\* the state was left.
TimersFollowState ==
  /\ fsm = "Starting" => timer["starting"] # "Stopped"
  /\ fsm = "Resetting" => timer["resetting"] # "Stopped"
  /\ fsm = "Live" <=> timer["live_1min"] # "Stopped"
  /\ fsm = "Live" => timer["live_15min"] # "Stopped"
  /\ fsm = "Offline" <=> timer["offline_1min"] # "Stopped"

\* Polling gives up once, and neither too early nor too late.  Behind its FAKE comes
\* no TICK, which would poll again, and no DATA_OK.  The failures of the present
\* visit alone count: FAKE is not sent with fewer than MaxFails of them (unless it is
\* Transitioning's), and with more it is on its way.  Whether it is sent with MaxFails
\* or with the next is left open: the code does the first (StatePolling.cpp 134),
\* SoftwareArchitecture.drawio 442 says "poll_cnt > 5".
PollingGivesUp ==
  fsm = "Polling" =>
    IF "FAKE" \in Unseen
      THEN /\ Unseen \cap {"TICK", "DATA_OK"} = {}
           /\ fail_cnt >= MaxFails \/ store = "short"
      ELSE fail_cnt <= MaxFails

-----------------------------------------------------------------------------
(* Action properties.                                                      *)

\* Each entry into Live or Offline is followed by a whole minute: the timer never
\* starts in the expired state the last visit left (StartOneShot would refuse).
MinuteStartsOnEntry ==
  [][/\ fsm # "Live" /\ fsm' = "Live" => timer'["live_1min"] = "Running"
     /\ fsm # "Offline" /\ fsm' = "Offline" => timer'["offline_1min"] = "Running"]_vars

\* A push of the button while the board starts resets it, the only way to clear the
\* credentials: the state stays until the push has come.  Unless the delay ended in
\* the tick of the push; DELAY_DONE then stands before it in the queue, and the push
\* finds Connecting, which takes the board offline (PushButton.cpp 45, after the
\* dispatch of the state in Application_Dispatch).
PushWhileStartingResets ==
  [][fsm = "Starting" /\ "SHORT_PUSH" \in Unseen /\ "DELAY_DONE" \notin Unseen
       => fsm' = "Starting" \/ (fsm' = "Resetting" /\ ~creds')]_vars

\* The connection listener keeps the promise of ConnectionStatus to the state
\* machine: each change is announced by one event, it does not change its mind while
\* an announcement is undelivered, and none is lost but by the restart of the board.
Status == INSTANCE ConnectionStatus
            WITH status <- listener,
                 announcement <- Unseen \cap StatusEvents,
                 starting <- (fsm = "Starting")

StatusAnnounced == Status!Spec

-----------------------------------------------------------------------------
(* Liveness, under FairSpec.                                               *)

\* No state but Connecting keeps the board forever, and only history playback
\* goes on and on in Transitioning.
StatesAreLeft ==
  /\ \A s \in States \ {"Connecting", "Transitioning"} : []<>(fsm # s)
  /\ []<>(fsm # "Transitioning" \/ reader = "kHistory")

\* If the network stays as it is, the listener finds out.
ListenerConverges ==
  /\ <>[]ServerAnswers => <>[](listener = "ServerOk")
  /\ <>[](wifi = "up" /\ ~server) => <>[](listener = "ServerNok")
  /\ <>[](wifi # "up") => <>[](listener = "WifiNok")

-----------------------------------------------------------------------------
(* What the documentation says and the code does not do.                   *)

\* The dispatch of event by the state machine, in state s.
Dispatched(s, event) ==
  fsm = s /\ pc = "board" /\ pc' = "button" /\ Event = event

\* SoftwareArchitecture.drawio, state chart, Transitioning: "DISCONNECTED / NETWORK_DOWN / - FAKE", and an edge
\* "FAKE / Set fake mode".
ConnectionLossSetsFakeMode ==
  [][Dispatched("Transitioning", "NETWORK_DOWN") => reader' = "kOffline"]_vars

\* StateOffline.cpp 62: the result of reconnecting is ignored "because the
\* connection listener handles changes in connection status".  So a board that is
\* offline before the listener has seen the network, and from some time on has a
\* connection for good, goes back to real data.
ReconnectEndsOffline ==
  <>[]ServerAnswers =>
    (fsm = "Offline" /\ listener = "WifiNok" ~> fsm \notin {"Offline", "Transitioning"})
=============================================================================
