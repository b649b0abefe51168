---------------------------- MODULE BoardProofs -----------------------------
(***************************************************************************)
(* Proofs about Firmware, for every value of its constants: types and the  *)
(* length of the queue, that the modes, the store, the LEDs and the timers *)
(* fit the state of the board, and that every signal finds the state that  *)
(* sent it.                                                                *)
(***************************************************************************)
EXTENDS Firmware, TLAPS

TimerStates == {"Stopped", "Running", "Expired"}

\* What one party may do to the queue in one step: nothing, or push one signal.
PostsAtMostOne == queue' = queue \/ \E e \in PostedEvents : queue' = Append(queue, e)

-----------------------------------------------------------------------------
(* The operators the state machine is built from.                          *)

\* The operations on the display keep it a display.
LEMMA DisplayType ==
  ASSUME NEW d \in Displays
  PROVE  /\ \A c \in StatusColors : SetStatusLed(d, c) \in Displays
         /\ SetTestLeds(d) \in Displays
         /\ \A mode \in ReaderModes : SetLeds(mode) \in Displays
         /\ ClearAllLeds \in Displays
         /\ RefreshTransition(d) \in Displays
<1> USE TransitionTicksAssumption DEF Displays, Pictures, ReaderModes, StatusColors
<1>1. DarkDisplay \in Displays
  BY DEF DarkDisplay, Still
<1>2. \A c \in StatusColors : SetStatusLed(d, c) \in Displays
  BY DEF SetStatusLed, Still
<1>3. SetTestLeds(d) \in Displays
  BY DEF SetTestLeds
<1>4. \A mode \in ReaderModes : SetLeds(mode) \in Displays
  BY DEF SetLeds
<1>5. ClearAllLeds \in Displays
  BY <1>1 DEF ClearAllLeds
<1>6. RefreshTransition(d) \in Displays
  <2>1. (IF IsLastRefresh(d) THEN TransitionTicks ELSE d.transition_cnt + 1) \in 0..TransitionTicks
    BY DEF IsLastRefresh
  <2>2. (d.is_transitioning /\ ~IsLastRefresh(d)) \in BOOLEAN
    OBVIOUS
  <2> QED BY <2>1, <2>2 DEF RefreshTransition
<1> QED BY <1>2, <1>3, <1>4, <1>5, <1>6

\* So do the operations on the timers.
LEMMA TimerType ==
  ASSUME NEW t \in [Timers -> TimerStates], NEW id \in Timers
  PROVE  /\ StartOneShot(t, id) \in [Timers -> TimerStates]
         /\ StopTimer(t, id) \in [Timers -> TimerStates]
         /\ ResetTimer(t, id) \in [Timers -> TimerStates]
BY DEF StartOneShot, StopTimer, ResetTimer, TimerStates

\* Entering and leaving a state keeps the timers well formed.
LEMMA EnterExitTimersType ==
  ASSUME NEW t \in [Timers -> TimerStates], NEW s \in States
  PROVE  /\ EnterTimers(s, t) \in [Timers -> TimerStates]
         /\ ExitTimers(s, t) \in [Timers -> TimerStates]
<1>1. {"starting", "resetting", "live_1min", "live_15min", "offline_1min"} \subseteq Timers
  BY DEF Timers
<1>2. EnterTimers(s, t) \in [Timers -> TimerStates]
  BY <1>1, TimerType DEF EnterTimers
<1>3. ExitTimers(s, t) \in [Timers -> TimerStates]
  BY <1>1, TimerType DEF ExitTimers
<1> QED BY <1>2, <1>3

\* A transition of the state machine keeps every variable in its type and pushes
\* at most one signal.
LEMMA ExecuteType ==
  ASSUME TypeOK, NEW s \in States \ {"Starting"}, NEW r \in ReaderModes, NEW w \in WriterModes,
         NEW d \in Displays, NEW t \in [Timers -> TimerStates],
         Execute(s, r, w, d, t)
  PROVE  BoardTypeOK' /\ PostsAtMostOne
<1> USE DEF TypeOK, BoardTypeOK, Execute
<1>1. /\ fsm' \in States /\ reader' \in ReaderModes /\ writer' \in WriterModes
      /\ store' \in {"empty", "full", "short"}
  OBVIOUS
<1>2. timer' \in [Timers -> TimerStates]
  <2>1. ExitTimers(fsm, t) \in [Timers -> TimerStates]
    BY EnterExitTimersType
  <2> QED BY <2>1, EnterExitTimersType
<1>3. /\ fail_cnt' \in Nat /\ delegate' \in WriterModes \cup {"none"}
      /\ conversion_fail_cnt' \in 0..(MaxConversions - 1)
      /\ led' \in Displays
      /\ PostsAtMostOne
  <2>1. CASE s \in {"Connecting", "Pinging"} /\ EnterStatusState(s, d)
    BY <2>1, DisplayType DEF EnterStatusState, StatusColors, pollVars, PostsAtMostOne
  <2>2. CASE s = "Polling" /\ EnterPolling(d)
    BY <2>2 DEF EnterPolling, PostsAtMostOne
  <2>3. CASE s = "Transitioning" /\ EnterTransitioning(d)
    <3>1. PICK converted \in ConversionResults(reader') :
            \/ /\ converted
               /\ led' = SetLeds(reader')
               /\ conversion_fail_cnt' = 0
               /\ UNCHANGED queue
            \/ /\ ~converted
               /\ led' = d
               /\ IF conversion_fail_cnt + 1 >= MaxConversions
                    THEN conversion_fail_cnt' = 0 /\ Post("FAKE")
                    ELSE conversion_fail_cnt' = conversion_fail_cnt + 1 /\ UNCHANGED queue
      BY <2>3 DEF EnterTransitioning
    <3>2. led' \in Displays
      BY <1>1, <3>1, DisplayType
    <3>3. conversion_fail_cnt' \in 0..(MaxConversions - 1)
      BY <3>1, FailBoundsAssumption
    <3>4. PostsAtMostOne
      BY <3>1 DEF Post, PostsAtMostOne, PostedEvents, OwnEvents
    <3> QED BY <2>3, <3>2, <3>3, <3>4 DEF EnterTransitioning, pollVars
  <2>4. CASE /\ s \in {"Live", "Offline", "Updating", "Resetting"}
             /\ led' = IF s = "Resetting" THEN SetTestLeds(d) ELSE d
             /\ UNCHANGED <<queue, pollVars, conversion_fail_cnt>>
    BY <2>4, DisplayType DEF pollVars, PostsAtMostOne
  <2> QED BY <2>1, <2>2, <2>3, <2>4 DEF Enter
<1> QED BY <1>1, <1>2, <1>3 DEF TimerStates

\* A transition from the timers, the display and the modes the board has now.
LEMMA TransitionType ==
  ASSUME TypeOK
  PROVE  /\ \A s \in States \ {"Starting"}, d \in Displays :
              PlainTransition(s, d) => BoardTypeOK' /\ PostsAtMostOne
         /\ \A d \in Displays : TransitionFake(d) => BoardTypeOK' /\ PostsAtMostOne
         /\ \A r \in ReaderModes, d \in Displays :
              TransitionLoadHistory(r, d) => BoardTypeOK' /\ PostsAtMostOne
         /\ \A d \in Displays : TransitionPollServer(d) => BoardTypeOK' /\ PostsAtMostOne
<1>1. timer \in [Timers -> TimerStates] /\ reader \in ReaderModes /\ writer \in WriterModes
  BY DEF TypeOK, BoardTypeOK, TimerStates
<1>2. /\ {"kSingle", "kMultiple"} \subseteq WriterModes
      /\ "kOffline" \in ReaderModes
      /\ {"Transitioning", "Polling"} \subseteq States \ {"Starting"}
  BY DEF WriterModes, ReaderModes, States
<1>3. \A s \in States \ {"Starting"}, d \in Displays :
        PlainTransition(s, d) => BoardTypeOK' /\ PostsAtMostOne
  BY <1>1, ExecuteType DEF PlainTransition
<1>4. \A d \in Displays : TransitionFake(d) => BoardTypeOK' /\ PostsAtMostOne
  BY <1>1, <1>2, ExecuteType DEF TransitionFake
<1>5. \A r \in ReaderModes, d \in Displays :
        TransitionLoadHistory(r, d) => BoardTypeOK' /\ PostsAtMostOne
  BY <1>1, <1>2, ExecuteType DEF TransitionLoadHistory
<1>6. \A d \in Displays : TransitionPollServer(d) => BoardTypeOK' /\ PostsAtMostOne
  BY <1>1, <1>2, ExecuteType DEF TransitionPollServer
<1> QED BY <1>3, <1>4, <1>5, <1>6

\* What the network calls leave.
LEMMA NetType ==
  ASSUME NetTypeOK
  PROVE  /\ \A ok \in BOOLEAN : WifiConnect(ok) => NetTypeOK'
         /\ ResetCredentials \/ WifiDisconnect => NetTypeOK'
         /\ UNCHANGED netVars => NetTypeOK'
BY DEF NetTypeOK, WifiConnect, ResetCredentials, WifiDisconnect, netVars

\* The handler of each state keeps the types and pushes at most one signal.
LEMMA BoardType ==
  ASSUME TypeOK, NEW event, ProcessEvent(event)
  PROVE  BoardTypeOK' /\ NetTypeOK' /\ PostsAtMostOne
<1>1. /\ States = {"Starting", "Resetting", "Connecting", "Pinging", "Polling",
                   "Transitioning", "Live", "Offline", "Updating"}
      /\ ReaderModes = {"kLive", "kHistory", "kOffline"}
      /\ led \in Displays /\ ClearAllLeds \in Displays /\ RefreshTransition(led) \in Displays
      /\ reader \in ReaderModes /\ NetTypeOK
  BY DisplayType DEF States, ReaderModes, TypeOK, BoardTypeOK
<1>2. Ignore => BoardTypeOK' /\ NetTypeOK' /\ PostsAtMostOne
  BY <1>1, NetType
  DEF Ignore, boardVars, dataVars, pollVars, PostsAtMostOne, TypeOK, BoardTypeOK
<1>3. \A e \in PostedEvents : Send(e) => BoardTypeOK' /\ NetTypeOK' /\ PostsAtMostOne
  BY <1>1, NetType
  DEF Send, Post, boardVars, dataVars, pollVars, PostsAtMostOne, TypeOK, BoardTypeOK
<1>4. OwnEvents \subseteq PostedEvents
  BY DEF PostedEvents
<1>5. CASE Starting(event)
  BY <1>1, <1>2, <1>3, <1>4, <1>5, TransitionType, NetType DEF Starting, OwnEvents
<1>6. CASE Resetting(event)
  BY <1>1, <1>2, <1>6, TransitionType, NetType DEF Resetting
<1>7. CASE Connecting(event)
  <2>1. CASE /\ event = "TICK"
             /\ \E ok \in BOOLEAN : WifiConnect(ok) /\ Post(IF ok THEN "PING" ELSE "FAKE")
             /\ UNCHANGED boardVars
    BY <1>1, <1>4, <2>1, NetType
    DEF Post, OwnEvents, boardVars, dataVars, pollVars, PostsAtMostOne, TypeOK, BoardTypeOK
  <2> QED BY <1>1, <1>2, <1>7, <2>1, TransitionType, NetType DEF Connecting
<1>8. CASE Pinging(event)
  BY <1>1, <1>2, <1>3, <1>4, <1>8, TransitionType, NetType DEF Pinging, OwnEvents
<1>9. CASE Polling(event)
  <2>1. CASE /\ PollSucceeds \/ PollFails
             /\ UNCHANGED <<fsm, reader, writer, delegate, conversion_fail_cnt, led, timer, netVars>>
    BY <1>1, <1>4, <2>1, NetType
    DEF PollSucceeds, PollFails, StoresAfterSave, Post, OwnEvents, PostsAtMostOne, TypeOK, BoardTypeOK
  <2> QED BY <1>1, <1>2, <1>9, <2>1, TransitionType, NetType DEF Polling
<1>10. CASE Transitioning(event)
  <2>1. AfterTransition \in States \ {"Starting"}
    BY <1>1 DEF AfterTransition
  <2>2. CASE /\ led' = RefreshTransition(led)
             /\ UNCHANGED <<fsm, dataVars, pollVars, conversion_fail_cnt, timer, queue>>
             /\ UNCHANGED netVars
    BY <1>1, <2>2, NetType DEF dataVars, pollVars, PostsAtMostOne, TypeOK, BoardTypeOK
  <2> QED BY <1>1, <1>2, <1>10, <2>1, <2>2, TransitionType, NetType DEF Transitioning
<1>11. CASE Live(event)
  <2>1. CASE Execute("Updating", reader, writer, led, ResetTimer(timer, "live_15min")) /\ UNCHANGED netVars
    <3>1. ResetTimer(timer, "live_15min") \in [Timers -> TimerStates] /\ writer \in WriterModes
      BY TimerType DEF Timers, TypeOK, BoardTypeOK, TimerStates
    <3> QED BY <1>1, <2>1, <3>1, ExecuteType, NetType
  <2>2. CASE UNCHANGED <<boardVars, queue>> /\ UNCHANGED netVars
    BY <1>2, <2>2 DEF Ignore
  <2> QED BY <1>1, <1>2, <1>11, <2>1, <2>2, TransitionType, NetType DEF Live
<1>12. CASE Offline(event)
  <2>1. CASE /\ \/ ~IsConnectedToWifi /\ creds /\ (\E ok \in BOOLEAN : WifiConnect(ok))
                \/ (IsConnectedToWifi \/ ~creds) /\ UNCHANGED netVars
             /\ \/ HasExpired("offline_1min") /\ PlainTransition("Transitioning", led)
                \/ ~HasExpired("offline_1min") /\ UNCHANGED <<boardVars, queue>>
    <3>1. NetTypeOK'
      BY <1>1, <2>1, NetType
    <3>2. UNCHANGED <<boardVars, queue>> => BoardTypeOK' /\ PostsAtMostOne
      BY DEF boardVars, dataVars, pollVars, PostsAtMostOne, TypeOK, BoardTypeOK
    <3> QED BY <1>1, <2>1, <3>1, <3>2, TransitionType
  <2> QED BY <1>1, <1>2, <1>12, <2>1, TransitionType, NetType DEF Offline
<1>13. CASE Updating(event)
  BY <1>1, <1>2, <1>3, <1>4, <1>13, TransitionType, NetType DEF Updating, OwnEvents
<1> QED
  BY <1>5, <1>6, <1>7, <1>8, <1>9, <1>10, <1>11, <1>12, <1>13 DEF ProcessEvent

\* The listener keeps its types and those of the network, and pushes at most one
\* signal, on a TICK only.
LEMMA ListenerType ==
  ASSUME TypeOK, NEW event, ListenerDispatch(event)
  PROVE  /\ ListenerTypeOK' /\ NetTypeOK'
         /\ queue' = queue \/ (event = "TICK" /\ \E e \in StatusEvents : queue' = Append(queue, e))
<1> USE CheckTicksAssumption DEF ListenerTypeOK, ListenerStates, Post, StatusEvents
<1>1. ListenerTypeOK /\ NetTypeOK
  BY DEF TypeOK
<1>2. NetworkIsDown => /\ ListenerTypeOK' /\ NetTypeOK'
                       /\ \E e \in StatusEvents : queue' = Append(queue, e)
  BY <1>1, NetType DEF NetworkIsDown
<1>3. CASE event = "TICK" /\ WifiNokTick
  BY <1>1, <1>3, NetType DEF WifiNokTick
<1>4. CASE event = "TICK" /\ ServerNokTick
  BY <1>1, <1>2, <1>4, NetType DEF ServerNokTick, CountTick, TimeElapsed
<1>5. CASE event = "TICK" /\ ServerOkTick
  BY <1>1, <1>2, <1>5, NetType DEF ServerOkTick, CountTick, TimeElapsed
<1>6. CASE UNCHANGED <<queue, netVars, listenerVars>>
  BY <1>1, <1>6, NetType DEF listenerVars
<1> QED BY <1>3, <1>4, <1>5, <1>6 DEF ListenerDispatch

\* So does the button.
LEMMA ButtonType ==
  ASSUME TypeOK, NEW event, ButtonDispatch(event)
  PROVE  /\ ButtonTypeOK'
         /\ queue' = queue \/ (event = "TICK" /\ queue' = Append(queue, "SHORT_PUSH"))
BY ShortPushAssumption
DEF TypeOK, ButtonTypeOK, ButtonDispatch, ButtonDown, ButtonUp, DebounceCap, Post

\* Pushing keeps the queue a sequence of signals.
LEMMA PostType ==
  ASSUME queue \in Seq(Events), NEW e \in Events, queue' = Append(queue, e)
  PROVE  queue' \in Seq(Events)
OBVIOUS

\* The board after power-on or a restart.
LEMMA InitialBoard ==
  /\ SetStatusLed(DarkDisplay, "kWhite") \in Displays
  /\ StartOneShot([id \in Timers |-> "Stopped"], "starting") \in [Timers -> TimerStates]
<1>1. DarkDisplay \in Displays
  BY TransitionTicksAssumption DEF DarkDisplay, Still, Displays, Pictures
<1>2. SetStatusLed(DarkDisplay, "kWhite") \in Displays
  BY <1>1, DisplayType DEF StatusColors
<1>3. [id \in Timers |-> "Stopped"] \in [Timers -> TimerStates] /\ "starting" \in Timers
  BY DEF TimerStates, Timers
<1> QED BY <1>2, <1>3, TimerType

-----------------------------------------------------------------------------
(* The queue and the types.  They are proved together: the Tail of PopEvent *)
(* is a sequence because the event being dispatched is still in the queue.  *)

\* The length the queue may have when event is at its front and the loop is at p.
\* A TICK is pushed into an empty queue and answered by the listener, the state
\* machine and the button; any other signal by the state machine alone.
Room(p, event) ==
  CASE p = "loop" -> IF event = "TICK" THEN 1 ELSE 3
    [] p = "board" -> IF event = "TICK" THEN 2 ELSE 3
    [] p = "button" -> IF event = "TICK" THEN 3 ELSE 4
    [] p = "pop" -> 4

QueueInv ==
  /\ pc # "loop" => queue # <<>>
  /\ \A i \in 2..Len(queue) : queue[i] # "TICK"
  /\ queue # <<>> => Len(queue) <= Room(pc, Event)

\* Pushing a signal behind others adds one to the length, and no TICK.
LEMMA AppendQueue ==
  ASSUME queue \in Seq(Events), queue # <<>>, NEW e \in PostedEvents,
         \A i \in 2..Len(queue) : queue[i] # "TICK",
         queue' = Append(queue, e)
  PROVE  /\ queue' \in Seq(Events) /\ queue' # <<>>
         /\ Len(queue') = Len(queue) + 1
         /\ Event' = Event
         /\ \A i \in 2..Len(queue') : queue'[i] # "TICK"
<1>1. e \in Events /\ e # "TICK"
  BY DEF PostedEvents, StatusEvents, OwnEvents, Events
<1>2. queue' \in Seq(Events) /\ queue' # <<>> /\ Len(queue') = Len(queue) + 1
  BY <1>1
<1>3. Event' = Event
  BY <1>1 DEF Event
<1>4. ASSUME NEW i \in 2..Len(queue') PROVE queue'[i] # "TICK"
  BY <1>1, <1>2
<1> QED BY <1>2, <1>3, <1>4

\* One party's turn: if it pushes at most one signal, and there is room for it.
LEMMA TurnKeepsQueueInv ==
  ASSUME queue \in Seq(Events), QueueInv, queue # <<>>, PostsAtMostOne,
         pc' \in {"board", "button", "pop"},
         queue' = queue \/ Room(pc, Event) + 1 <= Room(pc', Event),
         Room(pc, Event) <= Room(pc', Event),
         Room(pc, Event) \in Nat, Room(pc', Event) \in Nat
  PROVE  queue' \in Seq(Events) /\ QueueInv'
<1>1. CASE queue' = queue
  BY <1>1 DEF QueueInv, Event
<1>2. CASE \E e \in PostedEvents : queue' = Append(queue, e)
  <2>1. PICK e \in PostedEvents : queue' = Append(queue, e)
    BY <1>2
  <2>2. /\ queue' \in Seq(Events) /\ queue' # <<>>
        /\ Len(queue') = Len(queue) + 1
        /\ Event' = Event
        /\ \A i \in 2..Len(queue') : queue'[i] # "TICK"
    BY <2>1, AppendQueue DEF QueueInv
  <2>3. queue' # queue
    BY <2>2
  <2>4. Len(queue') <= Room(pc', Event')
    BY <2>2, <2>3 DEF QueueInv
  <2> QED BY <2>2, <2>4 DEF QueueInv
<1> QED BY <1>1, <1>2 DEF PostsAtMostOne

\* The loop drops the front: what was behind it is no TICK.
LEMMA PopKeepsQueueInv ==
  ASSUME queue \in Seq(Events), QueueInv, PopEvent
  PROVE  queue' \in Seq(Events) /\ QueueInv'
<1>1. queue # <<>> /\ Len(queue) <= 4
  BY DEF PopEvent, QueueInv, Room
<1>2. /\ queue' \in Seq(Events)
      /\ Len(queue') = Len(queue) - 1
      /\ \A i \in 1..Len(queue') : queue'[i] # "TICK"
  BY <1>1 DEF PopEvent, QueueInv
<1>3. queue' # <<>> => Event' # "TICK"
  BY <1>2 DEF Event
<1> QED BY <1>1, <1>2, <1>3 DEF PopEvent, QueueInv, Room

IInv == TypeOK /\ QueueInv

\* The initial states.
LEMMA IInvInit == Init => IInv
<1> SUFFICES ASSUME Init PROVE IInv
  OBVIOUS
<1>1. BoardTypeOK
  BY InitialBoard, FailBoundsAssumption
  DEF Init, BoardInit, BoardTypeOK, States, ReaderModes, WriterModes, TimerStates
<1>2. NetTypeOK /\ ListenerTypeOK /\ ButtonTypeOK
  BY CheckTicksAssumption, ShortPushAssumption
  DEF Init, NetInit, NetTypeOK, ListenerInit, ListenerTypeOK, ListenerStates,
      ButtonInit, ButtonTypeOK, DebounceCap
<1>3. queue \in Seq(Events) /\ QueueInv
  BY DEF Init, QueueInv
<1> QED BY <1>1, <1>2, <1>3 DEF TypeOK, Init, IInv

\* Every step of every thread.
LEMMA IInvStep == IInv /\ [Next]_vars => IInv'
<1> SUFFICES ASSUME TypeOK, QueueInv, [Next]_vars PROVE TypeOK' /\ QueueInv'
  BY DEF IInv
<1>1. PostedEvents \cup {"TICK"} = Events /\ StatusEvents \subseteq PostedEvents
      /\ "SHORT_PUSH" \in PostedEvents
  BY DEF Events, PostedEvents
<1>2. /\ UNCHANGED boardVars => BoardTypeOK'
      /\ UNCHANGED netVars => NetTypeOK'
      /\ UNCHANGED listenerVars => ListenerTypeOK'
      /\ UNCHANGED debounce_cnt => ButtonTypeOK'
  BY DEF TypeOK, BoardTypeOK, boardVars, dataVars, pollVars, NetTypeOK, netVars,
         ListenerTypeOK, listenerVars, ButtonTypeOK
<1>3. UNCHANGED <<queue, pc>> => queue' \in Seq(Events) /\ QueueInv'
  BY DEF TypeOK, QueueInv, Event
<1>4. CASE PushTick
  <2>1. queue' = <<"TICK">>
    BY <1>4 DEF PushTick, Post
  <2>2. queue' \in Seq(Events) /\ QueueInv'
    BY <1>1, <1>4, <2>1 DEF PushTick, QueueInv, Room, Event
  <2> QED BY <1>2, <1>4, <2>2 DEF PushTick, TypeOK
<1>5. CASE DispatchToListener
  <2>1. /\ ListenerTypeOK' /\ NetTypeOK'
        /\ \/ queue' = queue
           \/ Event = "TICK" /\ (\E e \in StatusEvents : queue' = Append(queue, e))
    BY <1>5, ListenerType DEF DispatchToListener, ListenerDispatch
  <2>2. PostsAtMostOne
    BY <1>1, <2>1 DEF PostsAtMostOne
  <2>3. queue' \in Seq(Events) /\ QueueInv'
    BY <1>5, <2>1, <2>2, TurnKeepsQueueInv DEF DispatchToListener, TypeOK, Room
  <2> QED BY <1>2, <1>5, <2>1, <2>3 DEF DispatchToListener, TypeOK
<1>6. CASE DispatchToBoard
  <2>1. BoardTypeOK' /\ NetTypeOK' /\ PostsAtMostOne
    BY <1>6, BoardType DEF DispatchToBoard, TypeOK
  <2>2. queue' \in Seq(Events) /\ QueueInv'
    BY <1>6, <2>1, TurnKeepsQueueInv DEF DispatchToBoard, TypeOK, QueueInv, Room
  <2> QED BY <1>2, <1>6, <2>1, <2>2 DEF DispatchToBoard, TypeOK
<1>7. CASE DispatchToButton
  <2>1. /\ ButtonTypeOK'
        /\ queue' = queue \/ (Event = "TICK" /\ queue' = Append(queue, "SHORT_PUSH"))
    BY <1>7, ButtonType DEF DispatchToButton
  <2>2. PostsAtMostOne
    BY <1>1, <2>1 DEF PostsAtMostOne
  <2>3. queue' \in Seq(Events) /\ QueueInv'
    BY <1>7, <2>1, <2>2, TurnKeepsQueueInv DEF DispatchToButton, TypeOK, QueueInv, Room
  <2> QED BY <1>2, <1>7, <2>1, <2>3 DEF DispatchToButton, TypeOK
<1>8. CASE PopEvent
  BY <1>2, <1>8, PopKeepsQueueInv DEF PopEvent, TypeOK
<1>9. CASE OtaRestart
  <2>1. BoardTypeOK'
    BY <1>9, InitialBoard, FailBoundsAssumption
    DEF OtaRestart, BoardTypeOK, States, ReaderModes, WriterModes, TimerStates
  <2>2. NetTypeOK' /\ ListenerTypeOK' /\ ButtonTypeOK' /\ pc' = "loop"
    BY <1>9, CheckTicksAssumption, ShortPushAssumption
    DEF OtaRestart, TypeOK, NetTypeOK, ListenerTypeOK, ListenerStates, ButtonTypeOK, DebounceCap
  <2>3. queue' \in Seq(Events) /\ QueueInv'
    BY <1>9 DEF OtaRestart, QueueInv
  <2> QED BY <2>1, <2>2, <2>3 DEF TypeOK
<1>10. CASE \E id \in Timers : TimerThread(id)
  BY <1>2, <1>3, <1>10
  DEF TimerThread, TimerExpires, TypeOK, BoardTypeOK, dataVars, pollVars
<1>11. CASE Network
  <2>1. NetTypeOK'
    BY <1>11
    DEF Network, NetworkChanges, LinkLost, LinkRestored, ServerToggles, TypeOK, NetTypeOK
  <2> QED BY <1>2, <1>3, <1>11, <2>1 DEF Network, TypeOK
<1>12. CASE UNCHANGED vars
  BY <1>2, <1>3, <1>12 DEF vars, TypeOK
<1> QED BY <1>4, <1>5, <1>6, <1>7, <1>8, <1>9, <1>10, <1>11, <1>12 DEF Next, MainLoop

\* The invariant holds in every reachable state.
LEMMA InvCorrect == Spec => []IInv
BY IInvInit, IInvStep, PTL DEF Spec

\* Every variable keeps its type, whatever the order of the threads' steps.
THEOREM TypeCorrect == Spec => []TypeOK
<1>1. IInv => TypeOK
  BY DEF IInv
<1> QED BY <1>1, InvCorrect, PTL

\* The queue never overflows: QueueSize, which is at least four, is enough.
THEOREM QueueNeverOverflows == Spec => []QueueBounded
<1>1. IInv => QueueBounded
  BY QueueSizeAssumption DEF IInv, TypeOK, QueueInv, Room, QueueBounded
<1> QED BY <1>1, InvCorrect, PTL

-----------------------------------------------------------------------------
(* The modes, the store, the LEDs and the timers fit the state.            *)

\* The states that show a status colour or the test pattern.
QuietStates == {"Starting", "Resetting", "Connecting", "Pinging"}

\* The states that show stored data, if the reader is not offline.
ReadingStates == {"Transitioning", "Live", "Updating", "Offline"}

\* No status colour is refused, and a cross-fade to a live frame shows one.
FadeInv ==
  /\ fsm \in QuietStates => ~led.is_transitioning
  /\ fsm = "Transitioning" /\ reader = "kLive" => led.picture = "kLive"

\* DATA_OK is sent after the data is saved.
DataOkInv == "DATA_OK" \in Unseen => store # "empty"

BoardInv ==
  /\ DelegatesMatchWriter
  /\ StoreReadAfterSave
  /\ LiveShowsLiveData
  /\ PictureMatchesMode
  /\ StatusLedShown
  /\ FadeInv
  /\ TimersFollowState

\* Nothing starts a minute in the middle.
WholeMinute ==
  /\ fsm # "Live" /\ fsm' = "Live" => timer'["live_1min"] = "Running"
  /\ fsm # "Offline" /\ fsm' = "Offline" => timer'["offline_1min"] = "Running"

\* A step of the board pushes DATA_OK only when there is data.
PostsAfterSave ==
  /\ store' = "empty" => store = "empty"
  /\ \/ queue' = queue
     \/ \E e \in PostedEvents : queue' = Append(queue, e) /\ (e = "DATA_OK" => store' # "empty")

\* What a transition to s is asked for: the modes r and w it leaves fit the store,
\* and the display d its handler leaves fits s.
FitsState(s, r, w, d) ==
  /\ s \in ReadingStates /\ r # "kOffline" => store # "empty"
  /\ w = "kSingle" => store # "empty"
  /\ s \in {"Live", "Updating"} => r = "kLive" /\ d.picture = "kLive" /\ ~d.is_transitioning
  /\ s \in QuietStates => ~d.is_transitioning
  /\ s # "Transitioning" \/ r # "kOffline" => (d.picture \in ReaderModes => d.picture = r)

-----------------------------------------------------------------------------
(* One transition of the state machine.                                    *)

\* Leaving one state and entering the next leaves the minute timers to the states
\* that use them, and running.
LEMMA EnterExitTimers ==
  ASSUME NEW t \in [Timers -> TimerStates], NEW from \in States, NEW to \in States \ {"Starting"},
         from # "Live" => t["live_1min"] = "Stopped",
         from # "Offline" => t["offline_1min"] = "Stopped",
         NEW u, u = EnterTimers(to, ExitTimers(from, t))
  PROVE  /\ u["live_1min"] = IF to = "Live" THEN "Running" ELSE "Stopped"
         /\ u["offline_1min"] = IF to = "Offline" THEN "Running" ELSE "Stopped"
         /\ to = "Live" => u["live_15min"] # "Stopped"
         /\ to = "Resetting" => u["resetting"] # "Stopped"
<1>1. /\ {"starting", "resetting", "live_1min", "live_15min", "offline_1min"} \subseteq Timers
      /\ \A id \in Timers : t[id] \in {"Stopped", "Running", "Expired"}
  BY DEF Timers, TimerStates
<1> DEFINE v == ExitTimers(from, t)
<1>2. v \in [Timers -> TimerStates]
  BY EnterExitTimersType
<1>3. v["live_1min"] = "Stopped" /\ v["offline_1min"] = "Stopped"
  BY <1>1 DEF ExitTimers, StopTimer, ResetTimer
<1>4. u = EnterTimers(to, v)
  OBVIOUS
<1> HIDE DEF v
<1> QED BY <1>1, <1>2, <1>3, <1>4 DEF EnterTimers, StartOneShot, TimerStates

\* What Enter leaves on the LEDs, and what it pushes.
LEMMA EnterBoard ==
  ASSUME TypeOK, NEW s \in States \ {"Starting"}, NEW d \in Displays,
         reader' \in ReaderModes, writer' \in WriterModes, store' = store,
         FitsState(s, reader', writer', d), Enter(s, d)
  PROVE  /\ s = "Polling" => delegate' = writer'
         /\ s \in {"Live", "Updating"} => led'.picture = "kLive" /\ ~led'.is_transitioning
         /\ led'.picture \in ReaderModes => led'.picture = reader'
         /\ s = "Connecting" => led'.picture = "kBlue"
         /\ s = "Pinging" => led'.picture = "kPurple"
         /\ s \in QuietStates => ~led'.is_transitioning
         /\ s = "Transitioning" /\ reader' = "kLive" => led'.picture = "kLive"
         /\ PostsAfterSave
<1> USE DEF FitsState, QuietStates, ReadingStates, PostsAfterSave
<1>1. CASE s \in {"Connecting", "Pinging"} /\ EnterStatusState(s, d)
  BY <1>1 DEF EnterStatusState, SetStatusLed, Still, ReaderModes
<1>2. CASE s = "Polling" /\ EnterPolling(d)
  BY <1>2 DEF EnterPolling
<1>3. CASE s = "Transitioning" /\ EnterTransitioning(d)
  <2>1. PICK converted \in ConversionResults(reader') :
          \/ /\ converted
             /\ led' = SetLeds(reader')
             /\ conversion_fail_cnt' = 0
             /\ UNCHANGED queue
          \/ /\ ~converted
             /\ led' = d
             /\ IF conversion_fail_cnt + 1 >= MaxConversions
                  THEN conversion_fail_cnt' = 0 /\ Post("FAKE")
                  ELSE conversion_fail_cnt' = conversion_fail_cnt + 1 /\ UNCHANGED queue
    BY <1>3 DEF EnterTransitioning
  <2>2. reader' \in {"kLive", "kOffline"} => converted
    BY <1>3, <2>1 DEF ConversionResults
  <2>3. /\ led' = SetLeds(reader') \/ (led' = d /\ reader' = "kHistory")
        /\ queue' = queue \/ queue' = Append(queue, "FAKE")
    BY <2>1, <2>2 DEF Post, ReaderModes
  <2>4. PostsAfterSave
    BY <2>3 DEF PostedEvents, OwnEvents
  <2>5. /\ led'.picture \in ReaderModes => led'.picture = reader'
        /\ reader' = "kLive" => led'.picture = "kLive"
    BY <2>3 DEF SetLeds
  <2> QED BY <1>3, <2>4, <2>5
<1>4. CASE /\ s \in {"Live", "Offline", "Updating", "Resetting"}
           /\ led' = IF s = "Resetting" THEN SetTestLeds(d) ELSE d
           /\ UNCHANGED <<queue, pollVars, conversion_fail_cnt>>
  <2>1. d.is_transitioning \in BOOLEAN
    BY DEF Displays
  <2>2. s = "Resetting" => led'.picture = "test" /\ ~led'.is_transitioning
    BY <1>4, <2>1 DEF SetTestLeds, Displays
  <2> QED BY <1>4, <2>1, <2>2 DEF ReaderModes
<1> QED BY <1>1, <1>2, <1>3, <1>4 DEF Enter

\* A transition that is asked for something that fits leaves what fits.
LEMMA ExecuteBoard ==
  ASSUME TypeOK, BoardInv, NEW s \in States \ {"Starting"}, NEW r \in ReaderModes,
         NEW w \in WriterModes, NEW d \in Displays, NEW t \in [Timers -> TimerStates],
         t["live_1min"] = timer["live_1min"], t["offline_1min"] = timer["offline_1min"],
         FitsState(s, r, w, d), Execute(s, r, w, d, t)
  PROVE  BoardInv' /\ WholeMinute /\ PostsAfterSave
<1>1. /\ reader' = r /\ writer' = w /\ store' = store /\ fsm' = s
      /\ timer' = EnterTimers(s, ExitTimers(fsm, t))
      /\ Enter(s, d)
      /\ fsm \in States
  BY DEF Execute, TypeOK, BoardTypeOK
<1>2. /\ s = "Polling" => delegate' = writer'
      /\ s \in {"Live", "Updating"} => led'.picture = "kLive" /\ ~led'.is_transitioning
      /\ led'.picture \in ReaderModes => led'.picture = reader'
      /\ s = "Connecting" => led'.picture = "kBlue"
      /\ s = "Pinging" => led'.picture = "kPurple"
      /\ s \in QuietStates => ~led'.is_transitioning
      /\ s = "Transitioning" /\ reader' = "kLive" => led'.picture = "kLive"
      /\ PostsAfterSave
  BY <1>1, EnterBoard
<1>3. /\ timer'["live_1min"] = IF s = "Live" THEN "Running" ELSE "Stopped"
      /\ timer'["offline_1min"] = IF s = "Offline" THEN "Running" ELSE "Stopped"
      /\ s = "Live" => timer'["live_15min"] # "Stopped"
      /\ s = "Resetting" => timer'["resetting"] # "Stopped"
  <2>1. /\ fsm # "Live" => t["live_1min"] = "Stopped"
        /\ fsm # "Offline" => t["offline_1min"] = "Stopped"
    BY DEF BoardInv, TimersFollowState
  <2> QED BY <1>1, <2>1, EnterExitTimers
<1>4. DelegatesMatchWriter' /\ LiveShowsLiveData' /\ PictureMatchesMode' /\ StatusLedShown' /\ FadeInv'
  BY <1>1, <1>2
  DEF FitsState, DelegatesMatchWriter, LiveShowsLiveData, PictureMatchesMode, StatusLedShown, FadeInv
<1>5. StoreReadAfterSave'
  BY <1>1 DEF FitsState, ReadingStates, StoreReadAfterSave
<1>6. TimersFollowState' /\ WholeMinute
  BY <1>1, <1>3 DEF TimersFollowState, WholeMinute
<1> QED BY <1>2, <1>4, <1>5, <1>6 DEF BoardInv

\* A transition from the modes and the timers the board has now.
LEMMA TransitionBoard ==
  ASSUME TypeOK, BoardInv
  PROVE  /\ \A s \in States \ {"Starting"}, d \in Displays :
              PlainTransition(s, d) /\ FitsState(s, reader, writer, d)
                => BoardInv' /\ WholeMinute /\ PostsAfterSave
         /\ \A d \in Displays : TransitionFake(d) => BoardInv' /\ WholeMinute /\ PostsAfterSave
         /\ \A r \in ReaderModes, d \in Displays :
              TransitionLoadHistory(r, d) /\ (d.picture \in ReaderModes => d.picture = r)
                => BoardInv' /\ WholeMinute /\ PostsAfterSave
         /\ \A d \in Displays :
              TransitionPollServer(d) /\ FitsState("Polling", reader, "kSingle", d)
                => BoardInv' /\ WholeMinute /\ PostsAfterSave
<1>1. timer \in [Timers -> TimerStates] /\ reader \in ReaderModes /\ writer \in WriterModes
  BY DEF TypeOK, BoardTypeOK, TimerStates
<1>2. /\ {"kSingle", "kMultiple"} \subseteq WriterModes
      /\ "kOffline" \in ReaderModes
      /\ {"Transitioning", "Polling"} \subseteq States \ {"Starting"}
  BY DEF WriterModes, ReaderModes, States
<1>3. /\ \A d : FitsState("Transitioning", "kOffline", writer, d)
      /\ \A r, d : (d.picture \in ReaderModes => d.picture = r)
                    => FitsState("Polling", r, "kMultiple", d)
  BY DEF BoardInv, StoreReadAfterSave, FitsState, ReadingStates, QuietStates
<1>4. ASSUME NEW s \in States \ {"Starting"}, NEW d \in Displays,
             PlainTransition(s, d), FitsState(s, reader, writer, d)
      PROVE  BoardInv' /\ WholeMinute /\ PostsAfterSave
  BY <1>1, <1>4, ExecuteBoard DEF PlainTransition
<1>5. ASSUME NEW d \in Displays, TransitionFake(d)
      PROVE  BoardInv' /\ WholeMinute /\ PostsAfterSave
  BY <1>1, <1>2, <1>3, <1>5, ExecuteBoard DEF TransitionFake
<1>6. ASSUME NEW r \in ReaderModes, NEW d \in Displays,
             TransitionLoadHistory(r, d), d.picture \in ReaderModes => d.picture = r
      PROVE  BoardInv' /\ WholeMinute /\ PostsAfterSave
  BY <1>1, <1>2, <1>3, <1>6, ExecuteBoard DEF TransitionLoadHistory
<1>7. ASSUME NEW d \in Displays,
             TransitionPollServer(d), FitsState("Polling", reader, "kSingle", d)
      PROVE  BoardInv' /\ WholeMinute /\ PostsAfterSave
  BY <1>1, <1>2, <1>7, ExecuteBoard DEF TransitionPollServer
<1> QED BY <1>4, <1>5, <1>6, <1>7
-----------------------------------------------------------------------------
(* The handlers.                                                           *)

\* A step that stays in its state and loses no data.
LEMMA StayBoard ==
  ASSUME BoardInv, UNCHANGED <<fsm, reader, writer, delegate, led, timer>>,
         store' = "empty" => store = "empty"
  PROVE  BoardInv' /\ WholeMinute
<1>1. DelegatesMatchWriter' /\ LiveShowsLiveData' /\ PictureMatchesMode' /\ StatusLedShown' /\ FadeInv'
  BY DEF BoardInv, DelegatesMatchWriter, LiveShowsLiveData, PictureMatchesMode, StatusLedShown, FadeInv
<1>2. StoreReadAfterSave'
  BY DEF BoardInv, StoreReadAfterSave
<1>3. TimersFollowState' /\ WholeMinute
  BY DEF BoardInv, TimersFollowState, WholeMinute
<1> QED BY <1>1, <1>2, <1>3 DEF BoardInv

\* The handler of each state, if DATA_OK comes after the data.
LEMMA BoardStep ==
  ASSUME TypeOK, BoardInv, NEW event, event = "DATA_OK" => store # "empty", ProcessEvent(event)
  PROVE  BoardInv' /\ WholeMinute /\ PostsAfterSave
<1> DEFINE Done == BoardInv' /\ WholeMinute /\ PostsAfterSave
<1>1. /\ States = {"Starting", "Resetting", "Connecting", "Pinging", "Polling",
                   "Transitioning", "Live", "Offline", "Updating"}
      /\ ReaderModes = {"kLive", "kHistory", "kOffline"}
      /\ led \in Displays /\ ClearAllLeds \in Displays /\ RefreshTransition(led) \in Displays
      /\ reader \in ReaderModes
  BY DisplayType DEF States, ReaderModes, TypeOK, BoardTypeOK
<1>2. UNCHANGED <<boardVars, queue>> => Done
  BY StayBoard DEF boardVars, dataVars, pollVars, PostsAfterSave
<1>3. ASSUME NEW e \in PostedEvents \ {"DATA_OK"}, Post(e), UNCHANGED boardVars
      PROVE  Done
  BY <1>3, StayBoard DEF Post, boardVars, dataVars, pollVars, PostsAfterSave
<1>4. /\ Ignore => Done
      /\ \A e \in PostedEvents \ {"DATA_OK"} : Send(e) => Done
  BY <1>2, <1>3 DEF Ignore, Send
<1>5. OwnEvents \subseteq PostedEvents /\ ClearAllLeds.picture \notin ReaderModes
      /\ ~ClearAllLeds.is_transitioning
  BY DEF PostedEvents, ClearAllLeds, DarkDisplay, Still, ReaderModes
<1>6. /\ \A s \in States \ {"Starting"}, d \in Displays :
           PlainTransition(s, d) /\ FitsState(s, reader, writer, d) => Done
      /\ \A d \in Displays : TransitionFake(d) => Done
      /\ \A r \in ReaderModes, d \in Displays :
           TransitionLoadHistory(r, d) /\ (d.picture \in ReaderModes => d.picture = r) => Done
      /\ \A d \in Displays :
           TransitionPollServer(d) /\ FitsState("Polling", reader, "kSingle", d) => Done
  BY TransitionBoard
<1>7. /\ writer = "kSingle" => store # "empty"
      /\ led.picture \in ReaderModes => led.picture = reader
      /\ fsm \in ReadingStates /\ reader # "kOffline" => store # "empty"
      /\ fsm \in QuietStates => ~led.is_transitioning
  BY DEF BoardInv, StoreReadAfterSave, PictureMatchesMode, FadeInv, ReadingStates
<1> SUFFICES Done
  OBVIOUS
<1> HIDE DEF Done
<1>8. CASE fsm = "Starting" /\ Starting(event)
  <2>1. \A s \in {"Connecting", "Resetting"} : FitsState(s, reader, writer, led)
    BY <1>7, <1>8 DEF FitsState, ReadingStates, QuietStates
  <2> QED BY <1>1, <1>4, <1>5, <1>6, <1>8, <2>1 DEF Starting, OwnEvents
<1>9. CASE fsm = "Resetting" /\ Resetting(event)
  <2>1. FitsState("Connecting", reader, writer, led)
    BY <1>7, <1>9 DEF FitsState, ReadingStates, QuietStates
  <2> QED BY <1>1, <1>4, <1>6, <1>9, <2>1 DEF Resetting
<1>10. CASE fsm = "Connecting" /\ Connecting(event)
  <2>1. FitsState("Pinging", reader, writer, led)
    BY <1>7, <1>10 DEF FitsState, ReadingStates, QuietStates
  <2>2. CASE /\ \E ok \in BOOLEAN : WifiConnect(ok) /\ Post(IF ok THEN "PING" ELSE "FAKE")
             /\ UNCHANGED boardVars
    BY <1>3, <1>5, <2>2 DEF OwnEvents
  <2> QED BY <1>1, <1>4, <1>6, <1>10, <2>1, <2>2 DEF Connecting
<1>11. CASE fsm = "Pinging" /\ Pinging(event)
  <2>1. led.picture \in ReaderModes => led.picture = reader
    BY <1>7
  <2> QED BY <1>1, <1>4, <1>5, <1>6, <1>11, <2>1 DEF Pinging, OwnEvents
<1>12. CASE fsm = "Polling" /\ Polling(event)
  <2>1. CASE /\ PollSucceeds \/ PollFails
             /\ UNCHANGED <<fsm, reader, writer, delegate, conversion_fail_cnt, led, timer, netVars>>
    <3>1. store' = "empty" => store = "empty"
      BY <2>1 DEF PollSucceeds, PollFails, StoresAfterSave
    <3>2. PostsAfterSave
      BY <1>5, <2>1, <3>1
      DEF PollSucceeds, PollFails, StoresAfterSave, Post, OwnEvents, PostsAfterSave
    <3> QED BY <2>1, <3>1, <3>2, StayBoard DEF Done
  <2>2. event = "DATA_OK" => FitsState("Transitioning", reader, writer, led)
    BY <1>7 DEF FitsState, ReadingStates, QuietStates
  <2> QED BY <1>1, <1>4, <1>6, <1>12, <2>1, <2>2 DEF Polling
<1>13. CASE fsm = "Transitioning" /\ Transitioning(event)
  <2>1. CASE IsLastRefresh(led) /\ PlainTransition(AfterTransition, RefreshTransition(led))
    <3>1. /\ RefreshTransition(led).picture = led.picture
          /\ ~RefreshTransition(led).is_transitioning
      BY <2>1 DEF RefreshTransition
    <3>2. reader = "kLive" => led.picture = "kLive"
      BY <1>13 DEF BoardInv, FadeInv
    <3>3. AfterTransition \in {"Live", "Transitioning", "Offline"}
          /\ (AfterTransition = "Live" => reader = "kLive")
      BY <1>1 DEF AfterTransition
    <3>4. FitsState(AfterTransition, reader, writer, RefreshTransition(led))
      BY <1>7, <1>13, <3>1, <3>2, <3>3 DEF FitsState, ReadingStates, QuietStates
    <3> QED BY <1>1, <1>6, <2>1, <3>3, <3>4
  <2>2. CASE /\ led' = RefreshTransition(led)
             /\ UNCHANGED <<fsm, dataVars, pollVars, conversion_fail_cnt, timer, queue>>
    <3>1. led'.picture = led.picture
      BY <2>2 DEF RefreshTransition
    <3>2. /\ fsm' = fsm /\ reader' = reader /\ writer' = writer /\ store' = store
          /\ timer' = timer /\ queue' = queue
      BY <2>2 DEF dataVars
    <3>3. DelegatesMatchWriter' /\ LiveShowsLiveData' /\ StatusLedShown'
      BY <1>13, <3>2 DEF DelegatesMatchWriter, LiveShowsLiveData, StatusLedShown
    <3>4. PictureMatchesMode' /\ FadeInv'
      BY <1>13, <3>1, <3>2 DEF BoardInv, PictureMatchesMode, FadeInv, QuietStates
    <3>5. StoreReadAfterSave' /\ TimersFollowState'
      BY <3>2 DEF BoardInv, StoreReadAfterSave, TimersFollowState
    <3> QED BY <3>2, <3>3, <3>4, <3>5 DEF Done, BoardInv, WholeMinute, PostsAfterSave
  <2>3. FitsState("Offline", reader, writer, led)
    BY <1>7, <1>13 DEF FitsState, ReadingStates, QuietStates
  <2>4. ASSUME NEW r \in ReaderModes, TransitionLoadHistory(r, ClearAllLeds) PROVE Done
    BY <1>1, <1>5, <1>6, <2>4
  <2> QED BY <1>1, <1>4, <1>6, <1>13, <2>1, <2>2, <2>3, <2>4 DEF Transitioning
<1>14. CASE fsm = "Live" /\ Live(event)
  <2>1. reader = "kLive" /\ led.picture = "kLive" /\ ~led.is_transitioning
    BY <1>14 DEF BoardInv, LiveShowsLiveData
  <2>2. CASE Execute("Updating", reader, writer, led, ResetTimer(timer, "live_15min"))
    <3>1. /\ timer \in [Timers -> TimerStates] /\ writer \in WriterModes
          /\ {"live_1min", "live_15min", "offline_1min"} \subseteq Timers
      BY DEF TypeOK, BoardTypeOK, TimerStates, Timers
    <3> DEFINE t == ResetTimer(timer, "live_15min")
    <3>2. /\ t \in [Timers -> TimerStates]
          /\ t["live_1min"] = timer["live_1min"] /\ t["offline_1min"] = timer["offline_1min"]
      BY <3>1, TimerType DEF ResetTimer
    <3> HIDE DEF t
    <3>3. Execute("Updating", reader, writer, led, t)
      BY <2>2 DEF t
    <3>4. FitsState("Updating", reader, writer, led)
      BY <1>7, <1>14, <2>1 DEF FitsState, ReadingStates, QuietStates
    <3> QED BY <1>1, <3>1, <3>2, <3>3, <3>4, ExecuteBoard DEF Done
  <2>3. FitsState("Polling", reader, "kSingle", led)
    BY <1>7, <1>14, <2>1 DEF FitsState, ReadingStates, QuietStates
  <2>4. TransitionLoadHistory("kHistory", ClearAllLeds) => Done
    BY <1>1, <1>5, <1>6
  <2> QED BY <1>1, <1>2, <1>4, <1>6, <1>14, <2>2, <2>3, <2>4 DEF Live
<1>15. CASE fsm = "Offline" /\ Offline(event)
  <2>1. FitsState("Transitioning", reader, writer, led)
    BY <1>7, <1>15 DEF FitsState, ReadingStates, QuietStates
  <2>2. FitsState("Connecting", reader, writer, ClearAllLeds)
    BY <1>5, <1>7 DEF FitsState, ReadingStates, QuietStates
  <2>3. TransitionLoadHistory("kLive", ClearAllLeds) => Done
    BY <1>1, <1>5, <1>6
  <2> QED BY <1>1, <1>2, <1>4, <1>6, <1>15, <2>1, <2>2, <2>3 DEF Offline
<1>16. CASE fsm = "Updating" /\ Updating(event)
  <2>1. reader = "kLive" /\ led.picture = "kLive" /\ ~led.is_transitioning
    BY <1>16 DEF BoardInv, LiveShowsLiveData
  <2>2. FitsState("Live", reader, writer, led)
    BY <1>7, <1>16, <2>1 DEF FitsState, ReadingStates, QuietStates
  <2> QED BY <1>1, <1>4, <1>5, <1>6, <1>16, <2>2 DEF Updating, OwnEvents
<1> QED
  BY <1>8, <1>9, <1>10, <1>11, <1>12, <1>13, <1>14, <1>15, <1>16 DEF ProcessEvent
-----------------------------------------------------------------------------
(* The whole firmware.                                                     *)

\* What is pushed joins the signals not seen yet; what is dispatched leaves them.
LEMMA UnseenAfterTurn ==
  ASSUME queue \in Seq(Events), queue # <<>>, NEW e \in PostedEvents, NEW sig,
         queue' = queue \/ queue' = Append(queue, e), sig \in Unseen',
         pc \in {"button", "pop"} => pc' \in {"button", "pop"}
  PROVE  sig \in Unseen \/ (queue' # queue /\ sig = e)
<1> DEFINE first == IF pc \in {"button", "pop"} THEN 2 ELSE 1
           first2 == IF pc' \in {"button", "pop"} THEN 2 ELSE 1
<1>1. PICK i \in first2..Len(queue') : queue'[i] = sig
  BY DEF Unseen
<1>2. first <= first2 /\ first \in Nat /\ first2 \in Nat
  OBVIOUS
<1> HIDE DEF first, first2
<1>3. e \in Events
  BY DEF Events
<1>4. queue' \in Seq(Events) /\ Len(queue') >= Len(queue)
      /\ \A j \in 1..Len(queue) : queue'[j] = queue[j]
  BY <1>3
<1>5. 1 <= first
  BY DEF first
<1>6. CASE i <= Len(queue)
  BY <1>1, <1>2, <1>4, <1>5, <1>6 DEF Unseen, first
<1>7. CASE i > Len(queue)
  <2>1. queue' = Append(queue, e) /\ i = Len(queue) + 1
    BY <1>1, <1>2, <1>3, <1>4, <1>5, <1>7
  <2> QED BY <1>1, <1>3, <2>1
<1> QED BY <1>1, <1>2, <1>5, <1>6, <1>7

BoardIInv == IInv /\ BoardInv /\ DataOkInv

\* The initial states.
LEMMA BoardIInvInit == Init => BoardIInv
<1> SUFFICES ASSUME Init PROVE BoardIInv
  OBVIOUS
<1>1. /\ fsm = "Starting" /\ reader = "kLive" /\ writer = "kMultiple" /\ queue = <<>>
      /\ led.picture = "kWhite" /\ ~led.is_transitioning
  BY DEF Init, BoardInit, SetStatusLed, DarkDisplay, Still
<1>2. timer = [id \in Timers |-> IF id = "starting" THEN "Running" ELSE "Stopped"]
  BY DEF Init, BoardInit, StartOneShot, Timers
<1>3. TimersFollowState
  BY <1>1, <1>2 DEF TimersFollowState, Timers
<1>4. /\ DelegatesMatchWriter /\ StoreReadAfterSave /\ LiveShowsLiveData
      /\ PictureMatchesMode /\ StatusLedShown /\ FadeInv
  BY <1>1
  DEF DelegatesMatchWriter, StoreReadAfterSave, LiveShowsLiveData, PictureMatchesMode,
      StatusLedShown, FadeInv, QuietStates, ReaderModes
<1>5. DataOkInv
  BY <1>1 DEF DataOkInv, Unseen
<1> QED BY <1>3, <1>4, <1>5, IInvInit DEF BoardIInv, BoardInv

\* Every step of every thread.
LEMMA BoardIInvStep == BoardIInv /\ [Next]_vars => BoardIInv' /\ WholeMinute
<1> SUFFICES ASSUME IInv, BoardInv, DataOkInv, [Next]_vars
             PROVE  BoardInv' /\ DataOkInv' /\ WholeMinute
  BY IInvStep DEF BoardIInv
<1>1. TypeOK /\ QueueInv /\ queue \in Seq(Events)
  BY DEF IInv, TypeOK
<1>2. UNCHANGED boardVars => BoardInv' /\ WholeMinute
  BY StayBoard DEF boardVars, dataVars, pollVars
<1>3. ASSUME queue # <<>>, NEW e \in PostedEvents \ {"DATA_OK"}, UNCHANGED store,
             queue' = queue \/ queue' = Append(queue, e),
             pc \in {"button", "pop"} => pc' \in {"button", "pop"}
      PROVE  DataOkInv'
  BY <1>1, <1>3, UnseenAfterTurn DEF DataOkInv
<1>4. StatusEvents \cup {"SHORT_PUSH", "FAKE"} \subseteq PostedEvents \ {"DATA_OK"}
  BY DEF PostedEvents, StatusEvents, OwnEvents
<1>5. UNCHANGED <<queue, pc, store>> => DataOkInv'
  BY DEF DataOkInv, Unseen
<1>6. CASE PushTick
  <2>1. queue' = <<"TICK">> /\ UNCHANGED boardVars
    BY <1>6 DEF PushTick, Post
  <2>2. "DATA_OK" \notin Unseen'
    BY <2>1 DEF Unseen
  <2> QED BY <1>2, <2>1, <2>2 DEF DataOkInv
<1>7. CASE DispatchToListener
  <2>1. UNCHANGED boardVars /\ queue # <<>> /\ pc = "loop"
    BY <1>7 DEF DispatchToListener
  <2>2. queue' = queue \/ \E e \in StatusEvents : queue' = Append(queue, e)
    BY <1>1, <1>7, ListenerType DEF DispatchToListener
  <2>3. UNCHANGED store
    BY <2>1 DEF boardVars, dataVars
  <2> QED BY <1>2, <1>3, <1>4, <2>1, <2>2, <2>3
<1>8. CASE DispatchToBoard
  <2>1. queue # <<>> /\ pc = "board" /\ pc' = "button" /\ ProcessEvent(Event)
    BY <1>1, <1>8 DEF DispatchToBoard, QueueInv
  <2>2. Event \in Unseen
    BY <1>1, <2>1 DEF Event, Unseen
  <2>3. BoardInv' /\ WholeMinute /\ PostsAfterSave
    BY <1>1, <2>1, <2>2, BoardStep DEF DataOkInv
  <2>4. PICK e \in PostedEvents :
          queue' = queue \/ (queue' = Append(queue, e) /\ (e = "DATA_OK" => store' # "empty"))
    BY <1>4, <2>3 DEF PostsAfterSave
  <2>5. "DATA_OK" \in Unseen' => "DATA_OK" \in Unseen \/ (queue' # queue /\ "DATA_OK" = e)
    BY <1>1, <2>1, <2>4, UnseenAfterTurn
  <2> QED BY <2>3, <2>4, <2>5 DEF DataOkInv, PostsAfterSave
<1>9. CASE DispatchToButton
  <2>1. UNCHANGED boardVars /\ queue # <<>> /\ pc = "button" /\ pc' = "pop"
    BY <1>1, <1>9 DEF DispatchToButton, QueueInv
  <2>2. queue' = queue \/ queue' = Append(queue, "SHORT_PUSH")
    BY <1>1, <1>9, ButtonType DEF DispatchToButton
  <2>3. UNCHANGED store
    BY <2>1 DEF boardVars, dataVars
  <2> QED BY <1>2, <1>3, <1>4, <2>1, <2>2, <2>3
<1>10. CASE PopEvent
  <2>1. UNCHANGED boardVars /\ queue # <<>> /\ pc = "pop" /\ pc' = "loop" /\ queue' = Tail(queue)
    BY <1>1, <1>10 DEF PopEvent, QueueInv
  <2>2. Unseen' \subseteq Unseen
    BY <1>1, <2>1 DEF Unseen
  <2> QED BY <1>2, <2>1, <2>2 DEF DataOkInv, boardVars, dataVars
<1>11. CASE OtaRestart
  <2>1. /\ fsm' = "Starting" /\ reader' = "kLive" /\ writer' = "kMultiple" /\ queue' = <<>>
        /\ led'.picture = "kWhite" /\ ~led'.is_transitioning
    BY <1>11 DEF OtaRestart, SetStatusLed, DarkDisplay, Still
  <2>2. timer' = [id \in Timers |-> IF id = "starting" THEN "Running" ELSE "Stopped"]
    BY <1>11 DEF OtaRestart, StartOneShot, Timers
  <2>3. TimersFollowState' /\ WholeMinute
    BY <2>1, <2>2 DEF TimersFollowState, WholeMinute, Timers
  <2>4. /\ DelegatesMatchWriter' /\ StoreReadAfterSave' /\ LiveShowsLiveData'
        /\ PictureMatchesMode' /\ StatusLedShown' /\ FadeInv'
    BY <2>1
    DEF DelegatesMatchWriter, StoreReadAfterSave, LiveShowsLiveData, PictureMatchesMode,
        StatusLedShown, FadeInv, QuietStates, ReaderModes
  <2>5. DataOkInv'
    BY <2>1 DEF DataOkInv, Unseen
  <2> QED BY <2>3, <2>4, <2>5 DEF BoardInv
<1>12. CASE \E id \in Timers : TimerThread(id)
  <2>1. PICK id \in Timers : TimerThread(id)
    BY <1>12
  <2>2. /\ UNCHANGED <<fsm, reader, writer, store, delegate, led, queue, pc>>
        /\ timer[id] = "Running" /\ timer' = [timer EXCEPT ![id] = "Expired"]
    BY <2>1 DEF TimerThread, TimerExpires, dataVars, pollVars
  <2>3. timer \in [Timers -> TimerStates]
    BY <1>1 DEF TypeOK, BoardTypeOK, TimerStates
  <2>4. \A x \in Timers : timer'[x] = "Stopped" <=> timer[x] = "Stopped"
    BY <2>2, <2>3
  <2>5. TimersFollowState' /\ WholeMinute
    BY <2>2, <2>4 DEF BoardInv, TimersFollowState, WholeMinute, Timers
  <2>6. DelegatesMatchWriter' /\ LiveShowsLiveData' /\ PictureMatchesMode' /\ StatusLedShown' /\ FadeInv'
    BY <2>2 DEF BoardInv, DelegatesMatchWriter, LiveShowsLiveData, PictureMatchesMode, StatusLedShown, FadeInv
  <2>7. StoreReadAfterSave'
    BY <2>2 DEF BoardInv, StoreReadAfterSave
  <2> QED BY <1>5, <2>2, <2>5, <2>6, <2>7 DEF BoardInv
<1>13. CASE Network
  BY <1>2, <1>5, <1>13 DEF Network, boardVars, dataVars
<1>14. CASE UNCHANGED vars
  BY <1>2, <1>5, <1>14 DEF vars, boardVars, dataVars
<1> QED
  BY <1>6, <1>7, <1>8, <1>9, <1>10, <1>11, <1>12, <1>13, <1>14 DEF Next, MainLoop
\* The invariant holds in every reachable state.
LEMMA BoardIInvCorrect == Spec => []BoardIInv
BY BoardIInvInit, BoardIInvStep, PTL DEF Spec

\* A polled history is never saved as a single frame, nor a frame as a history.
THEOREM DelegatesMatch == Spec => []DelegatesMatchWriter
<1>1. BoardIInv => DelegatesMatchWriter
  BY DEF BoardIInv, BoardInv
<1> QED BY <1>1, BoardIInvCorrect, PTL

\* Stored data is only shown after some was saved, and only then is a single frame
\* polled.
THEOREM ReadAfterSave == Spec => []StoreReadAfterSave
<1>1. BoardIInv => StoreReadAfterSave
  BY DEF BoardIInv, BoardInv
<1> QED BY <1>1, BoardIInvCorrect, PTL

\* Live mode shows live data, faded in to the end.
THEOREM LiveIsLive == Spec => []LiveShowsLiveData
<1>1. BoardIInv => LiveShowsLiveData
  BY DEF BoardIInv, BoardInv
<1> QED BY <1>1, BoardIInvCorrect, PTL

\* No frame of another reader mode than the present one is ever on the LEDs.
THEOREM PicturesMatch == Spec => []PictureMatchesMode
<1>1. BoardIInv => PictureMatchesMode
  BY DEF BoardIInv, BoardInv
<1> QED BY <1>1, BoardIInvCorrect, PTL

\* SetStatusLed is never refused where a state needs it.
THEOREM StatusColourShown == Spec => []StatusLedShown
<1>1. BoardIInv => StatusLedShown
  BY DEF BoardIInv, BoardInv
<1> QED BY <1>1, BoardIInvCorrect, PTL

\* The timer a state waits for is counting or has expired, and no minute timer is
\* left behind.
THEOREM TimersFollow == Spec => []TimersFollowState
<1>1. BoardIInv => TimersFollowState
  BY DEF BoardIInv, BoardInv
<1> QED BY <1>1, BoardIInvCorrect, PTL

\* Live and Offline begin with a whole minute, however often they were left and at
\* whatever moment their timer expired.
THEOREM WholeMinutes == Spec => MinuteStartsOnEntry
<1>1. BoardIInv /\ [Next]_vars
        => [/\ fsm # "Live" /\ fsm' = "Live" => timer'["live_1min"] = "Running"
            /\ fsm # "Offline" /\ fsm' = "Offline" => timer'["offline_1min"] = "Running"]_vars
  BY BoardIInvStep DEF WholeMinute
<1> QED BY <1>1, BoardIInvCorrect, PTL DEF Spec, MinuteStartsOnEntry

-----------------------------------------------------------------------------
(* In which order signals stand in the queue, and what follows: every      *)
(* signal finds the state that sent it, Polling gives up, and the listener *)
(* keeps its promise.                                                      *)

\* The signals by which a state leaves itself.
Commands == {"DELAY_DONE", "PING", "LOAD_HISTORY", "DATA_OK", "NO_UPDATE"}

\* Who sends which.
Sender == [c \in Commands |->
  CASE c = "DELAY_DONE" -> "Starting"
    [] c = "PING" -> "Connecting"
    [] c = "LOAD_HISTORY" -> "Pinging"
    [] c = "DATA_OK" -> "Polling"
    [] c = "NO_UPDATE" -> "Updating"]

FirstUnseen == IF pc \in {"button", "pop"} THEN 2 ELSE 1

\* The listener answers a TICK first, the state after it, the button last: of the
\* signals not seen yet, only the listener's stand before a command, and only the
\* listener's and the button's before FAKE.
OrderInv ==
  /\ \A j \in 1..Len(queue) :
       queue[j] \in StatusEvents => j = 1 \/ (j = 2 /\ queue[1] = "TICK")
  /\ pc = "board" /\ Event = "TICK" => \A j \in 2..Len(queue) : queue[j] \in StatusEvents
  /\ \A i, j \in FirstUnseen..Len(queue) :
       i < j /\ queue[j] \in Commands => queue[i] \in StatusEvents
  /\ \A i, j \in FirstUnseen..Len(queue) :
       i < j /\ queue[j] = "FAKE" => queue[i] \notin Commands \cup {"FAKE"}

\* A command finds its sender, or it is DATA_OK and the listener's signal before it
\* took Polling to Transitioning.
CommandInv ==
  \A c \in Commands :
    c \in Unseen =>
      \/ fsm = Sender[c]
      \/ c = "DATA_OK" /\ fsm = "Transitioning" /\ Unseen \cap StatusEvents = {}

\* Where FAKE finds the board.
FakeInv ==
  "FAKE" \in Unseen =>
    \/ fsm \in {"Connecting", "Pinging"}
    \/ fsm = "Polling" /\ fail_cnt = MaxFails
    \/ fsm = "Transitioning" /\ reader = "kOffline" /\ Unseen \cap StatusEvents = {}
    \/ fsm \in {"Polling", "Transitioning", "Offline"} /\ store = "short"

\* Polling counts to MaxFails, and FAKE is then on its way.
FailsInv ==
  fsm = "Polling" =>
    fail_cnt <= MaxFails /\ (fail_cnt = MaxFails => "FAKE" \in Unseen)

-----------------------------------------------------------------------------
(* The state machine's turn.                                               *)

\* What it pushes: nothing, FAKE, or a command to the state it is in and stays in,
\* and a command at a TICK only.
PostsOwn(event) ==
  \/ queue' = queue
  \/ queue' = Append(queue, "FAKE")
  \/ \E c \in Commands :
       queue' = Append(queue, c) /\ event = "TICK" /\ fsm = Sender[c] /\ fsm' = fsm

\* What the listener's signals make the senders of commands do.
KeepsSender(event) ==
  event \in StatusEvents =>
    /\ fsm \in {"Starting", "Connecting", "Pinging", "Updating"} => fsm' = fsm
    /\ fsm = "Polling" => fsm' \in {"Polling", "Transitioning"}

\* The count of failures.
CountsFails(event) ==
  fsm' = "Polling" =>
    \/ fail_cnt' = 0
    \/ fsm = "Polling" /\ event # "FAKE" /\ fail_cnt' = fail_cnt
    \/ /\ fsm = "Polling" /\ event = "TICK" /\ fail_cnt' = fail_cnt + 1
       /\ fail_cnt' >= MaxFails => queue' = Append(queue, "FAKE")

\* When it pushes FAKE: in answer to a TICK or to a command, in a state that takes it.
PostsFake(event) ==
  queue' = Append(queue, "FAKE") =>
    /\ event \in Commands \cup {"TICK"}
    /\ \/ fsm' \in {"Connecting", "Pinging"}
       \/ fsm' = "Polling" /\ fail_cnt' >= MaxFails
       \/ fsm' = "Transitioning" /\ reader' # "kOffline" /\ store' \in {"empty", "short"}

\* What the signals that may stand before FAKE do.
KeepsFake(event) ==
  event \in StatusEvents \cup {"SHORT_PUSH"} =>
    /\ UNCHANGED <<queue, store>>
    /\ fsm \in {"Connecting", "Pinging"} =>
         fsm' = fsm \/ (fsm' = "Transitioning" /\ reader' = "kOffline")
    /\ fsm = "Polling" =>
         \/ fsm' = "Polling" /\ fail_cnt' = fail_cnt
         \/ fsm' = "Transitioning" /\ reader' = "kOffline"
    /\ fsm = "Transitioning" =>
         /\ fsm' \in {"Transitioning", "Polling", "Offline"}
         /\ reader = "kOffline" /\ event = "SHORT_PUSH" => UNCHANGED <<fsm, reader>>
    /\ fsm = "Offline" => fsm' \in {"Offline", "Polling", "Connecting"}

\* No transition leads back to Starting.
NeverStarts == fsm' = "Starting" => fsm = "Starting"

\* A transition to s pushes nothing but the FAKE of a frame that cannot be shown.
MovesTo(s) ==
  /\ fsm' = s
  /\ \/ queue' = queue
     \/ /\ queue' = Append(queue, "FAKE")
        /\ s = "Transitioning" /\ reader' # "kOffline" /\ store \in {"empty", "short"}
  /\ s = "Polling" => fail_cnt' = 0
  /\ UNCHANGED store

\* Every transition does that.
LEMMA ExecuteSignals ==
  ASSUME NEW s, NEW r, NEW w, NEW d, NEW t, Execute(s, r, w, d, t)
  PROVE  MovesTo(s) /\ reader' = r
<1> USE DEF MovesTo
<1>1. fsm' = s /\ Enter(s, d) /\ reader' = r /\ UNCHANGED store
  BY DEF Execute
<1>2. CASE EnterTransitioning(d) /\ s = "Transitioning"
  <2>1. PICK converted \in ConversionResults(reader') :
          \/ /\ converted
             /\ led' = SetLeds(reader')
             /\ conversion_fail_cnt' = 0
             /\ UNCHANGED queue
          \/ /\ ~converted
             /\ led' = d
             /\ IF conversion_fail_cnt + 1 >= MaxConversions
                  THEN conversion_fail_cnt' = 0 /\ Post("FAKE")
                  ELSE conversion_fail_cnt' = conversion_fail_cnt + 1 /\ UNCHANGED queue
    BY <1>2 DEF EnterTransitioning
  <2>2. ~converted => reader' # "kOffline" /\ store \in {"empty", "short"}
    BY <2>1 DEF ConversionResults
  <2> QED BY <1>1, <1>2, <2>1, <2>2 DEF Post
<1>3. CASE ~(EnterTransitioning(d) /\ s = "Transitioning")
  BY <1>1, <1>3 DEF Enter, EnterStatusState, EnterPolling
<1> QED BY <1>1, <1>2, <1>3

\* So each kind of transition.
LEMMA TransitionSignals ==
  /\ \A s, d : PlainTransition(s, d) => MovesTo(s) /\ reader' = reader
  /\ \A d : TransitionFake(d) => MovesTo("Transitioning") /\ reader' = "kOffline"
  /\ \A r, d : TransitionLoadHistory(r, d) => MovesTo("Polling")
  /\ \A d : TransitionPollServer(d) => MovesTo("Polling")
BY ExecuteSignals
DEF PlainTransition, TransitionFake, TransitionLoadHistory, TransitionPollServer

\* The handler of each state.
LEMMA BoardSignals ==
  ASSUME NEW event \in Events, ProcessEvent(event)
  PROVE  PostsOwn(event) /\ KeepsSender(event) /\ CountsFails(event)
<1> DEFINE Done == PostsOwn(event) /\ KeepsSender(event) /\ CountsFails(event)
<1>1. StatusEvents \cap ({"TICK", "FAKE", "SHORT_PUSH"} \cup Commands) = {}
  BY DEF StatusEvents, Commands
<1>2. ASSUME NEW s, MovesTo(s),
             event \notin StatusEvents \/ fsm \notin {"Starting", "Connecting", "Pinging", "Updating", "Polling"}
               \/ (fsm = "Polling" /\ s = "Transitioning")
      PROVE  Done
  BY <1>2 DEF MovesTo, PostsOwn, KeepsSender, CountsFails
<1>3. ASSUME UNCHANGED <<fsm, queue, fail_cnt>>, event = "FAKE" => fsm # "Polling"
      PROVE  Done
  BY <1>3 DEF PostsOwn, KeepsSender, CountsFails
<1>4. Ignore /\ (event = "FAKE" => fsm # "Polling") => Done
  BY <1>3 DEF Ignore, boardVars, pollVars
<1>5. ASSUME NEW e \in Commands \cup {"FAKE"}, event = "TICK", Post(e), UNCHANGED boardVars,
             e = "FAKE" \/ fsm = Sender[e]
      PROVE  Done
  BY <1>1, <1>5 DEF Post, boardVars, pollVars, PostsOwn, KeepsSender, CountsFails
<1>6. \A e \in Commands \cup {"FAKE"} :
        event = "TICK" /\ Send(e) /\ (e = "FAKE" \/ fsm = Sender[e]) => Done
  BY <1>5 DEF Send
<1>7. /\ Sender["DELAY_DONE"] = "Starting" /\ Sender["PING"] = "Connecting"
      /\ Sender["LOAD_HISTORY"] = "Pinging" /\ Sender["DATA_OK"] = "Polling"
      /\ Sender["NO_UPDATE"] = "Updating"
      /\ Commands = {"DELAY_DONE", "PING", "LOAD_HISTORY", "DATA_OK", "NO_UPDATE"}
  BY DEF Sender, Commands
<1> SUFFICES Done
  OBVIOUS
<1> HIDE DEF Done
<1>8. CASE fsm = "Starting" /\ Starting(event)
  BY <1>1, <1>2, <1>4, <1>6, <1>7, <1>8, TransitionSignals DEF Starting
<1>9. CASE fsm = "Resetting" /\ Resetting(event)
  BY <1>1, <1>2, <1>4, <1>9, TransitionSignals DEF Resetting
<1>10. CASE fsm = "Connecting" /\ Connecting(event)
  <2>1. CASE /\ event = "TICK"
             /\ \E ok \in BOOLEAN : WifiConnect(ok) /\ Post(IF ok THEN "PING" ELSE "FAKE")
             /\ UNCHANGED boardVars
    BY <1>5, <1>7, <1>10, <2>1
  <2> QED BY <1>1, <1>2, <1>4, <1>7, <1>10, <2>1, TransitionSignals DEF Connecting
<1>11. CASE fsm = "Pinging" /\ Pinging(event)
  BY <1>1, <1>2, <1>4, <1>6, <1>7, <1>11, TransitionSignals DEF Pinging
<1>12. CASE fsm = "Polling" /\ Polling(event)
  <2>1. CASE /\ event = "TICK"
             /\ PollSucceeds \/ PollFails
             /\ UNCHANGED <<fsm, reader, writer, delegate, conversion_fail_cnt, led, timer, netVars>>
    BY <1>1, <1>7, <1>12, <2>1
    DEF Done, PollSucceeds, PollFails, Post, PostsOwn, KeepsSender, CountsFails
  <2> QED BY <1>1, <1>2, <1>4, <1>12, <2>1, TransitionSignals DEF Polling
<1>13. CASE fsm = "Transitioning" /\ Transitioning(event)
  <2>1. CASE UNCHANGED <<fsm, dataVars, pollVars, conversion_fail_cnt, timer, queue>>
    BY <1>3, <1>13, <2>1 DEF pollVars
  <2> QED BY <1>2, <1>4, <1>13, <2>1, TransitionSignals DEF Transitioning
<1>14. CASE fsm = "Live" /\ Live(event)
  <2>1. CASE UNCHANGED <<boardVars, queue>>
    BY <1>3, <1>14, <2>1 DEF boardVars, pollVars
  <2>2. CASE Execute("Updating", reader, writer, led, ResetTimer(timer, "live_15min"))
    BY <1>2, <1>14, <2>2, ExecuteSignals
  <2> QED BY <1>2, <1>4, <1>14, <2>1, <2>2, TransitionSignals DEF Live
<1>15. CASE fsm = "Offline" /\ Offline(event)
  <2>1. CASE UNCHANGED <<boardVars, queue>>
    BY <1>3, <1>15, <2>1 DEF boardVars, pollVars
  <2> QED BY <1>2, <1>4, <1>15, <2>1, TransitionSignals DEF Offline
<1>16. CASE fsm = "Updating" /\ Updating(event)
  BY <1>1, <1>2, <1>4, <1>6, <1>7, <1>16, TransitionSignals DEF Updating
<1> QED
  BY <1>8, <1>9, <1>10, <1>11, <1>12, <1>13, <1>14, <1>15, <1>16 DEF ProcessEvent

\* The handler of each state, and FAKE.
LEMMA BoardFake ==
  ASSUME NEW event \in Events, queue \in Seq(Events), reader \in ReaderModes, ProcessEvent(event)
  PROVE  PostsFake(event) /\ KeepsFake(event) /\ NeverStarts
<1> DEFINE Done == PostsFake(event) /\ KeepsFake(event) /\ NeverStarts
<1>1. (StatusEvents \cup {"SHORT_PUSH"}) \cap ({"TICK", "FAKE"} \cup Commands) = {}
  BY DEF StatusEvents, Commands
<1>2. queue # Append(queue, "FAKE")
      /\ \A e \in Events : Append(queue, e) = Append(queue, "FAKE") => e = "FAKE"
  <2>1. \A e \in Events : Append(queue, e)[Len(queue) + 1] = e /\ Len(Append(queue, e)) = Len(queue) + 1
    OBVIOUS
  <2>2. "FAKE" \in Events
    BY DEF Events, PostedEvents, OwnEvents
  <2> QED BY <2>1, <2>2
<1>3. ASSUME NEW s \in States \ {"Starting"}, MovesTo(s),
             event \in Commands \cup {"TICK"}
      PROVE  Done
  BY <1>1, <1>2, <1>3 DEF MovesTo, PostsFake, KeepsFake, NeverStarts
<1>4. ASSUME NEW s \in States \ {"Starting"}, MovesTo(s), s # "Transitioning" \/ reader' = "kOffline",
             \/ event \notin StatusEvents \cup {"SHORT_PUSH"}
             \/ fsm \in {"Connecting", "Polling"} /\ s = "Transitioning"
             \/ fsm = "Transitioning" /\ s \in {"Polling", "Offline"}
                 /\ (event = "SHORT_PUSH" => reader # "kOffline")
             \/ fsm = "Offline" /\ s \in {"Polling", "Connecting"}
             \/ fsm \in {"Starting", "Live"}
      PROVE  Done
  BY <1>2, <1>4 DEF MovesTo, PostsFake, KeepsFake, NeverStarts
<1>5. ASSUME UNCHANGED <<fsm, reader, store, fail_cnt, queue>> PROVE Done
  BY <1>2, <1>5 DEF PostsFake, KeepsFake, NeverStarts
<1>6. Ignore => Done
  BY <1>5 DEF Ignore, boardVars, dataVars, pollVars
<1>7. ASSUME NEW e \in Events, event = "TICK", Post(e), UNCHANGED boardVars,
             e = "FAKE" => fsm \in {"Connecting", "Pinging"}
      PROVE  Done
  BY <1>1, <1>2, <1>7
  DEF Post, boardVars, dataVars, pollVars, PostsFake, KeepsFake, NeverStarts
<1>8. \A e \in Events :
        event = "TICK" /\ Send(e) /\ (e = "FAKE" => fsm = "Pinging") => Done
  BY <1>7 DEF Send
<1>9. /\ OwnEvents \subseteq Events
      /\ OwnEvents = {"DELAY_DONE", "PING", "FAKE", "LOAD_HISTORY", "DATA_OK", "NO_UPDATE"}
      /\ Commands = {"DELAY_DONE", "PING", "LOAD_HISTORY", "DATA_OK", "NO_UPDATE"}
      /\ States = {"Starting", "Resetting", "Connecting", "Pinging", "Polling",
                   "Transitioning", "Live", "Offline", "Updating"}
      /\ StatusEvents = {"NETWORK_UP", "CONNECTED", "DISCONNECTED", "NETWORK_DOWN"}
  BY DEF Events, PostedEvents, OwnEvents, Commands, States, StatusEvents
<1> SUFFICES Done
  OBVIOUS
<1> HIDE DEF Done
<1>10. CASE fsm = "Starting" /\ Starting(event)
  BY <1>4, <1>3, <1>6, <1>8, <1>9, <1>10, TransitionSignals DEF Starting
<1>11. CASE fsm = "Resetting" /\ Resetting(event)
  BY <1>3, <1>6, <1>9, <1>11, TransitionSignals DEF Resetting
<1>12. CASE fsm = "Connecting" /\ Connecting(event)
  <2>1. CASE /\ event = "TICK"
             /\ \E ok \in BOOLEAN : WifiConnect(ok) /\ Post(IF ok THEN "PING" ELSE "FAKE")
             /\ UNCHANGED boardVars
    BY <1>7, <1>9, <1>12, <2>1
  <2> QED BY <1>3, <1>4, <1>6, <1>9, <1>12, <2>1, TransitionSignals DEF Connecting
<1>13. CASE fsm = "Pinging" /\ Pinging(event)
  BY <1>1, <1>3, <1>4, <1>6, <1>8, <1>9, <1>13, TransitionSignals DEF Pinging
<1>14. CASE fsm = "Polling" /\ Polling(event)
  <2>1. CASE /\ event = "TICK"
             /\ PollSucceeds \/ PollFails
             /\ UNCHANGED <<fsm, reader, writer, delegate, conversion_fail_cnt, led, timer, netVars>>
    <3>1. queue' = Append(queue, "FAKE") => fail_cnt' >= MaxFails
      BY <1>2, <1>9, <2>1 DEF PollSucceeds, PollFails, Post
    <3> QED BY <1>1, <1>14, <2>1, <3>1 DEF Done, PostsFake, KeepsFake, NeverStarts
  <2> QED BY <1>1, <1>3, <1>4, <1>6, <1>9, <1>14, <2>1, TransitionSignals DEF Polling
<1>15. CASE fsm = "Transitioning" /\ Transitioning(event)
  <2>1. CASE UNCHANGED <<fsm, dataVars, pollVars, conversion_fail_cnt, timer, queue>>
    BY <1>5, <2>1 DEF dataVars, pollVars
  <2>2. AfterTransition \in States \ {"Starting"}
    BY <1>9 DEF AfterTransition, ReaderModes
  <2> QED BY <1>1, <1>3, <1>4, <1>6, <1>9, <1>15, <2>1, <2>2, TransitionSignals DEF Transitioning
<1>16. CASE fsm = "Live" /\ Live(event)
  <2>1. CASE UNCHANGED <<boardVars, queue>>
    BY <1>5, <2>1 DEF boardVars, dataVars, pollVars
  <2>2. CASE event = "TICK" /\ Execute("Updating", reader, writer, led, ResetTimer(timer, "live_15min"))
    BY <1>3, <1>9, <2>2, ExecuteSignals
  <2> QED BY <1>3, <1>4, <1>6, <1>9, <1>16, <2>1, <2>2, TransitionSignals DEF Live
<1>17. CASE fsm = "Offline" /\ Offline(event)
  <2>1. CASE UNCHANGED <<boardVars, queue>>
    BY <1>5, <2>1 DEF boardVars, dataVars, pollVars
  <2> QED BY <1>3, <1>4, <1>6, <1>9, <1>17, <2>1, TransitionSignals DEF Offline
<1>18. CASE fsm = "Updating" /\ Updating(event)
  BY <1>3, <1>6, <1>8, <1>9, <1>18, TransitionSignals DEF Updating
<1> QED
  BY <1>10, <1>11, <1>12, <1>13, <1>14, <1>15, <1>16, <1>17, <1>18 DEF ProcessEvent

-----------------------------------------------------------------------------
(* The signals not seen yet.                                               *)

\* What stands behind the front of the queue.
Behind == {queue[j] : j \in 2..Len(queue)}

\* A turn of the listener or the button: what is pushed joins them.
LEMMA UnseenAfterPush ==
  ASSUME queue \in Seq(Events), queue # <<>>, FirstUnseen' = FirstUnseen,
         NEW e \in Events, queue' = Append(queue, e)
  PROVE  Unseen' = Unseen \cup {e}
<1>1. /\ Len(queue') = Len(queue) + 1
      /\ \A j \in 1..Len(queue) : queue'[j] = queue[j]
      /\ queue'[Len(queue) + 1] = e
  OBVIOUS
<1>2. FirstUnseen \in {1, 2} /\ Len(queue) >= 1 /\ Len(queue) \in Nat
  BY DEF FirstUnseen
<1>3. /\ Unseen = {queue[j] : j \in FirstUnseen..Len(queue)}
      /\ Unseen' = {queue'[j] : j \in FirstUnseen..Len(queue')}
  BY DEF Unseen, FirstUnseen
<1>4. Unseen' \subseteq Unseen \cup {e}
  BY <1>1, <1>2, <1>3
<1>5. Unseen \cup {e} \subseteq Unseen'
  BY <1>1, <1>2, <1>3
<1> QED BY <1>4, <1>5

\* The state machine's turn: the front has been seen now.
LEMMA UnseenAfterBoard ==
  ASSUME queue \in Seq(Events), queue # <<>>, pc = "board", pc' = "button"
  PROVE  /\ Unseen = Behind \cup {Event}
         /\ queue' = queue => Unseen' = Behind
         /\ \A e \in Events : queue' = Append(queue, e) => Unseen' = Behind \cup {e}
<1>1. Len(queue) \in Nat /\ Len(queue) >= 1 /\ Event = queue[1]
  BY DEF Event
<1>2. /\ Unseen = {queue[j] : j \in 1..Len(queue)}
      /\ Unseen' = {queue'[j] : j \in 2..Len(queue')}
  BY DEF Unseen
<1>3. Unseen = Behind \cup {Event}
  BY <1>1, <1>2 DEF Behind
<1>4. ASSUME NEW e \in Events, queue' = Append(queue, e) PROVE Unseen' = Behind \cup {e}
  <2>1. /\ Len(queue') = Len(queue) + 1
        /\ \A j \in 1..Len(queue) : queue'[j] = queue[j]
        /\ queue'[Len(queue) + 1] = e
    BY <1>4
  <2>2. Unseen' \subseteq Behind \cup {e}
    BY <1>1, <1>2, <2>1 DEF Behind
  <2>3. Behind \cup {e} \subseteq Unseen'
    BY <1>1, <1>2, <2>1 DEF Behind
  <2> QED BY <2>2, <2>3
<1> QED BY <1>2, <1>3, <1>4 DEF Behind

\* The front is dropped, which everybody has seen.
LEMMA UnseenAfterPop ==
  ASSUME queue \in Seq(Events), queue # <<>>, pc = "pop", pc' = "loop", queue' = Tail(queue)
  PROVE  Unseen' = Unseen
<1>1. /\ Len(queue) \in Nat /\ Len(queue) >= 1
      /\ Len(queue') = Len(queue) - 1
      /\ \A j \in 1..Len(queue') : queue'[j] = queue[j + 1]
  OBVIOUS
<1>2. /\ Unseen = {queue[j] : j \in 2..Len(queue)}
      /\ Unseen' = {queue'[j] : j \in 1..Len(queue')}
  BY DEF Unseen
<1>3. Unseen' \subseteq Unseen
  BY <1>1, <1>2
<1>4. ASSUME NEW j \in 2..Len(queue) PROVE queue[j] \in Unseen'
  <2>1. j - 1 \in 1..Len(queue') /\ queue'[j - 1] = queue[j]
    BY <1>1
  <2> QED BY <1>2, <2>1
<1> QED BY <1>2, <1>3, <1>4

-----------------------------------------------------------------------------
(* The order.                                                              *)

\* A turn in which nothing is pushed.
LEMMA OrderKept ==
  ASSUME OrderInv, queue' = queue, FirstUnseen <= FirstUnseen', FirstUnseen \in Nat, FirstUnseen' \in Nat,
         pc' = "board" /\ Event = "TICK" => Len(queue) = 1
  PROVE  OrderInv'
BY DEF OrderInv, Event

\* A turn in which e is pushed: a signal of the listener behind a TICK, a command
\* behind the listener's signals.
LEMMA OrderPushed ==
  ASSUME OrderInv, queue \in Seq(Events), queue # <<>>, NEW e \in Events, queue' = Append(queue, e),
         FirstUnseen <= FirstUnseen', FirstUnseen \in Nat, FirstUnseen' \in Nat \ {0},
         e \in StatusEvents => Len(queue) = 1 /\ queue[1] = "TICK",
         pc' = "board" /\ Event = "TICK" => Len(queue) = 1 /\ e \in StatusEvents,
         e \in Commands => \A j \in FirstUnseen'..Len(queue) : queue[j] \in StatusEvents,
         e = "FAKE" => \A j \in FirstUnseen'..Len(queue) : queue[j] \notin Commands \cup {"FAKE"}
  PROVE  OrderInv'
<1>1. /\ Len(queue') = Len(queue) + 1 /\ Len(queue) \in Nat /\ Len(queue) >= 1
      /\ \A j \in 1..Len(queue) : queue'[j] = queue[j]
      /\ queue'[Len(queue) + 1] = e
      /\ Event' = Event
  BY DEF Event
<1>2. \A j \in 1..Len(queue') :
        queue'[j] \in StatusEvents => j = 1 \/ (j = 2 /\ queue'[1] = "TICK")
  BY <1>1 DEF OrderInv
<1>3. pc' = "board" /\ Event' = "TICK" => \A j \in 2..Len(queue') : queue'[j] \in StatusEvents
  <2> SUFFICES ASSUME pc' = "board", Event' = "TICK", NEW j \in 2..Len(queue')
               PROVE  queue'[j] \in StatusEvents
    OBVIOUS
  <2>1. Len(queue) = 1 /\ e \in StatusEvents
    BY <1>1
  <2>2. j = Len(queue) + 1
    BY <1>1, <2>1
  <2> QED BY <1>1, <2>1, <2>2
<1>4. ASSUME NEW i \in FirstUnseen'..Len(queue'), NEW j \in FirstUnseen'..Len(queue'),
             i < j, queue'[j] \in Commands
      PROVE  queue'[i] \in StatusEvents
  <2>1. i \in 1..Len(queue) /\ queue'[i] = queue[i] /\ i \in FirstUnseen..Len(queue)
    BY <1>1, <1>4
  <2>2. CASE j \in 1..Len(queue)
    <3>1. queue[j] \in Commands /\ j \in FirstUnseen..Len(queue)
      BY <1>1, <1>4, <2>2
    <3> QED BY <1>4, <2>1, <3>1 DEF OrderInv
  <2>3. CASE j = Len(queue) + 1
    BY <1>1, <1>4, <2>1, <2>3
  <2> QED BY <1>1, <1>4, <2>2, <2>3
<1>5. ASSUME NEW i \in FirstUnseen'..Len(queue'), NEW j \in FirstUnseen'..Len(queue'),
             i < j, queue'[j] = "FAKE"
      PROVE  queue'[i] \notin Commands \cup {"FAKE"}
  <2>1. i \in 1..Len(queue) /\ queue'[i] = queue[i] /\ i \in FirstUnseen..Len(queue)
    BY <1>1, <1>5
  <2>2. CASE j \in 1..Len(queue)
    <3>1. queue[j] = "FAKE" /\ j \in FirstUnseen..Len(queue)
      BY <1>1, <1>5, <2>2
    <3> QED BY <1>5, <2>1, <3>1 DEF OrderInv
  <2>3. CASE j = Len(queue) + 1
    BY <1>1, <1>5, <2>1, <2>3
  <2> QED BY <1>1, <1>5, <2>2, <2>3
<1> QED BY <1>2, <1>3, <1>4, <1>5 DEF OrderInv

\* The next turn of the loop.
LEMMA OrderPopped ==
  ASSUME OrderInv, queue \in Seq(Events), queue # <<>>, pc = "pop", pc' = "loop", queue' = Tail(queue)
  PROVE  OrderInv'
<1>1. /\ Len(queue) \in Nat /\ Len(queue) >= 1
      /\ Len(queue') = Len(queue) - 1
      /\ \A j \in 1..Len(queue') : queue'[j] = queue[j + 1]
      /\ FirstUnseen = 2 /\ FirstUnseen' = 1
  BY DEF FirstUnseen
<1>2. ASSUME NEW j \in 1..Len(queue'), queue'[j] \in StatusEvents PROVE j = 1
  <2>1. j + 1 \in 1..Len(queue) /\ queue[j + 1] \in StatusEvents
    BY <1>1, <1>2
  <2>2. j + 1 = 1 \/ j + 1 = 2
    BY <2>1 DEF OrderInv
  <2> QED BY <2>2
<1>3. ASSUME NEW i \in 1..Len(queue'), NEW j \in 1..Len(queue'), i < j, queue'[j] \in Commands
      PROVE  queue'[i] \in StatusEvents
  <2>1. /\ i + 1 \in FirstUnseen..Len(queue) /\ j + 1 \in FirstUnseen..Len(queue)
        /\ i + 1 < j + 1 /\ queue[j + 1] \in Commands
    BY <1>1, <1>3
  <2>2. queue[i + 1] \in StatusEvents
    BY <2>1 DEF OrderInv
  <2> QED BY <1>1, <2>2
<1>4. ASSUME NEW i \in 1..Len(queue'), NEW j \in 1..Len(queue'), i < j, queue'[j] = "FAKE"
      PROVE  queue'[i] \notin Commands \cup {"FAKE"}
  <2>1. /\ i + 1 \in FirstUnseen..Len(queue) /\ j + 1 \in FirstUnseen..Len(queue)
        /\ i + 1 < j + 1 /\ queue[j + 1] = "FAKE"
    BY <1>1, <1>4
  <2>2. queue[i + 1] \notin Commands \cup {"FAKE"}
    BY <2>1 DEF OrderInv
  <2> QED BY <1>1, <2>2
<1> QED BY <1>1, <1>2, <1>3, <1>4 DEF OrderInv
-----------------------------------------------------------------------------
(* The turns together.                                                     *)

SignalInv == BoardIInv /\ OrderInv /\ CommandInv /\ FailsInv /\ FakeInv

\* What one step may do to the announcements of the connection listener.
StatusStep == [Status!Next]_<<listener, Unseen \cap StatusEvents, fsm = "Starting">>

\* What is shown of each step; BoardIInvStep gives the rest of SignalInv'.
SignalStep == OrderInv' /\ CommandInv' /\ FailsInv' /\ FakeInv' /\ StatusStep

\* Nothing that matters here changes.
LEMMA SignalsKept ==
  ASSUME OrderInv', CommandInv, FailsInv, FakeInv,
         UNCHANGED <<fsm, fail_cnt, reader, store, listener>>,
         Unseen' \cap (Events \ {"SHORT_PUSH", "TICK"}) = Unseen \cap (Events \ {"SHORT_PUSH", "TICK"})
  PROVE  SignalStep
<1>1. Commands \cup StatusEvents \cup {"FAKE"} \subseteq Events \ {"SHORT_PUSH", "TICK"}
  BY DEF Commands, StatusEvents, OwnEvents, PostedEvents, Events
<1>2. /\ Unseen' \cap StatusEvents = Unseen \cap StatusEvents
      /\ \A e \in Commands \cup {"FAKE"} : e \in Unseen' <=> e \in Unseen
  BY <1>1
<1>3. StatusStep
  BY <1>2 DEF StatusStep
<1>4. CommandInv'
  BY <1>2 DEF CommandInv
<1>5. FailsInv' /\ FakeInv'
  BY <1>2 DEF FailsInv, FakeInv
<1> QED BY <1>3, <1>4, <1>5 DEF SignalStep

\* The listener's turn.
LEMMA ListenerTurn ==
  ASSUME SignalInv, DispatchToListener
  PROVE  SignalStep
<1>1. /\ TypeOK /\ QueueInv /\ queue \in Seq(Events) /\ queue # <<>>
      /\ pc = "loop" /\ pc' = "board" /\ FirstUnseen = 1 /\ FirstUnseen' = 1
      /\ UNCHANGED <<fsm, fail_cnt, reader, store>> /\ ListenerDispatch(Event)
      /\ Event = queue[1] /\ Len(queue) \in Nat /\ Len(queue) >= 1
  BY DEF SignalInv, BoardIInv, IInv, TypeOK, DispatchToListener, FirstUnseen, Event,
         boardVars, pollVars, dataVars
<1>2. Event = "TICK" => Len(queue) = 1
  <2> SUFFICES ASSUME Event = "TICK" PROVE Len(queue) = 1
    OBVIOUS
  <2>1. Room(pc, Event) = 1
    BY <1>1 DEF Room
  <2>2. Len(queue) <= Room(pc, Event)
    BY <1>1 DEF QueueInv
  <2>3. Len(queue) <= 1
    BY <2>1, <2>2
  <2>4. Len(queue) \in Nat /\ Len(queue) >= 1
    BY <1>1
  <2>5. \A n \in Nat : n <= 1 /\ n >= 1 => n = 1
    OBVIOUS
  <2> QED BY <2>3, <2>4, <2>5, Zenon
<1>3. CASE queue' = queue
  <2>1. Unseen' = Unseen
    BY <1>1, <1>3 DEF Unseen
  <2>2. OrderInv'
    BY <1>1, <1>2, <1>3, OrderKept DEF SignalInv
  <2>3. UNCHANGED listener
    <3>1. \A e : Append(queue, e) # queue
      BY <1>1
    <3> QED BY <1>1, <1>3, <3>1
            DEF ListenerDispatch, WifiNokTick, ServerNokTick, ServerOkTick, NetworkIsDown, Post, listenerVars
  <2> QED BY <1>1, <2>1, <2>2, <2>3, SignalsKept DEF SignalInv
<1>4. CASE Event = "TICK" /\ \E e \in StatusEvents : queue' = Append(queue, e)
  <2>1. PICK e \in StatusEvents : queue' = Append(queue, e)
    BY <1>4
  <2>2. /\ e \in Events /\ e \notin Commands \cup {"FAKE"}
        /\ "TICK" \notin StatusEvents \cup Commands \cup {"FAKE"}
    BY DEF Events, PostedEvents, StatusEvents, Commands
  <2>3. OrderInv'
    BY <1>1, <1>2, <1>4, <2>1, <2>2, OrderPushed DEF SignalInv
  <2>4. Unseen = {"TICK"} /\ Unseen' = {"TICK", e}
    <3>1. Unseen = {"TICK"}
      <4>1. Unseen = {queue[j] : j \in 1..Len(queue)} /\ Len(queue) = 1 /\ queue[1] = "TICK"
        BY <1>1, <1>2, <1>4 DEF Unseen
      <4>2. \A j \in 1..1 : j = 1
        OBVIOUS
      <4> QED BY <4>1, <4>2
    <3>2. Unseen' = Unseen \cup {e}
      BY <1>1, <2>1, <2>2, UnseenAfterPush
    <3> QED BY <3>1, <3>2
  <2>5. CommandInv' /\ FakeInv'
    BY <2>2, <2>4 DEF CommandInv, FakeInv
  <2>6. FailsInv'
    BY <1>1, <2>2, <2>4 DEF SignalInv, FailsInv
  <2>7. Unseen \cap StatusEvents = {} /\ (Unseen \cap StatusEvents)' = {e}
    BY <2>2, <2>4
  <2>8. \A x \in Events : queue' = Append(queue, x) => x = e
    <3>1. \A x \in Events : Append(queue, x)[Len(queue) + 1] = x
      BY <1>1
    <3> QED BY <2>1, <2>2, <3>1
  <2>9. WifiNokTick \/ ServerNokTick \/ ServerOkTick
    BY <1>4, <1>1 DEF ListenerDispatch
  <2>10. \/ listener = "WifiNok" /\ listener' = "ServerNok" /\ e = "NETWORK_UP"
         \/ listener = "ServerNok" /\ listener' = "ServerOk" /\ e = "CONNECTED"
         \/ listener = "ServerOk" /\ listener' = "ServerNok" /\ e = "DISCONNECTED"
         \/ listener \in {"ServerNok", "ServerOk"} /\ listener' = "WifiNok" /\ e = "NETWORK_DOWN"
    <3>1. queue' # queue
      BY <1>1, <2>1
    <3>2. {"NETWORK_UP", "CONNECTED", "DISCONNECTED", "NETWORK_DOWN"} \subseteq Events
      BY DEF Events, PostedEvents, StatusEvents
    <3> QED BY <2>8, <2>9, <3>1, <3>2
            DEF WifiNokTick, ServerNokTick, ServerOkTick, NetworkIsDown, Post
  <2>11. Status!NoRestart
    BY <1>1 DEF Status!NoRestart
  <2>12. Status!Next
    BY <2>7, <2>10, <2>11
    DEF Status!Next, Status!NetworkUp, Status!Connected, Status!Disconnected,
        Status!NetworkDown, Status!Change
  <2> QED BY <2>3, <2>5, <2>6, <2>12 DEF StatusStep, SignalStep
<1> QED BY <1>1, <1>3, <1>4, ListenerType

\* The state machine's turn.
LEMMA BoardTurn ==
  ASSUME SignalInv, BoardIInv', DispatchToBoard
  PROVE  SignalStep
<1>1. /\ TypeOK /\ QueueInv /\ queue \in Seq(Events) /\ queue # <<>>
      /\ pc = "board" /\ pc' = "button" /\ FirstUnseen = 1 /\ FirstUnseen' = 2
      /\ UNCHANGED listener /\ ProcessEvent(Event)
      /\ Event = queue[1] /\ Len(queue) \in Nat /\ Len(queue) >= 1
      /\ Event \in Events /\ fail_cnt \in Nat /\ reader \in ReaderModes
  BY DEF SignalInv, BoardIInv, IInv, TypeOK, BoardTypeOK, QueueInv, DispatchToBoard,
         FirstUnseen, Event, listenerVars
<1>2. PostsOwn(Event) /\ KeepsSender(Event) /\ CountsFails(Event)
  BY <1>1, BoardSignals
<1>3. PostsFake(Event) /\ KeepsFake(Event) /\ NeverStarts
  BY <1>1, BoardFake
<1>4. /\ Unseen = Behind \cup {Event}
      /\ queue' = queue => Unseen' = Behind
      /\ \A e \in Events : queue' = Append(queue, e) => Unseen' = Behind \cup {e}
  BY <1>1, UnseenAfterBoard
<1>5. /\ Commands \cup {"FAKE"} \subseteq Events
      /\ (Commands \cup {"FAKE", "TICK"}) \cap StatusEvents = {}
      /\ {"FAKE", "TICK", "SHORT_PUSH"} \cap Commands = {} /\ "SHORT_PUSH" # "TICK"
      /\ Events = StatusEvents \cup Commands \cup {"FAKE", "TICK", "SHORT_PUSH"}
  BY DEF Events, PostedEvents, OwnEvents, StatusEvents, Commands
<1>6. Event = "TICK" => Behind \subseteq StatusEvents
  BY <1>1 DEF SignalInv, OrderInv, Behind
<1>7. Event # "TICK" => Behind \cap StatusEvents = {}
  BY <1>1 DEF SignalInv, OrderInv, Behind
<1>8. \A c \in Commands : c \in Behind => Event \in StatusEvents
  BY <1>1 DEF SignalInv, OrderInv, Behind
<1>9. "FAKE" \in Behind => Event \in StatusEvents \cup {"SHORT_PUSH"}
  <2>1. "FAKE" \in Behind => Event \notin Commands \cup {"FAKE"}
    BY <1>1 DEF SignalInv, OrderInv, Behind
  <2> QED BY <1>1, <1>5, <1>6, <2>1
<1>10. OrderInv'
  <2>1. CASE queue' = queue
    BY <1>1, <2>1, OrderKept DEF SignalInv
  <2>2. CASE queue' = Append(queue, "FAKE")
    <3>1. Event \in Commands \cup {"TICK"}
      BY <1>3, <2>2 DEF PostsFake
    <3>2. Behind \cap (Commands \cup {"FAKE"}) = {}
      BY <1>5, <1>6, <1>8, <1>9, <3>1
    <3>3. \A j \in 2..Len(queue) : queue[j] \notin Commands \cup {"FAKE"}
      BY <3>2 DEF Behind
    <3> QED BY <1>1, <1>5, <2>2, <3>3, OrderPushed DEF SignalInv
  <2>3. CASE \E c \in Commands : queue' = Append(queue, c) /\ Event = "TICK"
    <3>1. PICK c \in Commands : queue' = Append(queue, c)
      BY <2>3
    <3>2. \A j \in 2..Len(queue) : queue[j] \in StatusEvents
      BY <1>6, <2>3 DEF Behind
    <3> QED BY <1>1, <1>5, <3>1, <3>2, OrderPushed DEF SignalInv
  <2> QED BY <1>2, <2>1, <2>2, <2>3 DEF PostsOwn
<1>11. CommandInv'
  <2> SUFFICES ASSUME NEW c \in Commands, c \in Unseen'
               PROVE  \/ fsm' = Sender[c]
                      \/ c = "DATA_OK" /\ fsm' = "Transitioning" /\ Unseen' \cap StatusEvents = {}
    BY DEF CommandInv
  <2>1. CASE c \in Behind
    <3>1. Event \in StatusEvents /\ Behind \cap StatusEvents = {}
      BY <1>5, <1>7, <1>8, <2>1
    <3>2. fsm = Sender[c]
      BY <1>4, <2>1, <3>1 DEF SignalInv, CommandInv
    <3>3. Event # "TICK"
      BY <1>5, <3>1
    <3>4. Unseen' \cap StatusEvents = {}
      BY <1>2, <1>4, <1>5, <3>1, <3>3 DEF PostsOwn
    <3>5. fsm' = fsm \/ (c = "DATA_OK" /\ fsm' = "Transitioning")
      BY <1>2, <3>1, <3>2 DEF KeepsSender, Sender, Commands
    <3> QED BY <3>2, <3>4, <3>5
  <2>2. CASE c \notin Behind
    <3>1. queue' = Append(queue, c)
      BY <1>2, <1>4, <1>5, <2>2 DEF PostsOwn
    <3>2. \A x \in Events : queue' = Append(queue, x) => x = c
      <4>1. \A x \in Events : Append(queue, x)[Len(queue) + 1] = x
        BY <1>1
      <4> QED BY <1>5, <3>1, <4>1
    <3>3. queue' # queue
      BY <1>1, <3>1
    <3>4. fsm = Sender[c] /\ fsm' = fsm
      BY <1>2, <1>5, <3>2, <3>3 DEF PostsOwn
    <3> QED BY <3>4
  <2> QED BY <2>1, <2>2
<1>12. FailsInv'
  <2> SUFFICES ASSUME fsm' = "Polling"
               PROVE  fail_cnt' <= MaxFails /\ (fail_cnt' = MaxFails => "FAKE" \in Unseen')
    BY DEF FailsInv
  <2>1. CASE fail_cnt' = 0
    BY <2>1, FailBoundsAssumption
  <2>2. CASE fsm = "Polling" /\ Event # "FAKE" /\ fail_cnt' = fail_cnt
    <3>1. "FAKE" \in Unseen => "FAKE" \in Unseen'
      BY <1>2, <1>4, <1>5, <2>2 DEF PostsOwn
    <3> QED BY <2>2, <3>1 DEF SignalInv, FailsInv
  <2>3. CASE /\ fsm = "Polling" /\ Event = "TICK" /\ fail_cnt' = fail_cnt + 1
             /\ fail_cnt' >= MaxFails => queue' = Append(queue, "FAKE")
    <3>1. "FAKE" \notin Unseen
      BY <1>4, <1>5, <1>6, <2>3
    <3>2. fail_cnt < MaxFails
      BY <1>1, <2>3, <3>1, FailBoundsAssumption DEF SignalInv, FailsInv
    <3>3. fail_cnt' = MaxFails => "FAKE" \in Unseen'
      BY <1>4, <1>5, <2>3, FailBoundsAssumption
    <3> QED BY <1>1, <2>3, <3>2, <3>3, FailBoundsAssumption
  <2> QED BY <1>2, <2>1, <2>2, <2>3 DEF CountsFails
<1>13. FakeInv'
  <2> SUFFICES ASSUME "FAKE" \in Unseen'
               PROVE  \/ fsm' \in {"Connecting", "Pinging"}
                      \/ fsm' = "Polling" /\ fail_cnt' = MaxFails
                      \/ /\ fsm' = "Transitioning" /\ reader' = "kOffline"
                         /\ Unseen' \cap StatusEvents = {}
                      \/ fsm' \in {"Polling", "Transitioning", "Offline"} /\ store' = "short"
    BY DEF FakeInv
  <2>1. CASE "FAKE" \in Behind
    <3>1. Event \in StatusEvents \cup {"SHORT_PUSH"} /\ Event # "TICK"
      BY <1>5, <1>9, <2>1 DEF StatusEvents
    <3>2. UNCHANGED <<queue, store>> /\ Unseen' = Behind /\ Unseen' \cap StatusEvents = {}
      BY <1>3, <1>4, <1>7, <3>1 DEF KeepsFake
    <3>3. "FAKE" \in Unseen /\ (Event \in StatusEvents => Unseen \cap StatusEvents # {})
      BY <1>4, <2>1
    <3>4. CASE fsm \in {"Connecting", "Pinging"}
      BY <1>3, <3>1, <3>2, <3>4 DEF KeepsFake
    <3>5. CASE fsm = "Polling" /\ fail_cnt = MaxFails
      BY <1>3, <3>1, <3>2, <3>5 DEF KeepsFake
    <3>6. CASE fsm = "Transitioning" /\ reader = "kOffline" /\ Unseen \cap StatusEvents = {}
      BY <1>3, <3>1, <3>2, <3>3, <3>6 DEF KeepsFake
    <3>7. CASE fsm \in {"Polling", "Transitioning", "Offline"} /\ store = "short"
      BY <1>3, <3>1, <3>2, <3>7 DEF KeepsFake
    <3> QED BY <3>3, <3>4, <3>5, <3>6, <3>7 DEF SignalInv, FakeInv
  <2>2. CASE "FAKE" \notin Behind
    <3>1. queue' = Append(queue, "FAKE")
      BY <1>2, <1>4, <1>5, <2>2 DEF PostsOwn
    <3>2. \/ fsm' \in {"Connecting", "Pinging"}
          \/ fsm' = "Polling" /\ fail_cnt' >= MaxFails
          \/ fsm' = "Transitioning" /\ reader' # "kOffline" /\ store' \in {"empty", "short"}
      BY <1>3, <3>1 DEF PostsFake
    <3>3. fsm' = "Polling" => fail_cnt' <= MaxFails /\ fail_cnt' \in Nat
      BY <1>12 DEF FailsInv, BoardIInv, IInv, TypeOK, BoardTypeOK
    <3>4. fsm' = "Transitioning" /\ reader' # "kOffline" => store' # "empty"
      BY DEF BoardIInv, BoardInv, StoreReadAfterSave
    <3> QED BY <3>2, <3>3, <3>4, FailBoundsAssumption
  <2> QED BY <2>1, <2>2
<1>14. StatusStep
  <2>1. Unseen' \cap StatusEvents = Behind \cap StatusEvents
    BY <1>2, <1>4, <1>5 DEF PostsOwn
  <2>2. Status!NoRestart
    BY <1>3 DEF NeverStarts, Status!NoRestart
  <2>3. CASE Event \in StatusEvents
    <3>1. Unseen \cap StatusEvents # {} /\ (Unseen \cap StatusEvents)' = {}
      BY <1>4, <1>5, <1>7, <2>1, <2>3
    <3> QED BY <1>1, <2>2, <3>1 DEF StatusStep, Status!Next, Status!Deliver
  <2>4. CASE Event \notin StatusEvents
    <3>1. Unseen' \cap StatusEvents = Unseen \cap StatusEvents
      BY <1>4, <2>1, <2>4
    <3> QED BY <1>1, <2>2, <3>1 DEF StatusStep, Status!Next, Status!NoChange
  <2> QED BY <2>3, <2>4
<1> QED BY <1>10, <1>11, <1>12, <1>13, <1>14 DEF SignalStep

\* The button's turn.
LEMMA ButtonTurn ==
  ASSUME SignalInv, DispatchToButton
  PROVE  SignalStep
<1>1. /\ TypeOK /\ queue \in Seq(Events) /\ queue # <<>>
      /\ pc = "button" /\ pc' = "pop" /\ FirstUnseen = 2 /\ FirstUnseen' = 2
      /\ UNCHANGED <<fsm, fail_cnt, reader, store, listener>>
  BY DEF SignalInv, BoardIInv, IInv, TypeOK, QueueInv, DispatchToButton, FirstUnseen,
         boardVars, pollVars, dataVars, listenerVars
<1>2. /\ "SHORT_PUSH" \in Events /\ "SHORT_PUSH" \notin Commands \cup StatusEvents \cup {"FAKE"}
  BY DEF Events, PostedEvents, Commands, StatusEvents
<1>3. OrderInv' /\ (Unseen' = Unseen \/ Unseen' = Unseen \cup {"SHORT_PUSH"})
  <2>1. CASE queue' = queue
    BY <1>1, <2>1, OrderKept DEF SignalInv, Unseen
  <2>2. CASE queue' = Append(queue, "SHORT_PUSH")
    BY <1>1, <1>2, <2>2, OrderPushed, UnseenAfterPush DEF SignalInv
  <2> QED BY <1>1, <2>1, <2>2, ButtonType DEF DispatchToButton
<1> QED BY <1>1, <1>3, SignalsKept DEF SignalInv

\* The initial states.
LEMMA SignalInvInit == Init => SignalInv
BY BoardIInvInit, FailBoundsAssumption
DEF Init, BoardInit, SignalInv, OrderInv, CommandInv, FailsInv, FakeInv, Unseen, FirstUnseen

\* Every step of every thread.
LEMMA SignalInvStep == SignalInv /\ [Next]_vars => SignalInv' /\ StatusStep
<1> SUFFICES ASSUME SignalInv, BoardIInv', [Next]_vars
             PROVE  SignalStep
  BY BoardIInvStep DEF SignalInv, SignalStep
<1>1. TypeOK /\ QueueInv /\ queue \in Seq(Events)
  BY DEF SignalInv, BoardIInv, IInv, TypeOK
<1>2. ASSUME UNCHANGED <<queue, pc, fsm, fail_cnt, reader, store, listener>>
      PROVE  SignalStep
  <2>1. Unseen' = Unseen /\ FirstUnseen' = FirstUnseen /\ Event' = Event
    BY <1>2 DEF Unseen, FirstUnseen, Event
  <2>2. OrderInv'
    BY <1>2, <2>1 DEF SignalInv, OrderInv
  <2> QED BY <1>2, <2>1, <2>2, SignalsKept DEF SignalInv
<1>3. CASE PushTick
  <2>1. queue = <<>> /\ queue' = <<"TICK">> /\ pc = "loop" /\ pc' = "loop"
        /\ UNCHANGED <<fsm, fail_cnt, reader, store, listener>>
    BY <1>3 DEF PushTick, Post, boardVars, pollVars, dataVars, listenerVars
  <2>2. Unseen = {} /\ Unseen' = {"TICK"}
    BY <2>1 DEF Unseen
  <2>3. OrderInv'
    BY <2>1 DEF OrderInv, FirstUnseen, StatusEvents, Commands
  <2> QED BY <2>1, <2>2, <2>3, SignalsKept DEF SignalInv
<1>4. CASE PopEvent
  <2>1. /\ queue # <<>> /\ pc = "pop" /\ pc' = "loop" /\ queue' = Tail(queue)
        /\ UNCHANGED <<fsm, fail_cnt, reader, store, listener>>
    BY <1>1, <1>4 DEF PopEvent, QueueInv, boardVars, pollVars, dataVars, listenerVars
  <2>2. Unseen' = Unseen /\ OrderInv'
    BY <1>1, <2>1, UnseenAfterPop, OrderPopped DEF SignalInv
  <2> QED BY <2>1, <2>2, SignalsKept DEF SignalInv
<1>5. CASE OtaRestart
  <2>1. /\ queue' = <<>> /\ fail_cnt' = 0 /\ fsm = "Updating" /\ fsm' = "Starting"
        /\ listener' = "WifiNok" /\ pc' = "loop"
    BY <1>5 DEF OtaRestart
  <2>2. Unseen' = {}
    BY <2>1 DEF Unseen
  <2>3. OrderInv' /\ CommandInv' /\ FailsInv' /\ FakeInv'
    BY <2>1, <2>2 DEF OrderInv, FirstUnseen, CommandInv, FailsInv, FakeInv
  <2>4. StatusStep
    BY <2>1, <2>2 DEF StatusStep, Status!Next, Status!Restart
  <2> QED BY <2>3, <2>4 DEF SignalStep
<1>6. CASE \E id \in Timers : TimerThread(id)
  BY <1>2, <1>6 DEF TimerThread, TimerExpires, pollVars, dataVars, listenerVars
<1>7. CASE Network
  BY <1>2, <1>7 DEF Network, boardVars, pollVars, dataVars, listenerVars
<1>8. CASE UNCHANGED vars
  BY <1>2, <1>8 DEF vars, boardVars, pollVars, dataVars, listenerVars
<1> QED
  BY <1>3, <1>4, <1>5, <1>6, <1>7, <1>8, ListenerTurn, BoardTurn, ButtonTurn DEF Next, MainLoop

\* The invariant holds in every reachable state.
LEMMA SignalInvCorrect == Spec => []SignalInv
BY SignalInvInit, SignalInvStep, PTL DEF Spec

\* Every signal a state sends to itself finds it still active, whatever the listener
\* and the button have queued around it; DATA_OK and FAKE are the exceptions, and
\* find the states named.
THEOREM SignalsReach == Spec => []SignalsReachTheirState
<1>1. SignalInv => SignalsReachTheirState
  BY DEF SignalInv, CommandInv, FakeInv, SignalsReachTheirState, Commands, Sender
<1> QED BY <1>1, SignalInvCorrect, PTL

\* Behind the FAKE that ends Polling stands neither a TICK nor a DATA_OK; it is not
\* sent too early, and not left out.
THEOREM PollingEnds == Spec => []PollingGivesUp
<1>1. ASSUME SignalInv, fsm = "Polling", "FAKE" \in Unseen
      PROVE  Unseen \cap {"TICK", "DATA_OK"} = {} /\ (fail_cnt >= MaxFails \/ store = "short")
  <2>1. /\ queue \in Seq(Events) /\ QueueInv /\ OrderInv
        /\ pc \in {"loop", "board", "button", "pop"}
        /\ Unseen = {queue[i] : i \in FirstUnseen..Len(queue)}
        /\ FirstUnseen \in {1, 2} /\ Len(queue) \in Nat
        /\ "FAKE" \notin StatusEvents /\ "DATA_OK" \in Commands
    BY <1>1 DEF SignalInv, BoardIInv, IInv, TypeOK, Unseen, FirstUnseen, StatusEvents, Commands
  <2>2. PICK i \in FirstUnseen..Len(queue) : queue[i] = "FAKE"
    BY <1>1, <2>1
  <2>3. "DATA_OK" \notin Unseen
    <3> SUFFICES ASSUME NEW j \in FirstUnseen..Len(queue), queue[j] = "DATA_OK" PROVE FALSE
      BY <2>1
    <3>1. i < j \/ j < i
      BY <2>1, <2>2
    <3> QED BY <2>1, <2>2, <3>1 DEF OrderInv
  <2>4. "TICK" \notin Unseen
    <3> SUFFICES ASSUME NEW j \in FirstUnseen..Len(queue), queue[j] = "TICK" PROVE FALSE
      BY <2>1
    <3>1. j = 1 /\ FirstUnseen = 1
      BY <2>1 DEF QueueInv
    <3>2. i \in 2..Len(queue) /\ queue # <<>> /\ Event = "TICK"
      BY <2>1, <2>2, <3>1 DEF Event
    <3>3. CASE pc = "loop"
      BY <2>1, <3>2, <3>3 DEF QueueInv, Room
    <3>4. CASE pc = "board"
      BY <2>1, <2>2, <3>2, <3>4 DEF OrderInv
    <3> QED BY <2>1, <3>1, <3>3, <3>4 DEF FirstUnseen
  <2>5. fail_cnt >= MaxFails \/ store = "short"
    BY <1>1, FailBoundsAssumption DEF SignalInv, FakeInv
  <2> QED BY <2>3, <2>4, <2>5
<1>2. SignalInv => PollingGivesUp
  BY <1>1 DEF SignalInv, FailsInv, PollingGivesUp
<1> QED BY <1>2, SignalInvCorrect, PTL

\* The listener implements ConnectionStatus: it announces every change by one signal,
\* and changes its mind only when the last one has been delivered.  The restart of
\* the board alone is exempt.
THEOREM ListenerImplementsStatus == Spec => StatusAnnounced
<1>1. Init => Status!Init
  BY DEF Init, BoardInit, ListenerInit, Unseen, Status!Init
<1>2. SignalInv /\ [Next]_vars
        => [Status!Next]_<<listener, Unseen \cap StatusEvents, fsm = "Starting">>
  BY SignalInvStep DEF StatusStep
<1> QED BY <1>1, <1>2, SignalInvCorrect, PTL DEF Spec, StatusAnnounced, Status!Spec

\* A push while the board starts waits for the state machine and resets the board,
\* with its credentials, unless a DELAY_DONE is queued as well.
THEOREM PushResets == Spec => PushWhileStartingResets
<1>1. ASSUME SignalInv, [Next]_vars,
             fsm = "Starting", "SHORT_PUSH" \in Unseen, "DELAY_DONE" \notin Unseen
      PROVE  fsm' = "Starting" \/ (fsm' = "Resetting" /\ ~creds')
  <2>1. CASE DispatchToBoard
    <3>1. ProcessEvent(Event) /\ pc = "board"
      BY <2>1 DEF DispatchToBoard
    <3>2. Starting(Event)
      BY <1>1, <3>1 DEF ProcessEvent
    <3>3. queue # <<>> /\ queue \in Seq(Events)
      BY <1>1, <3>1 DEF SignalInv, BoardIInv, IInv, QueueInv, TypeOK
    <3>4. Event \in Unseen
      BY <3>1, <3>3 DEF Unseen, Event
    <3>5. CASE PlainTransition("Resetting", led) /\ ResetCredentials
      BY <3>5, TransitionSignals DEF MovesTo, ResetCredentials
    <3>6. CASE Ignore \/ Send("DELAY_DONE")
      BY <1>1, <3>6 DEF Ignore, Send, boardVars
    <3> QED BY <1>1, <3>2, <3>4, <3>5, <3>6 DEF Starting
  <2>2. CASE ~DispatchToBoard
    BY <1>1, <2>2 DEF Next, MainLoop, PushTick, DispatchToListener, DispatchToButton, PopEvent,
                      OtaRestart, TimerThread, Network, vars, boardVars
  <2> QED BY <2>1, <2>2
<1> QED BY <1>1, SignalInvCorrect, PTL DEF Spec, PushWhileStartingResets
=============================================================================
