------------------------ MODULE ConnectionListener ------------------------
(***************************************************************************)
(* ConnectionListener: watches wifi and server on every TICK and tells the *)
(* state machine through the event queue.  State and signal names are the  *)
(* source's; cnt is the one tick counter both intervals share, and it is   *)
(* not cleared when the state changes.                                     *)
(***************************************************************************)
EXTENDS EventQueue, Connectivity

CONSTANTS CheckTicks,    \* ticks between pings in ServerNok (1500 in the code)
          RecheckTicks   \* ticks between pings in ServerOk (3000 in the code)

ASSUME CheckTicksAssumption ==
  /\ CheckTicks \in Nat
  /\ RecheckTicks \in Nat
  /\ CheckTicks <= RecheckTicks

VARIABLES listener, cnt

listenerVars == <<listener, cnt>>

ListenerStates == {"WifiNok", "ServerNok", "ServerOk"}

\* The counter may stay at any value up to RecheckTicks when the state changes.
ListenerTypeOK == listener \in ListenerStates /\ cnt \in 0..RecheckTicks

ListenerInit == listener = "WifiNok" /\ cnt = 0

\* IsTimeElapsed(end_count): counts this tick.
TimeElapsed(end) == cnt + 1 > end
CountTick(end) == cnt' = IF TimeElapsed(end) THEN 0 ELSE cnt + 1

\* Mutant: the state machine is not told.
NetworkIsDownSilently ==
  /\ WifiDisconnect
  /\ listener' = "WifiNok"
  /\ UNCHANGED <<queue, cnt>>

NetworkIsDown ==
  /\ WifiDisconnect
  /\ listener' = "WifiNok"
  /\ Post("NETWORK_DOWN")
  /\ UNCHANGED cnt

WifiNokTick ==
  /\ listener = "WifiNok"
  /\ IF IsConnectedToWifi
       THEN listener' = "ServerNok" /\ Post("NETWORK_UP")
       ELSE UNCHANGED <<listener, queue>>
  /\ UNCHANGED <<cnt, netVars>>

\* Mutant: the loss of the network is not looked for while the server is away.
ServerNokTickNoDown ==
  /\ listener = "ServerNok"
  /\ CountTick(CheckTicks)
  /\ IF TimeElapsed(CheckTicks) /\ ServerAnswers
       THEN listener' = "ServerOk" /\ Post("CONNECTED")
       ELSE UNCHANGED <<listener, queue>>
  /\ UNCHANGED netVars

ServerNokTick ==
  /\ listener = "ServerNok"
  /\ \/ /\ IsConnectedToWifi
        /\ CountTick(CheckTicks)
        /\ IF TimeElapsed(CheckTicks) /\ ServerAnswers
             THEN listener' = "ServerOk" /\ Post("CONNECTED")
             ELSE UNCHANGED <<listener, queue>>
        /\ UNCHANGED netVars
     \/ ~IsConnectedToWifi /\ NetworkIsDown

ServerOkTick ==
  /\ listener = "ServerOk"
  /\ \/ /\ IsConnectedToWifi
        /\ CountTick(RecheckTicks)
        /\ IF TimeElapsed(RecheckTicks) /\ ~ServerAnswers
             THEN listener' = "ServerNok" /\ Post("DISCONNECTED")
             ELSE UNCHANGED <<listener, queue>>
        /\ UNCHANGED netVars
     \/ ~IsConnectedToWifi /\ NetworkIsDown

\* ConnectionListener::Dispatch
ListenerDispatch(event) ==
  \/ event = "TICK" /\ (WifiNokTick \/ ServerNokTick \/ ServerOkTick)
  \/ event # "TICK" /\ UNCHANGED <<queue, netVars, listenerVars>>
=============================================================================
