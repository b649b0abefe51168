------------------------- MODULE ConnectionStatus -------------------------
(***************************************************************************)
(* What the connection listener promises the state machine: every change   *)
(* of the connection status is announced by one event, which is delivered  *)
(* before the status changes again.  The network has to be up before the   *)
(* server can be, and from "network down" everything starts over.  Only    *)
(* the restart of the board changes the status without an event, and       *)
(* drops the one that is pending.                                          *)
(***************************************************************************)
VARIABLES status,        \* "WifiNok", "ServerNok" or "ServerOk"
          announcement,  \* the event not delivered yet: a set of at most one
          starting       \* the board is in the first of its states

Init ==
  /\ status = "WifiNok"
  /\ announcement = {}
  /\ starting = TRUE

Change(from, to, event) ==
  /\ announcement = {}
  /\ status = from
  /\ status' = to
  /\ announcement' = {event}

NetworkUp == Change("WifiNok", "ServerNok", "NETWORK_UP")
Connected == Change("ServerNok", "ServerOk", "CONNECTED")
Disconnected == Change("ServerOk", "ServerNok", "DISCONNECTED")
NetworkDown == \E from \in {"ServerNok", "ServerOk"} : Change(from, "WifiNok", "NETWORK_DOWN")

Deliver ==
  /\ announcement # {}
  /\ announcement' = {}
  /\ UNCHANGED status

\* What else the state machine does is no change of the status.
NoChange == UNCHANGED <<status, announcement>>

\* A restart is the one way back to the first state.
NoRestart == starting' = TRUE => starting = TRUE

Restart ==
  /\ starting = FALSE
  /\ starting' = TRUE
  /\ status' = "WifiNok"
  /\ announcement' = {}

Next ==
  \/ /\ NetworkUp \/ Connected \/ Disconnected \/ NetworkDown \/ Deliver \/ NoChange
     /\ NoRestart
  \/ Restart

Spec == Init /\ [][Next]_<<status, announcement, starting>>
=============================================================================
