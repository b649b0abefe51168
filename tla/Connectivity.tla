--------------------------- MODULE Connectivity ---------------------------
(***************************************************************************)
(* The network as the firmware sees it: WifiProvisioning_Blocking.cpp and  *)
(* ServerCommunication_Blocking.cpp, thin layers over the WiFiManager,     *)
(* WiFi and HTTPClient libraries, which block the main loop.               *)
(*   wifi    "up": associated; "down": the link is lost and the stack      *)
(*           tries to bring it back; "off": the radio was switched off or  *)
(*           never on, and only WifiProv_Connect turns it on               *)
(*   server  the server would answer over a working link                   *)
(*   creds   network credentials are saved in flash                        *)
(***************************************************************************)
VARIABLES wifi, server, creds

netVars == <<wifi, server, creds>>

NetTypeOK ==
  /\ wifi \in {"up", "down", "off"}
  /\ server \in BOOLEAN
  /\ creds \in BOOLEAN

\* Power on.  Only the credentials outlive a restart.
NetInit ==
  /\ wifi = "off"
  /\ server \in BOOLEAN
  /\ creds \in BOOLEAN

IsConnectedToWifi == wifi = "up"

\* ServerCom_Ping: the answer needs the link and the server.  The function
\* always holds a value, so the "try again" branches of its callers are dead.
ServerAnswers == wifi = "up" /\ server

\* WifiProv_Connect, with its result.  It keeps a working link.  With or
\* without success the user may have saved credentials in the portal.
WifiConnect(ok) ==
  /\ wifi = "up" => ok
  /\ wifi' = IF ok THEN "up" ELSE "down"
  /\ creds' \in IF ok THEN {TRUE} ELSE {creds, TRUE}
  /\ UNCHANGED server

\* WifiProv_Disconnect: WiFi.disconnect(true) also switches the radio off.
WifiDisconnect ==
  /\ wifi' = "off"
  /\ UNCHANGED <<server, creds>>

\* WifiProv_ResetCredentials
ResetCredentials ==
  /\ wifi' = "off"
  /\ creds' = FALSE
  /\ UNCHANGED server

-----------------------------------------------------------------------------
(* What the network does on its own, in the WiFi task or at the other end. *)

LinkLost ==
  /\ wifi = "up"
  /\ wifi' = "down"
  /\ UNCHANGED <<server, creds>>

LinkRestored ==
  /\ wifi = "down"
  /\ creds
  /\ wifi' = "up"
  /\ UNCHANGED <<server, creds>>

ServerToggles ==
  /\ server' = ~server
  /\ UNCHANGED <<wifi, creds>>

NetworkChanges == LinkLost \/ LinkRestored \/ ServerToggles
=============================================================================
