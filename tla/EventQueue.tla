---------------------------- MODULE EventQueue ----------------------------
(***************************************************************************)
(* The one queue of the firmware, an etl::queue of kEventQueueSize         *)
(* signals (StateMachine/Signals.h).  The main loop, the connection        *)
(* listener, the states and the push button push to its back; the main     *)
(* loop alone reads its front and pops it.                                 *)
(***************************************************************************)
EXTENDS Naturals, Sequences

CONSTANT QueueSize

\* Four pending signals are the most the firmware ever needs (QueueBounded in
\* Firmware); the code reserves 16.
ASSUME QueueSizeAssumption == QueueSize \in Nat /\ QueueSize >= 4

VARIABLE queue

\* Signals the connection listener sends.
StatusEvents == {"NETWORK_UP", "CONNECTED", "DISCONNECTED", "NETWORK_DOWN"}

\* Signals a state of the board sends to itself.
OwnEvents == {"DELAY_DONE", "PING", "FAKE", "LOAD_HISTORY", "DATA_OK", "NO_UPDATE"}

\* Everything pushed but the tick of the main loop.
PostedEvents == StatusEvents \cup OwnEvents \cup {"SHORT_PUSH"}

\* The signals of TrainboardSignal that somebody sends; the others
\* (POLL_SERVER, RECONNECT, RETRY, ...) are declared and never pushed.
Events == PostedEvents \cup {"TICK"}

\* queue.push(e).  The code does not look at full() first.
Post(e) == queue' = Append(queue, e)
=============================================================================
