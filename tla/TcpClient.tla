------------------------------- MODULE TcpClient -------------------------------
(***************************************************************************)
(* TcpClient of the Qt client: the one socket, and its reconnection.  It   *)
(* lives in the event loop of the client, so that a handler is one step.   *)
(* A signal that an action emits is named with it; the module that listens *)
(* conjoins what its slots do.  reconnectPending stands for the flag and   *)
(* for the single-shot timer, which the code always sets together; the     *)
(* delay of the timer is left out.                                         *)
(***************************************************************************)
EXTENDS Integers

CONSTANTS
  AutoReconnect,  (* setAutoReconnect, called before the first connection *)
  MaxAttempts     (* setReconnectMaxAttempts: -1 is no limit, the default *)

ASSUME TcpClientAssumption == AutoReconnect \in BOOLEAN /\ MaxAttempts \in Int

VARIABLES
  socket,             (* the state of m_socket *)
  manualDisconnect,
  reconnectPending,
  reconnectAttempt

tcpVars == <<socket, manualDisconnect, reconnectPending, reconnectAttempt>>

TcpTypeOK ==
  /\ socket \in {"unconnected", "connecting", "connected", "closing"}
  /\ manualDisconnect \in BOOLEAN
  /\ reconnectPending \in BOOLEAN
  /\ reconnectAttempt \in Nat

(* The main window calls connectServer() before the event loop runs. *)
TcpInit ==
  /\ socket = "connecting"
  /\ manualDisconnect = FALSE /\ reconnectPending = FALSE
  /\ reconnectAttempt = 0

IsConnected == socket = "connected"

(* There is a connection: closing it emits disconnected(). *)
HasPeer == socket \in {"connected", "closing"}

ResetReconnectState == reconnectAttempt' = 0 /\ reconnectPending' = FALSE

(* At the limit it gives up and emits reconnectFailed(). *)
ScheduleReconnect ==
  IF reconnectPending \/ (MaxAttempts >= 0 /\ reconnectAttempt >= MaxAttempts)
  THEN UNCHANGED <<reconnectPending, reconnectAttempt>>
  ELSE reconnectPending' = TRUE /\ reconnectAttempt' = reconnectAttempt + 1

ReconnectUnlessManual ==
  IF AutoReconnect /\ ~manualDisconnect
  THEN ScheduleReconnect
  ELSE UNCHANGED <<reconnectPending, reconnectAttempt>>

-------------------------------------------------------------------------------
(* The calls.                                                               *)

(* Emits disconnected() if there is a peer: abort() drops it, and           *)
(* m_manualDisconnect is TRUE while it does, so that onDisconnected returns. *)
ConnectServer ==
  /\ manualDisconnect' = FALSE
  /\ ResetReconnectState
  /\ socket' = "connecting"

(* Emits errorOccurred() if there is nothing to disconnect.  Qt keeps the   *)
(* call in mind while it connects, and closes when that has succeeded.      *)
DisconnectServer ==
  /\ manualDisconnect' = TRUE
  /\ reconnectPending' = FALSE
  /\ socket' = IF IsConnected THEN "closing" ELSE socket
  /\ UNCHANGED reconnectAttempt

-------------------------------------------------------------------------------
(* The slots.                                                               *)

(* Emits connected(). *)
OnConnected ==
  /\ socket = "connecting"
  /\ socket' = IF manualDisconnect THEN "closing" ELSE "connected"
  /\ ResetReconnectState
  /\ UNCHANGED manualDisconnect

(* No connection comes about: emits errorOccurred(). *)
OnConnectError ==
  /\ socket = "connecting"
  /\ socket' = "unconnected"
  /\ ReconnectUnlessManual
  /\ UNCHANGED manualDisconnect

(* The connection breaks: Qt reports the error, which onSocketError passes  *)
(* on as errorOccurred() without a retry, as the socket is not yet          *)
(* unconnected, and then disconnected().                                    *)
OnConnectionLost ==
  /\ IsConnected
  /\ socket' = "unconnected"
  /\ ReconnectUnlessManual
  /\ UNCHANGED manualDisconnect

(* The disconnection that was asked for is done: emits disconnected(). *)
OnClosed ==
  /\ socket = "closing"
  /\ socket' = "unconnected"
  /\ ReconnectUnlessManual
  /\ UNCHANGED manualDisconnect

(* The timer.  Qt refuses connectToHost() on a socket in use. *)
AttemptReconnect ==
  /\ reconnectPending
  /\ reconnectPending' = FALSE
  /\ socket' = IF manualDisconnect \/ socket # "unconnected" THEN socket ELSE "connecting"
  /\ UNCHANGED <<manualDisconnect, reconnectAttempt>>
===============================================================================
