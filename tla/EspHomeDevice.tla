--------------------------- MODULE EspHomeDevice ---------------------------
(***************************************************************************)
(* One connection of the service to one ESPHome node: class EspHomeDevice  *)
(* of esphome.cpp, together with the part of EspHomeManager that creates   *)
(* and deletes it and the fields of the DeviceObject it reads and writes.  *)
(*                                                                         *)
(* The program has one thread.  Every slot runs to completion before the   *)
(* event loop delivers the next event, and a signal of the socket is a     *)
(* direct call, so an action is a whole slot with the slots it triggers.   *)
(* The one slot split into steps is onReadyRead: its while loop is one     *)
(* action per frame, and `reading' keeps every other event out until the   *)
(* loop returns.                                                           *)
(*                                                                         *)
(* The peer is unconstrained: it may connect, stay silent, close, or send  *)
(* any frame in any state.  What the peer's data does to entities and      *)
(* sub-devices is the concern of module Session.                           *)
(***************************************************************************)
EXTENDS Sequences, FiniteSets

CONSTANTS
  Frame,      \* the frames a peer may send, see FrameAssumption
  Batch,      \* the non-empty runs of frames one readyRead may deliver
  Name,       \* device names
  Address,    \* the name that equals DeviceObject::address()
  ServerName  \* the name the node announces in its server hello

(***************************************************************************)
(* What the receiving loop can tell about the message inside a frame: the  *)
(* cases of processMessage's switch, with its default ("other"), and       *)
(* before it a plaintext under four bytes ("short") or none at all.        *)
(***************************************************************************)
MsgKind == {"HelloResponse", "DeviceInfoResponse", "ListEntities",
            "ListEntitiesDone", "State", "PingResponse",
            "DisconnectRequest", "other"}

(***************************************************************************)
(* A frame by what each branch of onReadyRead tests: the indicator byte,   *)
(* the first payload byte ("none" when the payload is empty), whether the  *)
(* rest of the payload is a non-empty server name, whether readHandshake   *)
(* accepts it, and what decrypt makes of it.                               *)
(***************************************************************************)
ASSUME FrameAssumption ==
  \A f \in Frame :
    /\ f.indicator \in BOOLEAN
    /\ f.first \in {"0", "1", "other", "none"}
    /\ f.serverName \in BOOLEAN
    /\ f.handshake \in BOOLEAN
    /\ f.plaintext \in MsgKind \cup {"undecryptable", "short"}

ASSUME BatchAssumption == Batch \subseteq Seq(Frame) \ {<<>>}
ASSUME NameAssumption  == {Address, ServerName} \subseteq Name

VARIABLES
  alive,             \* EspHomeManager::m_connections holds this connection
  active,            \* DeviceObject::active()
  alwaysActive,      \* history: active has been TRUE since the creation
  name,              \* DeviceObject::name()
  availability,      \* DeviceObject::availability()
  m_state,           \* EspHomeDevice::m_state
  m_noise,           \* "null", or how far the Noise object has come
  m_pingTimer,       \* the three timers: TRUE while running
  m_reconnectTimer,
  m_handshakeTimer,
  m_rxBuf,           \* frames received and not yet consumed
  reading,           \* onReadyRead's loop is running
  socket,            \* QTcpSocket::state()
  unsent             \* the socket's write buffer is not empty

deviceVars == <<active, alwaysActive, name, availability>>
timerVars  == <<m_pingTimer, m_reconnectTimer, m_handshakeTimer>>
socketVars == <<socket, unsent>>
vars == <<alive, deviceVars, m_state, m_noise, timerVars, m_rxBuf, reading,
          socketVars>>

State == {"Disconnected", "Connecting", "ClientHello", "ServerHello",
          "NoiseHandshake", "Ready", "ListEntities", "Subscribe"}
SocketState == {"Unconnected", "Connecting", "Connected", "Closing"}

HandshakeStates == {"ServerHello", "NoiseHandshake"}
ReadyStates     == {"Ready", "ListEntities", "Subscribe"}

Open == socket \in {"Connected", "Closing"}

\* No slot is running: the event loop may deliver the next event.
Idle == alive /\ ~reading

-----------------------------------------------------------------------------
(***************************************************************************)
(* QTcpSocket and connection life cycle                                    *)
(*                                                                         *)
(* A definition called Faulty... is a wrong version of the definition it   *)
(* precedes, named after the mistake.  Nothing uses it: putting it in that *)
(* definition's place is how the properties below are tested.              *)
(***************************************************************************)

FaultyErrorNoRetry == m_reconnectTimer

\* onError: what becomes of m_reconnectTimer.  A failed attempt to connect
\* ends here, without disconnected.
onError == IF active THEN TRUE ELSE m_reconnectTimer

\* connectToDevice from m_state = Disconnected; its early return for any
\* other state is never taken, because both callers reset m_state.
connectToDevice ==
  /\ m_state' = "Connecting"
  /\ m_rxBuf' = <<>>
  /\ socket' = "Connecting"
  /\ unsent' = FALSE

\* EspHomeManager::connectDevice: a new connection for a device that has none,
\* whose DeviceObject was just loaded from the database or added by a command.
connectDevice(a, n) ==
  /\ ~alive
  /\ alive' = TRUE
  /\ active' = a
  /\ alwaysActive' = a
  /\ name' = n
  /\ availability' = "Unknown"
  /\ m_noise' = "null"
  /\ m_pingTimer' = FALSE
  /\ m_reconnectTimer' = FALSE
  /\ m_handshakeTimer' = FALSE
  /\ reading' = FALSE
  /\ connectToDevice

\* EspHomeManager::disconnectDevice: disconnectFromDevice, then delete.  The
\* disconnected signal may still run onDisconnected in between, which finds
\* m_state = Disconnected and can only start a timer that delete destroys.
disconnectDevice ==
  /\ Idle
  /\ alive' = FALSE
  /\ m_pingTimer' = FALSE
  /\ m_reconnectTimer' = FALSE
  /\ m_handshakeTimer' = FALSE
  /\ m_state' = "Disconnected"
  /\ m_noise' = "null"
  /\ m_rxBuf' = <<>>
  /\ socket' = "Unconnected"
  /\ unsent' = FALSE
  /\ UNCHANGED <<deviceVars, reading>>

FaultyWasReady == m_state \in {"Ready", "Subscribe"}

\* onDisconnected's wasReady.
WasReady == m_state \in ReadyStates

\* onDisconnected; r tells whether onError already started m_reconnectTimer
\* in the same chain of calls.
onDisconnected(r) ==
  /\ m_pingTimer' = FALSE
  /\ m_handshakeTimer' = FALSE
  /\ m_rxBuf' = <<>>
  /\ m_state' = "Disconnected"
  /\ m_noise' = "null"
  /\ availability' = IF WasReady THEN "Offline" ELSE availability
  /\ m_reconnectTimer' = IF active THEN TRUE ELSE r

\* The socket leaves an open state: onDisconnected runs as part of the call.
Closed(r) ==
  /\ socket' = "Unconnected"
  /\ unsent' = FALSE
  /\ reading' = FALSE
  /\ onDisconnected(r)
  /\ UNCHANGED <<alive, active, alwaysActive, name>>

FaultyNoWatchdog == UNCHANGED m_handshakeTimer

\* m_handshakeTimer->start() in onConnected.
StartHandshakeTimer == m_handshakeTimer' = TRUE

FaultyNoiseKept == UNCHANGED m_noise

\* delete m_noise; m_noise = new NoiseNNpsk0(...) in onConnected.
NewNoise == m_noise' = "handshake"

\* onConnected: the client hello and the first Noise message leave in one
\* write, so the state ClientHello never outlives the slot.
onConnected ==
  /\ Idle
  /\ socket = "Connecting"
  /\ socket' = "Connected"
  /\ m_reconnectTimer' = FALSE
  /\ StartHandshakeTimer
  /\ NewNoise
  /\ unsent' = TRUE
  /\ m_state' = "ServerHello"
  /\ UNCHANGED <<alive, deviceVars, m_pingTimer, m_rxBuf, reading>>

\* The attempt to connect fails: errorOccurred without disconnected.
ConnectFails ==
  /\ Idle
  /\ socket = "Connecting"
  /\ socket' = "Unconnected"
  /\ m_reconnectTimer' = onError
  /\ UNCHANGED <<alive, deviceVars, m_state, m_noise, m_pingTimer,
                 m_handshakeTimer, m_rxBuf, reading, unsent>>

\* The peer closes or resets, or a write fails: errorOccurred, then
\* disconnected.
PeerCloses ==
  /\ Idle
  /\ Open
  /\ Closed(onError)

\* The event loop hands the write buffer to the operating system.
Flush ==
  /\ Idle
  /\ socket = "Connected" /\ unsent
  /\ unsent' = FALSE
  /\ UNCHANGED <<alive, deviceVars, m_state, m_noise, timerVars, m_rxBuf,
                 reading, socket>>

\* A graceful close ends once the write buffer has drained.
CloseCompletes ==
  /\ Idle
  /\ socket = "Closing"
  /\ Closed(m_reconnectTimer)

-----------------------------------------------------------------------------
(***************************************************************************)
(* Timers and commands                                                     *)
(***************************************************************************)

\* sendMessage does nothing before the Noise handshake is complete.
sendMessage == unsent' = IF m_noise = "complete" THEN TRUE ELSE unsent

onPingTimer ==
  /\ Idle
  /\ m_pingTimer
  /\ IF m_state \in {"Ready", "Subscribe"} THEN sendMessage ELSE UNCHANGED unsent
  /\ UNCHANGED <<alive, deviceVars, m_state, m_noise, timerVars, m_rxBuf,
                 reading, socket>>

\* onReconnectTimer: abort() emits disconnected only from an open socket, and
\* what onDisconnected does to this timer and to m_state is undone at once.
onReconnectTimer ==
  /\ Idle
  /\ m_reconnectTimer
  /\ m_reconnectTimer' = FALSE
  /\ m_pingTimer' = IF Open THEN FALSE ELSE m_pingTimer
  /\ m_handshakeTimer' = IF Open THEN FALSE ELSE m_handshakeTimer
  /\ m_noise' = IF Open THEN "null" ELSE m_noise
  /\ availability' = IF Open /\ WasReady THEN "Offline" ELSE availability
  /\ IF active
       THEN connectToDevice
       ELSE /\ m_state' = "Disconnected"
            /\ m_rxBuf' = IF Open THEN <<>> ELSE m_rxBuf
            /\ socket' = "Unconnected"
            /\ unsent' = FALSE
  /\ UNCHANGED <<alive, active, alwaysActive, name, reading>>

\* onHandshakeTimer: abort() of an open socket runs onDisconnected.
onHandshakeTimer ==
  /\ Idle
  /\ m_handshakeTimer
  /\ Open
  /\ Closed(m_reconnectTimer)

\* EspHomeDevice::sendCommand: dropped unless in Subscribe.
sendCommand ==
  /\ Idle
  /\ m_state = "Subscribe"
  /\ sendMessage
  /\ UNCHANGED <<alive, deviceVars, m_state, m_noise, timerVars, m_rxBuf,
                 reading, socket>>

\* Controller::mqttReceived, updateDevice: the fields the connection reads.
updateDevice(n, a) ==
  /\ Idle
  /\ name' = n
  /\ active' = a
  /\ alwaysActive' = IF a THEN alwaysActive ELSE FALSE
  /\ UNCHANGED <<alive, availability, m_state, m_noise, timerVars, m_rxBuf,
                 reading, socketVars>>

-----------------------------------------------------------------------------
(***************************************************************************)
(* onReadyRead                                                             *)
(***************************************************************************)

\* readyRead delivers some complete frames; how bytes make up frames is left
\* out, an incomplete one waits in m_rxBuf without effect.
onReadyRead(frames) ==
  /\ Idle
  /\ socket = "Connected"
  /\ m_rxBuf' = m_rxBuf \o frames
  /\ reading' = TRUE
  /\ UNCHANGED <<alive, deviceVars, m_state, m_noise, timerVars, socketVars>>

\* The loop returns when no complete frame is left.
ReadLoopEnds ==
  /\ reading
  /\ m_rxBuf = <<>>
  /\ reading' = FALSE
  /\ UNCHANGED <<alive, deviceVars, m_state, m_noise, timerVars, m_rxBuf,
                 socketVars>>

\* The frames on which the loop gives up on the connection.
Rejected(f) ==
  \/ ~f.indicator
  \/ m_state = "ServerHello" /\ f.first # "1"
  \/ m_state = "NoiseHandshake" /\ (f.first # "0" \/ ~f.handshake)
  \/ m_state \in ReadyStates /\ f.plaintext = "undecryptable"

FaultyRetryWhileClosing ==
  /\ socket' = "Closing"
  /\ m_reconnectTimer' = active
  /\ UNCHANGED <<alive, deviceVars, m_state, m_noise, m_pingTimer,
                 m_handshakeTimer, unsent>>

FaultyStateReset ==
  /\ socket' = "Closing"
  /\ m_state' = "Disconnected"
  /\ UNCHANGED <<alive, deviceVars, m_noise, timerVars, unsent>>

FaultyNoClose ==
  UNCHANGED <<alive, deviceVars, m_state, m_noise, timerVars, socketVars>>

\* disconnectFromHost with a write buffer that is not empty: disconnected
\* comes later, from CloseCompletes.
CloseGracefully ==
  /\ socket' = "Closing"
  /\ UNCHANGED <<alive, deviceVars, m_state, m_noise, timerVars, unsent>>

\* disconnectFromHost and return: at once when nothing is left to send.
RejectFrame ==
  /\ reading /\ m_rxBuf # <<>>
  /\ Rejected(Head(m_rxBuf))
  /\ \/ /\ ~unsent
        /\ Closed(m_reconnectTimer)
     \/ /\ unsent
        /\ CloseGracefully
        /\ reading' = FALSE
        /\ m_rxBuf' = IF Head(m_rxBuf).indicator THEN Tail(m_rxBuf) ELSE m_rxBuf

\* The frame is taken off the buffer and the loop goes on.
Consume(f) ==
  /\ reading /\ m_rxBuf # <<>>
  /\ f = Head(m_rxBuf)
  /\ ~Rejected(f)
  /\ m_rxBuf' = Tail(m_rxBuf)
  /\ UNCHANGED <<alive, active, alwaysActive, m_reconnectTimer, reading>>

\* The server hello; a device still called by its address adopts the name.
ServerHelloFrame(f) ==
  /\ m_state = "ServerHello"
  /\ Consume(f)
  /\ name' = IF f.serverName /\ name = Address THEN ServerName ELSE name
  /\ m_state' = "NoiseHandshake"
  /\ UNCHANGED <<availability, m_noise, m_pingTimer, m_handshakeTimer,
                 socketVars>>

\* The second Noise message; HelloRequest is sent.
NoiseHandshakeFrame(f) ==
  /\ m_state = "NoiseHandshake"
  /\ Consume(f)
  /\ m_noise' = "complete"
  /\ m_state' = "Ready"
  /\ m_handshakeTimer' = FALSE
  /\ m_pingTimer' = TRUE
  /\ availability' = "Online"
  /\ unsent' = TRUE
  /\ UNCHANGED <<name, socket>>

\* A frame that decrypts, in any of the states after the handshake.
Message(f, kinds) ==
  /\ m_state \in ReadyStates
  /\ m_noise = "complete"
  /\ Consume(f)
  /\ f.plaintext \in kinds
  /\ UNCHANGED <<name, availability, m_noise, m_pingTimer, m_handshakeTimer>>

\* HelloResponse: asks for the device info.
HelloResponse(f) ==
  /\ Message(f, {"HelloResponse"})
  /\ sendMessage
  /\ UNCHANGED <<m_state, socket>>

\* DeviceInfoResponse: starts a listing of the entities.
DeviceInfoResponse(f) ==
  /\ Message(f, {"DeviceInfoResponse"})
  /\ m_state' = "ListEntities"
  /\ sendMessage
  /\ UNCHANGED socket

\* ListEntitiesDone: the listing is applied and states are subscribed to.
ListEntitiesDone(f) ==
  /\ Message(f, {"ListEntitiesDone"})
  /\ m_state' = "Subscribe"
  /\ sendMessage
  /\ UNCHANGED socket

\* The messages that leave the connection as it is: entity infos, states,
\* ping responses, unknown types and plaintexts too short to hold a header.
PassiveMessage(f) ==
  /\ Message(f, {"ListEntities", "State", "PingResponse", "other", "short"})
  /\ UNCHANGED <<m_state, socketVars>>

\* DisconnectRequest: the response is still in the write buffer when
\* disconnectFromHost is called, so the socket is closing and the loop goes
\* on with the frames that follow.
DisconnectRequest(f) ==
  /\ Message(f, {"DisconnectRequest"})
  /\ sendMessage
  /\ socket' = "Closing"
  /\ UNCHANGED m_state

-----------------------------------------------------------------------------
Init ==
  /\ alive = TRUE
  /\ active \in BOOLEAN
  /\ alwaysActive = active
  /\ name \in Name
  /\ availability = "Unknown"
  /\ m_state = "Connecting"
  /\ m_noise = "null"
  /\ m_pingTimer = FALSE
  /\ m_reconnectTimer = FALSE
  /\ m_handshakeTimer = FALSE
  /\ m_rxBuf = <<>>
  /\ reading = FALSE
  /\ socket = "Connecting"
  /\ unsent = FALSE

ReadLoop ==
  \/ ReadLoopEnds
  \/ RejectFrame
  \/ \E f \in Frame : \/ ServerHelloFrame(f)
                      \/ NoiseHandshakeFrame(f)
                      \/ HelloResponse(f)
                      \/ DeviceInfoResponse(f)
                      \/ ListEntitiesDone(f)
                      \/ PassiveMessage(f)
                      \/ DisconnectRequest(f)

Next ==
  \/ \E a \in BOOLEAN, n \in Name : connectDevice(a, n)
  \/ disconnectDevice
  \/ onConnected
  \/ ConnectFails
  \/ PeerCloses
  \/ Flush
  \/ CloseCompletes
  \/ onPingTimer
  \/ onReconnectTimer
  \/ onHandshakeTimer
  \/ sendCommand
  \/ \E n \in Name, a \in BOOLEAN : updateDevice(n, a)
  \/ \E frames \in Batch : onReadyRead(frames)
  \/ ReadLoop

Spec == Init /\ [][Next]_vars

(***************************************************************************)
(* Fairness.  A running Qt timer fires, a pending connect attempt ends one *)
(* way or the other (QAbstractSocket gives up by itself after 30 s), the   *)
(* write buffer of a closing socket drains into the kernel, and a slot     *)
(* that is running returns.  Nothing is assumed of the peer.               *)
(***************************************************************************)
Fairness ==
  /\ WF_vars(ReadLoop)
  /\ WF_vars(onConnected \/ ConnectFails)
  /\ WF_vars(CloseCompletes)
  /\ WF_vars(onReconnectTimer)
  /\ WF_vars(onHandshakeTimer)

FairSpec == Spec /\ Fairness

-----------------------------------------------------------------------------
(***************************************************************************)
(* Properties                                                              *)
(***************************************************************************)

\* Every variable has its type.
TypeOK ==
  /\ alive \in BOOLEAN
  /\ active \in BOOLEAN
  /\ alwaysActive \in BOOLEAN
  /\ name \in Name
  /\ availability \in {"Unknown", "Online", "Offline"}
  /\ m_state \in State
  /\ m_noise \in {"null", "handshake", "complete"}
  /\ m_pingTimer \in BOOLEAN
  /\ m_reconnectTimer \in BOOLEAN
  /\ m_handshakeTimer \in BOOLEAN
  /\ m_rxBuf \in Seq(Frame)
  /\ reading \in BOOLEAN
  /\ socket \in SocketState
  /\ unsent \in BOOLEAN

\* m_state and the socket agree: the protocol states are exactly those of an
\* open socket, so onReadyRead never meets a frame in a state for which it has
\* no branch, and connectToDevice never meets a state it returns from.
StateMatchesSocket ==
  /\ Open <=> m_state \in HandshakeStates \cup ReadyStates
  /\ socket = "Connecting" => m_state = "Connecting"
  /\ ~alive => socket = "Unconnected"

\* onReadyRead dereferences m_noise in NoiseHandshake without a test, and in
\* the later states gives up without closing unless it is complete: in each
\* state the Noise object is there and as far as that state needs.
NoiseMatchesState ==
  /\ m_state \in HandshakeStates => m_noise = "handshake"
  /\ m_state \in ReadyStates => m_noise = "complete"

\* No open connection is left without a timer that looks after it: the
\* handshake time-out until the Noise handshake is complete, the ping timer
\* from then on, and never both.
WatchdogArmed ==
  /\ m_handshakeTimer <=> m_state \in HandshakeStates
  /\ m_pingTimer <=> m_state \in ReadyStates

\* A connection that is down and not being set up is going to be retried: in
\* every way a connection can be lost or fail, m_reconnectTimer is running,
\* unless the device was inactive at some time (then the retry may be gone).
RetryArmed ==
  Idle /\ socket = "Unconnected" /\ alwaysActive => m_reconnectTimer

\* onReconnectTimer aborts the socket whatever its state: a retry is pending
\* only while there is no connection and no attempt it could tear down.
RetryHarmless ==
  m_reconnectTimer => socket = "Unconnected"

\* The device is Online exactly while its connection is past the handshake,
\* in all three states of which onDisconnected asks `wasReady'.
AvailabilityExact ==
  alive => (availability = "Online" <=> m_state \in ReadyStates)

\* Between two events no complete frame is waiting for a readyRead that may
\* never come, and none survives into the next connection; only a socket
\* being closed may leave some behind.
FramesDrained ==
  Idle /\ socket # "Closing" => m_rxBuf = <<>>

\* The inductive invariant: all of the above, a slot runs only on an open
\* connection, and the write buffer that a graceful close waits for is not
\* empty.
Inv ==
  /\ TypeOK
  /\ StateMatchesSocket
  /\ NoiseMatchesState
  /\ WatchdogArmed
  /\ RetryArmed
  /\ RetryHarmless
  /\ AvailabilityExact
  /\ FramesDrained
  /\ socket = "Closing" => unsent
  /\ alwaysActive => active
  /\ reading => alive /\ Open
  /\ reading /\ socket = "Closing" => m_state \in ReadyStates
  /\ m_rxBuf # <<>> => alive /\ Open

\* The phase of the link that this connection is.
LinkPhase ==
  IF ~alive THEN "absent"
  ELSE IF socket = "Unconnected" THEN "waiting"
  ELSE IF socket = "Connecting" THEN "dialing"
  ELSE IF socket = "Closing" THEN "closing"
  ELSE IF m_state \in HandshakeStates THEN "handshaking" ELSE "online"

L == INSTANCE Link WITH phase <- LinkPhase, wanted <- alwaysActive,
                        availability <- availability

\* The connection implements the link: in particular it is Online only after
\* an authentication of its own, Offline as soon as it is lost, and a lost
\* connection is dialled anew before anything else happens to it.
ImplementsLink == L!LinkSpec

\* A peer that accepts the connection and then hangs cannot hold it: every
\* handshake is completed or given up (the reason onHandshakeTimer exists).
HandshakeEnds ==
  m_state \in HandshakeStates ~> m_state \notin HandshakeStates

\* A device that was never inactive is dialled again after every loss of its
\* connection and every failed attempt, unless it is removed or deactivated.
Reconnects ==
  Idle /\ socket = "Unconnected" ~> socket = "Connecting" \/ ~alive \/ ~alwaysActive

=============================================================================
