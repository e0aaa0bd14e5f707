------------------------ MODULE EspHomeDeviceProofs ------------------------
(***************************************************************************)
(* The safety properties of EspHomeDevice for every set of frames, every   *)
(* way of batching them and every set of names.                            *)
(***************************************************************************)
EXTENDS EspHomeDevice, TLAPS

\* What Closed leaves behind: the retry that onDisconnected, or onError before
\* it, has started is all that is left of the connection.
LEMMA ClosedInv ==
  ASSUME Inv, alive, Open, NEW r \in BOOLEAN, Closed(r)
  PROVE  Inv'
<1> USE DEF Closed, onDisconnected, WasReady
<1>1. m_reconnectTimer' \in BOOLEAN
  BY DEF Inv, TypeOK
<1>2. m_rxBuf' \in Seq(Frame)
  OBVIOUS
<1>3. TypeOK'
  BY <1>1, <1>2 DEF Inv, TypeOK, State, SocketState
<1>4. RetryArmed'
  BY DEF Inv, RetryArmed
<1>5. AvailabilityExact'
  BY DEF Inv, TypeOK, AvailabilityExact, ReadyStates
<1>6. StateMatchesSocket' /\ NoiseMatchesState' /\ WatchdogArmed' /\ RetryHarmless'
  BY DEF StateMatchesSocket, NoiseMatchesState, WatchdogArmed, RetryHarmless,
         Open, HandshakeStates, ReadyStates
<1> QED
  BY <1>3, <1>4, <1>5, <1>6 DEF Inv, FramesDrained

\* A frame is only ever consumed by a running slot on an open connection.
LEMMA ConsumeFacts ==
  ASSUME Inv, NEW f, Consume(f)
  PROVE  /\ reading /\ alive /\ Open
         /\ m_rxBuf' \in Seq(Frame)
         /\ UNCHANGED <<alive, active, alwaysActive, m_reconnectTimer, reading>>
  BY DEF Inv, TypeOK, Consume

\* A connection that was just created meets the invariant.
LEMMA InitInv == Init => Inv
<1> SUFFICES ASSUME Init PROVE Inv
  OBVIOUS
<1>1. m_rxBuf \in Seq(Frame)
  BY DEF Init
<1>2. TypeOK
  BY <1>1, Zenon DEF Init, TypeOK, State, SocketState
<1> QED
  BY <1>2
  DEF Init, Inv, StateMatchesSocket, NoiseMatchesState, WatchdogArmed,
      RetryArmed, RetryHarmless, AvailabilityExact, FramesDrained, Idle, Open,
      HandshakeStates, ReadyStates

\* Each slot, run to its end or one frame at a time, keeps the invariant.
LEMMA NextInv == Inv /\ [Next]_vars => Inv'
<1> SUFFICES ASSUME Inv, [Next]_vars PROVE Inv'
  OBVIOUS
<1> USE DEF Inv, TypeOK, StateMatchesSocket, NoiseMatchesState, WatchdogArmed,
      RetryArmed, RetryHarmless, AvailabilityExact, FramesDrained, Idle, Open,
      State, SocketState, HandshakeStates, ReadyStates,
      deviceVars, timerVars, socketVars
<1>1. ASSUME NEW a \in BOOLEAN, NEW n \in Name, connectDevice(a, n) PROVE Inv'
  <2>1. m_rxBuf' \in Seq(Frame)
    BY <1>1 DEF connectDevice, connectToDevice
  <2> QED
    BY <1>1, <2>1 DEF connectDevice, connectToDevice
<1>2. CASE disconnectDevice
  <2>1. m_rxBuf' \in Seq(Frame)
    BY <1>2 DEF disconnectDevice
  <2> QED
    BY <1>2, <2>1 DEF disconnectDevice
<1>3. CASE onConnected
  BY <1>3 DEF onConnected, StartHandshakeTimer, NewNoise
<1>4. CASE ConnectFails
  <2>1. m_reconnectTimer' \in BOOLEAN
    BY <1>4 DEF ConnectFails, onError
  <2>2. alwaysActive' => m_reconnectTimer'
    BY <1>4 DEF ConnectFails, onError
  <2> QED
    BY <1>4, <2>1, <2>2 DEF ConnectFails
<1>5. CASE PeerCloses
  <2>1. onError \in BOOLEAN
    BY DEF onError
  <2> QED
    BY <1>5, <2>1, ClosedInv DEF PeerCloses
<1>6. CASE Flush
  BY <1>6 DEF Flush
<1>7. CASE CloseCompletes
  BY <1>7, ClosedInv DEF CloseCompletes
<1>8. CASE onPingTimer
  BY <1>8 DEF onPingTimer, sendMessage
<1>9. CASE onReconnectTimer
  <2>1. m_rxBuf' \in Seq(Frame)
    BY <1>9 DEF onReconnectTimer, connectToDevice
  <2> QED
    BY <1>9, <2>1 DEF onReconnectTimer, connectToDevice, WasReady
<1>10. CASE onHandshakeTimer
  BY <1>10, ClosedInv DEF onHandshakeTimer
<1>11. CASE sendCommand
  BY <1>11 DEF sendCommand, sendMessage
<1>12. ASSUME NEW n \in Name, NEW a \in BOOLEAN, updateDevice(n, a) PROVE Inv'
  <2>1. alwaysActive' \in BOOLEAN /\ (alwaysActive' => active') /\ (alwaysActive' => alwaysActive)
    BY <1>12 DEF updateDevice
  <2>2. active' \in BOOLEAN
    BY <1>12 DEF updateDevice
  <2> QED
    BY <1>12, <2>1, <2>2 DEF updateDevice
<1>13. ASSUME NEW frames \in Batch, onReadyRead(frames) PROVE Inv'
  <2>1. m_rxBuf' \in Seq(Frame)
    BY <1>13, BatchAssumption DEF onReadyRead
  <2> QED
    BY <1>13, <2>1 DEF onReadyRead
<1>14. CASE ReadLoopEnds
  BY <1>14 DEF ReadLoopEnds
<1>15. CASE RejectFrame
  <2>1. CASE ~unsent
    BY <1>15, <2>1, ClosedInv DEF RejectFrame
  <2>2. CASE unsent
    <3>1. m_rxBuf' \in Seq(Frame)
      BY <1>15, <2>2 DEF RejectFrame
    <3>2. /\ reading /\ socket' = "Closing" /\ reading' = FALSE
          /\ UNCHANGED <<alive, deviceVars, m_state, m_noise, timerVars, unsent>>
      BY <1>15, <2>2 DEF RejectFrame, CloseGracefully
    <3> QED
      BY <2>2, <3>1, <3>2
  <2> QED
    BY <2>1, <2>2
<1>16. ASSUME NEW f \in Frame, ServerHelloFrame(f) PROVE Inv'
  <2>1. Consume(f)
    BY <1>16 DEF ServerHelloFrame
  <2>2. name' \in Name
    BY <1>16, NameAssumption DEF ServerHelloFrame
  <2> QED
    BY <1>16, <2>1, <2>2, ConsumeFacts DEF ServerHelloFrame
<1>17. ASSUME NEW f \in Frame, NoiseHandshakeFrame(f) PROVE Inv'
  <2>1. Consume(f)
    BY <1>17 DEF NoiseHandshakeFrame
  <2> QED
    BY <1>17, <2>1, ConsumeFacts DEF NoiseHandshakeFrame
<1>18. ASSUME NEW f \in Frame,
              \/ HelloResponse(f) \/ DeviceInfoResponse(f) \/ ListEntitiesDone(f)
              \/ PassiveMessage(f) \/ DisconnectRequest(f)
       PROVE  Inv'
  <2>1. PICK kinds : Message(f, kinds)
    BY <1>18 DEF HelloResponse, DeviceInfoResponse, ListEntitiesDone,
                 PassiveMessage, DisconnectRequest
  <2>2. Consume(f)
    BY <2>1 DEF Message
  <2>3. /\ m_state \in ReadyStates /\ m_noise = "complete"
        /\ UNCHANGED <<name, availability, m_noise, m_pingTimer, m_handshakeTimer>>
    BY <2>1 DEF Message
  <2>4. /\ m_state' \in ReadyStates
        /\ socket' \in {socket, "Closing"}
        /\ unsent' \in BOOLEAN
        /\ socket' = "Closing" => unsent'
    BY <1>18, <2>3
    DEF HelloResponse, DeviceInfoResponse, ListEntitiesDone, PassiveMessage,
        DisconnectRequest, sendMessage
  <2> QED
    BY <2>2, <2>3, <2>4, ConsumeFacts
<1>19. CASE UNCHANGED vars
  BY <1>19 DEF vars
<1> QED
  BY <1>1, <1>2, <1>3, <1>4, <1>5, <1>6, <1>7, <1>8, <1>9, <1>10, <1>11,
     <1>12, <1>13, <1>14, <1>15, <1>16, <1>17, <1>18,
     <1>19
  DEF Next, ReadLoop

\* Inv is an invariant of a connection whatever the peer sends, whenever it
\* closes, and whatever the user's commands change meanwhile.
THEOREM Invariance == Spec => []Inv
  BY InitInv, NextInv, PTL DEF Spec

\* Every variable of a connection keeps its type.
THEOREM TypeCorrect == Spec => []TypeOK
<1>1. Inv => TypeOK
  BY DEF Inv
<1> QED
  BY <1>1, Invariance, PTL

\* The protocol states are exactly those of an open socket.
THEOREM StateIsOfSocket == Spec => []StateMatchesSocket
<1>1. Inv => StateMatchesSocket
  BY DEF Inv
<1> QED
  BY <1>1, Invariance, PTL

\* No open connection is without the timer that looks after it.
THEOREM WatchdogIsArmed == Spec => []WatchdogArmed
<1>1. Inv => WatchdogArmed
  BY DEF Inv
<1> QED
  BY <1>1, Invariance, PTL

\* However a connection fails or is lost, the retry is armed: no path through
\* onError, onDisconnected, the time-outs and the receiving loop forgets it.
THEOREM RetryIsArmed == Spec => []RetryArmed
<1>1. Inv => RetryArmed
  BY DEF Inv
<1> QED
  BY <1>1, Invariance, PTL

\* onReconnectTimer's abort() never hits a connection or an attempt under way.
THEOREM RetryIsHarmless == Spec => []RetryHarmless
<1>1. Inv => RetryHarmless
  BY DEF Inv
<1> QED
  BY <1>1, Invariance, PTL

\* The availability that is published is Online exactly past the handshake.
THEOREM AvailabilityIsExact == Spec => []AvailabilityExact
<1>1. Inv => AvailabilityExact
  BY DEF Inv
<1> QED
  BY <1>1, Invariance, PTL

\* The Noise object onReadyRead dereferences exists and is as far as the state
\* of the protocol says.
THEOREM NoiseIsThere == Spec => []NoiseMatchesState
<1>1. Inv => NoiseMatchesState
  BY DEF Inv
<1> QED
  BY <1>1, Invariance, PTL

\* No frame is left in m_rxBuf for a readyRead that may never come, or for the
\* next connection.
THEOREM BufferIsDrained == Spec => []FramesDrained
<1>1. Inv => FramesDrained
  BY DEF Inv
<1> QED
  BY <1>1, Invariance, PTL

-----------------------------------------------------------------------------
(***************************************************************************)
(* Refinement                                                              *)
(***************************************************************************)

\* onDisconnected, wherever it is called from, is the loss of the link.
LEMMA ClosedLoses == ASSUME Inv, alive, Open, NEW r, Closed(r) PROVE L!Lose
<1>1. LinkPhase \in {"handshaking", "online", "closing"}
  BY DEF LinkPhase, Open
<1>2. LinkPhase' = "waiting"
  BY DEF LinkPhase, Closed
<1>3. availability' = IF availability = "Online" THEN "Offline" ELSE availability
  BY DEF Closed, onDisconnected, WasReady, Inv, AvailabilityExact
<1> QED
  BY <1>1, <1>2, <1>3 DEF L!Lose, Closed

\* Each step of a connection is a step of the link, or none.
LEMMA StepSimulation ==
  ASSUME Inv, Inv', [Next]_vars
  PROVE  [L!LinkNext]_(L!linkVars)
<1> USE DEF deviceVars, timerVars, socketVars
<1>1. ASSUME NEW a \in BOOLEAN, NEW n \in Name, connectDevice(a, n)
      PROVE  L!Add
  BY <1>1 DEF connectDevice, connectToDevice, L!Add, LinkPhase
<1>2. CASE disconnectDevice
  BY <1>2 DEF disconnectDevice, L!LinkNext, L!Remove, LinkPhase
<1>3. CASE onConnected
  BY <1>3 DEF onConnected, L!LinkNext, L!DialEnds, LinkPhase, Idle, HandshakeStates
<1>4. CASE ConnectFails
  BY <1>4 DEF ConnectFails, L!LinkNext, L!DialEnds, LinkPhase, Idle
<1>5. CASE PeerCloses
  BY <1>5, ClosedLoses DEF PeerCloses, Idle, L!LinkNext
<1>6. CASE Flush \/ onPingTimer \/ sendCommand \/ ReadLoopEnds
  BY <1>6 DEF Flush, onPingTimer, sendCommand, ReadLoopEnds, L!linkVars, LinkPhase
<1>7. CASE CloseCompletes
  BY <1>7, ClosedLoses DEF CloseCompletes, Idle, Open, L!LinkNext
<1>8. CASE onReconnectTimer
  <2>1. alive /\ socket = "Unconnected" /\ ~Open
    BY <1>8 DEF onReconnectTimer, Idle, Open, Inv, RetryHarmless
  <2>2. CASE active
    BY <1>8, <2>1, <2>2
    DEF onReconnectTimer, connectToDevice, L!LinkNext, L!Dial, LinkPhase
  <2>3. CASE ~active
    BY <1>8, <2>1, <2>3 DEF onReconnectTimer, L!linkVars, LinkPhase
  <2> QED
    BY <2>2, <2>3
<1>9. CASE onHandshakeTimer
  BY <1>9, ClosedLoses DEF onHandshakeTimer, Idle, L!LinkNext
<1>10. ASSUME NEW n \in Name, NEW a \in BOOLEAN, updateDevice(n, a)
       PROVE  [L!LinkNext]_(L!linkVars)
  <2>1. UNCHANGED <<LinkPhase, availability>> /\ LinkPhase # "absent"
    BY <1>10 DEF updateDevice, LinkPhase, Idle
  <2>2. CASE a
    BY <1>10, <2>1, <2>2 DEF updateDevice, L!linkVars
  <2>3. CASE ~a
    BY <1>10, <2>1, <2>3 DEF updateDevice, L!LinkNext, L!GiveUp
  <2> QED
    BY <2>2, <2>3
<1>11. ASSUME NEW frames \in Batch, onReadyRead(frames)
       PROVE  UNCHANGED L!linkVars
  BY <1>11 DEF onReadyRead, L!linkVars, LinkPhase
<1>12. CASE RejectFrame
  <2>1. alive /\ Open
    BY <1>12 DEF RejectFrame, Inv
  <2>2. CASE ~unsent
    BY <1>12, <2>1, <2>2, ClosedLoses DEF RejectFrame, L!LinkNext
  <2>3. CASE unsent
    BY <1>12, <2>1, <2>3
    DEF RejectFrame, CloseGracefully, L!LinkNext, L!Close, L!linkVars, LinkPhase, Open
  <2> QED
    BY <2>2, <2>3
<1>13. ASSUME NEW f \in Frame, ServerHelloFrame(f)
       PROVE  UNCHANGED L!linkVars
  BY <1>13 DEF ServerHelloFrame, Consume, L!linkVars, LinkPhase, HandshakeStates
<1>14. ASSUME NEW f \in Frame, NoiseHandshakeFrame(f)
       PROVE  [L!LinkNext]_(L!linkVars)
  <2>1. Consume(f) /\ m_state = "NoiseHandshake"
    BY <1>14 DEF NoiseHandshakeFrame
  <2>2. alive /\ alive' /\ socket = "Connected"
    BY <2>1, ConsumeFacts DEF Inv, Open, ReadyStates
  <2> QED
    BY <1>14, <2>1, <2>2, ConsumeFacts
    DEF NoiseHandshakeFrame, L!LinkNext, L!Authenticate, LinkPhase, HandshakeStates
<1>15. ASSUME NEW f \in Frame,
              \/ HelloResponse(f) \/ DeviceInfoResponse(f) \/ ListEntitiesDone(f)
              \/ PassiveMessage(f)
       PROVE  UNCHANGED L!linkVars
  BY <1>15
  DEF HelloResponse, DeviceInfoResponse, ListEntitiesDone, PassiveMessage, Message,
      Consume, L!linkVars, LinkPhase, HandshakeStates, ReadyStates
<1>16. ASSUME NEW f \in Frame, DisconnectRequest(f)
       PROVE  [L!LinkNext]_(L!linkVars)
  BY <1>16, ConsumeFacts
  DEF DisconnectRequest, Message, Consume, L!LinkNext, L!Close, L!linkVars,
      LinkPhase, Open
<1>17. CASE UNCHANGED vars
  BY <1>17 DEF vars, L!linkVars, LinkPhase
<1> QED
  BY <1>1, <1>2, <1>3, <1>4, <1>5, <1>6, <1>7, <1>8, <1>9, <1>10, <1>11, <1>12,
     <1>13, <1>14, <1>15, <1>16, <1>17
  DEF Next, ReadLoop, L!LinkNext

\* Sockets, timers, frames and Noise together behave as the link of module
\* Link, whatever the peer does.
THEOREM Refinement == Spec => ImplementsLink
<1>1. Init => L!LinkInit
  BY DEF Init, L!LinkInit, LinkPhase
<1>2. Inv /\ Inv' /\ [Next]_vars => [L!LinkNext]_(L!linkVars)
  BY StepSimulation
<1> QED
  BY <1>1, <1>2, Invariance, PTL DEF Spec, ImplementsLink, L!LinkSpec

=============================================================================
