--------------------------- MODULE SessionProofs ---------------------------
(***************************************************************************)
(* What a session leaves in the device list and at the broker, for every   *)
(* set of node configurations and of sub-devices, any number of faults.    *)
(***************************************************************************)
EXTENDS Session, EspHomeDeviceProofs, SequenceTheorems

-----------------------------------------------------------------------------
(***************************************************************************)
(* The frames of a node                                                    *)
(***************************************************************************)
\* More frames are allowed in the larger of two sets.
LEMMA SeqOfMore ==
  ASSUME NEW S, NEW T, S \subseteq T, NEW s \in Seq(S)
  PROVE  s \in Seq(T)
  OBVIOUS

\* An element of a sequence is one of its set.
LEMMA SeqElement ==
  ASSUME NEW S, NEW s \in Seq(S), NEW j \in 1..Len(s)
  PROVE  s[j] \in S
  OBVIOUS

\* What a consumed frame, an arrival and an answer leave is made of frames.
LEMMA SeqSteps ==
  ASSUME NEW S, NEW s \in Seq(S), NEW t \in Seq(S)
  PROVE  /\ s \o t \in Seq(S)
         /\ s # <<>> => Head(s) \in S /\ Tail(s) \in Seq(S)
         /\ \A n \in 1..Len(s) : SubSeq(s, 1, n) \in Seq(S) /\ SubSeq(s, n + 1, Len(s)) \in Seq(S)
<1>1. s \o t \in Seq(S)
  OBVIOUS
<1>2. s # <<>> => Head(s) \in S /\ Tail(s) \in Seq(S)
  OBVIOUS
<1>3. ASSUME NEW n \in 1..Len(s)
      PROVE  SubSeq(s, 1, n) \in Seq(S) /\ SubSeq(s, n + 1, Len(s)) \in Seq(S)
  OBVIOUS
<1> QED
  BY <1>1, <1>2, <1>3

\* Frames without a word about sub-devices or entities suit any node.
LEMMA PlainFrames ==
  ASSUME NEW n, NEW names,
         NEW f \in {HelloFrame, NoiseFrame, Plain("HelloResponse"), Plain("PingResponse"),
                    Plain("DisconnectRequest")}
  PROVE  f \in FrameOf(n, names)
<1>1. f \in Frame
  BY NodeFrameAssumption DEF NodeFrame
<1>2. HelloFrame.plaintext = "undecryptable" /\ NoiseFrame.plaintext = "undecryptable"
  BY DEF HelloFrame, NoiseFrame, Plain
<1>3. \A kind : Plain(kind).plaintext = kind
  BY DEF Plain
<1> QED
  BY <1>1, <1>2, <1>3 DEF FrameOf

\* A node's DeviceInfoResponse names its own sub-devices.
LEMMA InfoFrame ==
  ASSUME NEW c \in Config, NEW names
  PROVE  DeviceInfo(c) \in FrameOf(c, names)
  BY NodeFrameAssumption DEF FrameOf, NodeFrame, DeviceInfo, Plain

\* What a listing is made of: an entity after the other, then the end.
LEMMA ListingShape ==
  ASSUME NEW c \in Config
  PROVE  /\ DOMAIN c.entities = 1..Len(c.entities) /\ Len(c.entities) \in Nat
         /\ DOMAIN Listing(c) = 1..(Len(c.entities) + 1)
         /\ \A j \in 1..Len(c.entities) : Listing(c)[j] = EntityInfo(c, j)
         /\ Listing(c)[Len(c.entities) + 1] = Plain("ListEntitiesDone")
         /\ \A T : /\ \A j \in 1..Len(c.entities) : EntityInfo(c, j) \in T
                   /\ Plain("ListEntitiesDone") \in T
                   => Listing(c) \in Seq(T)
<1> DEFINE infos == [j \in DOMAIN c.entities |-> EntityInfo(c, j)]
           done  == Plain("ListEntitiesDone")
<1>1. c.entities \in Seq([device : Nat, key : Nat])
  BY ConfigAssumption
<1>2. DOMAIN c.entities = 1..Len(c.entities) /\ Len(c.entities) \in Nat
  BY <1>1
<1>3. /\ DOMAIN infos = 1..Len(c.entities)
      /\ \A j \in 1..Len(c.entities) : infos[j] = EntityInfo(c, j)
  BY <1>2
<1>4. infos \in Seq({EntityInfo(c, j) : j \in DOMAIN c.entities})
  BY <1>2, <1>3
<1>5. Len(infos) = Len(c.entities)
  BY <1>2, <1>3, <1>4
<1>6. Listing(c) = Append(infos, done)
  BY DEF Listing
<1>7. ASSUME NEW T, \A j \in 1..Len(c.entities) : EntityInfo(c, j) \in T, done \in T
      PROVE  Listing(c) \in Seq(T)
  <2>1. infos \in Seq(T)
    BY <1>2, <1>7
  <2> HIDE DEF infos, done
  <2> QED
    BY <1>6, <1>7, <2>1
<1> HIDE DEF infos, done
<1>8. DOMAIN Append(infos, done) = 1..(Len(infos) + 1)
  BY <1>4
<1>9. \A j \in 1..Len(infos) : Append(infos, done)[j] = infos[j]
  BY <1>4
<1>10. Append(infos, done)[Len(infos) + 1] = done
  BY <1>4
<1> QED
  BY <1>2, <1>3, <1>5, <1>6, <1>7, <1>8, <1>9, <1>10 DEF done

\* A node's listing, for a service that knows the names.
LEMMA ListingFrames ==
  ASSUME NEW c \in Config
  PROVE  Listing(c) \in Seq(FrameOf(c, c.names))
<1>1. \A j \in DOMAIN Listing(c) : Listing(c)[j] \in Frame
  BY NodeFrameAssumption DEF NodeFrame
<1>2. ASSUME NEW j \in 1..Len(c.entities)
      PROVE  EntityInfo(c, j) \in FrameOf(c, c.names)
  <2>1. EntityInfo(c, j) \in Frame
    BY <1>1, ListingShape
  <2>2. c.entities[j] \in Range(c.entities)
    BY ListingShape DEF Range
  <2>3. /\ EntityInfo(c, j).plaintext = "ListEntities"
        /\ EntityInfo(c, j).entity = c.entities[j]
    BY DEF EntityInfo, Plain
  <2> QED
    BY <2>1, <2>2, <2>3 DEF FrameOf
<1>3. Plain("ListEntitiesDone") \in FrameOf(c, c.names)
  <2>1. Plain("ListEntitiesDone") \in Frame
    BY <1>1, ListingShape
  <2>2. Plain("ListEntitiesDone").plaintext = "ListEntitiesDone"
    BY DEF Plain
  <2> QED
    BY <2>1, <2>2 DEF FrameOf
<1> QED
  BY <1>2, <1>3, ListingShape

\* Every entity of a node is main's or that of a sub-device with a name.
LEMMA EntitiesNamed ==
  ASSUME NEW c \in Config
  PROVE  Range(c.entities) \subseteq [device : DOMAIN c.names \cup {0}, key : Nat]
<1>1. c.entities \in Seq([device : Nat, key : Nat])
  BY ConfigAssumption
<1>2. ASSUME NEW j \in DOMAIN c.entities
      PROVE  c.entities[j] \in [device : DOMAIN c.names \cup {0}, key : Nat]
  <2>1. j \in 1..Len(c.entities)
    BY <1>1
  <2>2. c.entities[j] \in [device : Nat, key : Nat]
    BY <1>1, <2>1, SeqElement, Zenon
  <2>3. c.entities[j].device \in DOMAIN c.names \cup {0}
    BY <1>2, ConfigAssumption
  <2> QED
    BY <2>2, <2>3
<1> QED
  BY <1>2 DEF Range

\* A service that knows the names of the node may be sent more.
LEMMA FramesGrow ==
  ASSUME NEW c, NEW names
  PROVE  FrameOf(c, names) \subseteq FrameOf(c, c.names) /\ FrameOf(c, names) \subseteq Frame
  BY DEF FrameOf

-----------------------------------------------------------------------------
(***************************************************************************)
(* The connection                                                          *)
(***************************************************************************)
\* A delivery may be any run of frames, not just one of Batch.
LEMMA ReadInv ==
  ASSUME Inv, NEW frames \in Seq(Frame), onReadyRead(frames)
  PROVE  Inv'
<1>1. m_rxBuf' \in Seq(Frame)
  BY DEF Inv, TypeOK, onReadyRead
<1> QED
  BY <1>1
  DEF Inv, TypeOK, StateMatchesSocket, NoiseMatchesState, WatchdogArmed,
      RetryArmed, RetryHarmless, AvailabilityExact, FramesDrained, Idle, Open,
      deviceVars, timerVars, socketVars, onReadyRead

\* A session does nothing to a connection that the connection cannot do.
LEMMA StepInv ==
  ASSUME Inv, QueuesConsistent, [SessionNext]_allVars
  PROVE  Inv'
<1>1. ASSUME NEW n \in 1..Len(owed), Receive(n) PROVE Inv'
  <2>1. owed \in Seq(Frame)
    BY FramesGrow, SeqOfMore DEF QueuesConsistent
  <2> QED
    BY <1>1, <2>1, SeqSteps, ReadInv DEF Receive
<1>2. ASSUME NEW f \in NodeFrame,
             \/ ReceiveHello(f) \/ ReceiveNoise(f) \/ ReceiveHelloResponse(f)
             \/ ReceiveDeviceInfo(f) \/ ReceiveEntity(f) \/ ReceiveDone(f)
             \/ ReceivePing(f) \/ ReceiveShutdown(f)
      PROVE  Next
  <2>1. f \in Frame
    BY NodeFrameAssumption
  <2> QED
    BY <1>2, <2>1
    DEF Next, ReadLoop, ReceiveHello, ReceiveNoise, ReceiveHelloResponse, ReceiveDeviceInfo,
        ReceiveEntity, ReceiveDone, ReceivePing, ReceiveShutdown
<1>3. ReceiveEnds => Next
  BY DEF ReceiveEnds, Next, ReadLoop
<1>4. addDevice => Next
  BY NameAssumption DEF addDevice, Next
<1>5. ASSUME NEW a \in BOOLEAN, updateMain(a) PROVE Next
  BY <1>5 DEF updateMain, Next, Inv, TypeOK
<1>6. NodeCloses \/ NodeRefuses \/ HandshakeLate \/ CloseIsComplete => Next
  BY DEF NodeCloses, NodeRefuses, HandshakeLate, CloseIsComplete, Next
<1>7. NodeAccepts \/ Redial \/ Ping \/ BytesSent \/ removeDevice => Next
  BY DEF NodeAccepts, Redial, Ping, BytesSent, removeDevice, Next
<1>8. (mqttConnected \/ MqttLost \/ NodeShutsDown \/ \E s \in SubName : removeSubDevice(s))
        => UNCHANGED vars
  BY DEF mqttConnected, MqttLost, NodeShutsDown, removeSubDevice
<1>9. UNCHANGED allVars => UNCHANGED vars
  BY DEF allVars
<1> QED
  BY <1>1, <1>2, <1>3, <1>4, <1>5, <1>6, <1>7, <1>8, <1>9, NextInv DEF SessionNext, ReceiveLoop

-----------------------------------------------------------------------------
(***************************************************************************)
(* The queues and the listing                                              *)
(***************************************************************************)
\* The frame that is consumed was a proper one, and so are those that stay.
LEMMA ConsumedFrame ==
  ASSUME QueuesConsistent, NEW f, Consume(f)
  PROVE  /\ f \in FrameOf(node, m_subDeviceNames)
         /\ m_rxBuf' \in Seq(FrameOf(node, m_subDeviceNames))
<1> DEFINE S == FrameOf(node, m_subDeviceNames)
<1>1. m_rxBuf \in Seq(S) /\ m_rxBuf # <<>> /\ f = Head(m_rxBuf) /\ m_rxBuf' = Tail(m_rxBuf)
  BY DEF Consume, QueuesConsistent
<1> HIDE DEF S
<1>2. f \in S /\ m_rxBuf' \in Seq(S)
  BY <1>1, SeqSteps
<1> QED
  BY <1>2 DEF S

\* What an answer adds to the frames under way.
LEMMA Answered ==
  ASSUME NEW S, owed \in Seq(S), NEW frames \in Seq(S), owed' = owed \o frames
  PROVE  owed' \in Seq(S)
  OBVIOUS

\* The connection is lost: nothing is left under way.
LEMMA DisconnectedQueues ==
  ASSUME Disconnected, NEW r, Closed(r)
  PROVE  QueuesConsistent'
<1>1. node' \in Config /\ owed' = <<>> /\ m_rxBuf' = <<>>
  BY DEF Disconnected, Closed, onDisconnected
<1> QED
  BY <1>1 DEF QueuesConsistent

\* A message over a connection that stays leaves proper frames.
LEMMA AnswerQueues ==
  ASSUME QueuesConsistent, NEW frames \in Seq(FrameOf(node, m_subDeviceNames)),
         Answer(frames), UNCHANGED m_subDeviceNames,
         m_rxBuf' \in Seq(FrameOf(node, m_subDeviceNames))
  PROVE  QueuesConsistent'
<1> DEFINE S == FrameOf(node, m_subDeviceNames)
<1>1. node' = node /\ FrameOf(node', m_subDeviceNames') = S
  BY DEF Answer
<1>2. owed \in Seq(S) /\ owed' = owed \o frames /\ node \in Config
  BY DEF Answer, QueuesConsistent
<1>3. owed' \in Seq(S)
  <2> HIDE DEF S
  <2> QED
    BY <1>2, Answered DEF S
<1> QED
  BY <1>1, <1>2, <1>3 DEF QueuesConsistent

\* A step that leaves the node, what it sends and the names alone.
LEMMA SameQueues ==
  ASSUME QueuesConsistent, UNCHANGED <<node, owed, m_subDeviceNames>>,
         m_rxBuf' \in Seq(FrameOf(node, m_subDeviceNames))
  PROVE  QueuesConsistent'
  BY DEF QueuesConsistent

\* What is under way, and what has arrived, remains the node's.
LEMMA StepQueues ==
  ASSUME Inv, QueuesConsistent, SessionNext
  PROVE  QueuesConsistent'
<1> DEFINE S == FrameOf(node, m_subDeviceNames)
<1>0. /\ node \in Config /\ owed \in Seq(S) /\ m_rxBuf \in Seq(S)
      /\ \A f \in {HelloFrame, NoiseFrame, Plain("HelloResponse"), Plain("PingResponse"),
                    Plain("DisconnectRequest")} : <<f>> \in Seq(S)
      /\ <<HelloFrame, NoiseFrame>> \in Seq(S)
  BY PlainFrames DEF QueuesConsistent
<1> HIDE DEF S
<1> USE DEF nodeVars, listingVars, sessionVars
<1>1. CASE NodeCloses \/ HandshakeLate \/ CloseIsComplete
  BY <1>1, DisconnectedQueues
  DEF NodeCloses, HandshakeLate, CloseIsComplete, PeerCloses, onHandshakeTimer, CloseCompletes
<1>2. CASE \/ mqttConnected \/ MqttLost \/ NodeRefuses \/ BytesSent
           \/ (\E s \in SubName : removeSubDevice(s)) \/ \E a \in BOOLEAN : updateMain(a)
  <2>1. m_rxBuf' = m_rxBuf
    BY <1>2
    DEF mqttConnected, MqttLost, NodeRefuses, BytesSent, removeSubDevice, updateMain,
        updateDevice, ConnectFails, Flush, vars
  <2>2. UNCHANGED <<node, owed, m_subDeviceNames>>
    BY <1>2 DEF mqttConnected, MqttLost, NodeRefuses, BytesSent, removeSubDevice, updateMain
  <2> QED
    BY <2>1, <2>2, <1>0, SameQueues DEF S
<1>3. CASE Redial
  <2>0. m_rxBuf' = <<>> \/ m_rxBuf' = m_rxBuf
    BY <1>3 DEF Redial, onReconnectTimer, connectToDevice
  <2>1. m_rxBuf' \in Seq(S)
    <3>1. m_rxBuf \in Seq(S)
      BY <1>0
    <3>2. <<>> \in Seq(S)
      OBVIOUS
    <3> QED
      BY <2>0, <3>1, <3>2, Zenon
  <2> QED
    BY <1>3, <2>1, SameQueues DEF Redial, S
<1>4. CASE NodeShutsDown
  <2>0. Plain("DisconnectRequest") \in S
    BY PlainFrames DEF S
  <2>1. owed' = Append(owed, Plain("DisconnectRequest"))
    BY <1>4 DEF NodeShutsDown
  <2>2. owed' \in Seq(S)
    BY <1>0, <2>0, <2>1
  <2>3. UNCHANGED <<node, m_subDeviceNames, m_rxBuf>>
    BY <1>4 DEF NodeShutsDown, vars
  <2> QED
    BY <1>0, <2>2, <2>3 DEF QueuesConsistent, S
<1>5. CASE NodeAccepts
  <2>1. m_rxBuf' = m_rxBuf
    BY <1>5 DEF NodeAccepts, onConnected
  <2> QED
    BY <1>0, <1>5, <2>1, AnswerQueues DEF NodeAccepts, S
<1>6. CASE Ping
  <2>1. m_rxBuf' = m_rxBuf
    BY <1>6 DEF Ping, onPingTimer
  <2>2. UNCHANGED m_subDeviceNames /\ (UNCHANGED nodeVars \/ Answer(<<Plain("PingResponse")>>))
    BY <1>6 DEF Ping
  <2> QED
    BY <1>0, <2>1, <2>2, AnswerQueues, SameQueues DEF S
<1>7. ASSUME NEW n \in 1..Len(owed), Receive(n) PROVE QueuesConsistent'
  <2>1. SubSeq(owed, 1, n) \in Seq(S) /\ SubSeq(owed, n + 1, Len(owed)) \in Seq(S)
    BY <1>0, SeqSteps
  <2>2. owed' \in Seq(S) /\ m_rxBuf' = m_rxBuf \o SubSeq(owed, 1, n)
    BY <1>7, <2>1 DEF Receive, onReadyRead
  <2>3. m_rxBuf' \in Seq(S)
    BY <1>0, <2>1, <2>2, SeqSteps
  <2>4. UNCHANGED <<node, m_subDeviceNames>>
    BY <1>7 DEF Receive
  <2> QED
    BY <1>0, <2>2, <2>3, <2>4 DEF QueuesConsistent, S
<1>8. CASE ReceiveEnds
  <2>1. m_rxBuf' = m_rxBuf
    BY <1>8 DEF ReceiveEnds, ReadLoopEnds
  <2> QED
    BY <1>0, <1>8, <2>1, SameQueues DEF ReceiveEnds, S
<1>9. ASSUME NEW f, ReceiveHello(f) \/ ReceiveEntity(f) \/ ReceiveDone(f) \/ ReceivePing(f)
                    \/ ReceiveShutdown(f)
      PROVE  QueuesConsistent'
  <2>1. Consume(f) /\ UNCHANGED <<node, owed, m_subDeviceNames>>
    BY <1>9
    DEF ReceiveHello, ReceiveEntity, ReceiveDone, ReceivePing, ReceiveShutdown,
        ServerHelloFrame, PassiveMessage, ListEntitiesDone, DisconnectRequest, Message
  <2> QED
    BY <2>1, ConsumedFrame, SameQueues
<1>10. ASSUME NEW f, ReceiveNoise(f) PROVE QueuesConsistent'
  <2>1. Consume(f)
    BY <1>10 DEF ReceiveNoise, NoiseHandshakeFrame
  <2> QED
    BY <1>0, <1>10, <2>1, ConsumedFrame, AnswerQueues DEF ReceiveNoise, S
<1>11. ASSUME NEW f, ReceiveHelloResponse(f) PROVE QueuesConsistent'
  <2>1. Consume(f)
    BY <1>11 DEF ReceiveHelloResponse, HelloResponse, Message
  <2>2. <<DeviceInfo(node)>> \in Seq(FrameOf(node, m_subDeviceNames))
    BY <1>0, InfoFrame
  <2> QED
    BY <1>11, <2>1, <2>2, ConsumedFrame, AnswerQueues DEF ReceiveHelloResponse
<1>12. ASSUME NEW f, ReceiveDeviceInfo(f) PROVE QueuesConsistent'
  <2> DEFINE T == FrameOf(node, node.names)
  <2>1. Consume(f) /\ f.plaintext = "DeviceInfoResponse"
    BY <1>12 DEF ReceiveDeviceInfo, DeviceInfoResponse, Message
  <2>2. m_subDeviceNames' = node.names
    BY <1>12, <2>1, ConsumedFrame DEF ReceiveDeviceInfo, FrameOf
  <2>3. S \subseteq T
    BY FramesGrow DEF S
  <2>4. Listing(node) \in Seq(T)
    BY <1>0, ListingFrames
  <2>5. m_rxBuf' \in Seq(S)
    BY <2>1, ConsumedFrame DEF S
  <2>6. node' = node /\ owed' = owed \o Listing(node)
    BY <1>12 DEF ReceiveDeviceInfo, Answer
  <2> HIDE DEF T
  <2>7. owed \in Seq(T) /\ m_rxBuf' \in Seq(T)
    BY <1>0, <2>3, <2>5, SeqOfMore
  <2>8. owed' \in Seq(T)
    BY <2>4, <2>6, <2>7, Answered
  <2> QED
    BY <1>0, <2>2, <2>6, <2>7, <2>8 DEF QueuesConsistent, T
<1>13. CASE addDevice \/ removeDevice
  <2>1. node' = node /\ owed' = <<>> /\ m_rxBuf' = <<>>
    BY <1>13 DEF addDevice, removeDevice, connectDevice, connectToDevice, disconnectDevice
  <2> QED
    BY <1>0, <2>1 DEF QueuesConsistent
<1> QED
  BY <1>1, <1>2, <1>3, <1>4, <1>5, <1>6, <1>7, <1>8, <1>9, <1>10, <1>11, <1>12, <1>13
  DEF SessionNext, ReceiveLoop

\* What ListEntitiesDone applies: every sub-device it is about has a name.
LEMMA Discovered ==
  ASSUME PendingNamed
  PROVE  \A id \in SubIds : id \in DOMAIN m_subDeviceNames /\ m_subDeviceNames[id] \in SubName
<1> DEFINE E == [device : DOMAIN m_subDeviceNames \cup {0}, key : Nat]
<1>1. m_pendingEntities \in Seq(E)
  BY DEF PendingNamed
<1>2. DOMAIN m_pendingEntities = 1..Len(m_pendingEntities)
  BY <1>1
<1>3. \A j \in DOMAIN m_pendingEntities : m_pendingEntities[j] \in E
  BY <1>1, <1>2, SeqElement, Zenon
<1>4. \A id \in SubIds : id \in DOMAIN m_subDeviceNames
  BY <1>3 DEF SubIds
<1> QED
  BY <1>4 DEF PendingNamed

\* Every pending entity remains that of a device with a name.
LEMMA StepPending ==
  ASSUME Inv, QueuesConsistent, PendingNamed, SessionNext
  PROVE  PendingNamed'
<1> USE DEF nodeVars, listingVars, listVars, sessionVars
<1>1. ASSUME NEW f, ReceiveEntity(f) PROVE PendingNamed'
  <2>1. Consume(f) /\ f.plaintext = "ListEntities"
    BY <1>1 DEF ReceiveEntity, PassiveMessage, Message
  <2>2. f.entity \in [device : DOMAIN m_subDeviceNames \cup {0}, key : Nat]
    BY <2>1, ConsumedFrame, EntitiesNamed DEF FrameOf, QueuesConsistent
  <2>3. m_pendingEntities' \in Seq([device : DOMAIN m_subDeviceNames \cup {0}, key : Nat])
    BY <1>1, <2>2 DEF ReceiveEntity, PendingNamed
  <2> QED
    BY <1>1, <2>3 DEF ReceiveEntity, PendingNamed
<1>2. ASSUME NEW f, ReceiveDeviceInfo(f) PROVE PendingNamed'
  <2>1. Consume(f) /\ f.plaintext = "DeviceInfoResponse"
    BY <1>2 DEF ReceiveDeviceInfo, DeviceInfoResponse, Message
  <2>2. m_subDeviceNames' = node.names /\ node \in Config
    BY <1>2, <2>1, ConsumedFrame DEF ReceiveDeviceInfo, FrameOf, QueuesConsistent
  <2>3. m_pendingEntities' = <<>> /\ registered' = registered
    BY <1>2 DEF ReceiveDeviceInfo
  <2> QED
    BY <2>2, <2>3, ConfigAssumption DEF PendingNamed
<1>3. ASSUME NEW f, ReceiveDone(f) PROVE PendingNamed'
  <2>1. UNCHANGED listingVars
    BY <1>3 DEF ReceiveDone
  <2>2. registered' \subseteq SubName
    BY <1>3, Discovered DEF ReceiveDone, applyDiscoveredEntities, subDevice, PendingNamed
  <2> QED
    BY <2>1, <2>2 DEF PendingNamed
<1>4. CASE addDevice
  <2>1. m_subDeviceNames' = <<>> /\ m_pendingEntities' = <<>> /\ registered' = registered
    BY <1>4 DEF addDevice
  <2> QED
    BY <2>1 DEF PendingNamed
<1>5. CASE removeDevice \/ \E s \in SubName : removeSubDevice(s)
  <2>1. UNCHANGED listingVars /\ registered' \subseteq registered
    BY <1>5 DEF removeDevice, removeSubDevice
  <2> QED
    BY <2>1 DEF PendingNamed
<1>6. ASSUME UNCHANGED listingVars, UNCHANGED registered PROVE PendingNamed'
  BY <1>6 DEF PendingNamed
<1>7. CASE NodeCloses \/ HandshakeLate \/ CloseIsComplete
  BY <1>6, <1>7 DEF NodeCloses, HandshakeLate, CloseIsComplete, Disconnected
<1>8. CASE \/ mqttConnected \/ MqttLost \/ NodeRefuses \/ BytesSent \/ Redial \/ Ping
           \/ NodeShutsDown \/ NodeAccepts \/ ReceiveEnds
           \/ (\E n \in 1..Len(owed) : Receive(n)) \/ \E a \in BOOLEAN : updateMain(a)
  BY <1>6, <1>8
  DEF mqttConnected, MqttLost, NodeRefuses, BytesSent, Redial, Ping, NodeShutsDown, NodeAccepts,
      ReceiveEnds, Receive, updateMain
<1>9. ASSUME NEW f, ReceiveHello(f) \/ ReceiveNoise(f) \/ ReceiveHelloResponse(f)
                    \/ ReceivePing(f) \/ ReceiveShutdown(f)
      PROVE  PendingNamed'
  BY <1>6, <1>9 DEF ReceiveHello, ReceiveNoise, ReceiveHelloResponse, ReceivePing, ReceiveShutdown
<1> QED
  BY <1>1, <1>2, <1>3, <1>4, <1>5, <1>7, <1>8, <1>9 DEF SessionNext, ReceiveLoop

-----------------------------------------------------------------------------
(***************************************************************************)
(* The answers under way                                                   *)
(***************************************************************************)
\* What has arrived and what has not are one queue: an arrival leaves it as it
\* is.
LEMMA Arrival ==
  ASSUME NEW S, NEW rx \in Seq(S), NEW ow \in Seq(S)
  PROVE  \A n \in 1..Len(ow) :
           (rx \o SubSeq(ow, 1, n)) \o SubSeq(ow, n + 1, Len(ow)) = rx \o ow
<1>1. \A first, rest \in Seq(S) : (rx \o first) \o rest = rx \o (first \o rest)
  BY ConcatAssociative
<1> TAKE n \in 1..Len(ow)
<1>2. SubSeq(ow, 1, n) \in Seq(S) /\ SubSeq(ow, n + 1, Len(ow)) \in Seq(S)
  BY SeqSteps
<1>3. SubSeq(ow, 1, n) \o SubSeq(ow, n + 1, Len(ow)) = SubSeq(ow, 1, Len(ow))
  BY ConcatAdjacentSubSeq
<1>4. SubSeq(ow, 1, Len(ow)) = ow
  BY SubSeqFull
<1>5. (rx \o SubSeq(ow, 1, n)) \o SubSeq(ow, n + 1, Len(ow))
        = rx \o (SubSeq(ow, 1, n) \o SubSeq(ow, n + 1, Len(ow)))
  BY <1>1, <1>2, Zenon
<1> QED
  BY <1>3, <1>4, <1>5, Zenon

\* A consumed frame is the head of the queue.
LEMMA QueueHead ==
  ASSUME NEW S, NEW rx \in Seq(S), NEW ow \in Seq(S), rx # <<>>
  PROVE  /\ Tail(rx) \o ow = Tail(rx \o ow)
         /\ Head(rx) = Head(rx \o ow)
         /\ rx \o ow # <<>>
         /\ Tail(rx) \in Seq(S)
  OBVIOUS

\* An answer goes to the end of the queue.
LEMMA OneQueue ==
  ASSUME NEW S, NEW rx \in Seq(S), NEW ow \in Seq(S), NEW frames \in Seq(S)
  PROVE  /\ rx \o (ow \o frames) = (rx \o ow) \o frames
         /\ rx # <<>> => Tail(rx) \o (ow \o frames) = Tail(rx \o ow) \o frames
<1>1. \A s, t, u \in Seq(S) : (s \o t) \o u = s \o (t \o u)
  BY ConcatAssociative
<1>2. rx # <<>> => Tail(rx) \in Seq(S) /\ Tail(rx) \o ow = Tail(rx \o ow)
  BY QueueHead
<1>3. (rx \o ow) \o frames = rx \o (ow \o frames)
  BY <1>1, Zenon
<1>4. Tail(rx) \in Seq(S) => (Tail(rx) \o ow) \o frames = Tail(rx) \o (ow \o frames)
  BY <1>1, Zenon
<1> QED
  BY <1>2, <1>3, <1>4, Zenon

\* The frames of a queue that ends in frames.
LEMMA Concatenated ==
  ASSUME NEW S, NEW q \in Seq(S), NEW frames \in Seq(S)
  PROVE  /\ q \o frames \in Seq(S)
         /\ DOMAIN (q \o frames) = 1..(Len(q) + Len(frames))
         /\ DOMAIN q = 1..Len(q) /\ DOMAIN frames = 1..Len(frames)
         /\ Len(q) \in Nat /\ Len(frames) \in Nat
         /\ \A j \in 1..Len(q) : (q \o frames)[j] = q[j]
         /\ \A j \in 1..Len(frames) : (q \o frames)[Len(q) + j] = frames[j]
         /\ \A j \in 1..(Len(q) + Len(frames)) : j > Len(q) => (q \o frames)[j] = frames[j - Len(q)]
  OBVIOUS

\* The frames of a queue without its head.
LEMMA Remaining ==
  ASSUME NEW S, NEW q \in Seq(S), q # <<>>
  PROVE  /\ Tail(q) \in Seq(S) /\ Head(q) = q[1] /\ Head(q) \in S
         /\ DOMAIN q = 1..Len(q) /\ Len(q) \in Nat \ {0}
         /\ DOMAIN Tail(q) = 1..(Len(q) - 1)
         /\ \A j \in 1..(Len(q) - 1) : Tail(q)[j] = q[j + 1]
  OBVIOUS

\* A frame that the progress of a connection does not depend on.
Idling(f) == f.plaintext \notin Milestones \cup {"ListEntities"}
Quiet(q)  == \A j \in DOMAIN q : Idling(q[j])

\* Where no answer is due there is none, and then any state will do.
LEMMA QuietOrderly ==
  ASSUME NEW q, NEW state
  PROVE  /\ Quiet(q) => Orderly(q, state)
         /\ Orderly(q, state) /\ Due(state) = {} => Quiet(q)
  BY DEF Quiet, Idling, Orderly

\* A consumed frame leaves the rest in order, and a milestone leaves nothing
\* to wait for.
LEMMA OrderlyTail ==
  ASSUME NEW S, NEW q \in Seq(S), q # <<>>, NEW state, Orderly(q, state)
  PROVE  /\ Orderly(Tail(q), state)
         /\ Quiet(q) => Quiet(Tail(q))
         /\ Head(q).plaintext \in Milestones => Quiet(Tail(q))
         /\ Head(q).plaintext \in Milestones \cup {"ListEntities"} => Head(q).plaintext \in Due(state)
<1>1. /\ DOMAIN q = 1..Len(q) /\ Len(q) \in Nat \ {0} /\ Head(q) = q[1]
      /\ DOMAIN Tail(q) = 1..(Len(q) - 1)
      /\ \A j \in 1..(Len(q) - 1) : Tail(q)[j] = q[j + 1]
  BY Remaining
<1>2. \A j \in DOMAIN Tail(q) : j + 1 \in DOMAIN q /\ 1 < j + 1 /\ Tail(q)[j] = q[j + 1]
  BY <1>1
<1>3. 1 \in DOMAIN q
  BY <1>1
<1>4. Head(q).plaintext \in Milestones \cup {"ListEntities"} => Head(q).plaintext \in Due(state)
  BY <1>1, <1>3 DEF Orderly
<1>5. Orderly(Tail(q), state)
  <2>1. \A i, j \in DOMAIN Tail(q) : (i + 1 = j + 1 => i = j) /\ (i < j => i + 1 < j + 1)
    BY <1>1
  <2>2. \A j \in DOMAIN Tail(q) :
          Tail(q)[j].plaintext \in Milestones \cup {"ListEntities"} => Tail(q)[j].plaintext \in Due(state)
    BY <1>2 DEF Orderly
  <2>3. ASSUME NEW i \in DOMAIN Tail(q), NEW j \in DOMAIN Tail(q)
        PROVE  /\ Tail(q)[i].plaintext \in Milestones /\ Tail(q)[j].plaintext \in Milestones => i = j
               /\ i < j /\ Tail(q)[i].plaintext = "ListEntitiesDone"
                    => Tail(q)[j].plaintext # "ListEntities"
    <3>1. /\ i + 1 \in DOMAIN q /\ Tail(q)[i] = q[i + 1]
          /\ j + 1 \in DOMAIN q /\ Tail(q)[j] = q[j + 1]
      BY <1>2
    <3> QED
      BY <2>1, <3>1 DEF Orderly
  <2> QED
    BY <2>2, <2>3 DEF Orderly
<1>6. Quiet(q) => Quiet(Tail(q))
  BY <1>2 DEF Quiet
<1>7. ASSUME Head(q).plaintext \in Milestones PROVE Quiet(Tail(q))
  <2> SUFFICES ASSUME NEW j \in DOMAIN Tail(q) PROVE Idling(Tail(q)[j])
    BY DEF Quiet
  <2>1. q[1].plaintext \in Milestones /\ q[1].plaintext \in Due(state)
    BY <1>1, <1>4, <1>7
  <2>2. j + 1 \in DOMAIN q /\ 1 < j + 1 /\ j + 1 # 1 /\ Tail(q)[j] = q[j + 1]
    BY <1>1, <1>2
  <2>3. q[j + 1].plaintext \notin Milestones
    BY <1>3, <2>1, <2>2 DEF Orderly
  <2>4. q[j + 1].plaintext # "ListEntities"
    <3>1. CASE q[1].plaintext = "ListEntitiesDone"
      BY <1>3, <2>2, <3>1 DEF Orderly
    <3>2. CASE q[1].plaintext # "ListEntitiesDone"
      <4>1. Due(state) = {"HelloResponse", "DeviceInfoResponse"}
        BY <2>1, <3>2 DEF Milestones, Due
      <4> QED
        BY <2>2, <4>1 DEF Orderly
    <3> QED
      BY <3>1, <3>2
  <2> QED
    BY <2>2, <2>3, <2>4 DEF Idling
<1> QED
  BY <1>4, <1>5, <1>6, <1>7

\* More frames that nobody waits for change nothing.
LEMMA OrderlyIdling ==
  ASSUME NEW S, NEW q \in Seq(S), NEW frames \in Seq(S), Quiet(frames), NEW state
  PROVE  /\ Orderly(q, state) => Orderly(q \o frames, state)
         /\ Quiet(q) => Quiet(q \o frames)
<1>1. /\ DOMAIN (q \o frames) = 1..(Len(q) + Len(frames))
      /\ DOMAIN q = 1..Len(q) /\ DOMAIN frames = 1..Len(frames)
      /\ Len(q) \in Nat /\ Len(frames) \in Nat
      /\ \A j \in 1..Len(q) : (q \o frames)[j] = q[j]
      /\ \A j \in 1..(Len(q) + Len(frames)) : j > Len(q) => (q \o frames)[j] = frames[j - Len(q)]
  BY Concatenated
<1>2. \A j \in DOMAIN (q \o frames) :
        \/ j \in DOMAIN q /\ (q \o frames)[j] = q[j]
        \/ Idling((q \o frames)[j])
  BY <1>1 DEF Quiet
<1> QED
  BY <1>2 DEF Quiet, Idling, Orderly

\* The one answer due to a request that nothing else is due to.
LEMMA OrderlyAnswer ==
  ASSUME NEW S, NEW q \in Seq(S), NEW f \in S, Quiet(q), NEW state,
         f.plaintext \in {"HelloResponse", "DeviceInfoResponse"}, f.plaintext \in Due(state)
  PROVE  Orderly(q \o <<f>>, state)
<1>1. <<f>> \in Seq(S) /\ Len(<<f>>) = 1 /\ <<f>>[1] = f
  OBVIOUS
<1>2. /\ DOMAIN (q \o <<f>>) = 1..(Len(q) + 1)
      /\ DOMAIN q = 1..Len(q) /\ Len(q) \in Nat
      /\ \A j \in 1..Len(q) : (q \o <<f>>)[j] = q[j]
      /\ (q \o <<f>>)[Len(q) + 1] = f
  BY <1>1, Concatenated
<1>3. \A j \in DOMAIN (q \o <<f>>) :
        \/ j = Len(q) + 1 /\ (q \o <<f>>)[j] = f
        \/ Idling((q \o <<f>>)[j])
  BY <1>2 DEF Quiet
<1> QED
  BY <1>3 DEF Idling, Orderly, Milestones

\* The entities that a queue lists.
LEMMA ListedParts ==
  ASSUME NEW S, NEW q \in Seq(S), NEW frames \in Seq(S)
  PROVE  /\ ListedBy(q) \subseteq ListedBy(q \o frames)
         /\ ListedBy(frames) \subseteq ListedBy(q \o frames)
         /\ q # <<>> =>
              ListedBy(q) \subseteq ListedBy(Tail(q))
                \cup (IF Head(q).plaintext = "ListEntities" THEN {Head(q).entity} ELSE {})
         /\ Quiet(q) => ListedBy(q) = {}
<1>1. /\ DOMAIN (q \o frames) = 1..(Len(q) + Len(frames))
      /\ DOMAIN q = 1..Len(q) /\ DOMAIN frames = 1..Len(frames)
      /\ Len(q) \in Nat /\ Len(frames) \in Nat
      /\ \A j \in 1..Len(q) : (q \o frames)[j] = q[j]
      /\ \A j \in 1..Len(frames) : (q \o frames)[Len(q) + j] = frames[j]
  BY Concatenated
<1>2. ListedBy(q) \subseteq ListedBy(q \o frames)
  <2>1. \A j \in DOMAIN q : j \in DOMAIN (q \o frames) /\ (q \o frames)[j] = q[j]
    BY <1>1
  <2> QED
    BY <2>1 DEF ListedBy
<1>3. ListedBy(frames) \subseteq ListedBy(q \o frames)
  <2>1. \A j \in DOMAIN frames :
          Len(q) + j \in DOMAIN (q \o frames) /\ (q \o frames)[Len(q) + j] = frames[j]
    BY <1>1
  <2> QED
    BY <2>1 DEF ListedBy
<1>4. ASSUME q # <<>>
      PROVE  ListedBy(q) \subseteq ListedBy(Tail(q))
               \cup (IF Head(q).plaintext = "ListEntities" THEN {Head(q).entity} ELSE {})
  <2>1. /\ Head(q) = q[1]
        /\ DOMAIN q = 1..Len(q) /\ Len(q) \in Nat \ {0}
        /\ DOMAIN Tail(q) = 1..(Len(q) - 1)
        /\ \A j \in 1..(Len(q) - 1) : Tail(q)[j] = q[j + 1]
    BY <1>4, Remaining
  <2>2. ASSUME NEW j \in DOMAIN q
        PROVE  j = 1 \/ \E k \in DOMAIN Tail(q) : Tail(q)[k] = q[j]
    <3>1. j = 1 \/ (j - 1 \in 1..(Len(q) - 1) /\ (j - 1) + 1 = j)
      BY <2>1
    <3> QED
      BY <2>1, <3>1
  <2> QED
    BY <2>1, <2>2 DEF ListedBy
<1>5. Quiet(q) => ListedBy(q) = {}
  BY DEF Quiet, Idling, ListedBy
<1> QED
  BY <1>2, <1>3, <1>4, <1>5

\* A listing, and nothing else that is waited for.
LEMMA OrderlyListing ==
  ASSUME NEW S, NEW q \in Seq(S), NEW c \in Config, Listing(c) \in Seq(S), Quiet(q)
  PROVE  /\ Orderly(q \o Listing(c), "ListEntities")
         /\ Range(c.entities) \subseteq ListedBy(Listing(c))
<1> DEFINE list == Listing(c)
           all  == q \o list
           n    == Len(c.entities)
<1>1. /\ DOMAIN list = 1..(n + 1) /\ n \in Nat /\ DOMAIN c.entities = 1..n
      /\ \A j \in 1..n : list[j].plaintext = "ListEntities" /\ list[j].entity = c.entities[j]
      /\ list[n + 1].plaintext = "ListEntitiesDone"
  <2>1. \A j : EntityInfo(c, j).plaintext = "ListEntities" /\ EntityInfo(c, j).entity = c.entities[j]
    BY DEF EntityInfo, Plain
  <2>2. Plain("ListEntitiesDone").plaintext = "ListEntitiesDone"
    BY DEF Plain
  <2> QED
    BY <2>1, <2>2, ListingShape
<1> HIDE DEF list, n
<1>0. list \in Seq(S)
  BY DEF list
<1>2. Len(list) = n + 1
  BY <1>0, <1>1
<1>3. /\ DOMAIN all = 1..(Len(q) + (n + 1))
      /\ DOMAIN q = 1..Len(q) /\ Len(q) \in Nat
      /\ \A j \in 1..Len(q) : all[j] = q[j]
      /\ \A j \in 1..(Len(q) + (n + 1)) : j > Len(q) => all[j] = list[j - Len(q)]
  BY <1>0, <1>2, Concatenated
<1> HIDE DEF all
<1>4. ASSUME NEW j \in DOMAIN all
      PROVE  \/ j <= Len(q) /\ Idling(all[j])
             \/ j > Len(q) /\ j < Len(q) + n + 1 /\ all[j].plaintext = "ListEntities"
             \/ j = Len(q) + n + 1 /\ all[j].plaintext = "ListEntitiesDone"
  <2>1. CASE j <= Len(q)
    BY <1>1, <1>3, <2>1 DEF Quiet
  <2>2. CASE j > Len(q)
    <3>1. j - Len(q) \in 1..(n + 1) /\ all[j] = list[j - Len(q)]
      BY <1>1, <1>3, <2>2
    <3>2. j - Len(q) \in 1..n \/ j - Len(q) = n + 1
      BY <1>1, <1>3, <3>1
    <3> QED
      BY <1>1, <1>3, <2>2, <3>1, <3>2
  <2> QED
    BY <1>1, <1>3, <2>1, <2>2
<1>5. Orderly(all, "ListEntities")
  <2>1. \A j \in DOMAIN all :
          all[j].plaintext \in Milestones \cup {"ListEntities"} => all[j].plaintext \in Due("ListEntities")
    BY <1>4 DEF Idling, Due
  <2>2. \A j \in DOMAIN all : all[j].plaintext \in Milestones => j = Len(q) + n + 1
    BY <1>4 DEF Idling, Milestones
  <2>3. ASSUME NEW i \in DOMAIN all, NEW j \in DOMAIN all, i < j,
               all[i].plaintext = "ListEntitiesDone"
        PROVE  all[j].plaintext # "ListEntities"
    BY <1>1, <1>3, <2>2, <2>3 DEF Milestones
  <2> QED
    BY <2>1, <2>2, <2>3 DEF Orderly
<1>6. Range(c.entities) \subseteq ListedBy(list)
  <2>1. \A j \in DOMAIN c.entities :
          j \in DOMAIN list /\ list[j].plaintext = "ListEntities" /\ list[j].entity = c.entities[j]
    BY <1>1
  <2> QED
    BY <2>1 DEF Range, ListedBy
<1> QED
  BY <1>5, <1>6 DEF all, list

\* While a frame is being read the queue is the buffer and more.
LEMMA HeadOfQueue ==
  ASSUME QueuesConsistent, NEW f, Consume(f)
  PROVE  /\ Underway \in Seq(Frame) /\ Underway # <<>> /\ f = Head(Underway)
         /\ owed' = owed => Underway' = Tail(Underway)
         /\ \A frames \in Seq(Frame) : Answer(frames) => Underway' = Tail(Underway) \o frames
<1>1. owed \in Seq(Frame) /\ m_rxBuf \in Seq(Frame)
  BY FramesGrow, SeqOfMore DEF QueuesConsistent
<1>2. m_rxBuf # <<>> /\ f = Head(m_rxBuf) /\ m_rxBuf' = Tail(m_rxBuf)
  BY DEF Consume
<1>3. Underway \in Seq(Frame)
  BY <1>1, SeqSteps DEF Underway
<1>4. Underway # <<>> /\ f = Head(Underway) /\ Tail(m_rxBuf) \o owed = Tail(Underway)
  BY <1>1, <1>2, QueueHead DEF Underway
<1>5. owed' = owed => Underway' = Tail(Underway)
  BY <1>2, <1>4 DEF Underway
<1>6. ASSUME NEW frames \in Seq(Frame), Answer(frames) PROVE Underway' = Tail(Underway) \o frames
  <2>1. Tail(m_rxBuf) \o (owed \o frames) = Tail(Underway) \o frames
    BY <1>1, <1>2, OneQueue DEF Underway
  <2> QED
    BY <1>2, <1>6, <2>1 DEF Underway, Answer
<1> QED
  BY <1>3, <1>4, <1>5, <1>6

\* A step that leaves the state, the queue and the listing alone.
LEMMA SameListing ==
  ASSUME Orderly(Underway, m_state), ListingWhole,
         Underway' = Underway, UNCHANGED <<node, listingVars, m_state>>
  PROVE  Orderly(Underway, m_state)' /\ ListingWhole'
  BY DEF Orderly, ListingWhole, listingVars

\* Nothing is under way on a connection that has only begun or has ended.
LEMMA NoListing ==
  ASSUME Quiet(Underway'), m_state' # "ListEntities"
  PROVE  Orderly(Underway, m_state)' /\ ListingWhole'
  BY QuietOrderly DEF ListingWhole

\* Answers that nobody waits for do not disturb a listing.
LEMMA IdlingListing ==
  ASSUME Underway \in Seq(Frame), NEW frames \in Seq(Frame), Quiet(frames),
         Orderly(Underway, m_state), ListingWhole,
         Underway' = Underway \o frames, UNCHANGED <<node, listingVars, m_state>>
  PROVE  Orderly(Underway, m_state)' /\ ListingWhole'
<1>1. Orderly(Underway', m_state')
  BY OrderlyIdling
<1>2. ListedBy(Underway) \subseteq ListedBy(Underway')
  BY ListedParts
<1> QED
  BY <1>1, <1>2 DEF ListingWhole, listingVars

\* The next answer is taken from the queue: the listing goes on, or it begins
\* and ends as the milestones say.
LEMMA ConsumedListing ==
  ASSUME QueuesConsistent, PendingNamed, Orderly(Underway, m_state), ListingWhole, NEW f,
         \/ ReceiveHello(f) \/ ReceiveNoise(f) \/ ReceiveHelloResponse(f)
         \/ ReceiveDeviceInfo(f) \/ ReceiveEntity(f) \/ ReceiveDone(f)
         \/ ReceivePing(f) \/ ReceiveShutdown(f)
  PROVE  Orderly(Underway, m_state)' /\ ListingWhole'
<1> USE DEF nodeVars, listingVars, sessionVars
<1>0. Consume(f) /\ f \in FrameOf(node, m_subDeviceNames) /\ node \in Config
  BY ConsumedFrame
  DEF ReceiveHello, ReceiveNoise, ReceiveHelloResponse, ReceiveDeviceInfo, ReceiveEntity,
      ReceiveDone, ReceivePing, ReceiveShutdown, ServerHelloFrame, NoiseHandshakeFrame,
      HelloResponse, DeviceInfoResponse, PassiveMessage, ListEntitiesDone, DisconnectRequest,
      Message, QueuesConsistent
<1>1. /\ Underway \in Seq(Frame) /\ Underway # <<>> /\ f = Head(Underway)
      /\ owed' = owed => Underway' = Tail(Underway)
      /\ \A frames \in Seq(Frame) : Answer(frames) => Underway' = Tail(Underway) \o frames
      /\ Tail(Underway) \in Seq(Frame)
  BY <1>0, HeadOfQueue, Remaining
<1>2. /\ Orderly(Tail(Underway), m_state)
      /\ Quiet(Underway) => Quiet(Tail(Underway))
      /\ f.plaintext \in Milestones => Quiet(Tail(Underway))
      /\ f.plaintext \in Milestones \cup {"ListEntities"} => f.plaintext \in Due(m_state)
  BY <1>1, OrderlyTail
<1>3. Due(m_state) = {} => Quiet(Tail(Underway))
  BY <1>2, QuietOrderly
<1>4. Plain("HelloResponse") \in Frame /\ DeviceInfo(node) \in Frame
  BY <1>0, PlainFrames, InfoFrame DEF FrameOf
<1>5. CASE ReceiveHello(f)
  <2>1. m_state = "ServerHello" /\ m_state' = "NoiseHandshake" /\ owed' = owed
    BY <1>5 DEF ReceiveHello, ServerHelloFrame
  <2> QED
    BY <1>1, <1>3, <2>1, NoListing DEF Due
<1>6. CASE ReceiveNoise(f)
  <2>1. m_state = "NoiseHandshake" /\ m_state' = "Ready" /\ Answer(<<Plain("HelloResponse")>>)
    BY <1>6 DEF ReceiveNoise, NoiseHandshakeFrame
  <2>2. Quiet(Tail(Underway))
    BY <1>3, <2>1 DEF Due
  <2>3. Underway' = Tail(Underway) \o <<Plain("HelloResponse")>>
    <3>1. <<Plain("HelloResponse")>> \in Seq(Frame)
      BY <1>4
    <3> QED
      BY <1>1, <2>1, <3>1, Zenon
  <2>4. Plain("HelloResponse").plaintext = "HelloResponse"
    BY DEF Plain
  <2>5. Orderly(Underway', "Ready")
    <3> DEFINE q == Tail(Underway)
               g == Plain("HelloResponse")
    <3>1. q \in Seq(Frame) /\ g \in Frame /\ Quiet(q)
      BY <1>1, <1>4, <2>2
    <3>2. g.plaintext \in {"HelloResponse", "DeviceInfoResponse"} /\ g.plaintext \in Due("Ready")
      BY <2>4 DEF Due
    <3> HIDE DEF q, g
    <3>3. Orderly(q \o <<g>>, "Ready")
      BY <3>1, <3>2, OrderlyAnswer
    <3> QED
      BY <2>3, <3>3 DEF q, g
  <2> QED
    BY <2>1, <2>5 DEF ListingWhole
<1>7. CASE ReceiveHelloResponse(f)
  <2>1. /\ f.plaintext = "HelloResponse" /\ m_state' = m_state /\ Answer(<<DeviceInfo(node)>>)
    BY <1>7 DEF ReceiveHelloResponse, HelloResponse, Message
  <2>2. Quiet(Tail(Underway)) /\ m_state = "Ready"
    BY <1>2, <2>1 DEF Due, Milestones
  <2>3. Underway' = Tail(Underway) \o <<DeviceInfo(node)>>
    <3>1. <<DeviceInfo(node)>> \in Seq(Frame)
      BY <1>4
    <3> QED
      BY <1>1, <2>1, <3>1, Zenon
  <2>4. DeviceInfo(node).plaintext = "DeviceInfoResponse"
    BY DEF DeviceInfo, Plain
  <2>5. Orderly(Underway', "Ready")
    <3> DEFINE q == Tail(Underway)
               g == DeviceInfo(node)
    <3>1. q \in Seq(Frame) /\ g \in Frame /\ Quiet(q)
      BY <1>1, <1>4, <2>2
    <3>2. g.plaintext \in {"HelloResponse", "DeviceInfoResponse"} /\ g.plaintext \in Due("Ready")
      BY <2>4 DEF Due
    <3> HIDE DEF q, g
    <3>3. Orderly(q \o <<g>>, "Ready")
      BY <3>1, <3>2, OrderlyAnswer
    <3> QED
      BY <2>3, <3>3 DEF q, g
  <2> QED
    BY <2>1, <2>2, <2>5 DEF ListingWhole
<1>8. CASE ReceiveDeviceInfo(f)
  <2>1. /\ f.plaintext = "DeviceInfoResponse" /\ m_state' = "ListEntities"
        /\ Answer(Listing(node)) /\ m_subDeviceNames' = f.names /\ m_pendingEntities' = <<>>
    BY <1>8 DEF ReceiveDeviceInfo, DeviceInfoResponse, Message
  <2>2. Quiet(Tail(Underway))
    BY <1>2, <2>1 DEF Milestones
  <2>3. Listing(node) \in Seq(Frame)
    BY <1>0, ListingFrames, FramesGrow, SeqOfMore
  <2>4. Underway' = Tail(Underway) \o Listing(node)
    BY <1>1, <2>1, <2>3
  <2>5. Orderly(Underway', "ListEntities") /\ Range(node.entities) \subseteq ListedBy(Listing(node))
    BY <1>0, <1>1, <2>2, <2>3, <2>4, OrderlyListing
  <2>6. ListedBy(Listing(node)) \subseteq ListedBy(Underway')
    BY <1>1, <2>3, <2>4, ListedParts
  <2>7. m_subDeviceNames' = node.names /\ node' = node
    BY <1>0, <2>1 DEF FrameOf, Answer
  <2>8. Range(m_pendingEntities') = {}
    BY <2>1 DEF Range
  <2> QED
    BY <2>1, <2>5, <2>6, <2>7, <2>8 DEF ListingWhole
<1>9. CASE ReceiveEntity(f)
  <2>1. /\ f.plaintext = "ListEntities" /\ UNCHANGED <<node, owed, m_state, m_subDeviceNames>>
        /\ m_pendingEntities' = Append(m_pendingEntities, f.entity)
    BY <1>9 DEF ReceiveEntity, PassiveMessage
  <2>2. f.entity \in Range(node.entities) /\ m_state = "ListEntities"
    BY <1>0, <1>2, <2>1 DEF FrameOf, Due
  <2>3. Range(m_pendingEntities') = Range(m_pendingEntities) \cup {f.entity}
    <3>1. m_pendingEntities \in Seq([device : DOMAIN m_subDeviceNames \cup {0}, key : Nat])
      BY DEF PendingNamed
    <3> QED
      BY <2>1, <3>1 DEF Range
  <2>4. ListedBy(Underway) \subseteq ListedBy(Underway') \cup {f.entity}
    BY <1>1, <2>1, ListedParts
  <2> QED
    BY <1>1, <1>2, <2>1, <2>2, <2>3, <2>4 DEF ListingWhole
<1>10. CASE ReceiveDone(f)
  <2>1. /\ f.plaintext = "ListEntitiesDone" /\ m_state' = "Subscribe" /\ owed' = owed
    BY <1>10 DEF ReceiveDone, ListEntitiesDone, Message
  <2> QED
    BY <1>1, <1>2, <2>1, NoListing DEF Milestones
<1>11. CASE ReceivePing(f) \/ ReceiveShutdown(f)
  <2>1. /\ f.plaintext # "ListEntities"
        /\ UNCHANGED <<node, owed, m_state, m_subDeviceNames, m_pendingEntities>>
    BY <1>11 DEF ReceivePing, ReceiveShutdown, PassiveMessage, DisconnectRequest, Message
  <2>2. ListedBy(Underway) \subseteq ListedBy(Underway')
    <3>1. ListedBy(Underway) \subseteq ListedBy(Tail(Underway)) \cup {}
      BY <1>1, <2>1, ListedParts
    <3> QED
      BY <1>1, <2>1, <3>1
  <2> QED
    BY <1>1, <1>2, <2>1, <2>2 DEF ListingWhole
<1> QED
  BY <1>5, <1>6, <1>7, <1>8, <1>9, <1>10, <1>11

\* In every state the answers come in order, and a listing is whole.
LEMMA StepListing ==
  ASSUME Inv, QueuesConsistent, PendingNamed, Orderly(Underway, m_state), ListingWhole, SessionNext
  PROVE  Orderly(Underway, m_state)' /\ ListingWhole'
<1> USE DEF nodeVars, listingVars, sessionVars
<1>0. owed \in Seq(Frame) /\ m_rxBuf \in Seq(Frame) /\ Underway \in Seq(Frame)
  <2>1. owed \in Seq(Frame) /\ m_rxBuf \in Seq(Frame)
    BY FramesGrow, SeqOfMore DEF QueuesConsistent
  <2> QED
    BY <2>1, SeqSteps DEF Underway
<1>1. CASE NodeCloses \/ HandshakeLate \/ CloseIsComplete \/ addDevice \/ removeDevice
  <2>1. owed' = <<>> /\ m_rxBuf' = <<>> /\ m_state' # "ListEntities"
    BY <1>1
    DEF NodeCloses, HandshakeLate, CloseIsComplete, PeerCloses, onHandshakeTimer, CloseCompletes,
        Disconnected, Closed, onDisconnected, addDevice, removeDevice, connectDevice,
        connectToDevice, disconnectDevice
  <2>2. Underway' = <<>>
    BY <2>1 DEF Underway
  <2>3. Quiet(Underway')
    BY <2>2 DEF Quiet
  <2> QED
    BY <2>1, <2>3, NoListing
<1>2. CASE \/ mqttConnected \/ MqttLost \/ NodeRefuses \/ BytesSent \/ ReceiveEnds
           \/ (\E s \in SubName : removeSubDevice(s)) \/ \E a \in BOOLEAN : updateMain(a)
  <2>1. m_rxBuf' = m_rxBuf /\ m_state' = m_state
    BY <1>2
    DEF mqttConnected, MqttLost, NodeRefuses, BytesSent, removeSubDevice, updateMain,
        updateDevice, ConnectFails, Flush, vars, ReceiveEnds, ReadLoopEnds
  <2>2. UNCHANGED <<node, owed, listingVars>>
    BY <1>2
    DEF mqttConnected, MqttLost, NodeRefuses, BytesSent, removeSubDevice, updateMain, ReceiveEnds
  <2> QED
    BY <2>1, <2>2, SameListing DEF Underway
<1>3. ASSUME NEW n \in 1..Len(owed), Receive(n)
      PROVE  Orderly(Underway, m_state)' /\ ListingWhole'
  <2>1. /\ m_rxBuf' = m_rxBuf \o SubSeq(owed, 1, n) /\ owed' = SubSeq(owed, n + 1, Len(owed))
        /\ UNCHANGED <<node, listingVars, m_state>>
    BY <1>3 DEF Receive, onReadyRead
  <2>2. Underway' = Underway
    <3>1. (m_rxBuf \o SubSeq(owed, 1, n)) \o SubSeq(owed, n + 1, Len(owed)) = m_rxBuf \o owed
      BY <1>0, Arrival, Zenon
    <3> QED
      BY <2>1, <3>1, Zenon DEF Underway
  <2> QED
    BY <2>1, <2>2, SameListing
<1>4. CASE Redial
  <2>1. m_state \notin ReadyStates /\ m_state' # "ListEntities" /\ owed' = owed
    BY <1>4
    DEF Redial, onReconnectTimer, connectToDevice, Inv, RetryHarmless, StateMatchesSocket, Open
  <2>2. m_rxBuf' = <<>> \/ m_rxBuf' = m_rxBuf
    BY <1>4 DEF Redial, onReconnectTimer, connectToDevice
  <2>3. Quiet(Underway)
    BY <2>1, QuietOrderly DEF Due, ReadyStates
  <2>4. Quiet(owed)
    <3>1. \A j \in DOMAIN owed : \E k \in DOMAIN Underway : Underway[k] = owed[j]
      <4>1. \A j \in 1..Len(owed) : Len(m_rxBuf) + j \in DOMAIN Underway
                                    /\ Underway[Len(m_rxBuf) + j] = owed[j]
        <5>1. /\ DOMAIN Underway = 1..(Len(m_rxBuf) + Len(owed))
              /\ Len(m_rxBuf) \in Nat /\ Len(owed) \in Nat /\ DOMAIN owed = 1..Len(owed)
              /\ \A j \in 1..Len(owed) : Underway[Len(m_rxBuf) + j] = owed[j]
          BY <1>0, Concatenated DEF Underway
        <5> QED
          BY <5>1
      <4>2. DOMAIN owed = 1..Len(owed)
        BY <1>0
      <4> QED
        BY <4>1, <4>2, Zenon
    <3> QED
      BY <2>3, <3>1 DEF Quiet
  <2>5. <<>> \o owed = owed
    BY <1>0
  <2>6. Underway' = owed \/ Underway' = Underway
    BY <2>1, <2>2, <2>5 DEF Underway
  <2> QED
    BY <2>1, <2>3, <2>4, <2>6, NoListing
<1>5. ASSUME NEW frames \in Seq(Frame), Quiet(frames), owed' = owed \o frames,
             UNCHANGED <<node, listingVars, m_state, m_rxBuf>>
      PROVE  Orderly(Underway, m_state)' /\ ListingWhole'
  <2>1. Underway' = Underway \o frames
    BY <1>0, <1>5, OneQueue DEF Underway
  <2> QED
    BY <1>0, <1>5, <2>1, IdlingListing
<1>6. ASSUME NEW kind \in {"PingResponse", "DisconnectRequest"}
      PROVE  <<Plain(kind)>> \in Seq(Frame) /\ Quiet(<<Plain(kind)>>)
  <2>1. Plain(kind) \in Frame
    BY PlainFrames DEF FrameOf
  <2>2. Plain(kind).plaintext = kind
    BY DEF Plain
  <2> QED
    BY <2>1, <2>2 DEF Quiet, Idling, Milestones
<1>7. CASE NodeShutsDown
  <2>1. owed' = Append(owed, Plain("DisconnectRequest"))
        /\ UNCHANGED <<node, listingVars, m_state, m_rxBuf>>
    BY <1>7 DEF NodeShutsDown, vars
  <2>2. Plain("DisconnectRequest") \in Frame
    BY PlainFrames DEF FrameOf
  <2>3. owed' = owed \o <<Plain("DisconnectRequest")>>
    BY <1>0, <2>1, <2>2, AppendIsConcat
  <2> QED
    BY <1>5, <1>6, <2>1, <2>3
<1>8. CASE Ping
  <2>1. UNCHANGED <<listingVars, m_state, m_rxBuf>>
    BY <1>8 DEF Ping, onPingTimer
  <2>2. UNCHANGED nodeVars \/ Answer(<<Plain("PingResponse")>>)
    BY <1>8 DEF Ping
  <2>3. CASE UNCHANGED nodeVars
    BY <2>1, <2>3, SameListing DEF Underway
  <2>4. CASE Answer(<<Plain("PingResponse")>>)
    BY <1>5, <1>6, <2>1, <2>4 DEF Answer
  <2> QED
    BY <2>2, <2>3, <2>4
<1>9. CASE NodeAccepts
  <2>1. /\ m_state = "Connecting" /\ m_state' = "ServerHello" /\ m_rxBuf' = m_rxBuf
        /\ owed' = owed \o <<HelloFrame, NoiseFrame>>
    BY <1>9 DEF NodeAccepts, onConnected, Answer, Inv, StateMatchesSocket
  <2>2. HelloFrame \in Frame /\ NoiseFrame \in Frame
    BY PlainFrames DEF FrameOf
  <2>3. HelloFrame.plaintext = "undecryptable" /\ NoiseFrame.plaintext = "undecryptable"
    BY DEF HelloFrame, NoiseFrame, Plain
  <2>4. <<HelloFrame, NoiseFrame>> \in Seq(Frame) /\ Quiet(<<HelloFrame, NoiseFrame>>)
    BY <2>2, <2>3 DEF Quiet, Idling, Milestones
  <2>5. Underway' = Underway \o <<HelloFrame, NoiseFrame>>
    BY <1>0, <2>1, <2>4, OneQueue DEF Underway
  <2>6. Quiet(Underway)
    BY <2>1, QuietOrderly DEF Due
  <2>7. Quiet(Underway')
    BY <1>0, <2>4, <2>5, <2>6, OrderlyIdling
  <2> QED
    BY <2>1, <2>7, NoListing
<1> QED
  BY <1>1, <1>2, <1>3, <1>4, <1>7, <1>8, <1>9, ConsumedListing DEF SessionNext, ReceiveLoop

-----------------------------------------------------------------------------
(***************************************************************************)
(* Sub-devices and topics                                                  *)
(***************************************************************************)
\* The part of SessionInv that is about sub-devices and topics.
TopicsInv == OnlineKnown /\ SubOnlineWithParent /\ RetainedHonest /\ NothingLeftBehind

\* A step that touches neither the list nor the topics, and after which the
\* connection is as much past the handshake as before.
LEMMA QuietStep ==
  ASSUME TopicsInv,
         UNCHANGED <<node, m_subDeviceNames, registered, subAvailability, mqtt, retained, exposed>>,
         UNCHANGED <<alive, availability>>,
         m_state \in ReadyStates => m_state' \in ReadyStates
  PROVE  TopicsInv'
  BY DEF TopicsInv, OnlineKnown, SubOnlineWithParent, RetainedHonest, NothingLeftBehind,
         Listed, Avail

\* onDisconnected puts every sub-device Offline, because it knows all that are
\* Online, and says so at the broker.
LEMMA DisconnectedTopics ==
  ASSUME Inv, PendingNamed, TopicsInv, alive, Disconnected, NEW r, Closed(r)
  PROVE  TopicsInv'
<1>1. \A s \in registered : subAvailability'[s] # "Online"
  BY DEF TopicsInv, OnlineKnown, SubOnlineWithParent, PendingNamed, Disconnected, GoOffline,
         WasReady, knownSubDevices
<1>2. UNCHANGED <<alive, registered, exposed, mqtt>>
  BY DEF Disconnected, Closed
<1>3. registered \subseteq SubName /\ "main" \notin SubName
  BY SubNameAssumption DEF PendingNamed
<1>4. RetainedHonest'
  <2>1. CASE WasReady
    <3>1. ASSUME mqtt, NEW d \in Listed(registered), retained'[d] = "online"
          PROVE  Avail(d, availability', subAvailability') = "Online"
      <4>1. d \in Dev /\ (d # "main" => d \in registered /\ d \in SubName)
        BY <1>3 DEF Listed, Dev
      <4>2. \/ d \in {"main"} \cup knownSubDevices /\ Avail(d, availability', subAvailability') = "Online"
            \/ d \notin {"main"} \cup knownSubDevices /\ retained[d] = "online"
        BY <2>1, <3>1, <4>1 DEF Disconnected, GoOffline, publishDeviceStatus
      <4>3. d \notin {"main"} \cup knownSubDevices
            => Avail(d, availability', subAvailability') = Avail(d, availability, subAvailability)
        BY <2>1, <4>1 DEF Disconnected, GoOffline, Avail
      <4> QED
        BY <3>1, <4>2, <4>3 DEF TopicsInv, RetainedHonest
    <3> QED
      BY <3>1, <1>2 DEF RetainedHonest, Listed
  <2>2. CASE ~WasReady
    <3>1. UNCHANGED <<subAvailability, retained, availability>>
      BY <2>2 DEF Disconnected, GoOffline, Closed, onDisconnected
    <3> QED
      BY <3>1, <1>2 DEF TopicsInv, RetainedHonest, Listed, Avail
  <2> QED
    BY <2>1, <2>2
<1>5. NothingLeftBehind'
  <2>1. {"main"} \cup knownSubDevices \subseteq Listed(registered)
    BY DEF Listed, knownSubDevices
  <2>2. \A d \in Dev \ Listed(registered) : retained'[d] = retained[d]
    BY <2>1 DEF Disconnected, GoOffline, publishDeviceStatus
  <2> QED
    BY <1>2, <2>2 DEF TopicsInv, NothingLeftBehind, Listed
<1> QED
  BY <1>1, <1>2, <1>4, <1>5 DEF TopicsInv, OnlineKnown, SubOnlineWithParent

\* A listing is applied: its sub-devices join the list, Online and announced.
LEMMA DoneTopics ==
  ASSUME Inv, QueuesConsistent, PendingNamed, TopicsInv, NEW f, ReceiveDone(f)
  PROVE  TopicsInv'
<1> DEFINE subs == {m_subDeviceNames[id] : id \in SubIds}
<1>1. Consume(f) /\ f.plaintext = "ListEntitiesDone" /\ m_state \in ReadyStates
  BY DEF ReceiveDone, ListEntitiesDone, Message
<1>2. alive /\ UNCHANGED <<alive, availability>> /\ m_state' \in ReadyStates
  BY <1>1, ConsumeFacts DEF ReceiveDone, ListEntitiesDone, Message, ReadyStates
<1>3. m_subDeviceNames = node.names
  BY <1>1, ConsumedFrame DEF FrameOf
<1>4. UNCHANGED <<node, m_subDeviceNames, mqtt>>
  BY DEF ReceiveDone, nodeVars, listingVars
<1>5. subs \subseteq SubName /\ \A s \in subs : \E id \in DOMAIN m_subDeviceNames : m_subDeviceNames[id] = s
  BY Discovered
<1>6. /\ registered' = registered \cup subs
      /\ subAvailability' = [s \in SubName |-> IF s \in subs THEN "Online" ELSE subAvailability[s]]
      /\ retained' = [d \in Dev |->
           IF mqtt /\ d \in {"main"} \cup subs
             THEN IF Avail(d, availability', subAvailability') = "Online" THEN "online" ELSE "offline"
             ELSE retained[d]]
      /\ exposed' = [d \in Dev |-> IF mqtt /\ d \in {"main"} \cup subs THEN <<endpoints'[d]>> ELSE exposed[d]]
  BY DEF ReceiveDone, applyDiscoveredEntities, subDevice, entitiesDiscovered, publishExposes,
         publishDeviceStatus
<1>7. registered \subseteq SubName /\ "main" \notin SubName
  BY SubNameAssumption DEF PendingNamed
<1> HIDE DEF subs
<1>8. OnlineKnown'
  BY <1>3, <1>4, <1>5, <1>6, <1>7 DEF TopicsInv, OnlineKnown
<1>9. SubOnlineWithParent'
  BY <1>2 DEF SubOnlineWithParent
<1>10. RetainedHonest'
  <2>1. ASSUME mqtt, NEW d \in Listed(registered) \cup subs, retained'[d] = "online"
        PROVE  Avail(d, availability', subAvailability') = "Online"
    <3>1. d \in Dev /\ (d # "main" => d \in SubName)
      BY <1>5, <1>7 DEF Listed, Dev
    <3>2. \/ d \in {"main"} \cup subs /\ Avail(d, availability', subAvailability') = "Online"
          \/ d \notin {"main"} \cup subs /\ retained[d] = "online"
      BY <1>6, <2>1, <3>1
    <3>3. d \notin {"main"} \cup subs
          => Avail(d, availability', subAvailability') = Avail(d, availability, subAvailability)
      BY <1>2, <1>6, <3>1 DEF Avail
    <3> QED
      BY <2>1, <3>2, <3>3 DEF TopicsInv, RetainedHonest
  <2> QED
    BY <1>2, <1>4, <1>6, <2>1 DEF RetainedHonest, Listed
<1>11. NothingLeftBehind'
  BY <1>2, <1>6 DEF TopicsInv, NothingLeftBehind, Listed
<1> QED
  BY <1>8, <1>9, <1>10, <1>11 DEF TopicsInv

\* The broker comes back: all that is listed is published as it is now.
LEMMA ConnectedTopics ==
  ASSUME PendingNamed, TopicsInv, mqttConnected
  PROVE  TopicsInv'
<1>1. UNCHANGED <<alive, availability, m_state, node, m_subDeviceNames, registered, subAvailability>>
  BY DEF mqttConnected, vars, deviceVars, nodeVars, listingVars, listVars
<1>2. Listed(registered) \subseteq Dev
  BY DEF PendingNamed, Listed, Dev
<1>3. RetainedHonest'
  BY <1>1, <1>2 DEF mqttConnected, RetainedHonest, Listed, Avail
<1>4. NothingLeftBehind'
  BY <1>1 DEF TopicsInv, mqttConnected, NothingLeftBehind, Listed
<1> QED
  BY <1>1, <1>3, <1>4 DEF TopicsInv, OnlineKnown, SubOnlineWithParent

\* Commands: what is removed leaves no topics, and what is added finds none.
LEMMA CommandTopics ==
  ASSUME Inv, PendingNamed, TopicsInv,
         addDevice \/ removeDevice \/ \E s \in SubName : removeSubDevice(s)
  PROVE  TopicsInv'
<1>0. registered \subseteq SubName /\ "main" \notin SubName /\ "main" \in Dev
  BY SubNameAssumption DEF PendingNamed, Dev
<1>1. CASE addDevice
  <2>1. /\ ~alive /\ alive'
        /\ UNCHANGED <<registered, subAvailability, mqtt, retained, exposed>>
    BY <1>1 DEF addDevice, connectDevice, topicVars
  <2>2. \A s \in registered : subAvailability[s] # "Online"
    BY <2>1 DEF TopicsInv, SubOnlineWithParent
  <2>3. retained["main"] # "online"
    BY <1>0, <2>1 DEF TopicsInv, NothingLeftBehind, Listed
  <2>4. RetainedHonest'
    BY <1>0, <2>1, <2>3 DEF TopicsInv, RetainedHonest, Listed, Avail
  <2>5. NothingLeftBehind'
    BY <2>1 DEF TopicsInv, NothingLeftBehind, Listed
  <2> QED
    BY <2>1, <2>2, <2>4, <2>5 DEF TopicsInv, OnlineKnown, SubOnlineWithParent
<1>2. CASE removeDevice
  <2>1. /\ registered' = {} /\ alive' = FALSE /\ alive
        /\ Cleared({"main"} \cup registered)
    BY <1>2 DEF removeDevice, disconnectDevice, Idle
  <2>2. NothingLeftBehind'
    BY <2>1 DEF TopicsInv, NothingLeftBehind, Listed, Cleared
  <2> QED
    BY <2>1, <2>2 DEF TopicsInv, OnlineKnown, SubOnlineWithParent, RetainedHonest, Listed
<1>3. ASSUME NEW s \in SubName, removeSubDevice(s) PROVE TopicsInv'
  <2>1. /\ registered' = registered \ {s} /\ Cleared({s})
        /\ UNCHANGED <<alive, availability, m_state, node, m_subDeviceNames, subAvailability, mqtt>>
    BY <1>3 DEF removeSubDevice, vars, deviceVars, nodeVars, listingVars
  <2>2. s # "main"
    BY <1>0
  <2>3. OnlineKnown' /\ SubOnlineWithParent'
    BY <2>1 DEF TopicsInv, OnlineKnown, SubOnlineWithParent
  <2>4. RetainedHonest'
    <3>1. \A d \in Listed(registered)' :
            d \in Dev /\ d \in Listed(registered) /\ retained'[d] = retained[d]
      BY <1>0, <2>1, <2>2 DEF Listed, Dev, Cleared
    <3> QED
      BY <2>1, <3>1 DEF TopicsInv, RetainedHonest, Avail
  <2>5. NothingLeftBehind'
    BY <2>1, <2>2 DEF TopicsInv, NothingLeftBehind, Listed, Cleared
  <2> QED
    BY <2>3, <2>4, <2>5 DEF TopicsInv
<1> QED
  BY <1>1, <1>2, <1>3

\* What travels over a connection that stays.
LEMMA TrafficTopics ==
  ASSUME Inv, QueuesConsistent, PendingNamed, TopicsInv, NEW f,
         \/ ReceiveHello(f) \/ ReceiveNoise(f) \/ ReceiveHelloResponse(f)
         \/ ReceiveDeviceInfo(f) \/ ReceiveEntity(f) \/ ReceivePing(f) \/ ReceiveShutdown(f)
  PROVE  TopicsInv'
<1> USE DEF nodeVars, listingVars, listVars, topicVars, sessionVars, ReadyStates
<1>1. CASE ReceiveHello(f) \/ ReceiveHelloResponse(f) \/ ReceiveEntity(f) \/ ReceiveShutdown(f)
  <2>1. UNCHANGED <<node, m_subDeviceNames, registered, subAvailability, mqtt, retained, exposed>>
    BY <1>1 DEF ReceiveHello, ReceiveHelloResponse, ReceiveEntity, ReceiveShutdown, Answer
  <2>2. UNCHANGED <<alive, availability>> /\ (m_state \in ReadyStates => m_state' \in ReadyStates)
    BY <1>1
    DEF ReceiveHello, ReceiveHelloResponse, ReceiveEntity, ReceiveShutdown, ServerHelloFrame,
        HelloResponse, PassiveMessage, DisconnectRequest, Message, Consume
  <2> QED
    BY <2>1, <2>2, QuietStep
<1>2. CASE ReceiveNoise(f)
  <2>1. UNCHANGED <<node, m_subDeviceNames, registered, subAvailability, mqtt, retained, exposed, alive>>
    BY <1>2 DEF ReceiveNoise, NoiseHandshakeFrame, Consume, Answer
  <2>2. availability' = "Online" /\ m_state' \in ReadyStates
    BY <1>2 DEF ReceiveNoise, NoiseHandshakeFrame
  <2> QED
    BY <2>1, <2>2
    DEF TopicsInv, OnlineKnown, SubOnlineWithParent, RetainedHonest, NothingLeftBehind, Listed, Avail
<1>3. CASE ReceiveDeviceInfo(f)
  <2>1. Consume(f) /\ f.plaintext = "DeviceInfoResponse"
    BY <1>3 DEF ReceiveDeviceInfo, DeviceInfoResponse, Message
  <2>2. m_subDeviceNames' = node.names /\ node' = node
    BY <1>3, <2>1, ConsumedFrame DEF ReceiveDeviceInfo, FrameOf, Answer
  <2>3. /\ UNCHANGED <<registered, subAvailability, mqtt, retained, exposed, alive, availability>>
        /\ m_state' \in ReadyStates
    BY <1>3 DEF ReceiveDeviceInfo, DeviceInfoResponse, Message, Consume
  <2> QED
    BY <2>2, <2>3
    DEF TopicsInv, OnlineKnown, SubOnlineWithParent, RetainedHonest, NothingLeftBehind, Listed, Avail
<1>4. CASE ReceivePing(f)
  <2>1. /\ UNCHANGED <<node, m_subDeviceNames, registered, subAvailability, mqtt, exposed>>
        /\ UNCHANGED <<alive, availability, m_state>>
        /\ publishDeviceStatus({"main"} \cup knownSubDevices, availability, subAvailability)
    BY <1>4 DEF ReceivePing, PassiveMessage, Message, Consume
  <2>2. alive
    BY <1>4, ConsumeFacts DEF ReceivePing, PassiveMessage, Message
  <2>3. {"main"} \cup knownSubDevices \subseteq Listed(registered) /\ Listed(registered) \subseteq Dev
    BY <2>2 DEF Listed, knownSubDevices, Dev, PendingNamed
  <2>4. RetainedHonest'
    BY <2>1, <2>3 DEF TopicsInv, RetainedHonest, publishDeviceStatus, Listed
  <2>5. NothingLeftBehind'
    BY <2>1, <2>3 DEF TopicsInv, NothingLeftBehind, publishDeviceStatus, Listed
  <2> QED
    BY <2>1, <2>4, <2>5 DEF TopicsInv, OnlineKnown, SubOnlineWithParent
<1> QED
  BY <1>1, <1>2, <1>3, <1>4

\* Each step of a session keeps the sub-devices and the topics right.
LEMMA StepTopics ==
  ASSUME Inv, QueuesConsistent, PendingNamed, TopicsInv, SessionNext
  PROVE  TopicsInv'
<1> USE DEF nodeVars, listingVars, listVars, topicVars, sessionVars, deviceVars
<1>1. CASE NodeCloses \/ HandshakeLate \/ CloseIsComplete
  BY <1>1, DisconnectedTopics
  DEF NodeCloses, HandshakeLate, CloseIsComplete, PeerCloses, onHandshakeTimer, CloseCompletes, Idle
<1>2. CASE Redial
  <2>1. ~Open
    BY <1>2 DEF Redial, onReconnectTimer, Inv, RetryHarmless, Open
  <2>2. UNCHANGED <<alive, availability>> /\ m_state \notin ReadyStates
    BY <1>2, <2>1 DEF Redial, onReconnectTimer, Inv, StateMatchesSocket
  <2> QED
    BY <1>2, <2>2, QuietStep DEF Redial
<1>3. CASE MqttLost
  <2>1. UNCHANGED <<alive, availability, m_state>>
    BY <1>3 DEF MqttLost, vars
  <2> QED
    BY <1>3, <2>1
    DEF MqttLost, TopicsInv, OnlineKnown, SubOnlineWithParent, RetainedHonest, NothingLeftBehind, Listed
<1>4. CASE \/ NodeRefuses \/ NodeShutsDown \/ NodeAccepts \/ Ping \/ BytesSent \/ ReceiveEnds
           \/ \E n \in 1..Len(owed) : Receive(n)
  <2>1. UNCHANGED <<node, m_subDeviceNames, registered, subAvailability, mqtt, retained, exposed>>
    BY <1>4
    DEF NodeRefuses, NodeShutsDown, NodeAccepts, Ping, BytesSent, ReceiveEnds, Receive, Answer
  <2>2. UNCHANGED <<alive, availability>>
    BY <1>4
    DEF NodeRefuses, NodeShutsDown, NodeAccepts, Ping, BytesSent, ReceiveEnds, Receive, vars,
        ConnectFails, onConnected, onPingTimer, Flush, ReadLoopEnds, onReadyRead
  <2>3. NodeAccepts => m_state \notin ReadyStates
    BY DEF NodeAccepts, onConnected, Inv, StateMatchesSocket, ReadyStates
  <2>4. m_state \in ReadyStates => m_state' \in ReadyStates
    BY <1>4, <2>3
    DEF NodeRefuses, NodeShutsDown, Ping, BytesSent, ReceiveEnds, Receive, vars,
        ConnectFails, onPingTimer, Flush, ReadLoopEnds, onReadyRead
  <2> QED
    BY <2>1, <2>2, <2>4, QuietStep
<1>5. ASSUME NEW a \in BOOLEAN, updateMain(a) PROVE TopicsInv'
  <2>1. /\ alive
        /\ UNCHANGED <<node, m_subDeviceNames, registered, subAvailability, mqtt, retained>>
        /\ UNCHANGED <<alive, availability, m_state>>
        /\ publishExposes({"main"}, endpoints)
    BY <1>5 DEF updateMain, updateDevice, Idle
  <2>2. NothingLeftBehind'
    BY <2>1 DEF TopicsInv, NothingLeftBehind, publishExposes, Listed
  <2> QED
    BY <2>1, <2>2 DEF TopicsInv, OnlineKnown, SubOnlineWithParent, RetainedHonest, Listed
<1> QED
  BY <1>1, <1>2, <1>3, <1>4, <1>5, ConnectedTopics, CommandTopics, DoneTopics, TrafficTopics
  DEF SessionNext, ReceiveLoop

-----------------------------------------------------------------------------
(***************************************************************************)
(* Endpoints and announcements                                             *)
(***************************************************************************)
\* The part of SessionInv that is about a connection in Subscribe.
EndpointInv == EndpointsFresh /\ SubsOnline /\ Announced

\* Only a finished listing subscribes.
LEMMA NotSubscribed ==
  ASSUME m_state' # "Subscribe"
  PROVE  EndpointInv'
  BY DEF EndpointInv, EndpointsFresh, SubsOnline, Announced

\* A step that leaves the list as it is but for devices that go, and whatever
\* it publishes is right.
LEMMA StillSubscribed ==
  ASSUME EndpointInv, UNCHANGED <<node, endpoints, subAvailability>>,
         registered' \subseteq registered,
         m_state' = "Subscribe" /\ alive' => m_state = "Subscribe" /\ alive,
         mqtt' /\ alive' /\ m_state' = "Subscribe" =>
           \A d \in {"main"} \cup SubsInUse' :
             \/ mqtt /\ retained'[d] = retained[d] /\ exposed'[d] = exposed[d]
             \/ retained'[d] = "online" /\ exposed'[d] = <<endpoints[d]>>
  PROVE  EndpointInv'
<1>1. \A id : Keys(id)' = Keys(id)
  BY DEF Keys
<1>2. SubsInUse' \subseteq SubsInUse
  BY <1>1 DEF SubsInUse
<1>3. EndpointsFresh'
  BY <1>1 DEF EndpointInv, EndpointsFresh
<1>4. SubsOnline'
  BY <1>2 DEF EndpointInv, SubsOnline
<1>5. Announced'
  BY <1>2 DEF EndpointInv, Announced
<1> QED
  BY <1>3, <1>4, <1>5 DEF EndpointInv

\* The pending entities of a listing that is complete are the node's, device
\* by device.
LEMMA GroupsAreKeys ==
  ASSUME Range(m_pendingEntities) = Range(node.entities)
  PROVE  /\ \A id : Grouped(id) = Keys(id)
         /\ \A id : id \in SubIds <=> id # 0 /\ Keys(id) # {}
<1>1. /\ \A j \in DOMAIN m_pendingEntities : \E k \in DOMAIN node.entities :
           node.entities[k] = m_pendingEntities[j]
      /\ \A k \in DOMAIN node.entities : \E j \in DOMAIN m_pendingEntities :
           node.entities[k] = m_pendingEntities[j]
  BY DEF Range
<1>2. \A id : Grouped(id) = Keys(id)
  BY <1>1 DEF Grouped, Keys
<1>3. \A id : id \in SubIds <=> id # 0 /\ Keys(id) # {}
  <2>1. \A id : id \in SubIds <=>
          id # 0 /\ \E j \in DOMAIN m_pendingEntities : m_pendingEntities[j].device = id
    BY DEF SubIds
  <2>2. \A id : Keys(id) # {} <=> \E k \in DOMAIN node.entities : node.entities[k].device = id
    BY DEF Keys
  <2> QED
    BY <1>1, <2>1, <2>2
<1> QED
  BY <1>2, <1>3

\* A listing is applied: main and the sub-devices with entities have the
\* endpoints that the node told, are Online, and are announced.
LEMMA DoneEndpoints ==
  ASSUME Inv, QueuesConsistent, PendingNamed, Orderly(Underway, m_state), ListingWhole,
         NEW f, ReceiveDone(f)
  PROVE  EndpointInv'
<1> DEFINE subs == {m_subDeviceNames[id] : id \in SubIds}
           idOf(s) == CHOOSE id \in SubIds : m_subDeviceNames[id] = s
<1>1. Consume(f) /\ f.plaintext = "ListEntitiesDone"
  BY DEF ReceiveDone, ListEntitiesDone, Message
<1>2. /\ Underway \in Seq(Frame) /\ Underway # <<>> /\ f = Head(Underway)
  BY <1>1, HeadOfQueue
<1>3. m_state = "ListEntities" /\ Quiet(Tail(Underway))
  BY <1>1, <1>2, OrderlyTail DEF Milestones, Due
<1>4. ListedBy(Underway) = {}
  <2>1. Tail(Underway) \in Seq(Frame)
    BY <1>2, Remaining
  <2>2. ListedBy(Tail(Underway)) = {}
    BY <1>3, <2>1, ListedParts
  <2> QED
    BY <1>1, <1>2, <2>2, ListedParts
<1>5. m_subDeviceNames = node.names /\ Range(m_pendingEntities) = Range(node.entities)
  BY <1>3, <1>4 DEF ListingWhole
<1>6. /\ \A id : Grouped(id) = Keys(id)
      /\ \A id : id \in SubIds <=> id # 0 /\ Keys(id) # {}
  BY <1>5, GroupsAreKeys
<1>7. UNCHANGED <<node, mqtt>> /\ \A id : Keys(id)' = Keys(id)
  BY DEF ReceiveDone, nodeVars, Keys
<1>8. availability' = "Online" /\ alive
  <2>1. UNCHANGED <<alive, availability>>
    BY DEF ReceiveDone, ListEntitiesDone, Message, Consume
  <2> QED
    BY <1>1, <1>3, <2>1, ConsumeFacts DEF Inv, AvailabilityExact, ReadyStates
<1>9. /\ registered' = registered \cup subs
      /\ subAvailability' = [s \in SubName |-> IF s \in subs THEN "Online" ELSE subAvailability[s]]
      /\ endpoints' = [d \in Dev |-> IF d = "main" THEN Grouped(0)
                                     ELSE IF d \in subs THEN Grouped(idOf(d)) ELSE endpoints[d]]
      /\ retained' = [d \in Dev |->
           IF mqtt /\ d \in {"main"} \cup subs
             THEN IF Avail(d, availability', subAvailability') = "Online" THEN "online" ELSE "offline"
             ELSE retained[d]]
      /\ exposed' = [d \in Dev |-> IF mqtt /\ d \in {"main"} \cup subs THEN <<endpoints'[d]>> ELSE exposed[d]]
  BY DEF ReceiveDone, applyDiscoveredEntities, subDevice, entitiesDiscovered, publishExposes,
         publishDeviceStatus
<1>10. subs \subseteq SubName /\ "main" \notin SubName
  BY Discovered, SubNameAssumption
<1>11. \A id \in DOMAIN node.names :
         Keys(id) # {} => id \in SubIds /\ node.names[id] \in subs /\ idOf(node.names[id]) = id
  <2> SUFFICES ASSUME NEW id \in DOMAIN node.names, Keys(id) # {}
               PROVE  id \in SubIds /\ node.names[id] \in subs /\ idOf(node.names[id]) = id
    OBVIOUS
  <2>1. /\ 0 \notin DOMAIN node.names
        /\ \A a, b \in DOMAIN node.names : node.names[a] = node.names[b] => a = b
    BY ConfigAssumption DEF QueuesConsistent
  <2>2. id \in SubIds
    BY <1>6, <2>1
  <2>3. SubIds \subseteq DOMAIN node.names
    BY <1>5, Discovered
  <2> QED
    BY <1>5, <2>1, <2>2, <2>3
<1>12. SubsInUse' \subseteq subs
  BY <1>7, <1>11 DEF SubsInUse
<1> HIDE DEF subs, idOf
<1>13. EndpointsFresh'
  <2>1. endpoints'["main"] = Keys(0)
    BY <1>6, <1>9 DEF Dev
  <2>2. ASSUME NEW id \in DOMAIN node.names, Keys(id) # {}
        PROVE  endpoints'[node.names[id]] = Keys(id)
    <3>1. node.names[id] \in subs /\ idOf(node.names[id]) = id
      BY <1>11, <2>2
    <3>2. node.names[id] \in Dev /\ node.names[id] # "main"
      BY <1>10, <3>1 DEF Dev
    <3> QED
      BY <1>6, <1>9, <3>1, <3>2
  <2> QED
    BY <1>7, <2>1, <2>2 DEF EndpointsFresh
<1>14. \A s \in subs : s \in SubName /\ s # "main" /\ subAvailability'[s] = "Online"
  BY <1>9, <1>10
<1>15. SubsOnline'
  BY <1>12, <1>14 DEF SubsOnline
<1>16. Announced'
  <2>1. ASSUME mqtt, NEW d \in {"main"} \cup subs
        PROVE  retained'[d] = "online" /\ exposed'[d] = <<endpoints'[d]>>
    <3>1. d \in Dev /\ Avail(d, availability', subAvailability') = "Online"
      BY <1>8, <1>14 DEF Dev, Avail
    <3> QED
      BY <1>9, <2>1, <3>1
  <2> QED
    BY <1>7, <1>12, <2>1 DEF Announced
<1> QED
  BY <1>13, <1>15, <1>16 DEF EndpointInv

\* Each step of a session keeps the endpoints fresh and announced.
LEMMA StepEndpoints ==
  ASSUME Inv, QueuesConsistent, PendingNamed, OnlineKnown, Orderly(Underway, m_state),
         ListingWhole, EndpointInv, SessionNext
  PROVE  EndpointInv'
<1> USE DEF nodeVars, listingVars, listVars, topicVars, sessionVars
<1>0. registered \subseteq SubName /\ "main" \notin SubName /\ Dev = {"main"} \cup SubName
  BY SubNameAssumption DEF PendingNamed, Dev
<1>1. CASE NodeCloses \/ HandshakeLate \/ CloseIsComplete \/ addDevice \/ removeDevice \/ NodeAccepts
  <2>1. m_state' # "Subscribe"
    BY <1>1
    DEF NodeCloses, HandshakeLate, CloseIsComplete, PeerCloses, onHandshakeTimer, CloseCompletes,
        Disconnected, Closed, onDisconnected, addDevice, removeDevice, connectDevice,
        connectToDevice, disconnectDevice, NodeAccepts, onConnected
  <2> QED
    BY <2>1, NotSubscribed
<1>2. CASE Redial
  <2>1. m_state' # "Subscribe"
    BY <1>2 DEF Redial, onReconnectTimer, connectToDevice
  <2> QED
    BY <2>1, NotSubscribed
<1>3. CASE \/ NodeRefuses \/ NodeShutsDown \/ Ping \/ BytesSent \/ ReceiveEnds
           \/ \E n \in 1..Len(owed) : Receive(n)
  <2>1. UNCHANGED <<node, endpoints, subAvailability, registered, mqtt, retained, exposed>>
    BY <1>3 DEF NodeRefuses, NodeShutsDown, Ping, BytesSent, ReceiveEnds, Receive, Answer
  <2>2. UNCHANGED <<alive, m_state>>
    BY <1>3
    DEF NodeRefuses, NodeShutsDown, Ping, BytesSent, ReceiveEnds, Receive, vars,
        ConnectFails, onPingTimer, Flush, ReadLoopEnds, onReadyRead
  <2> QED
    BY <2>1, <2>2, StillSubscribed
<1>4. CASE MqttLost
  <2>1. ~mqtt' /\ UNCHANGED <<node, endpoints, subAvailability, registered, alive, m_state>>
    BY <1>4 DEF MqttLost, vars
  <2> QED
    BY <2>1, StillSubscribed
<1>5. CASE mqttConnected
  <2>1. /\ UNCHANGED <<node, endpoints, subAvailability, registered, alive, m_state, availability>>
        /\ retained' = [d \in Dev |->
             IF d \in Listed(registered)
               THEN IF Avail(d, availability, subAvailability) = "Online" THEN "online" ELSE "offline"
               ELSE retained[d]]
        /\ exposed' = [d \in Dev |->
             IF d \in Listed(registered) THEN <<endpoints[d]>> ELSE exposed[d]]
    BY <1>5 DEF mqttConnected, vars, deviceVars
  <2>2. ASSUME alive, m_state = "Subscribe", NEW d \in {"main"} \cup SubsInUse'
        PROVE  retained'[d] = "online" /\ exposed'[d] = <<endpoints[d]>>
    <3>1. SubsInUse' = SubsInUse
      BY <2>1 DEF SubsInUse, Keys
    <3>2. d \in Listed(registered) /\ d \in Dev
      BY <1>0, <2>2, <3>1 DEF Listed, SubsInUse
    <3>3. Avail(d, availability, subAvailability) = "Online"
      BY <1>0, <2>2, <3>1
      DEF Avail, SubsInUse, EndpointInv, SubsOnline, Inv, AvailabilityExact, ReadyStates
    <3> QED
      BY <2>1, <3>2, <3>3
  <2> QED
    BY <2>1, <2>2, StillSubscribed
<1>6. ASSUME NEW s \in SubName, removeSubDevice(s) PROVE EndpointInv'
  <2>1. /\ UNCHANGED <<node, endpoints, subAvailability, alive, m_state, mqtt>>
        /\ registered' = registered \ {s} /\ Cleared({s})
    BY <1>6 DEF removeSubDevice, vars
  <2>2. \A d \in {"main"} \cup SubsInUse' : retained'[d] = retained[d] /\ exposed'[d] = exposed[d]
    BY <1>0, <2>1 DEF SubsInUse, Cleared
  <2> QED
    BY <2>1, <2>2, StillSubscribed
<1>7. ASSUME NEW a \in BOOLEAN, updateMain(a) PROVE EndpointInv'
  <2>1. /\ UNCHANGED <<node, endpoints, subAvailability, registered, alive, m_state, mqtt, retained>>
        /\ mqtt /\ publishExposes({"main"}, endpoints)
    BY <1>7 DEF updateMain, updateDevice
  <2>2. \A d \in Dev : exposed'[d] = IF d = "main" THEN <<endpoints[d]>> ELSE exposed[d]
    BY <2>1 DEF publishExposes
  <2>3. SubsInUse' \subseteq SubName
    BY <1>0, <2>1 DEF SubsInUse
  <2>4. ASSUME alive, m_state = "Subscribe", NEW d \in {"main"} \cup SubsInUse'
        PROVE  \/ mqtt /\ retained'[d] = retained[d] /\ exposed'[d] = exposed[d]
               \/ retained'[d] = "online" /\ exposed'[d] = <<endpoints[d]>>
    <3>1. d \in Dev
      BY <1>0, <2>3
    <3>2. CASE d = "main"
      <4>1. retained[d] = "online"
        BY <2>1, <2>4, <3>2 DEF EndpointInv, Announced
      <4> QED
        BY <2>1, <2>2, <3>1, <3>2, <4>1
    <3> QED
      BY <2>1, <2>2, <3>1, <3>2
  <2> QED
    BY <2>1, <2>4, StillSubscribed
<1>8. ASSUME NEW f, ReceivePing(f) PROVE EndpointInv'
  <2>1. /\ UNCHANGED <<node, endpoints, subAvailability, registered, alive, m_state, mqtt, exposed>>
        /\ publishDeviceStatus({"main"} \cup knownSubDevices, availability, subAvailability)
    BY <1>8 DEF ReceivePing, PassiveMessage, Message, Consume
  <2>2. SubsInUse' = SubsInUse /\ SubsInUse \subseteq SubName
    BY <1>0, <2>1 DEF SubsInUse, Keys
  <2>3. ASSUME alive, m_state = "Subscribe", mqtt, NEW d \in {"main"} \cup SubsInUse
        PROVE  retained'[d] = "online" /\ exposed'[d] = <<endpoints[d]>>
    <3>1. d \in Dev
      BY <1>0, <2>2
    <3>2. retained[d] = "online" /\ exposed[d] = <<endpoints[d]>>
      BY <2>3 DEF EndpointInv, Announced
    <3>3. Avail(d, availability, subAvailability) = "Online"
      BY <1>0, <2>2, <2>3 DEF Avail, EndpointInv, SubsOnline, Inv, AvailabilityExact, ReadyStates
    <3> QED
      BY <2>1, <3>1, <3>2, <3>3 DEF publishDeviceStatus
  <2> QED
    BY <2>1, <2>2, <2>3, StillSubscribed
<1>9. ASSUME NEW f, ReceiveHello(f) \/ ReceiveNoise(f) \/ ReceiveDeviceInfo(f) PROVE EndpointInv'
  <2>1. m_state' # "Subscribe"
    BY <1>9
    DEF ReceiveHello, ReceiveNoise, ReceiveDeviceInfo, ServerHelloFrame, NoiseHandshakeFrame,
        DeviceInfoResponse
  <2> QED
    BY <2>1, NotSubscribed
<1>10. ASSUME NEW f, ReceiveHelloResponse(f) \/ ReceiveEntity(f) \/ ReceiveShutdown(f)
       PROVE  EndpointInv'
  <2>1. UNCHANGED <<node, endpoints, subAvailability, registered, mqtt, retained, exposed>>
    BY <1>10 DEF ReceiveHelloResponse, ReceiveEntity, ReceiveShutdown, Answer
  <2>2. UNCHANGED <<alive, m_state>>
    BY <1>10
    DEF ReceiveHelloResponse, ReceiveEntity, ReceiveShutdown, HelloResponse, PassiveMessage,
        DisconnectRequest, Message, Consume
  <2> QED
    BY <2>1, <2>2, StillSubscribed
<1> QED
  BY <1>1, <1>2, <1>3, <1>4, <1>5, <1>6, <1>7, <1>8, <1>9, <1>10, DoneEndpoints
  DEF SessionNext, ReceiveLoop

-----------------------------------------------------------------------------
(***************************************************************************)
(* Theorems                                                                *)
(***************************************************************************)
\* Before the first connection there is nothing to be wrong.
LEMMA SessionInitInv == SessionInit => SessionInv
<1> SUFFICES ASSUME SessionInit PROVE SessionInv
  OBVIOUS
<1>1. Inv
  BY InitInv DEF SessionInit
<1>2. QueuesConsistent
  <2>1. owed = <<>> /\ m_rxBuf = <<>> /\ node \in Config
    BY DEF SessionInit, Init
  <2> QED
    BY <2>1 DEF QueuesConsistent
<1>3. PendingNamed
  BY DEF SessionInit, PendingNamed
<1>4. OnlineKnown /\ SubOnlineWithParent
  BY DEF SessionInit, OnlineKnown, SubOnlineWithParent
<1>5. RetainedHonest /\ NothingLeftBehind
  BY DEF SessionInit, RetainedHonest, NothingLeftBehind
<1>6. m_state = "Connecting"
  BY DEF SessionInit, Init
<1>7. Orderly(Underway, m_state) /\ ListingWhole
  <2>1. Underway = <<>>
    BY DEF SessionInit, Init, Underway
  <2> QED
    BY <1>6, <2>1 DEF Orderly, ListingWhole
<1>8. EndpointsFresh /\ SubsOnline /\ Announced
  BY <1>6 DEF EndpointsFresh, SubsOnline, Announced
<1> QED
  BY <1>1, <1>2, <1>3, <1>4, <1>5, <1>7, <1>8 DEF SessionInv

\* The invariant of a session holds in every state of every session, whatever
\* the nodes are configured with and however often faults occur.
THEOREM SessionInvariance == SessionSpec => []SessionInv
<1>1. SessionInv /\ [SessionNext]_allVars => SessionInv'
  <2> SUFFICES ASSUME SessionInv, [SessionNext]_allVars PROVE SessionInv'
    OBVIOUS
  <2>1. /\ Inv /\ QueuesConsistent /\ PendingNamed /\ TopicsInv
        /\ Orderly(Underway, m_state) /\ ListingWhole /\ EndpointInv
    BY DEF SessionInv, TopicsInv, EndpointInv
  <2>2. Inv'
    BY <2>1, StepInv
  <2>3. CASE SessionNext
    <3>1. QueuesConsistent' /\ PendingNamed'
      BY <2>1, <2>3, StepQueues, StepPending
    <3>2. TopicsInv'
      BY <2>1, <2>3, StepTopics
    <3>3. Orderly(Underway, m_state)' /\ ListingWhole'
      BY <2>1, <2>3, StepListing
    <3>4. EndpointInv'
      BY <2>1, <2>3, StepEndpoints DEF TopicsInv
    <3> QED
      BY <2>2, <3>1, <3>2, <3>3, <3>4 DEF SessionInv, TopicsInv, EndpointInv
  <2>4. CASE UNCHANGED allVars
    <3>1. UNCHANGED <<vars, nodeVars, listingVars, listVars, topicVars>>
      BY <2>4 DEF allVars, sessionVars
    <3>2. QueuesConsistent' /\ PendingNamed'
      BY <2>1, <3>1 DEF QueuesConsistent, PendingNamed, vars, nodeVars, listingVars, listVars
    <3>3. TopicsInv'
      BY <2>1, <3>1, QuietStep DEF vars, deviceVars, nodeVars, listingVars, listVars, topicVars
    <3>4. Orderly(Underway, m_state)' /\ ListingWhole'
      BY <2>1, <3>1, SameListing DEF vars, nodeVars, Underway
    <3>5. EndpointInv'
      BY <2>1, <3>1, StillSubscribed DEF vars, nodeVars, listVars, topicVars
    <3> QED
      BY <2>2, <3>2, <3>3, <3>4, <3>5 DEF SessionInv, TopicsInv, EndpointInv
  <2> QED
    BY <2>3, <2>4
<1> QED
  BY <1>1, SessionInitInv, PTL DEF SessionSpec

\* No sub-device stays Online when its parent's connection is gone: the loop
\* of onDisconnected reaches every one of them.
THEOREM SubsFollowParent == SessionSpec => []SubOnlineWithParent
<1>1. SessionInv => SubOnlineWithParent
  BY DEF SessionInv
<1> QED
  BY <1>1, SessionInvariance, PTL

\* The broker never keeps an "online" for a device that is not.
THEOREM RetainedIsHonest == SessionSpec => []RetainedHonest
<1>1. SessionInv => RetainedHonest
  BY DEF SessionInv
<1> QED
  BY <1>1, SessionInvariance, PTL

\* Once subscribed, main and its sub-devices have the endpoints of the node's
\* present configuration, whatever listings were interrupted before.
THEOREM EndpointsAreFresh == SessionSpec => []EndpointsFresh
<1>1. SessionInv => EndpointsFresh
  BY DEF SessionInv
<1> QED
  BY <1>1, SessionInvariance, PTL

\* Once subscribed, and the broker connected, main and the sub-devices with
\* entities are announced as online and with the endpoints they have.
THEOREM DevicesAreAnnounced == SessionSpec => []Announced
<1>1. SessionInv => Announced
  BY DEF SessionInv
<1> QED
  BY <1>1, SessionInvariance, PTL

\* Nothing of a removed device is left at the broker.
THEOREM RemovedWithoutTrace == SessionSpec => []NothingLeftBehind
<1>1. SessionInv => NothingLeftBehind
  BY DEF SessionInv
<1> QED
  BY <1>1, SessionInvariance, PTL

=============================================================================
