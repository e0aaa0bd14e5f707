------------------------------ MODULE Session ------------------------------
(***************************************************************************)
(* A connection together with what travels over it and what becomes of it: *)
(* the node's answers, the sub-devices and endpoints that a listing of     *)
(* entities leaves in the device list, and the status and expose topics    *)
(* that the controller keeps at the MQTT broker.                           *)
(*                                                                         *)
(* Each action is an action of EspHomeDevice with what the same slot does  *)
(* to the device list and, through direct signals, to the topics.  The     *)
(* node follows the ESPHome API: it answers each request, in order.  It    *)
(* may go away at any time and come back with another configuration.       *)
(***************************************************************************)
EXTENDS EspHomeDevice, Naturals, Functions

CONSTANTS
  Config,    \* node configurations, see ConfigAssumption
  SubName,   \* names of sub-devices; their addresses derive from these
  MaxFaults  \* how often the network, the node or a time-out may interfere

\* A configuration names the sub-devices by their ids, with no name twice, and
\* lists the entities, each with its key and the id of its device, 0 for main.
ASSUME ConfigAssumption ==
  \A c \in Config :
    /\ c.entities \in Seq([device : Nat, key : Nat])
    /\ 0 \notin DOMAIN c.names
    /\ \A a, b \in DOMAIN c.names : c.names[a] \in SubName /\ (c.names[a] = c.names[b] => a = b)
    /\ \A j \in DOMAIN c.entities : c.entities[j].device \in DOMAIN c.names \cup {0}
ASSUME SubNameAssumption == "main" \notin SubName

VARIABLES
  node,               \* the configuration the node runs
  owed,               \* the frames it has still to deliver, in order
  faults,             \* faults so far
  m_subDeviceNames,   \* EspHomeDevice::m_subDeviceNames
  m_pendingEntities,  \* EspHomeDevice::m_pendingEntities
  registered,         \* the sub-devices in the device list
  endpoints,          \* the keys of the endpoints of each device
  subAvailability,    \* availability() of each sub-device
  mqtt,               \* mqttStatus(): the broker is connected
  retained,           \* the retained status topic of each device
  exposed             \* the retained expose topic of each device

nodeVars    == <<node, owed, faults>>
listingVars == <<m_subDeviceNames, m_pendingEntities>>
listVars    == <<registered, endpoints, subAvailability>>
topicVars   == <<mqtt, retained, exposed>>
sessionVars == <<nodeVars, listingVars, listVars, topicVars>>
allVars     == <<vars, sessionVars>>

Dev == {"main"} \cup SubName

\* The frames of a node: the sub-device names travel in a DeviceInfoResponse,
\* an entity in a ListEntities message.
Plain(kind) ==
  [indicator |-> TRUE, first |-> "other", serverName |-> FALSE, handshake |-> FALSE,
   plaintext |-> kind, names |-> <<>>, entity |-> [device |-> 0, key |-> 0]]
HelloFrame       == [Plain("undecryptable") EXCEPT !.first = "1", !.serverName = TRUE]
NoiseFrame       == [Plain("undecryptable") EXCEPT !.first = "0", !.handshake = TRUE]
DeviceInfo(c)    == [Plain("DeviceInfoResponse") EXCEPT !.names = c.names]
EntityInfo(c, j) == [Plain("ListEntities") EXCEPT !.entity = c.entities[j]]
Listing(c) ==
  Append([j \in DOMAIN c.entities |-> EntityInfo(c, j)], Plain("ListEntitiesDone"))
NodeFrame  ==
  {HelloFrame, NoiseFrame}
  \cup {Plain(k) : k \in {"HelloResponse", "PingResponse", "DisconnectRequest"}}
  \cup {DeviceInfo(c) : c \in Config}
  \cup UNION {{Listing(c)[j] : j \in DOMAIN Listing(c)} : c \in Config}
ASSUME NodeFrameAssumption == NodeFrame \subseteq Frame

-----------------------------------------------------------------------------
(***************************************************************************)
(* The controller's topics.  mqttPublish reaches the broker only while it  *)
(* is connected.                                                           *)
(***************************************************************************)
Listed(reg) == reg \cup (IF alive THEN {"main"} ELSE {})
Avail(d, main, sub) == IF d = "main" THEN main ELSE sub[d]

\* publishDeviceStatus for the devices ds, with their new availability.
publishDeviceStatus(ds, main, sub) ==
  retained' = [d \in Dev |->
    IF mqtt /\ d \in ds
      THEN IF Avail(d, main, sub) = "Online" THEN "online" ELSE "offline"
      ELSE retained[d]]

\* publishExposes for the devices ds, with their new endpoints.
publishExposes(ds, eps) ==
  exposed' = [d \in Dev |-> IF mqtt /\ d \in ds THEN <<eps[d]>> ELSE exposed[d]]

FaultyMqttConnected ==
  /\ ~mqtt /\ ~reading
  /\ mqtt' = TRUE
  /\ exposed' = [d \in Dev |->
       IF d \in Listed(registered) THEN <<endpoints[d]>> ELSE exposed[d]]
  /\ UNCHANGED <<vars, nodeVars, listingVars, listVars, retained>>

\* mqttConnected: everything is published anew.
mqttConnected ==
  /\ ~mqtt /\ ~reading
  /\ mqtt' = TRUE
  /\ retained' = [d \in Dev |->
       IF d \in Listed(registered)
         THEN IF Avail(d, availability, subAvailability) = "Online" THEN "online" ELSE "offline"
         ELSE retained[d]]
  /\ exposed' = [d \in Dev |->
       IF d \in Listed(registered) THEN <<endpoints[d]>> ELSE exposed[d]]
  /\ UNCHANGED <<vars, nodeVars, listingVars, listVars>>

MqttLost ==
  /\ mqtt /\ ~reading
  /\ mqtt' = FALSE
  /\ UNCHANGED <<vars, nodeVars, listingVars, listVars, retained, exposed>>

-----------------------------------------------------------------------------
(***************************************************************************)
(* Losing a connection                                                     *)
(***************************************************************************)
Fault == faults < MaxFaults /\ faults' = faults + 1

FaultyKnownSubDevices == {}

\* knownSubDevices: the listed sub-devices the last DeviceInfoResponse named.
knownSubDevices ==
  {m_subDeviceNames[id] : id \in DOMAIN m_subDeviceNames} \cap registered

\* onDisconnected's loop over the sub-devices, and the signals it emits.
GoOffline ==
  IF WasReady
    THEN /\ subAvailability' = [s \in SubName |->
              IF s \in knownSubDevices THEN "Offline" ELSE subAvailability[s]]
         /\ publishDeviceStatus({"main"} \cup knownSubDevices, availability', subAvailability')
    ELSE UNCHANGED <<subAvailability, retained>>

\* The connection is gone; the node may meanwhile have been given another
\* configuration.
Disconnected ==
  /\ owed' = <<>>
  /\ node' \in Config
  /\ GoOffline
  /\ UNCHANGED <<listingVars, registered, endpoints, mqtt, exposed>>

NodeCloses      == Fault /\ PeerCloses /\ Disconnected
NodeRefuses     == /\ Fault /\ ConnectFails
                   /\ UNCHANGED <<node, owed, listingVars, listVars, topicVars>>
HandshakeLate   == Fault /\ onHandshakeTimer /\ Disconnected
CloseIsComplete == CloseCompletes /\ Disconnected /\ UNCHANGED faults

\* The node is about to restart and says so.
NodeShutsDown ==
  /\ Fault
  /\ Idle /\ WasReady /\ socket = "Connected"
  /\ owed' = Append(owed, Plain("DisconnectRequest"))
  /\ UNCHANGED <<vars, node, listingVars, listVars, topicVars>>

-----------------------------------------------------------------------------
(***************************************************************************)
(* Requests and answers                                                    *)
(***************************************************************************)
Answer(frames) == owed' = owed \o frames /\ UNCHANGED <<node, faults>>

NodeAccepts ==
  /\ onConnected
  /\ Answer(<<HelloFrame, NoiseFrame>>)
  /\ UNCHANGED <<listingVars, listVars, topicVars>>

\* There is no connection for the abort in onReconnectTimer to take down
\* (RetryHarmless), so nothing else changes.
Redial == onReconnectTimer /\ UNCHANGED sessionVars

\* At most one ping is under way: the bound on owed.
Ping ==
  /\ onPingTimer
  /\ \A j \in DOMAIN owed : owed[j].plaintext # "PingResponse"
  /\ IF m_state = "ListEntities" THEN UNCHANGED nodeVars
     ELSE Answer(<<Plain("PingResponse")>>)
  /\ UNCHANGED <<listingVars, listVars, topicVars>>

BytesSent == Flush /\ UNCHANGED sessionVars

\* Some of what the node sends arrives.
Receive(n) ==
  /\ n \in 1..Len(owed)
  /\ onReadyRead(SubSeq(owed, 1, n))
  /\ owed' = SubSeq(owed, n + 1, Len(owed))
  /\ UNCHANGED <<node, faults, listingVars, listVars, topicVars>>

ReceiveHello(f) ==
  /\ ServerHelloFrame(f)
  /\ UNCHANGED sessionVars

ReceiveNoise(f) ==
  /\ NoiseHandshakeFrame(f)
  /\ Answer(<<Plain("HelloResponse")>>)
  /\ UNCHANGED <<listingVars, listVars, topicVars>>

ReceiveHelloResponse(f) ==
  /\ HelloResponse(f)
  /\ Answer(<<DeviceInfo(node)>>)
  /\ UNCHANGED <<listingVars, listVars, topicVars>>

FaultyListingKept(f) ==
  /\ DeviceInfoResponse(f)
  /\ m_subDeviceNames' = f.names
  /\ UNCHANGED m_pendingEntities
  /\ Answer(Listing(node))
  /\ UNCHANGED <<listVars, topicVars>>

\* A new listing begins: the node lists its entities and says when it is done.
ReceiveDeviceInfo(f) ==
  /\ DeviceInfoResponse(f)
  /\ m_subDeviceNames' = f.names
  /\ m_pendingEntities' = <<>>
  /\ Answer(Listing(node))
  /\ UNCHANGED <<listVars, topicVars>>

\* processEntityInfo
ReceiveEntity(f) ==
  /\ f.plaintext = "ListEntities"
  /\ PassiveMessage(f)
  /\ m_pendingEntities' = Append(m_pendingEntities, f.entity)
  /\ UNCHANGED <<nodeVars, m_subDeviceNames, listVars, topicVars>>

\* The keys of the pending entities of device id.
Grouped(id) ==
  {m_pendingEntities[j].key :
     j \in {k \in DOMAIN m_pendingEntities : m_pendingEntities[k].device = id}}

\* The ids of the sub-devices with pending entities.
SubIds == {m_pendingEntities[j].device : j \in DOMAIN m_pendingEntities} \ {0}

FaultyDiscoverySilent(ds) == UNCHANGED <<retained, exposed>>

\* Controller::entitiesDiscovered for the devices ds.
entitiesDiscovered(ds) ==
  /\ publishExposes(ds, endpoints')
  /\ publishDeviceStatus(ds, availability', subAvailability')

\* subDevice for each sub-device of subs: it joins the list if it is not there
\* yet, and is Online because the connection is.
subDevice(subs) ==
  /\ registered' = registered \cup subs
  /\ subAvailability' = [s \in SubName |-> IF s \in subs THEN "Online"
                                           ELSE subAvailability[s]]

\* applyDiscoveredEntities: main, and the sub-devices that have entities, get
\* their endpoints anew; a sub-device of which none is listed stays as it is.
applyDiscoveredEntities ==
  LET subs == {m_subDeviceNames[id] : id \in SubIds}
      idOf(s) == CHOOSE id \in SubIds : m_subDeviceNames[id] = s
  IN  /\ subDevice(subs)
      /\ endpoints' = [d \in Dev |-> IF d = "main" THEN Grouped(0)
                                     ELSE IF d \in subs THEN Grouped(idOf(d))
                                     ELSE endpoints[d]]
      /\ entitiesDiscovered({"main"} \cup subs)

\* ListEntitiesDone
ReceiveDone(f) ==
  /\ ListEntitiesDone(f)
  /\ applyDiscoveredEntities
  /\ UNCHANGED <<nodeVars, listingVars, mqtt>>

\* A ping response: lastSeenUpdated publishes the status of all that share the
\* connection.
ReceivePing(f) ==
  /\ f.plaintext = "PingResponse"
  /\ PassiveMessage(f)
  /\ publishDeviceStatus({"main"} \cup knownSubDevices, availability, subAvailability)
  /\ UNCHANGED <<nodeVars, listingVars, listVars, mqtt, exposed>>

ReceiveShutdown(f) == DisconnectRequest(f) /\ UNCHANGED sessionVars
ReceiveEnds        == ReadLoopEnds /\ UNCHANGED sessionVars

-----------------------------------------------------------------------------
(***************************************************************************)
(* Commands, which arrive over MQTT                                        *)
(***************************************************************************)

\* addDevice; the list and the topics hold nothing of the device before it.
addDevice ==
  /\ mqtt
  /\ connectDevice(TRUE, Address)
  /\ owed' = <<>>
  /\ m_subDeviceNames' = <<>>
  /\ m_pendingEntities' = <<>>
  /\ endpoints' = [d \in Dev |-> {}]
  /\ UNCHANGED <<node, faults, registered, subAvailability, topicVars>>

\* The topics of the removed devices ds are cleared.
Cleared(ds) ==
  /\ retained' = [d \in Dev |-> IF d \in ds THEN "none" ELSE retained[d]]
  /\ exposed' = [d \in Dev |-> IF d \in ds THEN <<>> ELSE exposed[d]]

FaultyRemoveDevice ==
  /\ mqtt
  /\ disconnectDevice
  /\ owed' = <<>>
  /\ registered' = {}
  /\ Cleared({"main"})
  /\ UNCHANGED <<node, faults, listingVars, endpoints, subAvailability, mqtt>>

\* removeDevice of the main device: the sub-devices go with it.
removeDevice ==
  /\ mqtt
  /\ disconnectDevice
  /\ owed' = <<>>
  /\ registered' = {}
  /\ Cleared({"main"} \cup registered)
  /\ UNCHANGED <<node, faults, listingVars, endpoints, subAvailability, mqtt>>

\* removeDevice of one sub-device; the connection stays.
removeSubDevice(s) ==
  /\ mqtt /\ ~reading
  /\ s \in registered
  /\ registered' = registered \ {s}
  /\ Cleared({s})
  /\ UNCHANGED <<vars, nodeVars, listingVars, endpoints, subAvailability, mqtt>>

\* updateDevice of the main device publishes its exposes again.
updateMain(a) ==
  /\ mqtt
  /\ updateDevice(name, a)
  /\ publishExposes({"main"}, endpoints)
  /\ UNCHANGED <<nodeVars, listingVars, listVars, mqtt, retained>>

-----------------------------------------------------------------------------
SessionInit ==
  /\ Init
  /\ node \in Config
  /\ owed = <<>>
  /\ faults = 0
  /\ m_subDeviceNames = <<>>
  /\ m_pendingEntities = <<>>
  /\ registered = {}
  /\ endpoints = [d \in Dev |-> {}]
  /\ subAvailability = [s \in SubName |-> "Unknown"]
  /\ mqtt = FALSE
  /\ retained = [d \in Dev |-> "none"]
  /\ exposed = [d \in Dev |-> <<>>]

ReceiveLoop ==
  \/ ReceiveEnds
  \/ \E f \in NodeFrame : \/ ReceiveHello(f) \/ ReceiveNoise(f)
                          \/ ReceiveHelloResponse(f) \/ ReceiveDeviceInfo(f)
                          \/ ReceiveEntity(f) \/ ReceiveDone(f)
                          \/ ReceivePing(f) \/ ReceiveShutdown(f)

SessionNext ==
  \/ mqttConnected \/ MqttLost
  \/ NodeCloses \/ NodeRefuses \/ HandshakeLate \/ CloseIsComplete \/ NodeShutsDown
  \/ NodeAccepts \/ Redial \/ Ping \/ BytesSent
  \/ \E n \in 1..Len(owed) : Receive(n)
  \/ ReceiveLoop
  \/ addDevice \/ removeDevice
  \/ \E s \in SubName : removeSubDevice(s)
  \/ \E a \in BOOLEAN : updateMain(a)

SessionSpec == SessionInit /\ [][SessionNext]_allVars

\* The node answers, what it sends arrives, timers fire and the write buffer
\* drains; faults are the environment's choice and end after MaxFaults.
SessionFairSpec ==
  /\ SessionSpec
  /\ WF_allVars(ReceiveLoop)
  /\ WF_allVars(\E n \in 1..Len(owed) : Receive(n))
  /\ WF_allVars(NodeAccepts)
  /\ WF_allVars(Redial)
  /\ WF_allVars(CloseIsComplete)

-----------------------------------------------------------------------------
(***************************************************************************)
(* Properties                                                              *)
(***************************************************************************)

\* The entities of device id in the node's configuration.
Keys(id) ==
  {node.entities[j].key : j \in {k \in DOMAIN node.entities : node.entities[k].device = id}}

\* Once subscribed, main and its listed sub-devices have exactly the endpoints
\* of the node's present configuration: nothing is left of a listing that was
\* interrupted, of an earlier configuration, or of a shifted sub-device id.
EndpointsFresh ==
  alive /\ m_state = "Subscribe" =>
    /\ endpoints["main"] = Keys(0)
    /\ \A id \in DOMAIN node.names :
         Keys(id) # {} /\ node.names[id] \in registered => endpoints[node.names[id]] = Keys(id)

\* A sub-device has no connection of its own: it is Online only while its
\* parent's connection is past the handshake.
SubOnlineWithParent ==
  \A s \in registered : subAvailability[s] = "Online" => alive /\ m_state \in ReadyStates

\* The broker never keeps an "online" for a device that is not: whatever is
\* published while MQTT is down is made good when it is back.
RetainedHonest ==
  mqtt => \A d \in Listed(registered) :
            retained[d] = "online" => Avail(d, availability, subAvailability) = "Online"

\* The listed sub-devices that the node has entities of.
SubsInUse ==
  {node.names[id] : id \in {k \in DOMAIN node.names : Keys(k) # {}}} \cap registered

\* Once subscribed, and the broker connected, main and the sub-devices with
\* entities are announced with the endpoints they have.
Announced ==
  mqtt /\ alive /\ m_state = "Subscribe" =>
    \A d \in {"main"} \cup SubsInUse :
      retained[d] = "online" /\ exposed[d] = <<endpoints[d]>>

\* Nothing of a removed device, nor of the sub-devices that went with it, stays
\* at the broker or comes back while the connection goes on.
NothingLeftBehind ==
  \A d \in Dev \ Listed(registered) : retained[d] = "none" /\ exposed[d] = <<>>

\* The frames that node n may have under way to a service that knows its
\* sub-devices by these names: it speaks of n's own sub-devices, and it lists
\* entities only once the service knows their names.
FrameOf(n, names) ==
  {f \in Frame :
     /\ f.plaintext = "DeviceInfoResponse" => f.names = n.names
     /\ f.plaintext \in {"ListEntities", "ListEntitiesDone"} => names = n.names
     /\ f.plaintext = "ListEntities" => f.entity \in Range(n.entities)}

QueuesConsistent ==
  /\ node \in Config
  /\ owed \in Seq(FrameOf(node, m_subDeviceNames))
  /\ m_rxBuf \in Seq(FrameOf(node, m_subDeviceNames))

\* Every pending entity is main's or that of a sub-device with a name.
PendingNamed ==
  /\ \A id \in DOMAIN m_subDeviceNames : m_subDeviceNames[id] \in SubName
  /\ m_pendingEntities \in Seq([device : DOMAIN m_subDeviceNames \cup {0}, key : Nat])
  /\ registered \subseteq SubName

\* A sub-device that is Online is one that onDisconnected will find.
OnlineKnown ==
  \A s \in registered : subAvailability[s] = "Online" =>
    /\ m_subDeviceNames = node.names
    /\ \E id \in DOMAIN m_subDeviceNames : m_subDeviceNames[id] = s

\* The answers on their way to the service or in its buffer.  One milestone at
\* a time is among them, of the kind that the present state waits for, and no
\* entity is listed behind ListEntitiesDone.
Underway   == m_rxBuf \o owed
Milestones == {"HelloResponse", "DeviceInfoResponse", "ListEntitiesDone"}
Due(state) ==
  IF state = "Ready" THEN {"HelloResponse", "DeviceInfoResponse"}
  ELSE IF state = "ListEntities" THEN {"ListEntities", "ListEntitiesDone"} ELSE {}

Orderly(q, state) ==
  /\ \A j \in DOMAIN q :
       q[j].plaintext \in Milestones \cup {"ListEntities"} => q[j].plaintext \in Due(state)
  /\ \A i, j \in DOMAIN q :
       q[i].plaintext \in Milestones /\ q[j].plaintext \in Milestones => i = j
  /\ \A i, j \in DOMAIN q :
       i < j /\ q[i].plaintext = "ListEntitiesDone" => q[j].plaintext # "ListEntities"

\* The entities that the frames of q list.
ListedBy(q) == {q[j].entity : j \in {k \in DOMAIN q : q[k].plaintext = "ListEntities"}}

\* While a listing is under way its entities are pending or still to come, and
\* nothing else is pending.
ListingWhole ==
  m_state = "ListEntities" =>
    /\ m_subDeviceNames = node.names
    /\ Range(m_pendingEntities) \subseteq Range(node.entities)
    /\ Range(node.entities) \subseteq Range(m_pendingEntities) \cup ListedBy(Underway)

\* Once subscribed the sub-devices in use are Online, as main is.
SubsOnline == alive /\ m_state = "Subscribe" => \A s \in SubsInUse : subAvailability[s] = "Online"

\* The inductive invariant behind the invariants above.
SessionInv ==
  /\ Inv
  /\ QueuesConsistent
  /\ PendingNamed
  /\ OnlineKnown
  /\ SubOnlineWithParent
  /\ RetainedHonest
  /\ NothingLeftBehind
  /\ Orderly(Underway, m_state)
  /\ ListingWhole
  /\ EndpointsFresh
  /\ SubsOnline
  /\ Announced

\* With faults behind it, a device that is kept active gets all the way to
\* Subscribe, from whatever state it was left in.
Recovers ==
  alive /\ alwaysActive ~> m_state = "Subscribe" \/ ~alive \/ ~alwaysActive

=============================================================================
