------------------------------ MODULE Registry ------------------------------
(***************************************************************************)
(* The list of devices: what the retained MQTT commands and the listings   *)
(* of the nodes make of it, the connections that the manager keeps for it, *)
(* and the database file it is saved to with a delay and loaded from after *)
(* a restart or a crash.                                                   *)
(*                                                                         *)
(* A device is identified by its host; the host of a sub-device is its     *)
(* parent's address with the name of the sub-device, here the pair of the  *)
(* two.  The code keeps a list and byName returns the first match; here    *)
(* the list is a set and any match may be returned.                        *)
(***************************************************************************)
EXTENDS Naturals, Sequences

CONSTANTS
  Host,        \* hosts of nodes
  SubDevice,   \* sub-devices, pairs of a host and a name
  Label,       \* names given by users and nodes
  Unnamed,     \* the empty name; in Label only if users may give it
  None,        \* no command, no device
  Delay,       \* STORE_DATABASE_DELAY, in steps of the clock
  Command,     \* the commands that users publish, see CommandType
  MaxInbox     \* bound on the commands received and not yet handled

Device == Host \cup SubDevice
Name   == Host \cup Label \cup {d[2] : d \in SubDevice}

ASSUME DeviceAssumption ==
  /\ Host \cap SubDevice = {}
  /\ \A d \in SubDevice : d[1] \in Host
ASSUME NoneAssumption   == None \notin Device
ASSUME DelayAssumption  == Delay \in Nat \ {0}
ASSUME InboxAssumption  == MaxInbox \in Nat \ {0}

\* What users publish to command/esphome; `device' of an update or removal is
\* a name or a host, `valid' says that a key to add has 32 bytes.
CommandType ==
  [action : {"addDevice"}, device : Host, name : Name \cup {Unnamed}, valid : BOOLEAN]
  \cup [action : {"removeDevice"}, device : Device \cup Name, name : {Unnamed}, valid : {TRUE}]
  \cup [action : {"updateDevice"}, device : Device \cup Name, name : Label, valid : {TRUE}]
  \cup [action : {"restartService"}, device : {None}, name : {Unnamed}, valid : {TRUE}]
ASSUME CommandAssumption == Command \subseteq CommandType /\ None \notin Command

VARIABLES
  up,           \* the process runs
  exiting,      \* QCoreApplication::exit was called; the loop is still to return
  devices,      \* DeviceList
  name,         \* name() of each device
  connections,  \* EspHomeManager::m_connections, by host
  m_timer,      \* DeviceList::m_timer: what is left of the delay, 0 if stopped
  file,         \* the database file
  online,       \* connected to the broker
  command,      \* the retained message of command/esphome at the broker
  inbox,        \* commands the broker has sent and that are not handled yet
  durable,      \* history: devices that reached the file and were not removed
  addOrdered,   \* history: the host of the last command, if it was addDevice
  asked,        \* history: a restart was asked for and has not happened yet
  unwritten     \* history: a write failed and none was asked for since

memory  == <<up, exiting, devices, name, connections, m_timer>>
broker  == <<online, command, inbox>>
history == <<durable, addOrdered, asked, unwritten>>
vars    == <<memory, file, broker, history>>

\* The name of a device that is not listed, for the sake of one value.
NoNames == [d \in Device |-> Unnamed]

-----------------------------------------------------------------------------
(***************************************************************************)
(* The database                                                            *)
(***************************************************************************)
FaultySerialize(ds) == [devices |-> ds \cap Host, name |-> name]

\* serialize: every device of the list.
serialize(ds) == [devices |-> ds, name |-> name]

\* unserialize, parse: an entry without a name is dropped.
unserialize == {d \in file.devices : file.name[d] # Unnamed}

FaultyStore == UNCHANGED <<m_timer, unwritten>>

\* store(): the change is written when nothing else changes for a while.
store ==
  /\ m_timer' = Delay
  /\ unwritten' = FALSE

\* writeDatabase: the file is replaced, or cannot be opened; that is logged,
\* and nobody tries again before the next store().
writeDatabase ==
  \/ /\ file' = serialize(devices)
     /\ durable' = durable \cup devices
     /\ unwritten' = FALSE
  \/ /\ unwritten' = TRUE
     /\ UNCHANGED <<file, durable>>

\* The clock; m_timer expires.
Tick ==
  /\ up /\ m_timer > 0
  /\ m_timer' = m_timer - 1
  /\ IF m_timer = 1 THEN writeDatabase ELSE UNCHANGED <<file, durable, unwritten>>
  /\ UNCHANGED <<up, exiting, devices, name, connections, broker, addOrdered, asked>>

-----------------------------------------------------------------------------
(***************************************************************************)
(* Start and end of the process                                            *)
(***************************************************************************)
\* connectDevice: the connection it makes, none for a sub-device or for a host
\* that has one.
connectDevice(d) == IF d \in SubDevice \cup connections THEN {} ELSE {d}

\* connectAll: sub-devices get no connection of their own.
connectAll(ds) == UNION {connectDevice(d) : d \in ds \ SubDevice}

FaultyDisconnectDevice(d) == connections

\* disconnectDevice: the connections that are left; a sub-device has none.
disconnectDevice(d) == connections \ {d}

\* The constructors of Controller and DeviceList.
Start ==
  /\ ~up
  /\ up' = TRUE
  /\ devices' = unserialize
  /\ name' = [d \in Device |-> IF d \in unserialize THEN file.name[d] ELSE Unnamed]
  /\ connections' = connectAll(unserialize)
  /\ unwritten' = FALSE
  /\ UNCHANGED <<exiting, m_timer, file, broker, durable, addOrdered, asked>>

\* Everything in memory is gone, and what was received and not handled.
Gone ==
  /\ up' = FALSE
  /\ exiting' = FALSE
  /\ devices' = {}
  /\ name' = NoNames
  /\ connections' = {}
  /\ m_timer' = 0
  /\ online' = FALSE
  /\ inbox' = <<>>

\* quit, ~DeviceList: store(true) writes at once.  The service is stopped from
\* outside, or the event loop returns after exit().
quit ==
  /\ up
  /\ writeDatabase
  /\ Gone
  /\ UNCHANGED <<command, addOrdered, asked>>

Crash ==
  /\ up
  /\ Gone
  /\ UNCHANGED <<file, command, history>>

\* The process dies in writeDatabase, run by m_timer or by quit, between
\* open(Truncate) and write: what had reached the file is lost with it.
CrashWriting ==
  /\ up
  /\ file' = [devices |-> {}, name |-> NoNames]
  /\ durable' = {}
  /\ Gone
  /\ UNCHANGED <<command, addOrdered, asked, unwritten>>

-----------------------------------------------------------------------------
(***************************************************************************)
(* Listings of the nodes                                                   *)
(***************************************************************************)
\* ListEntitiesDone on the connection to h: subDevice finds or creates the
\* sub-devices listed and names them, entitiesDiscovered saves.
entitiesDiscovered(h, subs) ==
  /\ up /\ h \in connections
  /\ devices' = devices \cup subs
  /\ name' = [d \in Device |-> IF d \in subs THEN d[2] ELSE name[d]]
  /\ store
  /\ UNCHANGED <<up, exiting, connections, file, broker, durable, addOrdered, asked>>

\* ServerHello: a device that goes by its address takes the node's name, which
\* is saved with the listing that follows.
adoptName(h, n) ==
  /\ up /\ h \in connections
  /\ name[h] = h
  /\ n # Unnamed
  /\ name' = [name EXCEPT ![h] = n]
  /\ UNCHANGED <<up, exiting, devices, connections, m_timer, file, broker, history>>

-----------------------------------------------------------------------------
(***************************************************************************)
(* Commands.  The broker keeps the last one and sends it again whenever    *)
(* the service subscribes.                                                 *)
(***************************************************************************)
\* A user publishes a command, retained.
Publish(c) ==
  /\ Len(inbox) < MaxInbox
  /\ command' = c
  /\ inbox' = IF online THEN Append(inbox, c) ELSE inbox
  /\ addOrdered' = IF c.action = "addDevice" /\ c.valid THEN c.device ELSE None
  /\ asked' = (IF c.action = "restartService" THEN TRUE ELSE asked)
  /\ UNCHANGED <<memory, file, online, durable, unwritten>>

\* mqttConnected subscribes, and the retained command comes in.
mqttConnected ==
  /\ up /\ ~online
  /\ online' = TRUE
  /\ inbox' = IF command = None THEN <<>> ELSE <<command>>
  /\ UNCHANGED <<memory, file, command, history>>

MqttLost ==
  /\ online
  /\ online' = FALSE
  /\ inbox' = <<>>
  /\ UNCHANGED <<memory, file, command, history>>

\* byName and then byHost.
Lookup(id) ==
  LET named == {d \in devices : name[d] = id}
  IN IF named # {} THEN named ELSE devices \cap {id}

FaultyReceive(action) ==
  /\ inbox # <<>>
  /\ Head(inbox).action = action
  /\ inbox' = Tail(inbox)
  /\ command' = None

\* mqttReceived takes the next command, one of the given kind.  The broker
\* keeps it.
Receive(action) ==
  /\ inbox # <<>>
  /\ Head(inbox).action = action
  /\ inbox' = Tail(inbox)
  /\ UNCHANGED command

NothingDone == UNCHANGED <<devices, name, connections, m_timer, unwritten>>

addDevice ==
  LET c == Head(inbox) IN
  /\ Receive("addDevice")
  /\ IF c.valid /\ c.device \notin devices
       THEN /\ devices' = devices \cup {c.device}
            /\ name' = [name EXCEPT ![c.device] = IF c.name = Unnamed THEN c.device ELSE c.name]
            /\ connections' = connections \cup connectDevice(c.device)
            /\ store
       ELSE NothingDone
  /\ UNCHANGED <<up, exiting, file, online, durable, addOrdered, asked>>

FaultyWithSubs(d) == {d}

\* What removeDevice takes off the list: the device and its sub-devices.
WithSubs(d) == {d} \cup {s \in devices \cap SubDevice : s[1] = d}

removeDevice ==
  LET c == Head(inbox) IN
  /\ Receive("removeDevice")
  /\ \/ /\ Lookup(c.device) = {}
        /\ NothingDone
        /\ UNCHANGED durable
     \/ \E d \in Lookup(c.device) :
          /\ devices' = devices \ WithSubs(d)
          /\ name' = [x \in Device |-> IF x \in WithSubs(d) THEN Unnamed ELSE name[x]]
          /\ connections' = disconnectDevice(d)
          /\ store
          /\ durable' = durable \ WithSubs(d)
  /\ UNCHANGED <<up, exiting, file, online, addOrdered, asked>>

\* updateDevice with a name; the flags it may set as well are left out.
updateDevice ==
  LET c == Head(inbox) IN
  /\ Receive("updateDevice")
  /\ \/ /\ Lookup(c.device) = {}
        /\ NothingDone
     \/ \E d \in Lookup(c.device) :
          /\ name' = [name EXCEPT ![d] = c.name]
          /\ store
          /\ UNCHANGED <<devices, connections>>
  /\ UNCHANGED <<up, exiting, file, online, durable, addOrdered, asked>>

FaultyClearCommand == UNCHANGED command

\* mqttPublish of an empty retained message.
ClearCommand == command' = None

\* restartService: the retained command is deleted, whatever it is by now.  The
\* event loop is told to end, which it does in quit; until then, what has been
\* received with the command may still be handled.
restartService ==
  /\ inbox # <<>>
  /\ Head(inbox).action = "restartService"
  /\ inbox' = Tail(inbox)
  /\ ClearCommand
  /\ exiting' = TRUE
  /\ addOrdered' = None
  /\ asked' = FALSE
  /\ UNCHANGED <<up, devices, name, connections, m_timer, file, online, durable, unwritten>>

\* The event loop returns.
ExitLoop == exiting /\ quit

-----------------------------------------------------------------------------
Init ==
  /\ up = TRUE
  /\ exiting = FALSE
  /\ devices = {}
  /\ name = NoNames
  /\ connections = {}
  /\ m_timer = 0
  /\ file = [devices |-> {}, name |-> NoNames]
  /\ online = FALSE
  /\ command = None
  /\ inbox = <<>>
  /\ durable = {}
  /\ addOrdered = None
  /\ asked = FALSE
  /\ unwritten = FALSE

SubsOf(h) == {s \in SubDevice : s[1] = h}

Commanded == addDevice \/ removeDevice \/ updateDevice
Listed    == \E h \in Host : \E subs \in SUBSET SubsOf(h) : entitiesDiscovered(h, subs)

Next ==
  \/ \E c \in Command : Publish(c)
  \/ Commanded \/ restartService
  \/ Listed
  \/ \E h \in Host, n \in Label : adoptName(h, n)
  \/ mqttConnected \/ MqttLost
  \/ Tick \/ quit \/ Start \/ Crash \/ CrashWriting

Spec == Init /\ [][Next]_vars

\* Time passes while the process runs, it is started again when it ended, it
\* handles what it received, and ends when told to.
Fairness ==
  /\ WF_vars(Tick)
  /\ WF_vars(Start)
  /\ WF_vars(Commanded \/ restartService)
  /\ WF_vars(ExitLoop)
FairSpec == Spec /\ Fairness

-----------------------------------------------------------------------------
(***************************************************************************)
(* Properties                                                              *)
(***************************************************************************)
TypeOK ==
  /\ up \in BOOLEAN
  /\ exiting \in BOOLEAN
  /\ devices \subseteq Device
  /\ name \in [Device -> Name \cup {Unnamed}]
  /\ connections \subseteq Host
  /\ m_timer \in 0..Delay
  /\ file \in [devices : SUBSET Device, name : [Device -> Name \cup {Unnamed}]]
  /\ online \in BOOLEAN
  /\ command \in Command \cup {None}
  /\ inbox \in Seq(Command)
  /\ durable \subseteq Device
  /\ addOrdered \in Host \cup {None}
  /\ asked \in BOOLEAN
  /\ unwritten \in BOOLEAN

\* The manager has a connection for each node of the list and no other: add,
\* remove, restart and the sub-devices never get the two out of step.
ConnectionsMatch == up => connections = devices \cap Host

\* EspHomeManager::sendCommand: a sub-device is reached over the connection of
\* its parent, by parentAddress.
Route(d) == IF d \in SubDevice THEN d[1] ELSE d

\* A command for any listed device finds a connection: no sub-device is left
\* in the list, or brought back from the file, without its parent.
Reachable == \A d \in devices : Route(d) \in connections

\* Once the database has held a device, only removeDevice takes it off the
\* list: no restart, listing, other command, or crash but one that tears the
\* file does.
DurableKept == up => durable \subseteq devices

\* The file would bring the list back.
Saved ==
  /\ {d \in devices : name[d] # Unnamed} = unserialize
  /\ \A d \in unserialize : name[d] = file.name[d] \/ file.name[d] = d

\* Whatever has changed the list has asked for it to be saved: with the timer
\* stopped, and unless the file could not be opened, a crash loses nothing,
\* except names that are adopted again.
SavedWhenIdle == up /\ m_timer = 0 /\ ~unwritten => Saved

\* A device that was added by the last command is there once the service has
\* handled what it received, although a crash may have lost it before it was
\* saved: the retained command comes again and is carried out again.
AddHonoured ==
  up /\ online /\ inbox = <<>> /\ addOrdered # None => addOrdered \in devices

\* A retained restartService is carried out once: when it comes in, and unless
\* the process is about to end already, there was no restart since it was
\* published.
RestartAsked ==
  ~exiting => \A k \in DOMAIN inbox : inbox[k].action = "restartService" => asked

\* Once store() is no longer called, the list is saved for good, whatever
\* crashes, restarts and losses of the broker there still are; unless it is
\* the last write that fails.
EventuallySaved == <>[][~Listed /\ ~Commanded]_vars => <>[](up /\ ~unwritten => Saved)

-----------------------------------------------------------------------------
(***************************************************************************)
(* The inductive invariant                                                 *)
(***************************************************************************)
\* A process that does not run has nothing in memory.
DownIsEmpty == ~up => devices = {} /\ connections = {} /\ m_timer = 0 /\ ~online /\ ~exiting
OfflineIsEmpty == ~online => inbox = <<>>

\* No sub-device without its parent, in the list and in the file.
NoOrphans ==
  \A d \in SubDevice : /\ d \in devices => d[1] \in devices
                       /\ d \in file.devices => d[1] \in file.devices

\* Every device has a name, if users never give the empty one.
AllNamed ==
  /\ \A d \in devices : name[d] # Unnamed
  /\ \A d \in file.devices : file.name[d] # Unnamed

DurableStored == durable \subseteq file.devices

\* The broker has the command that was published last, and sent it last, unless
\* a restart has deleted it.
LastIsRetained == inbox # <<>> /\ command # None => inbox[Len(inbox)] = command
AddIsRetained ==
  addOrdered # None =>
    command # None /\ command.action = "addDevice" /\ command.valid /\ command.device = addOrdered
RestartIsAsked == command # None /\ command.action = "restartService" => asked

\* Inductive for every instance in which no user gives the empty name.
Inv ==
  /\ TypeOK
  /\ DownIsEmpty
  /\ OfflineIsEmpty
  /\ ConnectionsMatch
  /\ NoOrphans
  /\ AllNamed
  /\ DurableKept
  /\ DurableStored
  /\ SavedWhenIdle
  /\ LastIsRetained
  /\ AddIsRetained
  /\ AddHonoured
  /\ RestartIsAsked
  /\ RestartAsked

-----------------------------------------------------------------------------
(***************************************************************************)
(* What the documentation says and the code does not do                    *)
(***************************************************************************)
\* README: only an explicit removeDevice deletes a device.  What leaves the file
\* has left the list.
OnlyRemovalDeletes ==
  [][\A d \in unserialize : d \notin unserialize' => d \notin devices]_vars

\* README: after each connection the database is updated.  A sub-device listed
\* gets into the file, or the process ends, the device is removed, or the file
\* cannot be opened.
DiscoveredSaved ==
  \A d \in SubDevice : d \in devices ~> (d \notin devices \/ d \in file.devices \/ unwritten)
=============================================================================
