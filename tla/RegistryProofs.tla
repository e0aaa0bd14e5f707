--------------------------- MODULE RegistryProofs ---------------------------
(***************************************************************************)
(* Proofs about Registry, for every set of hosts, sub-devices, names and   *)
(* commands, every delay and any number of commands under way.             *)
(***************************************************************************)
EXTENDS Registry, SequenceTheorems, TLAPS

\* No user gives a device the empty name.
Named == Unnamed \notin Name

ListInv ==
  DownIsEmpty /\ ConnectionsMatch /\ NoOrphans /\ AllNamed /\ DurableKept /\ DurableStored
BrokerInv ==
  /\ OfflineIsEmpty /\ LastIsRetained /\ AddIsRetained /\ AddHonoured
  /\ RestartIsAsked /\ RestartAsked

LEMMA SplitInv == Inv <=> TypeOK /\ ListInv /\ SavedWhenIdle /\ BrokerInv
  BY DEF Inv, ListInv, BrokerInv

-----------------------------------------------------------------------------
\* A command that is received: its fields, and what stays in the inbox.
LEMMA Received ==
  ASSUME TypeOK, LastIsRetained, inbox # <<>>
  PROVE  /\ Head(inbox) \in Command
         /\ Tail(inbox) \in Seq(Command)
         /\ Head(inbox) = inbox[1]
         /\ Tail(inbox) # <<>> /\ command # None => Tail(inbox)[Len(Tail(inbox))] = command
         /\ Tail(inbox) = <<>> /\ command # None => Head(inbox) = command
         /\ \A k \in DOMAIN Tail(inbox) : Tail(inbox)[k] = inbox[k + 1] /\ k + 1 \in DOMAIN inbox
  <1>1. inbox \in Seq(Command) /\ inbox # <<>>
    BY DEF TypeOK
  <1>2. /\ Len(Tail(inbox)) = Len(inbox) - 1
        /\ Len(inbox) \in Nat \ {0}
        /\ \A k \in 1..Len(Tail(inbox)) : Tail(inbox)[k] = inbox[k + 1]
        /\ Tail(inbox) \in Seq(Command)
        /\ Head(inbox) \in Command /\ Head(inbox) = inbox[1]
        /\ DOMAIN inbox = 1..Len(inbox) /\ DOMAIN Tail(inbox) = 1..Len(Tail(inbox))
    BY <1>1
  <1>3. Tail(inbox) = <<>> <=> Len(Tail(inbox)) = 0
    BY <1>2, EmptySeq
  <1> QED
    BY <1>1, <1>2, <1>3 DEF LastIsRetained

\* Look-up returns a listed device.
LEMMA LookupListed == ASSUME NEW id PROVE Lookup(id) \subseteq devices
  BY DEF Lookup

\* A node gets its connection, and connectAll makes those of the nodes.
LEMMA ConnectsNew ==
  ASSUME NEW d \in Host
  PROVE  connections \cup connectDevice(d) = connections \cup {d}
  BY DeviceAssumption DEF connectDevice

LEMMA ConnectsNodes ==
  ASSUME connections = {}, NEW ds \in SUBSET Device
  PROVE  connectAll(ds) = ds \cap Host
  <1>1. \A d \in ds \ SubDevice : connectDevice(d) = {d}
    BY DEF connectDevice
  <1>2. ds \ SubDevice = ds \cap Host
    BY DeviceAssumption DEF Device
  <1> QED BY <1>1, <1>2 DEF connectAll

\* The parts that speak of the broker only hold again when a command other
\* than restartService has been received and the rest follows for addDevice.
LEMMA ReceiveKeeps ==
  ASSUME TypeOK, BrokerInv, NEW a, Receive(a), UNCHANGED <<exiting, online, addOrdered, asked>>,
         a \in {"addDevice", "removeDevice", "updateDevice"},
         TypeOK'
  PROVE  OfflineIsEmpty' /\ LastIsRetained' /\ AddIsRetained' /\ RestartIsAsked' /\ RestartAsked'
  <1>1. inbox # <<>> /\ inbox' = Tail(inbox) /\ command' = command
    BY DEF Receive
  <1>2. OfflineIsEmpty'
    BY <1>1 DEF BrokerInv, OfflineIsEmpty
  <1>3. LastIsRetained'
    BY <1>1, Received DEF BrokerInv, LastIsRetained
  <1>4. AddIsRetained' /\ RestartIsAsked'
    BY <1>1 DEF BrokerInv, AddIsRetained, RestartIsAsked
  <1>5. RestartAsked'
    BY <1>1, Received DEF BrokerInv, RestartAsked
  <1> QED BY <1>2, <1>3, <1>4, <1>5

-----------------------------------------------------------------------------
LEMMA InitInv == Init => Inv
  <1> SUFFICES ASSUME Init PROVE Inv OBVIOUS
  <1>1. TypeOK
    <2>1. NoNames \in [Device -> Name \cup {Unnamed}] BY DEF NoNames
    <2>2. inbox \in Seq(Command) BY DEF Init
    <2>3. m_timer \in 0..Delay BY DelayAssumption DEF Init
    <2>4. file \in [devices : SUBSET Device, name : [Device -> Name \cup {Unnamed}]]
      BY <2>1 DEF Init
    <2>5. /\ up \in BOOLEAN /\ exiting \in BOOLEAN /\ online \in BOOLEAN /\ asked \in BOOLEAN /\ unwritten \in BOOLEAN
          /\ devices \subseteq Device /\ connections \subseteq Host /\ durable \subseteq Device
          /\ command \in Command \cup {None} /\ addOrdered \in Host \cup {None}
      BY DEF Init
    <2>6. name \in [Device -> Name \cup {Unnamed}] BY <2>1 DEF Init
    <2> QED BY <2>2, <2>3, <2>4, <2>5, <2>6 DEF TypeOK
  <1>2. ListInv /\ SavedWhenIdle
    BY DEF Init, ListInv, DownIsEmpty, ConnectionsMatch, NoOrphans, AllNamed, DurableKept,
           DurableStored, SavedWhenIdle, Saved, unserialize
  <1>3. BrokerInv
    BY DEF Init, BrokerInv, OfflineIsEmpty, LastIsRetained, AddIsRetained, AddHonoured,
           RestartIsAsked, RestartAsked
  <1> QED BY <1>1, <1>2, <1>3, SplitInv

-----------------------------------------------------------------------------
\* The end of the process, with or without a last write.
LEMMA GoneInv ==
  ASSUME Inv, Gone, TypeOK', NoOrphans', AllNamed', DurableStored',
         AddIsRetained', RestartIsAsked'
  PROVE  Inv'
  BY DEF Inv, Gone, DownIsEmpty, OfflineIsEmpty, ConnectionsMatch, DurableKept, SavedWhenIdle,
         LastIsRetained, AddHonoured, RestartAsked

LEMMA GoneType ==
  ASSUME Gone
  PROVE  /\ up' \in BOOLEAN /\ exiting' \in BOOLEAN /\ devices' \subseteq Device /\ connections' \subseteq Host
         /\ name' \in [Device -> Name \cup {Unnamed}] /\ m_timer' \in 0..Delay
         /\ online' \in BOOLEAN /\ inbox' \in Seq(Command)
  <1>1. NoNames \in [Device -> Name \cup {Unnamed}] BY DEF NoNames
  <1>2. inbox' \in Seq(Command) BY DEF Gone
  <1>3. m_timer' \in 0..Delay BY DelayAssumption DEF Gone
  <1>4. /\ up' \in BOOLEAN /\ exiting' \in BOOLEAN /\ online' \in BOOLEAN
        /\ devices' \subseteq Device /\ connections' \subseteq Host
    BY DEF Gone
  <1>5. name' \in [Device -> Name \cup {Unnamed}] BY <1>1 DEF Gone
  <1> QED BY <1>2, <1>3, <1>4, <1>5

\* writeDatabase puts a list without orphans and unnamed devices into the file,
\* or leaves the one that is there.
LEMMA WriteFacts ==
  ASSUME Inv, writeDatabase
  PROVE  /\ file' \in [devices : SUBSET Device, name : [Device -> Name \cup {Unnamed}]]
         /\ \/ ~unwritten' /\ file'.devices = devices /\ file'.name = name
            \/ unwritten' /\ UNCHANGED <<file, durable>>
         /\ durable' \subseteq Device /\ unwritten' \in BOOLEAN
         /\ up => durable' \subseteq devices
  <1>1. CASE ~unwritten'
    <2>1. file' = [devices |-> devices, name |-> name] /\ durable' = durable \cup devices
      BY <1>1 DEF writeDatabase, serialize
    <2>2. unwritten' = FALSE BY <1>1 DEF writeDatabase
    <2> QED BY <1>1, <2>1, <2>2 DEF Inv, TypeOK, DurableKept
  <1>2. CASE unwritten'
    <2>1. UNCHANGED <<file, durable>> /\ unwritten' = TRUE BY <1>2 DEF writeDatabase
    <2> QED BY <1>2, <2>1 DEF Inv, TypeOK, DurableKept
  <1> QED BY <1>1, <1>2

\* Either way the file holds what is durable.
LEMMA WriteKeeps ==
  ASSUME Inv, up, writeDatabase, devices' = {} \/ devices' = devices, name' = name \/ devices' = {}
  PROVE  NoOrphans' /\ AllNamed' /\ DurableStored'
  <1>1. CASE ~unwritten'
    BY <1>1, WriteFacts DEF Inv, NoOrphans, AllNamed, DurableStored
  <1>2. CASE unwritten'
    BY <1>2, WriteFacts DEF Inv, NoOrphans, AllNamed, DurableStored
  <1> QED BY <1>1, <1>2

LEMMA QuitInv == Inv /\ quit => Inv'
  <1> SUFFICES ASSUME Inv, quit PROVE Inv' OBVIOUS
  <1>1. Gone /\ writeDatabase /\ up /\ UNCHANGED <<command, addOrdered, asked>>
    BY DEF quit
  <1>2. TypeOK'
    BY <1>1, WriteFacts, GoneType DEF Inv, TypeOK
  <1>3. NoOrphans' /\ AllNamed' /\ DurableStored'
    BY <1>1, WriteKeeps DEF Gone
  <1>4. AddIsRetained' /\ RestartIsAsked'
    BY <1>1 DEF Inv, AddIsRetained, RestartIsAsked
  <1> QED BY <1>1, <1>2, <1>3, <1>4, GoneInv

LEMMA CrashInv == Inv /\ Crash => Inv'
  <1> SUFFICES ASSUME Inv, Crash PROVE Inv' OBVIOUS
  <1>1. Gone /\ UNCHANGED <<file, command, durable, addOrdered, asked, unwritten>>
    BY DEF Crash, history
  <1>2. TypeOK'
    BY <1>1, GoneType DEF Inv, TypeOK
  <1>3. NoOrphans' /\ AllNamed' /\ DurableStored'
    BY <1>1 DEF Gone, Inv, NoOrphans, AllNamed, DurableStored
  <1>4. AddIsRetained' /\ RestartIsAsked'
    BY <1>1 DEF Inv, AddIsRetained, RestartIsAsked
  <1> QED BY <1>1, <1>2, <1>3, <1>4, GoneInv

LEMMA CrashWritingInv == Inv /\ CrashWriting => Inv'
  <1> SUFFICES ASSUME Inv, CrashWriting PROVE Inv' OBVIOUS
  <1>1. /\ Gone /\ UNCHANGED <<command, addOrdered, asked, unwritten>>
        /\ file' = [devices |-> {}, name |-> NoNames] /\ durable' = {}
    BY DEF CrashWriting
  <1>2. TypeOK'
    <2>1. NoNames \in [Device -> Name \cup {Unnamed}] BY DEF NoNames
    <2>2. file' \in [devices : SUBSET Device, name : [Device -> Name \cup {Unnamed}]]
      BY <1>1, <2>1
    <2> QED BY <1>1, <2>2, GoneType DEF Inv, TypeOK
  <1>3. NoOrphans' /\ AllNamed' /\ DurableStored'
    BY <1>1 DEF Gone, NoOrphans, AllNamed, DurableStored
  <1>4. AddIsRetained' /\ RestartIsAsked'
    BY <1>1 DEF Inv, AddIsRetained, RestartIsAsked
  <1> QED BY <1>1, <1>2, <1>3, <1>4, GoneInv

-----------------------------------------------------------------------------
\* Steps that leave the broker and the commands alone, and take no device off
\* the list.
LEMMA BrokerUnchanged ==
  ASSUME BrokerInv, UNCHANGED <<exiting, broker, addOrdered, asked>>, up, devices \subseteq devices'
  PROVE  BrokerInv'
  BY DEF BrokerInv, broker, OfflineIsEmpty, LastIsRetained, AddIsRetained, AddHonoured,
         RestartIsAsked, RestartAsked

LEMMA TickInv == Inv /\ Tick => Inv'
  <1> SUFFICES ASSUME Inv, Tick PROVE Inv' OBVIOUS
  <1>1. /\ up /\ m_timer > 0 /\ m_timer' = m_timer - 1
        /\ UNCHANGED <<up, exiting, devices, name, connections, broker, addOrdered, asked>>
    BY DEF Tick
  <1>2. TypeOK /\ ListInv /\ BrokerInv BY SplitInv
  <1>3. BrokerInv' BY <1>1, <1>2, BrokerUnchanged
  <1>4. m_timer' \in 0..Delay
    BY <1>1, <1>2, DelayAssumption DEF TypeOK
  <1>5. CASE m_timer = 1
    <2>1. writeDatabase BY <1>5 DEF Tick
    <2>2. TypeOK'
      BY <1>1, <1>2, <1>4, <2>1, WriteFacts DEF TypeOK, broker
    <2>3. NoOrphans' /\ AllNamed' /\ DurableStored'
      BY <1>1, <2>1, WriteKeeps
    <2>5. ListInv'
      BY <1>1, <1>2, <2>1, <2>3, WriteFacts DEF ListInv, DownIsEmpty, ConnectionsMatch, DurableKept
    <2>4. SavedWhenIdle'
      BY <1>1, <1>2, <2>1, WriteFacts DEF ListInv, AllNamed, SavedWhenIdle, Saved, unserialize
    <2> QED BY <1>3, <2>2, <2>4, <2>5 DEF Inv, ListInv, BrokerInv
  <1>6. CASE m_timer # 1
    <2>1. UNCHANGED <<file, durable, unwritten>> BY <1>6 DEF Tick
    <2>2. TypeOK'
      BY <1>1, <1>2, <1>4, <2>1 DEF TypeOK, broker
    <2>3. ListInv'
      BY <1>1, <1>2, <2>1
      DEF ListInv, DownIsEmpty, ConnectionsMatch, NoOrphans, AllNamed, DurableKept, DurableStored
    <2>4. SavedWhenIdle'
      BY <1>1, <1>2, <1>6 DEF SavedWhenIdle, TypeOK
    <2> QED BY <1>3, <2>2, <2>3, <2>4 DEF Inv, ListInv, BrokerInv
  <1> QED BY <1>5, <1>6

LEMMA StartInv == Inv /\ Start => Inv'
  <1> SUFFICES ASSUME Inv, Start PROVE Inv' OBVIOUS
  <1>1. /\ ~up /\ up' = TRUE /\ devices' = unserialize
        /\ connections' = connectAll(unserialize)
        /\ unwritten' = FALSE
        /\ UNCHANGED <<exiting, m_timer, file, broker, durable, addOrdered, asked>>
    BY DEF Start
  <1>2. name' = [d \in Device |-> IF d \in unserialize THEN file.name[d] ELSE Unnamed]
    BY DEF Start
  <1>3. TypeOK /\ ListInv /\ BrokerInv BY SplitInv
  <1>4. unserialize = file.devices
    BY <1>3 DEF unserialize, ListInv, AllNamed
  <1>10. connections' = unserialize \cap Host
    BY <1>1, <1>3, <1>4, ConnectsNodes DEF TypeOK, ListInv, DownIsEmpty
  <1>5. unserialize' = unserialize /\ \A d \in unserialize : name'[d] = file.name[d]
    BY <1>1, <1>2, <1>3, <1>4 DEF TypeOK, unserialize
  <1>6. TypeOK'
    <2>1. name' \in [Device -> Name \cup {Unnamed}]
      BY <1>2, <1>3, <1>4 DEF TypeOK
    <2> QED BY <1>1, <1>3, <1>4, <1>10, <2>1 DEF TypeOK, broker, history
  <1>7. ListInv'
    BY <1>1, <1>3, <1>4, <1>5, <1>10, DeviceAssumption
    DEF ListInv, history, DownIsEmpty, ConnectionsMatch, NoOrphans, AllNamed, DurableKept, DurableStored
  <1>8. SavedWhenIdle'
    BY <1>1, <1>3, <1>4, <1>5 DEF ListInv, AllNamed, SavedWhenIdle, Saved
  <1>9. BrokerInv'
    BY <1>1, <1>3
    DEF BrokerInv, ListInv, broker, history, DownIsEmpty, OfflineIsEmpty, LastIsRetained,
        AddIsRetained, AddHonoured, RestartIsAsked, RestartAsked
  <1> QED BY <1>6, <1>7, <1>8, <1>9 DEF Inv, ListInv, BrokerInv

LEMMA EntitiesDiscoveredInv ==
  ASSUME Named, Inv, NEW h \in Host, NEW subs \in SUBSET SubsOf(h), entitiesDiscovered(h, subs)
  PROVE  Inv'
  <1>1. /\ up /\ h \in connections /\ devices' = devices \cup subs
        /\ m_timer' = Delay /\ unwritten' = FALSE
        /\ UNCHANGED <<up, exiting, connections, file, broker, durable, addOrdered, asked>>
    BY DEF entitiesDiscovered, store
  <1>2. name' = [d \in Device |-> IF d \in subs THEN d[2] ELSE name[d]]
    BY DEF entitiesDiscovered
  <1>3. TypeOK /\ ListInv /\ BrokerInv BY SplitInv
  <1>4. subs \subseteq SubDevice /\ \A d \in subs : d[1] = h /\ d[2] \in Name
    BY DEF SubsOf, Name
  <1>5. TypeOK'
    <2>1. name' \in [Device -> Name \cup {Unnamed}]
      BY <1>2, <1>3, <1>4 DEF TypeOK
    <2>2. m_timer' \in 0..Delay BY <1>1, DelayAssumption
    <2> QED BY <1>1, <1>3, <1>4, <2>1, <2>2 DEF TypeOK, broker, history, Device
  <1>6. AllNamed'
    BY <1>1, <1>2, <1>3, <1>4 DEF ListInv, AllNamed, Named, Device, TypeOK
  <1>7. ListInv'
    BY <1>1, <1>3, <1>4, <1>6, DeviceAssumption
    DEF ListInv, history, DownIsEmpty, ConnectionsMatch, NoOrphans, DurableKept, DurableStored
  <1>8. SavedWhenIdle' BY <1>1, DelayAssumption DEF SavedWhenIdle
  <1>9. BrokerInv' BY <1>1, <1>3, BrokerUnchanged DEF history
  <1> QED BY <1>5, <1>7, <1>8, <1>9 DEF Inv, ListInv, BrokerInv

LEMMA AdoptNameInv ==
  ASSUME Named, Inv, NEW h \in Host, NEW n \in Label, adoptName(h, n)
  PROVE  Inv'
  <1>1. /\ up /\ h \in connections /\ name[h] = h /\ n # Unnamed
        /\ name' = [name EXCEPT ![h] = n]
        /\ UNCHANGED <<up, exiting, devices, connections, m_timer, file, broker, history>>
    BY DEF adoptName
  <1>2. TypeOK /\ ListInv /\ BrokerInv /\ SavedWhenIdle BY SplitInv
  <1>3. TypeOK'
    <2>1. name' \in [Device -> Name \cup {Unnamed}]
      BY <1>1, <1>2 DEF TypeOK, Device, Name
    <2> QED BY <1>1, <1>2, <2>1 DEF TypeOK, broker, history
  <1>4. \A d \in Device : name'[d] = IF d = h THEN n ELSE name[d]
    BY <1>1, <1>2 DEF TypeOK, Device
  <1>5. ListInv'
    BY <1>1, <1>2, <1>4
    DEF TypeOK, ListInv, history, DownIsEmpty, ConnectionsMatch, NoOrphans, AllNamed, DurableKept, DurableStored
  <1>6. SavedWhenIdle'
    <2>1. unserialize' = unserialize BY <1>1 DEF unserialize
    <2>2. unserialize \subseteq Device BY <1>2 DEF unserialize, TypeOK
    <2>3. ASSUME m_timer = 0, ~unwritten PROVE Saved'
      <3>1. Saved BY <1>1, <1>2, <2>3 DEF SavedWhenIdle
      <3>2. {d \in devices' : name'[d] # Unnamed} = unserialize'
        BY <1>1, <1>2, <1>4, <2>1, <3>1 DEF Saved, ListInv, AllNamed, TypeOK
      <3>3. \A d \in unserialize' : name'[d] = file'.name[d] \/ file'.name[d] = d
        BY <1>1, <1>4, <2>1, <2>2, <3>1 DEF Saved
      <3> QED BY <3>2, <3>3 DEF Saved
    <2> QED BY <1>1, <2>3 DEF SavedWhenIdle, history
  <1>7. BrokerInv' BY <1>1, <1>2, BrokerUnchanged DEF history
  <1> QED BY <1>3, <1>5, <1>6, <1>7 DEF Inv, ListInv, BrokerInv

-----------------------------------------------------------------------------
\* Steps that leave the list, the file and what is durable alone.
LEMMA ListUnchanged ==
  ASSUME TypeOK, ListInv, SavedWhenIdle,
         UNCHANGED <<up, devices, name, connections, m_timer, file, durable, unwritten>>,
         online' \/ exiting' => up
  PROVE  ListInv' /\ SavedWhenIdle'
  BY DEF ListInv, DownIsEmpty, ConnectionsMatch, NoOrphans, AllNamed, DurableKept,
         DurableStored, SavedWhenIdle, Saved, unserialize

LEMMA PublishInv ==
  ASSUME Inv, NEW c \in Command, Publish(c)
  PROVE  Inv'
  <1>1. /\ command' = c /\ UNCHANGED <<memory, file, online, durable, unwritten>>
        /\ inbox' = IF online THEN Append(inbox, c) ELSE inbox
        /\ addOrdered' = IF c.action = "addDevice" /\ c.valid THEN c.device ELSE None
        /\ asked' = IF c.action = "restartService" THEN TRUE ELSE asked
    BY DEF Publish
  <1>2. TypeOK /\ ListInv /\ BrokerInv /\ SavedWhenIdle BY SplitInv
  <1>3. inbox \in Seq(Command) BY <1>2 DEF TypeOK
  <1>4. /\ Append(inbox, c) \in Seq(Command) /\ Append(inbox, c) # <<>>
        /\ Append(inbox, c)[Len(Append(inbox, c))] = c
        /\ \A k \in DOMAIN Append(inbox, c) :
             Append(inbox, c)[k] = c \/ (k \in DOMAIN inbox /\ Append(inbox, c)[k] = inbox[k])
    BY <1>3
  <1>5. c.action = "addDevice" => c.device \in Host
    BY CommandAssumption DEF CommandType
  <1>6. TypeOK'
    <2>1. inbox' \in Seq(Command) BY <1>1, <1>3, <1>4
    <2>2. addOrdered' \in Host \cup {None} BY <1>1, <1>5
    <2>3. asked' \in BOOLEAN BY <1>1, <1>2 DEF TypeOK
    <2> QED BY <1>1, <1>2, <2>1, <2>2, <2>3 DEF TypeOK, memory
  <1>7. ListInv' /\ SavedWhenIdle'
    BY <1>1, <1>2, ListUnchanged DEF memory, TypeOK, ListInv, DownIsEmpty
  <1>8. OfflineIsEmpty' /\ LastIsRetained'
    BY <1>1, <1>2, <1>4 DEF BrokerInv, OfflineIsEmpty, LastIsRetained
  <1>9. AddIsRetained' /\ RestartIsAsked'
    BY <1>1, CommandAssumption DEF AddIsRetained, RestartIsAsked
  <1>10. AddHonoured'
    BY <1>1, <1>2, <1>4 DEF AddHonoured
  <1>11. RestartAsked'
    BY <1>1, <1>2, <1>4 DEF BrokerInv, RestartAsked, memory
  <1> QED BY <1>6, <1>7, <1>8, <1>9, <1>10, <1>11 DEF Inv, ListInv

LEMMA MqttConnectedInv == Inv /\ mqttConnected => Inv'
  <1> SUFFICES ASSUME Inv, mqttConnected PROVE Inv' OBVIOUS
  <1>1. /\ up /\ ~online /\ online' = TRUE
        /\ inbox' = IF command = None THEN <<>> ELSE <<command>>
        /\ UNCHANGED <<memory, file, command, history>>
    BY DEF mqttConnected
  <1>2. TypeOK /\ ListInv /\ BrokerInv /\ SavedWhenIdle BY SplitInv
  <1>3. CASE command = None
    <2>1. inbox' = <<>> BY <1>1, <1>3
    <2>2. inbox' \in Seq(Command) BY <2>1
    <2>3. TypeOK' BY <1>1, <1>2, <2>2 DEF TypeOK, memory, history
    <2>4. BrokerInv'
      BY <1>1, <1>2, <1>3, <2>1
      DEF BrokerInv, history, OfflineIsEmpty, LastIsRetained, AddIsRetained, AddHonoured,
          RestartIsAsked, RestartAsked
    <2>5. ListInv' /\ SavedWhenIdle'
      BY <1>1, <1>2, ListUnchanged DEF memory, history, ListInv, DownIsEmpty
    <2> QED BY <2>3, <2>4, <2>5 DEF Inv, ListInv, BrokerInv
  <1>4. CASE command # None
    <2>1. inbox' = <<command>> /\ command \in Command BY <1>1, <1>2, <1>4 DEF TypeOK
    <2>2. inbox' \in Seq(Command) /\ Len(inbox') = 1 /\ inbox'[1] = command /\ inbox' # <<>>
          /\ DOMAIN inbox' = {1}
      BY <2>1
    <2>3. TypeOK' BY <1>1, <1>2, <2>2 DEF TypeOK, memory, history
    <2>4. BrokerInv'
      BY <1>1, <1>2, <1>4, <2>2
      DEF BrokerInv, history, OfflineIsEmpty, LastIsRetained, AddIsRetained, AddHonoured,
          RestartIsAsked, RestartAsked
    <2>5. ListInv' /\ SavedWhenIdle'
      BY <1>1, <1>2, ListUnchanged DEF memory, history, ListInv, DownIsEmpty
    <2> QED BY <2>3, <2>4, <2>5 DEF Inv, ListInv, BrokerInv
  <1> QED BY <1>3, <1>4

LEMMA MqttLostInv == Inv /\ MqttLost => Inv'
  <1> SUFFICES ASSUME Inv, MqttLost PROVE Inv' OBVIOUS
  <1>1. /\ online /\ online' = FALSE /\ inbox' = <<>>
        /\ UNCHANGED <<memory, file, command, history>>
    BY DEF MqttLost
  <1>2. TypeOK /\ ListInv /\ BrokerInv /\ SavedWhenIdle BY SplitInv
  <1>3. inbox' \in Seq(Command) BY <1>1
  <1>4. TypeOK' BY <1>1, <1>2, <1>3 DEF TypeOK, memory, history
  <1>5. BrokerInv'
    BY <1>1, <1>2
    DEF BrokerInv, history, OfflineIsEmpty, LastIsRetained, AddIsRetained, AddHonoured,
        RestartIsAsked, RestartAsked
  <1>6. ListInv' /\ SavedWhenIdle'
    BY <1>1, <1>2, ListUnchanged DEF memory, history, ListInv, DownIsEmpty
  <1> QED BY <1>4, <1>5, <1>6 DEF Inv, ListInv, BrokerInv

-----------------------------------------------------------------------------
\* A command that comes to nothing.
LEMMA NothingDoneInv ==
  ASSUME Inv, NEW a \in {"addDevice", "removeDevice", "updateDevice"}, Receive(a), NothingDone,
         UNCHANGED <<up, exiting, file, online, durable, addOrdered, asked>>,
         addOrdered # None /\ Tail(inbox) = <<>> => addOrdered \in devices
  PROVE  Inv'
  <1>1. TypeOK /\ ListInv /\ BrokerInv /\ SavedWhenIdle BY SplitInv
  <1>2. UNCHANGED <<memory, file, online, command, history>>
    BY DEF NothingDone, Receive, memory, history
  <1>3. inbox # <<>> /\ inbox' = Tail(inbox) BY DEF Receive
  <1>4. TypeOK'
    <2>1. inbox' \in Seq(Command) BY <1>1, <1>3, Received DEF BrokerInv
    <2> QED BY <1>1, <1>2, <2>1 DEF TypeOK, memory, history
  <1>5. ListInv' /\ SavedWhenIdle'
    BY <1>1, <1>2, ListUnchanged DEF history, memory, TypeOK, ListInv, DownIsEmpty
  <1>6. AddHonoured' BY <1>2, <1>3 DEF AddHonoured, history, memory
  <1>7. OfflineIsEmpty' /\ LastIsRetained' /\ AddIsRetained' /\ RestartIsAsked' /\ RestartAsked'
    BY <1>1, <1>2, <1>4, ReceiveKeeps DEF history
  <1> QED BY <1>4, <1>5, <1>6, <1>7 DEF Inv, ListInv

LEMMA AddDeviceInv == Named /\ Inv /\ addDevice => Inv'
  <1> SUFFICES ASSUME Named, Inv, addDevice PROVE Inv' OBVIOUS
  <1> DEFINE c == Head(inbox)
  <1>1. /\ Receive("addDevice") /\ inbox # <<>> /\ inbox' = Tail(inbox) /\ command' = command
        /\ c.action = "addDevice"
        /\ UNCHANGED <<up, exiting, file, online, durable, addOrdered, asked>>
    BY DEF addDevice, Receive
  <1>2. TypeOK /\ ListInv /\ BrokerInv /\ SavedWhenIdle BY SplitInv
  <1>3. c \in Command /\ Tail(inbox) \in Seq(Command) /\ (Tail(inbox) = <<>> /\ command # None => c = command)
    BY <1>1, <1>2, Received DEF BrokerInv
  <1>4. c.device \in Host /\ c.name \in Name \cup {Unnamed}
    BY <1>1, <1>3, CommandAssumption DEF CommandType
  <1>5. addOrdered # None /\ Tail(inbox) = <<>> => c.valid /\ c.device = addOrdered
    BY <1>2, <1>3 DEF BrokerInv, AddIsRetained
  <1>6. CASE c.valid /\ c.device \notin devices
    <2>1. /\ devices' = devices \cup {c.device}
          /\ name' = [name EXCEPT ![c.device] = IF c.name = Unnamed THEN c.device ELSE c.name]
          /\ connections' = connections \cup {c.device}
          /\ m_timer' = Delay /\ unwritten' = FALSE
      BY <1>4, <1>6, ConnectsNew DEF addDevice, store
    <2>2. \A d \in Device : name'[d] = IF d = c.device
                                          THEN IF c.name = Unnamed THEN c.device ELSE c.name
                                          ELSE name[d]
      BY <1>2, <1>4, <2>1 DEF TypeOK, Device
    <2>3. TypeOK'
      <3>1. name' \in [Device -> Name \cup {Unnamed}]
        BY <1>2, <1>4, <2>1 DEF TypeOK, Device, Name
      <3>2. m_timer' \in 0..Delay BY <2>1, DelayAssumption
      <3>3. inbox' \in Seq(Command) BY <1>1, <1>3
      <3>4. devices' \subseteq Device /\ connections' \subseteq Host
        BY <1>2, <1>4, <2>1 DEF TypeOK, Device
      <3> QED BY <1>1, <1>2, <2>1, <3>1, <3>2, <3>3, <3>4 DEF TypeOK
    <2>4. up BY <1>1, <1>2 DEF BrokerInv, ListInv, OfflineIsEmpty, DownIsEmpty
    <2>5. AllNamed'
      <3>1. c.device # Unnamed BY <1>4 DEF Named, Name
      <3> QED BY <1>1, <1>2, <1>4, <2>1, <2>2, <3>1 DEF ListInv, AllNamed, TypeOK, Device
    <2>6. ListInv'
      BY <1>1, <1>2, <1>4, <2>1, <2>4, <2>5, DeviceAssumption
      DEF ListInv, history, DownIsEmpty, ConnectionsMatch, NoOrphans, DurableKept, DurableStored
    <2>7. SavedWhenIdle' BY <2>1, DelayAssumption DEF SavedWhenIdle
    <2>8. AddHonoured'
      BY <1>1, <1>5, <2>1 DEF AddHonoured, history
    <2>9. OfflineIsEmpty' /\ LastIsRetained' /\ AddIsRetained' /\ RestartIsAsked' /\ RestartAsked'
      BY <1>1, <1>2, <2>3, ReceiveKeeps DEF history
    <2> QED BY <2>3, <2>6, <2>7, <2>8, <2>9 DEF Inv, ListInv
  <1>7. CASE ~(c.valid /\ c.device \notin devices)
    <2>1. NothingDone BY <1>7 DEF addDevice
    <2>2. addOrdered # None /\ Tail(inbox) = <<>> => addOrdered \in devices BY <1>5, <1>7
    <2> QED BY <1>1, <2>1, <2>2, NothingDoneInv
  <1> QED BY <1>6, <1>7

\* A command that is not addDevice, and the last one, was not one to add.
LEMMA NotAdded ==
  ASSUME Inv, inbox # <<>>, Head(inbox).action # "addDevice"
  PROVE  Tail(inbox) = <<>> => addOrdered = None
  BY Received DEF Inv, AddIsRetained

LEMMA RemoveDeviceInv == Inv /\ removeDevice => Inv'
  <1> SUFFICES ASSUME Inv, removeDevice PROVE Inv' OBVIOUS
  <1> DEFINE c == Head(inbox)
  <1>1. /\ Receive("removeDevice") /\ inbox # <<>> /\ inbox' = Tail(inbox) /\ command' = command
        /\ c.action = "removeDevice"
        /\ UNCHANGED <<up, exiting, file, online, addOrdered, asked>>
    BY DEF removeDevice, Receive
  <1>2. TypeOK /\ ListInv /\ BrokerInv /\ SavedWhenIdle BY SplitInv
  <1>3. Tail(inbox) \in Seq(Command)
    BY <1>1, <1>2, Received DEF BrokerInv
  <1>4. Tail(inbox) = <<>> => addOrdered = None BY <1>1, NotAdded
  <1>5. CASE NothingDone /\ UNCHANGED durable
    BY <1>1, <1>4, <1>5, NothingDoneInv DEF history
  <1>6. ASSUME NEW d \in Lookup(c.device),
               devices' = devices \ WithSubs(d),
               name' = [x \in Device |-> IF x \in WithSubs(d) THEN Unnamed ELSE name[x]],
               connections' = connections \ {d},
               store,
               durable' = durable \ WithSubs(d)
        PROVE  Inv'
    <2>1. d \in devices BY LookupListed
    <2>2. m_timer' = Delay /\ unwritten' = FALSE BY <1>6 DEF store
    <2>3. TypeOK'
      <3>1. name' \in [Device -> Name \cup {Unnamed}] BY <1>2, <1>6 DEF TypeOK
      <3>2. m_timer' \in 0..Delay BY <2>2, DelayAssumption
      <3>3. inbox' \in Seq(Command) BY <1>1, <1>3
      <3>4. devices' \subseteq Device /\ connections' \subseteq Host /\ durable' \subseteq Device
        BY <1>2, <1>6 DEF TypeOK
      <3> QED BY <1>1, <1>2, <2>2, <3>1, <3>2, <3>3, <3>4 DEF TypeOK
    <2>4. up BY <1>1, <1>2 DEF BrokerInv, ListInv, OfflineIsEmpty, DownIsEmpty
    <2>5. devices \cap WithSubs(d) \cap Host = {d} \cap Host
      BY <2>1, DeviceAssumption DEF WithSubs
    <2>6. ConnectionsMatch'
      BY <1>1, <1>2, <1>6, <2>4, <2>5 DEF ListInv, ConnectionsMatch
    <2>7. NoOrphans'
      <3>1. ASSUME NEW x \in SubDevice, x \in devices' PROVE x[1] \in devices'
        <4>1. x \in devices /\ x \notin WithSubs(d) BY <1>6, <3>1
        <4>2. x[1] \in devices /\ x[1] \in Host
          BY <1>2, <4>1, DeviceAssumption DEF ListInv, NoOrphans
        <4>3. x[1] # d BY <4>1 DEF WithSubs
        <4>4. x[1] \notin WithSubs(d) BY <4>2, <4>3, DeviceAssumption DEF WithSubs
        <4> QED BY <1>6, <4>2, <4>4
      <3> QED BY <1>1, <1>2, <3>1 DEF ListInv, NoOrphans
    <2>8. AllNamed'
      BY <1>1, <1>2, <1>6 DEF ListInv, AllNamed, TypeOK
    <2>9. DownIsEmpty' /\ DurableKept' /\ DurableStored'
      BY <1>1, <1>2, <1>6, <2>4 DEF ListInv, DownIsEmpty, DurableKept, DurableStored
    <2>10. SavedWhenIdle' BY <2>2, DelayAssumption DEF SavedWhenIdle
    <2>11. AddHonoured' BY <1>1, <1>4 DEF AddHonoured
    <2>12. OfflineIsEmpty' /\ LastIsRetained' /\ AddIsRetained' /\ RestartIsAsked' /\ RestartAsked'
      BY <1>1, <1>2, <2>3, ReceiveKeeps
    <2> QED BY <2>3, <2>6, <2>7, <2>8, <2>9, <2>10, <2>11, <2>12 DEF Inv
  <1> QED BY <1>5, <1>6 DEF removeDevice, disconnectDevice

\* The commands received with restartService stay in the inbox of a process
\* that is about to end.
LEMMA RestartServiceInv == Inv /\ restartService => Inv'
  <1> SUFFICES ASSUME Inv, restartService PROVE Inv' OBVIOUS
  <1>1. /\ inbox # <<>> /\ inbox' = Tail(inbox) /\ command' = None /\ exiting' = TRUE
        /\ addOrdered' = None /\ asked' = FALSE
        /\ UNCHANGED <<up, devices, name, connections, m_timer, file, online, durable, unwritten>>
    BY DEF restartService, ClearCommand
  <1>2. TypeOK /\ ListInv /\ BrokerInv /\ SavedWhenIdle BY SplitInv
  <1>3. up BY <1>1, <1>2 DEF BrokerInv, ListInv, OfflineIsEmpty, DownIsEmpty
  <1>4. TypeOK'
    <2>1. inbox' \in Seq(Command) BY <1>1, <1>2, Received DEF BrokerInv
    <2> QED BY <1>1, <1>2, <2>1 DEF TypeOK
  <1>5. ListInv' /\ SavedWhenIdle'
    BY <1>1, <1>2, <1>3, ListUnchanged
  <1>6. BrokerInv'
    BY <1>1, <1>2
    DEF BrokerInv, OfflineIsEmpty, LastIsRetained, AddIsRetained, AddHonoured, RestartIsAsked,
        RestartAsked
  <1> QED BY <1>4, <1>5, <1>6 DEF Inv, ListInv, BrokerInv

LEMMA UpdateDeviceInv == Named /\ Inv /\ updateDevice => Inv'
  <1> SUFFICES ASSUME Named, Inv, updateDevice PROVE Inv' OBVIOUS
  <1> DEFINE c == Head(inbox)
  <1>1. /\ Receive("updateDevice") /\ inbox # <<>> /\ inbox' = Tail(inbox) /\ command' = command
        /\ c.action = "updateDevice"
        /\ UNCHANGED <<up, exiting, file, online, durable, addOrdered, asked>>
    BY DEF updateDevice, Receive
  <1>2. TypeOK /\ ListInv /\ BrokerInv /\ SavedWhenIdle BY SplitInv
  <1>3. c \in Command /\ Tail(inbox) \in Seq(Command)
    BY <1>1, <1>2, Received DEF BrokerInv
  <1>4. c.name \in Label
    BY <1>1, <1>3, CommandAssumption DEF CommandType
  <1>5. Tail(inbox) = <<>> => addOrdered = None BY <1>1, NotAdded
  <1>6. CASE NothingDone
    BY <1>1, <1>5, <1>6, NothingDoneInv
  <1>7. ASSUME NEW d \in Lookup(c.device), name' = [name EXCEPT ![d] = c.name], store,
               UNCHANGED <<devices, connections>>
        PROVE  Inv'
    <2>1. d \in devices BY LookupListed
    <2>2. m_timer' = Delay /\ unwritten' = FALSE BY <1>7 DEF store
    <2>3. TypeOK'
      <3>1. name' \in [Device -> Name \cup {Unnamed}] BY <1>2, <1>4, <1>7 DEF TypeOK, Name
      <3>2. m_timer' \in 0..Delay BY <2>2, DelayAssumption
      <3>3. inbox' \in Seq(Command) BY <1>1, <1>3
      <3> QED BY <1>1, <1>2, <1>7, <2>2, <3>1, <3>2, <3>3 DEF TypeOK
    <2>4. up BY <1>1, <1>2 DEF BrokerInv, ListInv, OfflineIsEmpty, DownIsEmpty
    <2>5. AllNamed'
      <3>1. c.name # Unnamed BY <1>4 DEF Named, Name
      <3> QED BY <1>1, <1>2, <1>7, <2>1, <3>1 DEF ListInv, AllNamed, TypeOK
    <2>6. ListInv'
      BY <1>1, <1>2, <1>7, <2>4, <2>5
      DEF ListInv, history, DownIsEmpty, ConnectionsMatch, NoOrphans, DurableKept, DurableStored
    <2>7. SavedWhenIdle' BY <2>2, DelayAssumption DEF SavedWhenIdle
    <2>8. AddHonoured' BY <1>1, <1>5 DEF AddHonoured, history
    <2>9. OfflineIsEmpty' /\ LastIsRetained' /\ AddIsRetained' /\ RestartIsAsked' /\ RestartAsked'
      BY <1>1, <1>2, <2>3, ReceiveKeeps DEF history
    <2> QED BY <2>3, <2>6, <2>7, <2>8, <2>9 DEF Inv, ListInv
  <1> QED BY <1>6, <1>7 DEF updateDevice

-----------------------------------------------------------------------------
\* Inv is an invariant of the list, the connections, the database and the
\* commands, provided that no user gives the empty name.
THEOREM Invariance == ASSUME Named PROVE Spec => []Inv
  <1>1. Inv /\ [Next]_vars => Inv'
    <2> SUFFICES ASSUME Inv, [Next]_vars PROVE Inv' OBVIOUS
    <2>1. ASSUME NEW c \in Command, Publish(c) PROVE Inv' BY <2>1, PublishInv
    <2>2. CASE Commanded
      BY <2>2, Named, AddDeviceInv, RemoveDeviceInv, UpdateDeviceInv DEF Commanded
    <2>3. CASE Listed BY <2>3, Named, EntitiesDiscoveredInv DEF Listed
    <2>4. ASSUME NEW h \in Host, NEW n \in Label, adoptName(h, n) PROVE Inv'
      BY <2>4, Named, AdoptNameInv
    <2>5. CASE restartService BY <2>5, RestartServiceInv
    <2>6. CASE mqttConnected BY <2>6, MqttConnectedInv
    <2>7. CASE MqttLost BY <2>7, MqttLostInv
    <2>8. CASE Tick BY <2>8, TickInv
    <2>9. CASE quit BY <2>9, QuitInv
    <2>10. CASE Start BY <2>10, StartInv
    <2>11. CASE Crash BY <2>11, CrashInv
    <2>12. CASE CrashWriting BY <2>12, CrashWritingInv
    <2>13. CASE UNCHANGED vars
      BY <2>13
      DEF Inv, vars, memory, broker, history, TypeOK, DownIsEmpty, OfflineIsEmpty,
          ConnectionsMatch, NoOrphans, AllNamed, DurableKept, DurableStored, SavedWhenIdle,
          Saved, unserialize, LastIsRetained, AddIsRetained, AddHonoured, RestartIsAsked,
          RestartAsked
    <2> QED
      BY <2>1, <2>2, <2>3, <2>4, <2>5, <2>6, <2>7, <2>8, <2>9, <2>10, <2>11, <2>12, <2>13
      DEF Next
  <1> QED BY <1>1, InitInv, PTL DEF Spec

\* The manager's connections are those of the listed nodes.
THEOREM ConnectionsDoMatch == ASSUME Named PROVE Spec => []ConnectionsMatch
  <1>1. Inv => ConnectionsMatch BY DEF Inv
  <1> QED BY <1>1, Invariance, PTL

\* Every listed device has a connection that its commands take.
THEOREM AllReachable == ASSUME Named PROVE Spec => []Reachable
  <1>1. Inv => Reachable
    BY DeviceAssumption DEF Inv, TypeOK, Device, DownIsEmpty, ConnectionsMatch, NoOrphans,
       Reachable, Route
  <1> QED BY <1>1, Invariance, PTL

\* A device that reached the database leaves the list by removeDevice only.
THEOREM DurableIsKept == ASSUME Named PROVE Spec => []DurableKept
  <1>1. Inv => DurableKept BY DEF Inv
  <1> QED BY <1>1, Invariance, PTL

\* While the timer is stopped, a crash loses nothing.
THEOREM IdleIsSaved == ASSUME Named PROVE Spec => []SavedWhenIdle
  <1>1. Inv => SavedWhenIdle BY DEF Inv
  <1> QED BY <1>1, Invariance, PTL

\* The last addDevice is in force after every crash, once it came in again.
THEOREM AddIsHonoured == ASSUME Named PROVE Spec => []AddHonoured
  <1>1. Inv => AddHonoured BY DEF Inv
  <1> QED BY <1>1, Invariance, PTL

\* A retained restartService does not restart the service twice.
THEOREM RestartIsOnce == ASSUME Named PROVE Spec => []RestartAsked
  <1>1. Inv => RestartAsked BY DEF Inv
  <1> QED BY <1>1, Invariance, PTL
=============================================================================
