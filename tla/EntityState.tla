---------------------------- MODULE EntityState ----------------------------
(***************************************************************************)
(* What a user sees and does: the states that a node reports, decoded by   *)
(* processStateUpdate into the state maps of the endpoints and published   *)
(* by the controller, and the commands that sendCommand translates into    *)
(* messages for the node.                                                  *)
(*                                                                         *)
(* The node keeps for each entity the fields of its state message, by      *)
(* number.  Its encoder is that of proto3: a field that is zero, false or  *)
(* empty is left out.  Floating-point values are integers: thousandths, or *)
(* for brightness and colours 1020ths, in which the 255 steps of a level   *)
(* are exact as they are in a float.  The name of an option or of a custom *)
(* mode is an integer too, 0 for the empty one.                            *)
(***************************************************************************)
EXTENDS Naturals, Integers, Sequences, FiniteSets

CONSTANTS
  Listing,   \* what a node may list: sequences of entities, see Entity
  Sample,    \* the values of an entity, by kind: sets of functions of fields
  Order,     \* the commands of users, by kind: sets of <<key, value>>
  Suffixed(_, _), \* a name with a number appended
  MaxStates, \* bound on the state messages under way
  MaxOrders  \* bound on the commands under way

Kind == {"switch", "toggle", "binary_sensor", "sensor", "light", "cover", "legacy_cover",
         "lock", "climate", "select", "number"}

\* An entity: its name after camelCase, the device it belongs to (0 for main),
\* and accuracy_decimals for a sensor.  A toggle is a switch of category config
\* or diagnostic, a legacy_cover is a cover without supports_position.
Entity == [name : STRING, key : Nat \ {0}, device : Nat, kind : Kind, decimals : 0..2]

ASSUME ListingAssumption == Listing \subseteq Seq(Entity)

VARIABLES
  entities,          \* the entities of the node, and of the endpoints
  node,              \* the value of each entity at the node
  states,            \* state messages on their way to the service
  commands,          \* commands on their way to the node
  subscribed,        \* m_state = Subscribe
  stateMap,          \* stateMap() of each endpoint
  mqtt,              \* mqttStatus()
  m_propertiesTimer, \* Controller::m_propertiesTimer runs
  published,         \* what was last published on each fd topic
  asked              \* history: the last order that an entity is still to show

vars == <<entities, node, states, commands, subscribed, stateMap, mqtt, m_propertiesTimer,
          published, asked>>

Endpoint  == DOMAIN entities
special(e) == e.kind \in {"switch", "light", "cover", "legacy_cover", "lock", "climate"}

\* Maps: one with a single key, two put together of which the first prevails.
k :> v    == [x \in {k} |-> v]
Nothing   == <<>>
f @@ g    == [x \in DOMAIN f \cup DOMAIN g |-> IF x \in DOMAIN f THEN f[x] ELSE g[x]]
Get(m, k, default) == IF k \in DOMAIN m THEN m[k] ELSE default
Without(m, ks)     == [k \in DOMAIN m \ ks |-> m[k]]

-----------------------------------------------------------------------------
(***************************************************************************)
(* Names of the properties                                                 *)
(***************************************************************************)
FaultyObjectIds(l) == [i \in DOMAIN l |-> l[i].name]

\* The entities up to the i-th that have its name and its device.
Namesakes(l, i) == {j \in 1..i : l[j].name = l[i].name /\ l[j].device = l[i].device}

\* The loop that builds objectIds: the name, with a count appended for the
\* second entity of that name and on.
objectIds(l) ==
  [i \in DOMAIN l |->
     LET count == Cardinality(Namesakes(l, i))
     IN IF count > 1 THEN Suffixed(l[i].name, count) ELSE l[i].name]

objectId(i) == objectIds(entities)[i]

climateModes   == <<"off", "heat_cool", "cool", "heat", "fan", "dry", "auto">>
climateFanModes == <<"on", "off", "auto", "low", "medium", "high", "middle", "focus", "diffuse", "quiet">>
climatePresets == <<"none", "home", "away", "boost", "comfort", "eco", "sleep", "activity">>
customNames    == <<"custom">>

\* climateModeName and its two likes.
ClimateName(names, v) == IF v + 1 \in DOMAIN names THEN names[v + 1] ELSE ""

\* climateModeValue and its two likes.
ClimateValue(names, x) ==
  IF \E v \in DOMAIN names : names[v] = x THEN (CHOOSE v \in DOMAIN names : names[v] = x) - 1 ELSE -1

climateActionRunning(v) == v # 0 /\ v # 4

-----------------------------------------------------------------------------
(***************************************************************************)
(* State messages                                                          *)
(***************************************************************************)
\* The node's encoder leaves out what is zero.
Encode(v) == Without(v, {f \in DOMAIN v : v[f] = 0})

Message(i, v) ==
  [key |-> entities[i].key, owner |-> i, kind |-> entities[i].kind, fields |-> Encode(v)]

OnOff(b) == IF b THEN "on" ELSE "off"

\* Of the given values those that have one of their fields in the message w.
Present(w, fields, values) ==
  [k \in {x \in DOMAIN values : fields[x] \cap DOMAIN w # {}} |-> values[k]]

\* The loop over the fields: what the message says, placeholders included.
Decode(kind, w) ==
  LET Val(f) == Get(w, f, 0)
  IN CASE kind \in {"switch", "toggle"} ->
            Present(w, [_switchState |-> {2}], [_switchState |-> OnOff(Val(2) # 0)])
       [] kind = "binary_sensor" -> Present(w, [_state |-> {2}], [_state |-> Val(2) # 0])
       [] kind \in {"sensor", "number", "select"} -> Present(w, [_state |-> {2}], [_state |-> Val(2)])
       [] kind = "light" ->
            Present(w, [status |-> {2}, level |-> {3}, _r |-> {4}, _g |-> {5}, _b |-> {6},
                        colorTemperature |-> {8}],
                       [status |-> OnOff(Val(2) # 0), level |-> (Val(3) * 255) \div 1020,
                        _r |-> Val(4), _g |-> Val(5), _b |-> Val(6),
                        colorTemperature |-> Val(8) \div 1000])
       [] kind \in {"cover", "legacy_cover"} ->
            Present(w, [_legacyState |-> {2}, _position |-> {3}],
                       [_legacyState |-> Val(2), _position |-> Val(3)])
       [] kind = "lock" -> Present(w, [status |-> {2}], [status |-> IF Val(2) = 1 THEN "off" ELSE "on"])
       [] kind = "climate" ->
            Present(w, [systemMode |-> {2}, temperature |-> {3}, targetTemperature |-> {4},
                        running |-> {8}, fanMode |-> {9, 11}, operationMode |-> {12, 13}],
                       [systemMode |-> ClimateName(climateModes, Val(2)),
                        temperature |-> Val(3), targetTemperature |-> Val(4),
                        running |-> climateActionRunning(Val(8)),
                        fanMode |-> IF 11 \in DOMAIN w THEN ClimateName(customNames, Val(11) - 1)
                                    ELSE ClimateName(climateFanModes, Val(9)),
                        operationMode |-> IF 13 \in DOMAIN w THEN ClimateName(customNames, Val(13) - 1)
                                          ELSE ClimateName(climatePresets, Val(12))])

FaultyZeroDefaults(kind) ==
  CASE kind \in {"switch", "toggle"} -> "_switchState" :> "off"
    [] kind \in {"light", "lock"} -> "status" :> "off"
    [] kind = "climate" -> [systemMode |-> "off", running |-> FALSE]
    [] OTHER -> Nothing

\* What the code puts in for the fields that are missing.
ZeroDefaults(kind) ==
  CASE kind \in {"switch", "toggle"} -> "_switchState" :> "off"
    [] kind = "binary_sensor" -> "_state" :> FALSE
    [] kind \in {"light", "lock"} -> "status" :> "off"
    [] kind = "climate" -> [systemMode |-> "off", running |-> FALSE]
    [] OTHER -> Nothing

Pow10(d) == IF d = 0 THEN 1 ELSE IF d = 1 THEN 10 ELSE 100

\* Rounding to accuracy_decimals, halves away from zero; v is in thousandths.
Rounded(v, decimals) ==
  LET unit  == 1000 \div Pow10(decimals)
      Up(x) == ((x + unit \div 2) \div unit) * unit
  IN IF decimals = 0 THEN v ELSE IF v < 0 THEN -Up(-v) ELSE Up(v)

\* The red, green and blue of a light become its colour, if there is a red.
CombineColor(m) ==
  IF "_r" \notin DOMAIN m THEN m
    ELSE "color" :> [c \in 1..3 |-> (Get(m, <<"_r", "_g", "_b">>[c], 0) * 255) \div 1020]
         @@ Without(m, {"_r", "_g", "_b"})

\* Position and state of a cover, from its position or else from legacy_state.
CombineCover(e, m) ==
  IF e.kind = "cover" /\ "_position" \in DOMAIN m
    THEN [position |-> (m["_position"] + 5) \div 10,
          cover |-> IF m["_position"] > 0 THEN "open" ELSE "closed"]
    ELSE LET closed == Get(m, "_legacyState", 0) # 0
         IN [cover |-> IF closed THEN "closed" ELSE "open", position |-> IF closed THEN 0 ELSE 100]

\* The rest of the decoding, for a message of the given kind that goes to e,
\* whose property is id.  The climates here have presets and fan modes.
Finish(kind, e, id, m) ==
  CASE kind \in {"switch", "toggle"} -> (IF special(e) THEN "status" ELSE id) :> m["_switchState"]
    [] kind = "sensor" ->
         IF "_state" \in DOMAIN m THEN id :> Rounded(m["_state"], e.decimals) ELSE Nothing
    [] kind \in {"binary_sensor", "number", "select"} ->
         IF "_state" \in DOMAIN m THEN id :> m["_state"] ELSE Nothing
    [] kind = "light" -> CombineColor(m)
    [] kind \in {"cover", "legacy_cover"} -> CombineCover(e, m)
    [] kind = "climate" /\ e.kind = "climate" ->
         m @@ [operationMode |-> ClimateName(climatePresets, 0), fanMode |-> ClimateName(climateFanModes, 0)]
    [] OTHER -> m

FaultyFindEndpointByKey(key) == {i \in Endpoint : entities[i].key = key /\ entities[i].device = 0}

\* findEndpointByKey: among the endpoints of main first, then of the
\* sub-devices; the device_id of the message is not looked at.
findEndpointByKey(key) ==
  LET found == {i \in Endpoint : entities[i].key = key}
      main  == {i \in found : entities[i].device = 0}
  IN IF main # {} THEN main ELSE found

-----------------------------------------------------------------------------
(***************************************************************************)
(* Publishing.  A special entity has a topic of its own, the others of a   *)
(* device share one, here the topic with the number 0.                     *)
(***************************************************************************)
Topic(i) == <<entities[i].device, IF special(entities[i]) THEN i ELSE 0>>

FaultySnapshot(t, maps) ==
  LET shown == {i \in Endpoint : Topic(i) = t /\ maps[i] # Nothing}
  IN IF shown = {} THEN Nothing ELSE maps[CHOOSE i \in shown : TRUE]

\* What publishDeviceState says on a topic: the state of the special entity, or
\* those of all the others merged.
Snapshot(t, maps) ==
  LET shown == {i \in Endpoint : Topic(i) = t}
      keys  == UNION {DOMAIN maps[i] : i \in shown}
  IN [k \in keys |-> maps[CHOOSE i \in shown : k \in DOMAIN maps[i]][k]]

\* publishDeviceState for the devices ds; an empty state is not published.
publishDeviceState(ds, maps) ==
  published' = [t \in DOMAIN published |->
    LET now == Snapshot(t, maps) IN IF mqtt /\ t[1] \in ds /\ now # Nothing THEN now ELSE published[t]]

AllDevices == {entities[i].device : i \in Endpoint}

\* updateProperties, when m_propertiesTimer fires.
updateProperties ==
  /\ m_propertiesTimer
  /\ m_propertiesTimer' = FALSE
  /\ publishDeviceState(AllDevices, stateMap)
  /\ UNCHANGED <<entities, node, states, commands, subscribed, stateMap, mqtt, asked>>

\* getProperties: the states of all devices, whichever is named.
getProperties ==
  /\ mqtt
  /\ publishDeviceState(AllDevices, stateMap)
  /\ UNCHANGED <<entities, node, states, commands, subscribed, stateMap, mqtt, m_propertiesTimer, asked>>

\* Home Assistant announces itself.
haStatus ==
  /\ mqtt
  /\ m_propertiesTimer' = TRUE
  /\ UNCHANGED <<entities, node, states, commands, subscribed, stateMap, mqtt, published, asked>>

FaultyMqttConnected ==
  /\ ~mqtt
  /\ mqtt' = TRUE
  /\ UNCHANGED <<entities, node, states, commands, subscribed, stateMap, m_propertiesTimer, published, asked>>

\* mqttConnected: publishExposes starts the timer.
mqttConnected ==
  /\ ~mqtt
  /\ mqtt' = TRUE
  /\ m_propertiesTimer' = TRUE
  /\ UNCHANGED <<entities, node, states, commands, subscribed, stateMap, published, asked>>

MqttLost ==
  /\ mqtt
  /\ mqtt' = FALSE
  /\ UNCHANGED <<entities, node, states, commands, subscribed, stateMap, m_propertiesTimer, published, asked>>

-----------------------------------------------------------------------------
(***************************************************************************)
(* The node, and the connection to it                                      *)
(***************************************************************************)
\* An entity changes and the node reports it.
NodeChanges(i, v) ==
  /\ Len(states) < MaxStates
  /\ v # node[i]
  /\ node' = [node EXCEPT ![i] = v]
  /\ states' = IF subscribed THEN Append(states, Message(i, v)) ELSE states
  /\ asked' = [asked EXCEPT ![i] = Nothing]
  /\ UNCHANGED <<entities, commands, subscribed, stateMap, mqtt, m_propertiesTimer, published>>

\* onDisconnected: what was under way is lost.
Disconnected ==
  /\ subscribed
  /\ subscribed' = FALSE
  /\ states' = <<>>
  /\ commands' = <<>>
  /\ asked' = [i \in Endpoint |-> Nothing]
  /\ UNCHANGED <<entities, node, stateMap, mqtt, m_propertiesTimer, published>>

\* applyEntitiesToDevice: new endpoints, without a state.
NewEndpoints == stateMap' = [i \in Endpoint |-> Nothing]

\* ListEntitiesDone on a new connection: the entities are exposed anew, which
\* starts the timer, and the node reports every state.
Subscribe ==
  /\ ~subscribed
  /\ subscribed' = TRUE
  /\ NewEndpoints
  /\ m_propertiesTimer' = TRUE
  /\ states' = [i \in Endpoint |-> Message(i, node[i])]
  /\ UNCHANGED <<entities, node, commands, mqtt, published, asked>>

\* processStateUpdate and stateChanged.
processStateUpdate ==
  /\ states # <<>>
  /\ states' = Tail(states)
  /\ LET msg == Head(states)
     IN \/ /\ findEndpointByKey(msg.key) = {}
           /\ UNCHANGED <<stateMap, published>>
        \/ \E i \in findEndpointByKey(msg.key) :
           \E m \in {Decode(msg.kind, msg.fields) @@ ZeroDefaults(msg.kind)} :
           \E state \in {Finish(msg.kind, entities[i], objectId(i), m)} :
             /\ stateMap' = [stateMap EXCEPT ![i] = state @@ @]
             /\ publishDeviceState({entities[i].device}, stateMap')
  /\ UNCHANGED <<entities, node, commands, subscribed, mqtt, m_propertiesTimer, asked>>

-----------------------------------------------------------------------------
(***************************************************************************)
(* Commands                                                                *)
(***************************************************************************)
Bit(b) == IF b THEN 1 ELSE 0

\* on, 1 and true; any other string means off.
IsOn(v) == v \in {"on", "1", "true"}

FaultyLocking(status, v) == IF v = "toggle" THEN status # "on" ELSE v \in {"off", "0", "false"}

\* For a lock, off means locked; a toggle looks at the status of the endpoint.
Locking(status, v) == IF v = "toggle" THEN status # "off" ELSE v \in {"off", "0", "false"}

TurningOn(status, v) == IF v = "toggle" THEN status # "on" ELSE IsOn(v)

FaultyCoverFields(key, v) ==
  IF key = "position" THEN 4 :> 1 @@ 5 :> v
  ELSE IF v = "stop" THEN 8 :> 1
  ELSE 4 :> 1 @@ 5 :> (IF v = "open" THEN 1000 ELSE 0)

CoverFields(key, v) ==
  CASE key = "cover" /\ v = "stop" -> 8 :> 1
    [] key = "cover" /\ v # "stop" -> 4 :> 1 @@ 5 :> (IF v = "open" THEN 1000 ELSE 0)
    [] key = "position" -> 4 :> 1 @@ 5 :> v * 10
    [] OTHER -> Nothing

LightFields(status, key, v) ==
  CASE key = "status" -> 2 :> 1 @@ 3 :> Bit(TurningOn(status, v))
    [] key = "level" -> [f \in {2, 3, 4} |-> 1] @@ 5 :> v * 4
    [] key = "color" -> [f \in {2, 3, 6} |-> 1] @@ [f \in {7, 8, 9} |-> v[f - 6] * 4]
    [] key = "colorTemperature" -> [f \in {2, 3, 12} |-> 1] @@ 13 :> v * 1000
    [] OTHER -> Nothing

\* A mode that is not one of the standard ones goes out as a string.
Standard(names, v, has, field, hasCustom, custom) ==
  IF ClimateValue(names, v) >= 0
    THEN has :> 1 @@ field :> ClimateValue(names, v)
    ELSE hasCustom :> 1 @@ custom :> ClimateValue(customNames, v) + 1

ClimateFields(key, v) ==
  CASE key = "systemMode" ->
         IF ClimateValue(climateModes, v) >= 0 THEN 2 :> 1 @@ 3 :> ClimateValue(climateModes, v) ELSE Nothing
    [] key = "targetTemperature" -> 4 :> 1 @@ 5 :> v
    [] key = "fanMode" -> Standard(climateFanModes, v, 12, 13, 16, 17)
    [] key = "operationMode" -> Standard(climatePresets, v, 18, 19, 20, 21)
    [] OTHER -> Nothing

\* The message that sendCommand makes of a key and a value.
CommandFields(kind, status, key, v) ==
  CASE kind \in {"switch", "toggle"} -> 2 :> Bit(TurningOn(status, v))
    [] kind = "lock" -> 2 :> Bit(Locking(status, v))
    [] kind = "light" -> LightFields(status, key, v)
    [] kind \in {"cover", "legacy_cover"} -> CoverFields(key, v)
    [] kind = "climate" -> ClimateFields(key, v)
    [] kind \in {"select", "number"} -> 2 :> v

sendCommand(i, key, v) ==
  CommandFields(entities[i].kind, Get(stateMap[i], "status", ""), key, v)

\* endpointForAction: a key on the topic that the other entities share.
endpointForAction(device, key) ==
  {i \in Endpoint : entities[i].device = device /\ objectId(i) = key}

\* Orders whose outcome depends on what is.
Relative == {<<"status", "toggle">>, <<"cover", "stop">>}

\* The key that the documentation names for an order: on the topic of its own,
\* or on the one that an entity shares.
Key(e, id, order) == IF special(e) THEN order[1] ELSE id

\* A user gives an order for the entity i, under that key; mqttReceived finds the endpoint and sendCommand
\* sends the command, if the connection is ready.
mqttReceived(i, order) ==
  LET e   == entities[i]
      key == Key(e, objectId(i), order)
  IN /\ mqtt
     /\ Len(commands) < MaxOrders
     /\ \E j \in (IF special(e) THEN {i} ELSE endpointForAction(e.device, key)) :
          commands' = IF subscribed
            THEN Append(commands, [owner |-> j, order |-> order, fields |-> sendCommand(j, key, order[2])])
            ELSE commands
     /\ asked' = [asked EXCEPT ![i] =
          IF subscribed /\ order \notin Relative THEN order ELSE Nothing]
     /\ UNCHANGED <<entities, node, states, subscribed, stateMap, mqtt, m_propertiesTimer, published>>

\* What a node does with a command w: where the flag "has" is set, the field "to"
\* of its state x takes the value of the field "from", or becomes zero.
SetField(w, has, from, to, x) == IF Get(w, has, 0) = 1 THEN [x EXCEPT ![to] = Get(w, from, 0)] ELSE x
ClearField(w, has, to, x)     == IF Get(w, has, 0) = 1 THEN [x EXCEPT ![to] = 0] ELSE x

ExecutedLight(v, w) ==
  SetField(w, 2, 3, 2, SetField(w, 4, 5, 3, SetField(w, 6, 7, 4, SetField(w, 6, 8, 5,
    SetField(w, 6, 9, 6, SetField(w, 12, 13, 8, v))))))

\* A standard mode takes the place of a custom one, and the other way round.
ExecutedMode(v, w, has, from, to, hasCustom, fromCustom, custom) ==
  SetField(w, has, from, to, ClearField(w, has, custom,
    SetField(w, hasCustom, fromCustom, custom, ClearField(w, hasCustom, to, v))))

ExecutedClimate(v, w) ==
  SetField(w, 2, 3, 2, SetField(w, 4, 5, 4,
    ExecutedMode(ExecutedMode(v, w, 18, 19, 12, 20, 21, 13), w, 12, 13, 9, 16, 17, 11)))

Executed(kind, v, w) ==
  CASE kind \in {"switch", "toggle", "select", "number"} -> [v EXCEPT ![2] = w[2]]
    [] kind = "lock" -> [v EXCEPT ![2] = IF w[2] = 1 THEN 1 ELSE 2]
    [] kind = "light" -> ExecutedLight(v, w)
    [] kind = "cover" -> SetField(w, 4, 5, 3, v)
    [] kind = "legacy_cover" ->
         IF Get(w, 4, 0) = 1 THEN [v EXCEPT ![2] = IF Get(w, 5, 0) >= 500 THEN 0 ELSE 1] ELSE v
    [] kind = "climate" -> ExecutedClimate(v, w)

\* The node carries out the next command and reports the state.
NodeExecutes ==
  /\ commands # <<>>
  /\ Len(states) < MaxStates
  /\ commands' = Tail(commands)
  /\ LET c == Head(commands)
         v == Executed(entities[c.owner].kind, node[c.owner], c.fields)
     IN /\ node' = [node EXCEPT ![c.owner] = v]
        /\ states' = Append(states, Message(c.owner, v))
  /\ UNCHANGED <<entities, subscribed, stateMap, mqtt, m_propertiesTimer, published, asked>>

-----------------------------------------------------------------------------
Init ==
  /\ entities \in Listing
  /\ node \in [Endpoint -> UNION {Sample[k] : k \in Kind}]
  /\ \A i \in Endpoint : node[i] \in Sample[entities[i].kind]
  /\ states = <<>>
  /\ commands = <<>>
  /\ subscribed = FALSE
  /\ stateMap = [i \in Endpoint |-> Nothing]
  /\ mqtt = FALSE
  /\ m_propertiesTimer = FALSE
  /\ published = [t \in {Topic(i) : i \in Endpoint} |-> Nothing]
  /\ asked = [i \in Endpoint |-> Nothing]

\* What users, nodes and networks do of their own accord.
Disturbance ==
  \/ \E i \in Endpoint : \E v \in Sample[entities[i].kind] : NodeChanges(i, v)
  \/ \E i \in Endpoint : \E o \in Order[entities[i].kind] : mqttReceived(i, o)
  \/ Disconnected \/ MqttLost \/ haStatus \/ getProperties

\* What the service and the node do about it.
Progress ==
  Subscribe \/ mqttConnected \/ NodeExecutes \/ updateProperties \/ processStateUpdate

Next == Disturbance \/ Progress

\* The event loop of the service retries a lost connection and broker, handles
\* what comes in, and lets its timer fire; the node carries out its commands.
\* No order among them is assumed.
Spec == Init /\ [][Next]_vars /\ WF_vars(Progress)

-----------------------------------------------------------------------------
(***************************************************************************)
(* Properties                                                              *)
(***************************************************************************)
\* What the value of an entity means, by the protocol, in the terms of
\* COMMANDS.md; a reference that knows nothing of omitted fields.
MeaningOf(e, id, v) ==
  LET Custom(c, f, names) == IF v[c] # 0 THEN customNames[v[c]] ELSE names[v[f] + 1]
  IN CASE e.kind = "switch" -> "status" :> OnOff(v[2] = 1)
       [] e.kind = "toggle" -> id :> OnOff(v[2] = 1)
       [] e.kind = "binary_sensor" -> id :> (v[2] = 1)
       [] e.kind = "sensor" -> id :> Rounded(v[2], e.decimals)
       [] e.kind \in {"number", "select"} -> id :> v[2]
       [] e.kind = "light" ->
            [status |-> OnOff(v[2] = 1), level |-> v[3] \div 4,
             color |-> <<v[4] \div 4, v[5] \div 4, v[6] \div 4>>, colorTemperature |-> v[8] \div 1000]
       [] e.kind = "cover" ->
            [cover |-> IF v[3] = 0 THEN "closed" ELSE "open", position |-> (v[3] + 5) \div 10]
       [] e.kind = "legacy_cover" ->
            [cover |-> IF v[2] = 0 THEN "open" ELSE "closed", position |-> IF v[2] = 0 THEN 100 ELSE 0]
       [] e.kind = "lock" -> "status" :> IF v[2] = 1 THEN "off" ELSE "on"
       [] e.kind = "climate" ->
            [systemMode |-> climateModes[v[2] + 1], temperature |-> v[3], targetTemperature |-> v[4],
             running |-> v[8] \notin {0, 4}, fanMode |-> Custom(11, 9, climateFanModes),
             operationMode |-> Custom(13, 12, climatePresets)]

\* The fields whose absence the code takes for zero.
Defaulted(kind) ==
  CASE kind \in {"switch", "toggle", "binary_sensor", "legacy_cover"} -> {2}
    [] kind = "light" -> {2, 5, 6}
    [] kind = "climate" -> {2, 8, 9, 11, 12, 13}
    [] OTHER -> {}

\* No other field of the entity is zero.
AllSent(kind, v)  == \A f \in DOMAIN v : v[f] = 0 => f \in Defaulted(kind)
NothingOmitted(i) == AllSent(entities[i].kind, node[i])

Meaning(i) == MeaningOf(entities[i], objectId(i), node[i])

\* The map s says everything that m says.
Shows(s, m)  == \A k \in DOMAIN m : k \in DOMAIN s /\ s[k] = m[k]
Agrees(i, m) == Shows(stateMap[i], m)

AllHandled == subscribed /\ states = <<>>

\* When all reports are handled, every endpoint shows the present value of its
\* entity, over reconnects, commands and changes in any order; except for the
\* fields whose zero the code does not supply, see ShownTrue.
ShownExact == AllHandled => \A i \in Endpoint : NothingOmitted(i) => Agrees(i, Meaning(i))

\* How an order is shown once it is carried out.
AskedOf(e, id, order) ==
  CASE order[1] = "cover" -> "cover" :> IF order[2] = "open" THEN "open" ELSE "closed"
    [] e.kind = "toggle" -> id :> OnOff(IsOn(order[2]))
    [] e.kind \in {"number", "select"} -> id :> order[2]
    [] OTHER -> order[1] :> order[2]

AskedState(i, order) == AskedOf(entities[i], objectId(i), order)

\* The last order for an entity is what its state shows once everything under
\* way has arrived, unless the node changed it since or the connection broke:
\* names, numbers and scales are the same on the way out and back.
EchoShown ==
  AllHandled /\ commands = <<>> =>
    \A i \in Endpoint : asked[i] # Nothing /\ NothingOmitted(i) => Agrees(i, AskedState(i, asked[i]))

\* A toggle that is handled when nothing is under way turns a switch, light or
\* lock to the other state, never to the one it is in.
ToggleFlips ==
  [][\A i \in Endpoint :
       /\ AllHandled /\ commands = <<>> /\ NothingOmitted(i)
       /\ commands' # <<>> /\ commands'[1].owner = i /\ commands'[1].order = <<"status", "toggle">>
       /\ special(entities[i])
       => Executed(entities[i].kind, node[i], commands'[1].fields)[2] # node[i][2]]_vars

\* With the broker connected and the timer at rest, the topics say what the
\* endpoints hold, also after changes that happened while it was away.
PublishedFresh ==
  mqtt /\ ~m_propertiesTimer =>
    \A i \in Endpoint : Shows(published[Topic(i)], stateMap[i])

\* COMMANDS.md: an entity on the shared topic is addressed by its own objectId.
\* A property name there leads to its entity, also among entities of one name,
\* if no name ends in a number.
OwnObjectId ==
  \A i \in Endpoint :
    ~special(entities[i]) => endpointForAction(entities[i].device, objectId(i)) = {i}

\* Once users, nodes and networks leave it alone, the service comes to show
\* every entity as it is, and to say so at the broker.
Settles ==
  <>[][~Disturbance]_vars =>
    <>[](\A i \in Endpoint : NothingOmitted(i) =>
           /\ Agrees(i, Meaning(i))
           /\ Shows(published[Topic(i)], Meaning(i)))

-----------------------------------------------------------------------------
(***************************************************************************)
(* Regular nodes and users, of which the properties are proved             *)
(***************************************************************************)
\* The keys of a node's entities differ; see CreditedToOwner for when not.
DistinctKeys(l) == \A i, j \in DOMAIN l : l[i].key = l[j].key => i = j

\* No name ends in a number, so that a count appended makes a name of its own.
PlainNames(l) ==
  \A i, j \in DOMAIN l : \A c, d \in 2..Len(l) :
    /\ Suffixed(l[i].name, c) # l[j].name
    /\ Suffixed(l[i].name, c) = Suffixed(l[j].name, d) => l[i].name = l[j].name /\ c = d

\* The fields of an entity's state, and the range of the enumerations.
IsValue(kind, v) ==
  CASE kind \in {"switch", "toggle", "binary_sensor", "legacy_cover"} -> v \in [{2} -> 0..1]
    [] kind \in {"sensor", "number", "select"} -> v \in [{2} -> Int]
    [] kind = "lock" -> v \in [{2} -> Nat]
    [] kind = "cover" -> v \in [{3} -> Nat]
    [] kind = "light" -> v \in [{2, 3, 4, 5, 6, 8} -> Nat] /\ v[2] \in 0..1
    [] kind = "climate" ->
         /\ v \in [{2, 3, 4, 8, 9, 11, 12, 13} -> Int]
         /\ v[2] \in 0..6 /\ v[9] \in 0..9 /\ v[11] \in 0..1 /\ v[12] \in 0..7 /\ v[13] \in 0..1

\* The orders that an entity of a kind takes, <<key, value>>: those of
\* COMMANDS.md, and the toggle of a light.
IsOrder(kind, o) ==
  /\ o = <<o[1], o[2]>>
  /\ CASE kind \in {"switch", "lock"} -> o[1] = "status" /\ o[2] \in {"on", "off", "toggle"}
       [] kind = "toggle" -> o[1] = "" /\ o[2] \in {"on", "off", "1", "0", "true", "false"}
       [] kind = "light" ->
            \/ o[1] = "status" /\ o[2] \in {"on", "off", "toggle"}
            \/ o[1] \in {"level", "colorTemperature"} /\ o[2] \in Nat
            \/ o[1] = "color" /\ o[2] \in [1..3 -> Nat]
       [] kind = "cover" ->
            \/ o[1] = "cover" /\ o[2] \in {"open", "close", "stop"}
            \/ o[1] = "position" /\ o[2] \in Nat
       [] kind = "legacy_cover" ->
            \/ o[1] = "cover" /\ o[2] \in {"open", "close", "stop"}
            \/ o[1] = "position" /\ o[2] \in {0, 100}
       [] kind = "climate" ->
            \/ o[1] = "systemMode" /\ \E n \in DOMAIN climateModes : o[2] = climateModes[n]
            \/ o[1] = "targetTemperature" /\ o[2] \in Int
            \/ o[1] = "fanMode" /\ \/ \E n \in DOMAIN climateFanModes : o[2] = climateFanModes[n]
                                   \/ o[2] = "custom"
            \/ o[1] = "operationMode" /\ \/ \E n \in DOMAIN climatePresets : o[2] = climatePresets[n]
                                         \/ o[2] = "custom"
       [] kind \in {"select", "number"} -> o[1] = "" /\ o[2] \in Int
       [] OTHER -> FALSE

\* Nodes, values and orders are such.
Regular ==
  /\ \A l \in Listing : DistinctKeys(l) /\ PlainNames(l)
  /\ \A kind \in Kind : \A v \in Sample[kind] : IsValue(kind, v)
  /\ \A kind \in Kind : \A o \in Order[kind] : IsOrder(kind, o)

-----------------------------------------------------------------------------
(***************************************************************************)
(* The inductive invariant                                                 *)
(***************************************************************************)
\* In a queue, the n-th item is the last one of an owner; it has none.
IsQueue(q)      == q \in Seq({q[n] : n \in DOMAIN q})
LastOf(q, i, n) == q[n].owner = i /\ \A m \in DOMAIN q : m > n => q[m].owner # i
NoneOf(q, i)    == \A n \in DOMAIN q : q[n].owner # i

Typed ==
  /\ entities \in Listing
  /\ DOMAIN node = Endpoint /\ \A i \in Endpoint : IsValue(entities[i].kind, node[i])
  /\ DOMAIN stateMap = Endpoint /\ DOMAIN asked = Endpoint
  /\ DOMAIN published = {Topic(i) : i \in Endpoint}
  /\ IsQueue(states) /\ IsQueue(commands)

\* A report is of its entity, a command is what an order made of some status.
OwnReport(msg) ==
  /\ msg.owner \in Endpoint
  /\ msg.key = entities[msg.owner].key /\ msg.kind = entities[msg.owner].kind

OwnCommand(c) ==
  LET e == entities[c.owner]
  IN /\ c.owner \in Endpoint
     /\ IsOrder(e.kind, c.order)
     /\ \E status \in {"on", "off"} :
          c.fields = CommandFields(e.kind, status, Key(e, objectId(c.owner), c.order), c.order[2])

Queued ==
  /\ \A n \in DOMAIN states : OwnReport(states[n])
  /\ \A n \in DOMAIN commands : OwnCommand(commands[n])
  /\ ~subscribed => states = <<>> /\ commands = <<>>

\* The last report of an entity says what it is; without one it is shown.
Reported(i) ==
  \/ \E n \in DOMAIN states : LastOf(states, i, n) /\ states[n] = Message(i, node[i])
  \/ NoneOf(states, i) /\ (NothingOmitted(i) => Agrees(i, Meaning(i)))

\* The last command for an entity carries what was asked; without one it is done.
Carried(i) ==
  asked[i] # Nothing =>
    /\ IsOrder(entities[i].kind, asked[i]) /\ asked[i] \notin Relative
    /\ \/ \E n \in DOMAIN commands : LastOf(commands, i, n) /\ commands[n].order = asked[i]
       \/ NoneOf(commands, i) /\ Shows(Meaning(i), AskedState(i, asked[i]))

\* An entity on the shared topic has its own property there and no other.
OwnProperty(i) == ~special(entities[i]) => DOMAIN stateMap[i] \subseteq {objectId(i)}

StateInv ==
  /\ Typed
  /\ Queued
  /\ subscribed => \A i \in Endpoint : Reported(i)
  /\ \A i \in Endpoint : Carried(i)
  /\ \A i \in Endpoint : OwnProperty(i)

-----------------------------------------------------------------------------
(***************************************************************************)
(* What the comments of the code say and the code does not do              *)
(***************************************************************************)
\* "Proto3 omits default (false/zero-enum) values": the service supplies them,
\* so that every value of an entity is shown.
ShownTrue == AllHandled => \A i \in Endpoint : Agrees(i, Meaning(i))

\* "Credited to whichever (sub-)device the state actually came from": a report
\* changes the endpoint of its entity and no other.
CreditedToOwner ==
  [][\A i \in Endpoint :
       processStateUpdate /\ stateMap'[i] # stateMap[i] => i = Head(states).owner]_vars
=============================================================================
