# homed-service-esphome: specification and proofs

The service keeps one encrypted TCP connection to each ESPHome node of a home,
turns the entities that a node lists into HOMEd endpoints, and carries states
and commands between them and an MQTT broker. It is a single-threaded Qt
program: every slot runs to completion and a direct signal is a call. What is
hard about it is therefore not parallelism but the *order of events*: sockets,
timers, frames, MQTT commands and restarts may follow each other in any order,
and each handler leaves state behind for the next.

## Inventory

| Component | State | Operations | Interacts with | Hard | Correct means |
|---|---|---|---|---|---|
| `EspHomeDevice` (esphome.cpp) | protocol state, Noise object, socket, three timers, receive buffer, pending listing | connect, connected, disconnected, error, readyRead, three time-outs, message handlers, sendCommand | socket (signals), `DeviceObject` (availability, name), manager (signals) | failures that emit only one of two signals, silent peers, frames after a close | nothing of a lost connection survives it; a loss is retried; Online means authenticated |
| `EspHomeManager` (esphome.cpp) | connections by host | connectAll, connectDevice, disconnectDevice, sendCommand | controller, connections | routing of sub-devices through their parent | one connection per device, none left over |
| Discovery, sub-devices (esphome.cpp) | `m_subDeviceNames`, `m_pendingEntities`, endpoints | DeviceInfoResponse, ListEntities..., ListEntitiesDone | device list, controller | interrupted listings, changed configurations, shifting ids | endpoints are those of the present configuration |
| Endpoint numbers (esphome.cpp, device.cpp) | `specialSlots`, endpoint ids | two allocation loops, save, load | controller (routing by number) | entities that vanish, return, share names; restarts; 8-bit ids | a number is never reassigned, no two entities share one |
| `DeviceList` (device.cpp) | devices, database file, 20 s write timer | byName, byHost, store, writeDatabase, init | controller, connections | crash between change and write, or during the write | what users saw survives a restart |
| `Controller` (controller.cpp) | retained topics at the broker | add, remove, update, td commands, mqttConnected, signal handlers | all of the above, MQTT | broker away while things change | the retained topics are true |
| States and commands (esphome.cpp) | state maps of the endpoints | processStateUpdate, sendCommand | connection, controller | omitted fields, equal keys, toggles on old state | a state or command reaches its entity unchanged |
| Noise, protobuf (noise.cpp, proto.cpp) | cipher states | handshake, encrypt, decrypt; encode, decode | connection | truncated input | inverse of the peer's coding |
| Debug client, web plugin, packaging | - | - | - | - | outside the service |

The hazards, each at its line with the properties that cover it, are in
`PROJECT.json`.

## Modules

**Link** is the abstract specification of a connection: a link that is dialled,
authenticated, closed and lost, and the availability published for it. **Pipe**
is the one of a direction of it: messages arrive unchanged and in order.

**EspHomeDevice** is the connection. A variable is a member of the class, a
field of its `DeviceObject`, or the state of its `QTcpSocket`; an action is a
slot together with every slot that it triggers. Only `onReadyRead` is split: one
action per frame, with `reading` keeping other events out until the loop
returns, because the frames of one read meet the state that the earlier ones
left. The peer is unconstrained. From Qt's documented behaviour the module
takes: a failed attempt emits `errorOccurred` only; a remote close emits
`errorOccurred` and then `disconnected`; `abort()` emits `disconnected` at once
and only if the socket was open; `disconnectFromHost()` does so at once if
nothing is left to send, and otherwise when the buffer has drained, without
delivering further reads. `alwaysActive` is a history variable: a device that
was inactive when its connection was lost has no retry and gets none when it is
made active again (esphome.cpp:242, 252; controller.cpp:434), so the liveness
properties are about devices that were never inactive.

**Session** puts the connection together with a node that answers it, the
sub-devices and endpoints that a listing leaves in the device list, and the
retained status and expose topics. Its actions are conjunctions of
EspHomeDevice's actions with what the same slot does to this state. The node
follows the ESPHome API; each time the connection is lost it may come back with
another configuration.

**SpecialSlots** is `applyEntitiesToDevice`, one step per iteration of its two
allocation loops, with saving and restarting in between, and the two places that
use the numbers: routing of `td/<device>/<n>` and the expose topic.

**Registry** is the list of devices with the manager's connections, the database
file and the retained commands. An action is a command, a listing, a tick of the
write timer, the start, the end or the death of the process. The list is a set:
where `byName` returns the first match, any match may be returned, so that no
result depends on the order. A crash during `writeDatabase` leaves the file
empty; a file that cannot be opened leaves everything as it is until the next
`store()`. After `restartService` the process is `exiting`: `exit()` only tells the
event loop to end, so commands that came with it may still be handled before
`quit`, which saves what they change. `durable`, `addOrdered`, `asked` and
`unwritten` are history variables. Devices are identified by their hosts, which are such that `mqttSafe` does not
change them.

**EntityState** is what a user sees and does: the state messages of every kind of
entity, with the fields that proto3 omits, their decoding, the state and command
topics, the messages that commands become, and the nodes that carry them out.
Values are integers in units in which the conversions of the code are exact, or
are rounded as they are in the code. Names are strings after `camelCase`, and
`Suffixed` appends the count of a collision. `Meaning` says independently what a
value of an entity means, and `AskedState` how an order is shown. `Regular` says
what the code counts on: keys that differ, names that end in no number, values
and orders of the protocol and of COMMANDS.md. All devices are active.

**Proto** and **Wire** are a connection byte by byte: varints, fields, frames cut
into any chunks, and Noise as turns, keys and nonces. Bytes have three bits and
varints seven, so that carries, limits and lengths are met with short messages.
EspHomeDevice takes over where this ends, at whole frames.

**EspHomeDeviceProofs**, **SpecialSlotsProofs**, **RegistryProofs**,
**SessionProofs**, **EntityStateProofs**, **ProtoProofs**, **WireProofs** and
**PipeProofs** hold the theorems. The modules **MC...** instantiate the
specifications for TLC.

A definition named `Faulty...` is a deliberately wrong version of the one that
follows it, a mistake one could make in that code. Nothing refers to it; put in
place of the right one, it makes TLC report the property that `PROJECT.json`
pairs with it.

## Runs

| Run | Bounds | Shows |
|---|---|---|
| `connection` | every kind of frame each branch of the loop tells apart, in reads of 1 or 2 frames; two names | the invariants, the refinement of Link, and that handshakes end and losses are retried |
| `session` | two configurations that renumber a sub-device, add one and move entities; two faults; one ping under way | endpoints, sub-devices and retained topics are true; nothing stays of a removed device; the device recovers |
| `slots` | listings of up to 3 entities with two special names, equal names included; numbers up to 7 | numbers are kept, distinct and not leaked over every history of listings, saves and restarts |
| `slots_reserved`, `slots_restart` | the same, listings of up to 2 | violations: see Findings |
| `registry` | two nodes, the first with a sub-device; nine commands in which a name and a host mean different devices at different times; two commands under way; a delay of two ticks | list, connections, file and retained commands stay in step; changes are saved once they cease |
| `registry_torn`, `registry_starved` | the same with one command under way; the second with no command but one addDevice | violations: see Findings |
| `states` | nine nodes with one or two entities, of every kind, with equal names; two reports and one command under way | what is shown is true, commands come back as given, toggles flip, topics are fresh, and all settles |
| `states_zero`, `states_key` | a sensor that may read zero; two sensors with one key | violations: see Findings |
| `wire` | two keys at either end; two messages in either direction, with every wire type, bytes that look like frames, and one too long; every way to cut the bytes | the refinement of Pipe in both directions, keys, decoding, and that everything arrives |

Why the bounds are enough. A read of two frames is the smallest in which a frame
meets what an earlier frame of the same read did; a third meets the same states,
because the loop keeps nothing but the state and the buffer. Two faults let a
second interruption fall into the recovery from the first. With two special
names and three entities, six numbers can ever be reserved (each name at most
three times) and a listing can hold equal names beside another entity; the
seventh number shows that the bound is never reached. In `registry` a second
node is what a name can be confused with, the second command under way is what
can follow the one that is handled, and a delay of two lets a change fall between
a `store()` and the write; the theorems need none of these bounds. In `states`
entities meet only through their device and its shared topic, so that two are
enough; two reports let one be overtaken by the next. In `wire` the second
message is the one that a wrong nonce, length or remainder spoils.
`wire` does not check for deadlock: a connection with different keys is closed,
and one with everything sent is at rest.

Fairness. In `connection`: timers that run fire, an attempt to connect ends
(Qt gives up after 30 s), the few bytes of a closing socket drain into the
kernel, a running slot returns. Nothing is assumed of the peer, so that a silent
one is allowed. In `session` the node also answers and accepts connections,
and faults are bounded by `MaxFaults`: without that no recovery can be promised.
In `registry` time passes while the process runs, it is started again when it
ended (by its service manager), it handles what it received, and the event loop
returns after `exit()`; each of these
is what a running event loop does. In `states` the service gets a lost connection
and broker back, handles reports and fires its timer, and the node carries out
commands: one weak fairness for all of these, so that nothing is assumed of the
order in which they are served. Disturbances are not assumed to end, `Settles` is
about behaviours in which they do. In `wire` bytes that arrive are read and the node reads what it
is sent; nobody is assumed to send.

## Findings

* COMMANDS.md:74 says that the number of an entity that disappears "stays
  reserved for it". The loop over the common entities steps around the numbers
  of this listing only (esphome.cpp:850), so a common entity may get it, and
  commands sent to the number reach that entity (controller.cpp:471, 482;
  `slots_reserved`). The
  reservation against other *special* entities does hold: `SlotsKept`, proved.
* COMMANDS.md:51 says that the number "persists across reconnects/restarts". The
  reservation does, but from a restart until the next listing the endpoints are
  numbered by position and without the special mark (device.cpp:123), and are
  published so (`slots_restart`).
* README.md:31 says that only `removeDevice` deletes a device. A crash between the
  truncation and the writing of the database deletes all of them
  (device.cpp:320, `registry_torn`). With any other crash the claim holds:
  `DurableKept`, proved.
* README.md:5 says that the database is updated on each connection. Each listing
  restarts the 20 s delay and a lost connection is retried after 10 s, so that a
  node that keeps losing its connection keeps everything out of the file
  (device.cpp:51, `registry_starved`). Once changes cease they are saved:
  `EventuallySaved`.
* The comment at esphome.cpp:1168 says that the zero values which proto3 omits are
  supplied. They are not for sensors, numbers, positions of covers and red: a
  sensor at 0 keeps its last value (`states_zero`). `ShownExact` is the claim for
  all other values.
* The comment at esphome.cpp:1282 says that a state is credited to the device it
  came from. It goes by the key alone, main first (esphome.cpp:1301), and equal
  names on main and a sub-device have equal keys (`states_key`).

## Proofs

All theorems hold for every value of the constants that meets the named
assumptions of the modules.

*EspHomeDeviceProofs.* `Invariance` proves `Inv`. None of the properties is
inductive alone: that a retry is armed needs that a lost socket always runs
`onDisconnected`, hence that the protocol states are exactly those of an open
socket; that the retry is harmless needs that the timer is stopped on every way
to an open socket; that the buffer is drained needs that a slot runs only on an
open connection and that a graceful close has something left to send. `Inv` is
their conjunction with these facts. One step per action, with `ClosedInv` for
the many ways into `onDisconnected` and `ConsumeFacts` for the frames. Seven
properties of the runs follow. `Refinement` shows with `Inv` that each step is a
step of Link or stutters.

*SpecialSlotsProofs.* `SavedIsHonoured` and `SlotsAreKept` need only the types
and that a chosen number is free or has the same name, and hold whatever the
modulus. `Invariance`, `EndpointsAreDistinct` and `NumbersAreOwn` assume
`NoOverflow` (all numbers below the modulus, 256 in the code: beyond it the claim
is false) and rest on the loop invariants `IdsComplete`, `IdsResolved`,
`IdsDistinct` and `IdsOwned`. `SlotsDoNotLeak` counts: `SlotsCounted` says that
the first loop has met as many entities of a name as it has used slots of it, and
that a name lacks slots only if this listing has more of it than any before; a
slot is taken anew only when all slots of the name are used. It needs no
`NoOverflow`.

*RegistryProofs.* `Invariance` proves `Inv` under `Named`: no user gives the empty
name, because an entry without a name is dropped when the file is loaded.
`DurableKept` is about the list and needs its counterpart for the file
(`DurableStored`) and that every entry of the file has a name (`AllNamed`).
`Reachable` needs `NoOrphans` in the file as well, for the next start.
`AddHonoured` needs that the broker has what was published last and sent it last
(`LastIsRetained`, `AddIsRetained`), unless a restart has deleted it; `RestartAsked`
likewise. `ListInv` and
`BrokerInv` are the two halves that most actions touch one of.

*SessionProofs.* `SessionInvariance` proves `SessionInv` on top of the connection's
`Inv`, every step of Session being one of EspHomeDevice or leaving it alone.
That a sub-device goes offline with its parent needs that `knownSubDevices` finds
it, hence that one that is Online is among the present names (`OnlineKnown`),
hence that an entity that is pending has a name (`PendingNamed`), hence that the
node under way speaks of its own sub-devices and in the order of the protocol,
which is a statement about each frame in the queues (`FrameOf`,
`QueuesConsistent`). `EndpointsAreFresh` and `DevicesAreAnnounced` need in addition
that a listing is whole when `ListEntitiesDone` is handled: while it is under way
its entities are pending or still to come (`ListingWhole`), no entity comes behind
`ListEntitiesDone`, and at most one of the answers that move the state is under
way, the one that the state waits for (`Orderly`).

*EntityStateProofs.* The theorems assume `Regular`, which TLC evaluates for the
nodes, values and orders of `states` (`MCRegular`); `states_key` and `states_zero`
show what becomes of nodes with equal keys and of omitted fields. The argument has
three layers. The first is about names: the count of namesakes grows along the
listing, so that object ids differ (`ObjectIdsDiffer`). The second is about the
conversions, one lemma per kind: `Converted` says that decoding what a node
encodes, defaults and colour, position and mode tables included, gives the
meaning of the value; `OrderPerformed` says that the command which `sendCommand`
makes of an order, executed by the node, gives a value that shows the order. The
third is the invariant `StateInv` over the two queues: the last report of an entity
under way is of its present value, and if there is none the endpoint shows it
(`Reported`); the last command under way carries the last order, and if there is
none the value shows it (`Carried`); an entity on the shared topic has no property
but its own (`OwnProperty`). `TopicsAreFresh` rests on the last, since it makes the
merged state of a topic say what each of its entities holds. `ReportsAreCredited`
is the claim that `states_key` refutes, for keys that differ.

*ProtoProofs.* `DecodeOfEncode` and `DecodeOfCut` are about what the coders compute
for every sequence of fields and every width, so they need recursion and induction.
Both are built from the one fact that a set of naturals has a least element
(`Least`, from the library's well-founded relations), with sets in the place of
predicates. `Recursion` shows that a function defined from its values at points of
lower rank exists; each recursive function of Proto is an instance of it and so
obeys its equation: `Pow2` and `writeVarint` at lower numbers, the sum in
`readVarint` and the bytes in `encode` at the place before, `decode` at a place
behind, because `readField` always moves on (`ReadFieldOn`). On top of that, from
the inside out: all groups of a number but the last have the flag and there are no
more than fit the width (`Groups`); groups found anywhere in the data add the
number, shifted to where they are (`Added`, by induction on the number); hence a
number whose bytes the data holds as far as it goes is read back, or not at all if
the data ends within it (`ReadBack`), and so is a field of each wire type
(`FieldReadBack`); and going back from the last field, `decode` gives from the start
of each field the fields that follow, up to the first that was cut (`Decoding`).

*WireProofs.* `KeysAreEqual` needs what the bytes under way may be when the keys
differ (`KeyInv`): those to the service are never the answer to its handshake, so
that it never gets ready nor sends a message; those to the node therefore hold no
MAC, so that it decrypts nothing. What a frame takes from a buffer is part of the
buffer, wherever the stream is cut. Assumed of the messages (`MessageAssumption`,
which TLC evaluates for those of `wire`): the type fits a quint16, and each field is
one that the code can write (`Encodable`), that is, its numbers fit the widths that
their types have. That the encoder then writes bytes is proved (`EncodedBytes`).

*PipeProofs.* `ConnectionIsAPipe` is the refinement of Pipe in both directions.
Its invariant (`PipeInv`) is about what lies between the ends. The bytes in
`m_rxBuf` and those under way to it, taken together, are whole frames one after
the other (`Stream`: there are places at which each of them ends), namely those
written and not yet taken, and the message among them at place *n* is sealed with
nonce *n* (`Flowing`). Where a chunk ends moves bytes from one of the two
sequences to the other and changes nothing in their concatenation (`StreamMove`);
a frame that is complete in the first is the first of the stream (`StreamTake`);
what is decrypted at nonce *n* is therefore the message at place *n* (`FlowDeliver`).
Messages that are too long to be sent need care: the service writes an empty frame
in their place and keeps its nonce, so what follows them is sealed for a place that
it does not have. The invariant says what a message is sealed with only while
none before it was too long (`Clean`), and adds that a node that is still open has
taken no message that was. The invariant quantifies over all ways to cut the bytes
into frames, so TLC, which checks `InOrder` itself, does not evaluate it.
`FieldsAreReadAsWritten` proves `ReadAsWritten` from both: by `PipeInv` the bytes
processed are those of a message of the node that was not too long, which
`MessagesInv` keeps for each of them; its length therefore fits the two bytes of
the inner header, the payload is found whole (`ParsedBack`), and ProtoProofs says
what is decoded from it.

Model-checked only: the liveness properties (`HandshakeEnds`, `Reconnects`,
`Recovers`, `EventuallySaved`, `Settles`, `Arrives`), which are outside the prover.
Every invariant and every safety property of the passing runs is proved.

## Not modelled

* Cryptography: Noise is modelled by what it accepts, with perfect encryption.
* Home Assistant discovery payloads, exposes and options in detail, the status
  message of the service, events, logging and wording.
* Topics by name (`mqtt/names`), and the deletion of topics that earlier versions
  left (`clearStaleTopics`).
* Hosts that `mqttSafe` changes, sub-devices whose names give the same address,
  and sub-devices that a node does not name.
* A database that cannot be opened, or is no JSON, when the service starts.
* Climates without presets or fan modes (esphome.cpp:1258).
* Names of entities that end in a number: the count appended to a second "Temp"
  makes it temp2, as "Temp 2" is, and commands for one of the two reach the other
  (esphome.cpp:799).
* Endpoint numbers beyond 255, and toggles sent before an earlier one is reported:
  the code does not handle them, and no property speaks of them.
* Buttons, which have no state; text sensors, decoded as selects are.
* Lengths and field numbers in a message that do not fit an int.
* The debug client, the web plugin and packaging, which are outside the service.
