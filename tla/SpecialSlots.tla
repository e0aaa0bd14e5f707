--------------------------- MODULE SpecialSlots ----------------------------
(***************************************************************************)
(* The endpoint numbers of one device: EspHomeDevice::applyEntitiesToDevice*)
(* of esphome.cpp, which runs after every listing of the node's entities,  *)
(* the part of device.cpp that saves the numbers and loads them again, and *)
(* the routing of a command addressed to a number in controller.cpp.       *)
(*                                                                         *)
(* A special entity (light, cover, climate, lock, plain switch) keeps a    *)
(* number of its own, remembered by name in specialSlots(); the other      *)
(* ones, the common entities, fill the gaps anew after each listing.  Each *)
(* iteration of the two allocation loops is a step.                        *)
(***************************************************************************)
EXTENDS Naturals, Sequences, FiniteSets, SequencesExt

CONSTANTS
  EntityName,  \* names a node may give to its entities
  NoName,      \* stands for `no slot' in the map of slots
  Listing,     \* what a node may list: sequences of entities, see Entity
  Number,      \* the bound on slot numbers; an int in the code
  IdModulus    \* 2^8 in the code: endpoint ids are quint8

Entity == [key : Nat, name : EntityName, special : BOOLEAN]

ASSUME NameAssumption    == NoName \notin EntityName
ASSUME ListingAssumption == Listing \subseteq Seq(Entity)
ASSUME NumberAssumption  == Number \subseteq Nat \ {0}
ASSUME ModulusAssumption == IdModulus \in Nat \ {0}

VARIABLES
  slotMap,        \* specialSlots(): the name each number is reserved for
  entities,       \* the listing being applied, or applied last
  endpointIds,    \* the ids given to the entities so far
  usedThisRound,  \* the numbers given in this round
  pc,             \* where applyEntitiesToDevice is, and what came of it
  i,              \* the index of the loop over the common entities
  next,           \* where that loop looks for the next number
  endpoints,      \* endpoints() by id: the entity, and its "special" mark
  saved,          \* what the database holds of the device
  seen            \* history: how often a listing ever held a special name

roundVars == <<entities, endpointIds, usedThisRound, i, next>>
vars == <<slotMap, roundVars, pc, endpoints, saved, seen>>

\* No slot of the program is in the middle of applyEntitiesToDevice.
Quiet == pc \in {"restored", "discovered"}

Multiplicity(l, x) == Cardinality({j \in DOMAIN l : l[j].special /\ l[j].name = x})

-----------------------------------------------------------------------------
\* ListEntitiesDone: the endpoints are dropped and a new round begins.
applyEntitiesToDevice(l) ==
  /\ Quiet
  /\ pc' = "special"
  /\ entities' = l
  /\ endpointIds' = <<>>
  /\ usedThisRound' = {}
  /\ i' = 1
  /\ next' = 1
  /\ endpoints' = <<>>
  /\ seen' = [x \in EntityName |-> IF Multiplicity(l, x) > seen[x]
                                     THEN Multiplicity(l, x) ELSE seen[x]]
  /\ UNCHANGED <<slotMap, saved>>

FaultyReservable(x) == {n \in Number : slotMap[n] = x}

\* The slots of that name which no entity of this round has taken.
Reservable(x) == {n \in Number : slotMap[n] = x /\ n \notin usedThisRound}

FaultyOccupied == usedThisRound

\* Numbers that are not free for a name that has no slot yet.
Occupied == {n \in Number : slotMap[n] # NoName} \cup usedThisRound

FaultyAlwaysFresh(x, n) ==
  /\ n \in Number \ Occupied
  /\ \A m \in Number : m < n => m \in Occupied

\* The first slot with the entity's name, or else the first free number.
Chosen(x, n) ==
  \/ /\ n \in Reservable(x)
     /\ \A m \in Reservable(x) : n <= m
  \/ /\ Reservable(x) = {}
     /\ n \in Number \ Occupied
     /\ \A m \in Number : m < n => m \in Occupied

\* One iteration of the first loop.
SpecialPass ==
  /\ pc = "special"
  /\ Len(endpointIds) < Len(entities)
  /\ LET info == entities[Len(endpointIds) + 1]
     IN  \/ /\ ~info.special
            /\ endpointIds' = Append(endpointIds, 0)
            /\ UNCHANGED <<slotMap, usedThisRound>>
         \/ /\ info.special
            /\ \E n \in Number :
                 /\ Chosen(info.name, n)
                 /\ slotMap' = [slotMap EXCEPT ![n] = info.name]
                 /\ usedThisRound' = usedThisRound \cup {n}
                 /\ endpointIds' = Append(endpointIds, n % IdModulus)
  /\ UNCHANGED <<entities, pc, i, next, endpoints, saved, seen>>

SpecialPassEnds ==
  /\ pc = "special"
  /\ Len(endpointIds) = Len(entities)
  /\ pc' = "common"
  /\ UNCHANGED <<slotMap, roundVars, endpoints, saved, seen>>

FaultyCommonNumber(n) ==
  /\ n >= next
  /\ \A m \in Number : m < n => m < next

\* The number the inner while loop stops at.
CommonNumber(n) ==
  /\ n >= next /\ n \notin usedThisRound
  /\ \A m \in Number : next <= m /\ m < n => m \in usedThisRound

\* One iteration of the second loop: an id of 0 is still to be resolved.
CommonPass ==
  /\ pc = "common"
  /\ i <= Len(entities)
  /\ i' = i + 1
  /\ \/ /\ endpointIds[i] # 0
        /\ UNCHANGED <<endpointIds, usedThisRound, next>>
     \/ /\ endpointIds[i] = 0
        /\ \E n \in Number :
             /\ CommonNumber(n)
             /\ endpointIds' = [endpointIds EXCEPT ![i] = n % IdModulus]
             /\ usedThisRound' = usedThisRound \cup {n}
             /\ next' = n + 1
  /\ UNCHANGED <<slotMap, entities, pc, endpoints, saved, seen>>

\* The third loop, which inserts the endpoints one after the other: of two
\* entities with one id, the later one stays.
BuildEndpoints ==
  /\ pc = "common"
  /\ i > Len(entities)
  /\ pc' = "discovered"
  /\ endpoints' =
       [id \in ToSet(endpointIds) |->
          LET j == CHOOSE k \in DOMAIN entities :
                     /\ endpointIds[k] = id
                     /\ \A m \in DOMAIN entities : m > k => endpointIds[m] # id
          IN  [entity |-> entities[j], marked |-> entities[j].special]]
  /\ UNCHANGED <<slotMap, roundVars, saved, seen>>

-----------------------------------------------------------------------------
\* serialize: the slots, and the entities in the order of their ids; the
\* history goes with them.
serialize ==
  [slotMap  |-> slotMap,
   seen     |-> seen,
   entities |-> LET ids == SetToSortSeq(DOMAIN endpoints, <)
                IN  [k \in DOMAIN ids |-> endpoints[ids[k]].entity]]

\* writeDatabase, when the timer of DeviceList::store runs out or on quit.
writeDatabase ==
  /\ Quiet
  /\ saved' = serialize
  /\ UNCHANGED <<slotMap, roundVars, pc, endpoints, seen>>

\* parse, setupEndpoints: after a restart the entities are numbered by their
\* position, and none of them is marked special.
Restart ==
  /\ Quiet
  /\ pc' = "restored"
  /\ slotMap' = saved.slotMap
  /\ endpoints' = [k \in DOMAIN saved.entities |->
                     [entity |-> saved.entities[k], marked |-> FALSE]]
  /\ entities' = <<>>
  /\ endpointIds' = <<>>
  /\ usedThisRound' = {}
  /\ i' = 1
  /\ next' = 1
  /\ seen' = saved.seen
  /\ UNCHANGED saved

\* Controller::mqttReceived: the entities a command on topic td/<device>/<n>
\* reaches; an n that the cast to quint8 makes 0 counts as no number at all.
Addressed(n) ==
  {endpoints[id].entity : id \in (DOMAIN endpoints \cap {n % IdModulus}) \ {0}}

\* Controller::publishExposes: the entity that the retained expose topic shows
\* under number n; entities without the mark are in "common", without number.
Exposed(n) ==
  {endpoints[id].entity : id \in {k \in DOMAIN endpoints \cap {n} : endpoints[k].marked}}

Init ==
  /\ slotMap = [n \in Number |-> NoName]
  /\ entities = <<>>
  /\ endpointIds = <<>>
  /\ usedThisRound = {}
  /\ pc = "restored"
  /\ i = 1
  /\ next = 1
  /\ endpoints = <<>>
  /\ seen = [x \in EntityName |-> 0]
  /\ saved = [slotMap |-> slotMap, seen |-> seen, entities |-> <<>>]

Next ==
  \/ \E l \in Listing : applyEntitiesToDevice(l)
  \/ SpecialPass
  \/ SpecialPassEnds
  \/ CommonPass
  \/ BuildEndpoints
  \/ writeDatabase
  \/ Restart

Spec == Init /\ [][Next]_vars

-----------------------------------------------------------------------------
(***************************************************************************)
(* Properties                                                              *)
(***************************************************************************)

\* Every variable that the loops work on has its type.
TypeOK ==
  /\ slotMap \in [Number -> EntityName \cup {NoName}]
  /\ saved.slotMap \in [Number -> EntityName \cup {NoName}]
  /\ entities \in Seq(Entity)
  /\ endpointIds \in Seq(Nat)
  /\ usedThisRound \in SUBSET Number
  /\ pc \in {"restored", "special", "common", "discovered"}
  /\ i \in Nat \ {0}
  /\ next \in Nat

\* A number once reserved for a name is never given to another name, in
\* whatever order entities vanish, return and are renamed; only a restart may
\* take back what was not saved yet.
SlotsKept ==
  [][Restart \/ \A n \in Number : slotMap[n] # NoName => slotMap'[n] = slotMap[n]]_vars

\* What the database promises is kept: a reservation on disk is one in memory
\* too, so that no restart can bring back a number that meanwhile went to
\* another entity.
SavedHonoured ==
  \A n \in Number : saved.slotMap[n] # NoName => slotMap[n] = saved.slotMap[n]

\* Every listed entity gets an endpoint of its own: no special or common
\* number is given twice and no entity disappears behind another one.
EndpointsDistinct ==
  pc = "discovered" =>
    ToSet(entities) = {endpoints[id].entity : id \in DOMAIN endpoints}

\* After a listing every special entity is reached, and shown, under a number
\* that is reserved for its name.
OwnNumber ==
  pc = "discovered" =>
    \A e \in ToSet(entities) : e.special =>
      \E n \in Number : e \in Addressed(n) \cap Exposed(n) /\ slotMap[n] = e.name

\* Slots are never freed, so they must not leak: a name holds as many of them
\* as it had entities in one listing, however often the node reconnects.
SlotsOf(slots, x) == {n \in Number : slots[n] = x}
NoSlotLeak ==
  Quiet => \A x \in EntityName : Cardinality(SlotsOf(slotMap, x)) = seen[x]

(***************************************************************************)
(* The loop invariants behind EndpointsDistinct and OwnNumber, which hold  *)
(* as long as no number is too big for a quint8.                           *)
(***************************************************************************)
NoOverflow == \A n \in Number : n < IdModulus

\* How many ids are given: one for each entity once the first loop is done.
IdsComplete ==
  /\ Len(endpointIds) <= Len(entities)
  /\ pc \in {"common", "discovered"} => Len(endpointIds) = Len(entities)

\* From where on an id may still be 0.
IdsResolved ==
  /\ pc = "special" => i = 1
  /\ pc = "common" => \A j \in DOMAIN endpointIds : j < i => endpointIds[j] # 0
  /\ pc = "discovered" => \A j \in DOMAIN endpointIds : endpointIds[j] # 0

\* The ids given are used numbers, and no two entities share one.
IdsDistinct ==
  \A j, k \in DOMAIN endpointIds :
    endpointIds[j] # 0 =>
      /\ endpointIds[j] \in usedThisRound
      /\ j # k => endpointIds[j] # endpointIds[k]

\* A special entity has the id of a slot with its name.
IdsOwned ==
  pc # "restored" =>
    \A j \in DOMAIN endpointIds : entities[j].special =>
      endpointIds[j] # 0 /\ slotMap[endpointIds[j]] = entities[j].name

\* The inductive invariant.
Inv ==
  /\ TypeOK
  /\ SavedHonoured
  /\ IdsComplete
  /\ IdsResolved
  /\ IdsDistinct
  /\ IdsOwned
  /\ EndpointsDistinct

(***************************************************************************)
(* The loop invariant behind NoSlotLeak: the first loop has used as many   *)
(* slots of a name as it has met entities of that name, and if the name    *)
(* still lacks slots then this listing is why.                             *)
(***************************************************************************)
Handled(x) == {j \in DOMAIN endpointIds : entities[j].special /\ entities[j].name = x}

\* The slots of one name, during the first loop.
Counted(x) ==
  LET have == Cardinality(SlotsOf(slotMap, x))
  IN  /\ Cardinality(SlotsOf(slotMap, x) \cap usedThisRound) = Cardinality(Handled(x))
      /\ Multiplicity(entities, x) <= seen[x]
      /\ have <= seen[x]
      /\ have < seen[x] => seen[x] = Multiplicity(entities, x)

SlotsCounted ==
  /\ seen \in [EntityName -> Nat] /\ saved.seen \in [EntityName -> Nat]
  /\ \A x \in EntityName :
       /\ IsFiniteSet(SlotsOf(slotMap, x)) /\ IsFiniteSet(SlotsOf(saved.slotMap, x))
       /\ Cardinality(SlotsOf(saved.slotMap, x)) = saved.seen[x]
       /\ IF pc = "special" THEN Counted(x) ELSE Cardinality(SlotsOf(slotMap, x)) = seen[x]

\* COMMANDS.md: the number of an entity that disappears "stays reserved for
\* it": a command to that number reaches no other entity.
ReservedNumberUnused ==
  pc = "discovered" =>
    \A n \in Number : slotMap[n] # NoName =>
      \A e \in Addressed(n) : e.special /\ e.name = slotMap[n]

\* COMMANDS.md: a special entity is exposed under its number, which is
\* "persisted in the device database": also after a restart.
NumberPersists ==
  Quiet =>
    \A id \in DOMAIN endpoints : endpoints[id].entity.special =>
      \E n \in Number : endpoints[id].entity \in Exposed(n)

=============================================================================
