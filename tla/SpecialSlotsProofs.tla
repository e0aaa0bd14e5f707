------------------------- MODULE SpecialSlotsProofs ------------------------
(***************************************************************************)
(* SpecialSlots for every listing of any length and any number of names:   *)
(* numbers are never reassigned, and as long as they fit a quint8 no two   *)
(* entities share one.                                                     *)
(***************************************************************************)
EXTENDS SpecialSlots, SequenceTheorems, FiniteSetTheorems, TLAPS

\* Without overflow the cast to quint8 changes nothing.
LEMMA SmallIds ==
  ASSUME NoOverflow, NEW n \in Number
  PROVE  n % IdModulus = n /\ n # 0 /\ n \in Nat
  BY NumberAssumption, ModulusAssumption DEF NoOverflow

\* With or without it, what the cast leaves is a number.
LEMMA IdInNat == \A n \in Number : n % IdModulus \in Nat
  BY NumberAssumption, ModulusAssumption

\* A slot that is chosen is free or has the entity's name already.
LEMMA ChosenKeeps ==
  ASSUME NEW x \in EntityName, NEW n \in Number, Chosen(x, n)
  PROVE  /\ slotMap[n] \in {x, NoName}
         /\ n \notin usedThisRound
  BY DEF Chosen, Reservable, Occupied

-----------------------------------------------------------------------------
(***************************************************************************)
(* Types and reservations, whatever the modulus                            *)
(***************************************************************************)

\* A device without slots meets the types and reservations.
LEMMA InitTypes == Init => TypeOK /\ SavedHonoured /\ IdsComplete
  BY NumberAssumption DEF Init, TypeOK, SavedHonoured, IdsComplete

\* One step of SpecialPass reserves at most one number, which was free or had
\* the same name.
LEMMA SpecialPassKeeps ==
  ASSUME TypeOK, SpecialPass
  PROVE  /\ slotMap' \in [Number -> EntityName \cup {NoName}]
         /\ \A n \in Number : slotMap[n] # NoName => slotMap'[n] = slotMap[n]
<1> DEFINE info == entities[Len(endpointIds) + 1]
<1>1. info \in Entity
  BY DEF TypeOK, SpecialPass
<1>2. CASE UNCHANGED slotMap
  BY <1>2 DEF TypeOK
<1>3. CASE \E n \in Number : /\ Chosen(info.name, n)
                             /\ slotMap' = [slotMap EXCEPT ![n] = info.name]
  <2>1. PICK n \in Number : /\ Chosen(info.name, n)
                            /\ slotMap' = [slotMap EXCEPT ![n] = info.name]
    BY <1>3
  <2>2. info.name \in EntityName
    BY <1>1 DEF Entity
  <2>3. slotMap[n] \in {info.name, NoName}
    BY <2>1, <2>2, ChosenKeeps
  <2> QED
    BY <2>1, <2>2, <2>3 DEF TypeOK
<1> QED
  BY <1>2, <1>3 DEF SpecialPass

\* No step, a restart included, breaks a type or a saved reservation.
LEMMA NextTypes ==
  TypeOK /\ SavedHonoured /\ IdsComplete /\ [Next]_vars
    => TypeOK' /\ SavedHonoured' /\ IdsComplete'
<1> SUFFICES ASSUME TypeOK, SavedHonoured, IdsComplete, [Next]_vars
             PROVE  TypeOK' /\ SavedHonoured' /\ IdsComplete'
  OBVIOUS
<1> USE DEF roundVars, IdsComplete
<1>1. ASSUME NEW l \in Listing, applyEntitiesToDevice(l)
      PROVE  TypeOK' /\ SavedHonoured' /\ IdsComplete'
  BY <1>1, ListingAssumption DEF applyEntitiesToDevice, TypeOK, SavedHonoured
<1>2. CASE SpecialPass
  <2>1. usedThisRound' \in SUBSET Number
    BY <1>2 DEF SpecialPass, TypeOK
  <2>2. PICK id \in Nat : endpointIds' = Append(endpointIds, id)
    BY <1>2, IdInNat DEF SpecialPass
  <2>3. endpointIds' \in Seq(Nat)
    BY <2>2 DEF TypeOK
  <2> QED
    BY <1>2, <2>1, <2>3, SpecialPassKeeps DEF SpecialPass, TypeOK, SavedHonoured
<1>3. CASE SpecialPassEnds
  BY <1>3 DEF SpecialPassEnds, TypeOK, SavedHonoured
<1>4. CASE CommonPass
  <2>1. usedThisRound' \in SUBSET Number /\ next' \in Nat /\ i' \in Nat \ {0}
    <3>1. usedThisRound' \in SUBSET Number
      BY <1>4 DEF CommonPass, TypeOK
    <3>2. next' \in Nat
      BY <1>4, NumberAssumption DEF CommonPass, TypeOK
    <3> QED
      BY <1>4, <3>1, <3>2 DEF CommonPass, TypeOK
  <2>2. endpointIds' \in Seq(Nat)
    <3>1. CASE UNCHANGED endpointIds
      BY <3>1 DEF TypeOK
    <3>2. CASE \E n \in Number : endpointIds' = [endpointIds EXCEPT ![i] = n % IdModulus]
      <4>1. PICK id \in Nat : endpointIds' = [endpointIds EXCEPT ![i] = id]
        BY <3>2, IdInNat
      <4>2. i \in 1..Len(endpointIds)
        BY <1>4 DEF CommonPass, TypeOK
      <4> QED
        BY <4>1, <4>2, ExceptSeq DEF TypeOK
    <3> QED
      BY <1>4, <3>1, <3>2 DEF CommonPass
  <2> QED
    BY <1>4, <2>1, <2>2 DEF CommonPass, TypeOK, SavedHonoured
<1>5. CASE BuildEndpoints
  BY <1>5 DEF BuildEndpoints, TypeOK, SavedHonoured
<1>6. CASE writeDatabase
  BY <1>6 DEF writeDatabase, serialize, TypeOK, SavedHonoured
<1>7. CASE Restart
  BY <1>7 DEF Restart, TypeOK, SavedHonoured
<1>8. CASE UNCHANGED vars
  BY <1>8 DEF vars, TypeOK, SavedHonoured
<1> QED
  BY <1>1, <1>2, <1>3, <1>4, <1>5, <1>6, <1>7, <1>8 DEF Next

\* Every variable keeps its type.
THEOREM TypeCorrect == Spec => []TypeOK
  BY InitTypes, NextTypes, PTL DEF Spec

\* A restart never brings back a number that meanwhile went to another name.
THEOREM SavedIsHonoured == Spec => []SavedHonoured
  BY InitTypes, NextTypes, PTL DEF Spec

\* A number once reserved for a name is never given to another, whatever the
\* node lists, for any number of names and slots.
THEOREM SlotsAreKept == Spec => SlotsKept
<1>1. TypeOK /\ [Next]_vars =>
        [Restart \/ \A n \in Number : slotMap[n] # NoName => slotMap'[n] = slotMap[n]]_vars
  <2> SUFFICES ASSUME TypeOK, Next, ~Restart
               PROVE  \A n \in Number : slotMap[n] # NoName => slotMap'[n] = slotMap[n]
    OBVIOUS
  <2>1. CASE SpecialPass
    BY <2>1, SpecialPassKeeps
  <2>2. CASE UNCHANGED slotMap
    BY <2>2
  <2> QED
    BY <2>1, <2>2
    DEF Next, applyEntitiesToDevice, SpecialPassEnds, CommonPass, BuildEndpoints,
        writeDatabase
<1> QED
  BY <1>1, TypeCorrect, PTL DEF Spec, SlotsKept

-----------------------------------------------------------------------------
(***************************************************************************)
(* Ids, as long as they do not overflow                                    *)
(***************************************************************************)

\* The inductive invariant holds before the first listing.
LEMMA InitInv == Init => Inv
<1> SUFFICES ASSUME Init PROVE Inv
  OBVIOUS
<1>1. DOMAIN endpointIds = {}
  BY DEF Init
<1> QED
  BY <1>1, InitTypes
  DEF Init, Inv, IdsResolved, IdsDistinct, IdsOwned, EndpointsDistinct

\* The first loop gives the next entity an id: 0, or a number of its own that
\* is reserved for its name.
LEMMA SpecialPassInv ==
  ASSUME NoOverflow, Inv, SpecialPass
  PROVE  IdsResolved' /\ IdsDistinct' /\ IdsOwned' /\ EndpointsDistinct'
<1> DEFINE last == Len(endpointIds) + 1
           info == entities[last]
<1>1. info \in Entity /\ pc = "special" /\ pc' = "special" /\ entities' = entities
  BY DEF Inv, TypeOK, SpecialPass
<1>2. IdsResolved' /\ EndpointsDistinct'
  BY <1>1 DEF SpecialPass, Inv, IdsResolved, EndpointsDistinct
<1>3. endpointIds \in Seq(Nat)
  BY DEF Inv, TypeOK
<1>4. CASE ~info.special /\ endpointIds' = Append(endpointIds, 0)
           /\ UNCHANGED <<slotMap, usedThisRound>>
  <2>1. /\ DOMAIN endpointIds' = 1..last
        /\ endpointIds'[last] = 0
        /\ \A j \in 1..Len(endpointIds) : endpointIds'[j] = endpointIds[j]
    BY <1>3, <1>4
  <2>2. IdsDistinct'
    BY <1>3, <1>4, <2>1 DEF Inv, IdsDistinct
  <2>3. IdsOwned'
    BY <1>1, <1>3, <1>4, <2>1 DEF Inv, IdsOwned
  <2> QED
    BY <1>2, <2>2, <2>3
<1>5. CASE info.special /\ \E n \in Number :
             /\ Chosen(info.name, n)
             /\ slotMap' = [slotMap EXCEPT ![n] = info.name]
             /\ usedThisRound' = usedThisRound \cup {n}
             /\ endpointIds' = Append(endpointIds, n % IdModulus)
  <2>1. PICK n \in Number :
             /\ Chosen(info.name, n)
             /\ slotMap' = [slotMap EXCEPT ![n] = info.name]
             /\ usedThisRound' = usedThisRound \cup {n}
             /\ endpointIds' = Append(endpointIds, n % IdModulus)
    BY <1>5
  <2>2. n % IdModulus = n /\ n # 0 /\ n \in Nat
    BY SmallIds
  <2>3. info.name \in EntityName
    BY <1>1 DEF Entity
  <2>4. n \notin usedThisRound /\ slotMap[n] \in {info.name, NoName}
    BY <2>1, <2>3, ChosenKeeps
  <2>5. /\ DOMAIN endpointIds' = 1..last
        /\ endpointIds'[last] = n
        /\ \A j \in 1..Len(endpointIds) : endpointIds'[j] = endpointIds[j]
    BY <1>3, <2>1, <2>2
  <2>6. IdsDistinct'
    BY <1>3, <2>1, <2>2, <2>4, <2>5 DEF Inv, IdsDistinct
  <2>7. slotMap'[n] = info.name
    BY <2>1 DEF Inv, TypeOK
  <2>8. ASSUME NEW j \in 1..Len(endpointIds), entities[j].special
        PROVE  endpointIds[j] # 0 /\ slotMap'[endpointIds[j]] = entities[j].name
    <3>1. endpointIds[j] # 0 /\ slotMap[endpointIds[j]] = entities[j].name
      BY <1>1, <1>3, <2>8 DEF Inv, IdsOwned
    <3>2. endpointIds[j] \in usedThisRound
      BY <1>3, <3>1 DEF Inv, IdsDistinct
    <3>3. endpointIds[j] \in Number /\ endpointIds[j] # n
      BY <2>4, <3>2 DEF Inv, TypeOK
    <3> QED
      BY <2>1, <3>1, <3>3 DEF Inv, TypeOK
  <2>9. IdsOwned'
    BY <1>1, <1>3, <2>2, <2>5, <2>7, <2>8 DEF IdsOwned
  <2> QED
    BY <1>2, <2>6, <2>9
<1> QED
  BY <1>4, <1>5 DEF SpecialPass

\* The second loop resolves an id of 0 to a number that no entity has.
LEMMA CommonPassInv ==
  ASSUME NoOverflow, Inv, CommonPass
  PROVE  IdsResolved' /\ IdsDistinct' /\ IdsOwned' /\ EndpointsDistinct'
<1>1. /\ pc = "common" /\ pc' = "common" /\ i' = i + 1
      /\ UNCHANGED <<entities, slotMap>>
      /\ endpointIds \in Seq(Nat) /\ i \in Nat \ {0}
      /\ i \in 1..Len(endpointIds)
  BY DEF CommonPass, Inv, TypeOK, IdsComplete
<1>2. EndpointsDistinct'
  BY <1>1 DEF EndpointsDistinct
<1>3. CASE endpointIds[i] # 0 /\ UNCHANGED <<endpointIds, usedThisRound>>
  <2>1. IdsResolved'
    BY <1>1, <1>3 DEF Inv, IdsResolved
  <2> QED
    BY <1>1, <1>2, <1>3, <2>1 DEF Inv, IdsDistinct, IdsOwned
<1>4. CASE /\ endpointIds[i] = 0
           /\ \E n \in Number :
                /\ CommonNumber(n)
                /\ endpointIds' = [endpointIds EXCEPT ![i] = n % IdModulus]
                /\ usedThisRound' = usedThisRound \cup {n}
  <2>1. PICK n \in Number :
                /\ CommonNumber(n)
                /\ endpointIds' = [endpointIds EXCEPT ![i] = n % IdModulus]
                /\ usedThisRound' = usedThisRound \cup {n}
    BY <1>4
  <2>2. n % IdModulus = n /\ n # 0 /\ n \in Nat /\ n \notin usedThisRound
    BY <2>1, SmallIds DEF CommonNumber
  <2>3. /\ DOMAIN endpointIds' = DOMAIN endpointIds
        /\ DOMAIN endpointIds = 1..Len(endpointIds)
        /\ endpointIds'[i] = n
        /\ \A j \in DOMAIN endpointIds : j # i => endpointIds'[j] = endpointIds[j]
    BY <1>1, <2>1, <2>2
  <2>4. IdsDistinct'
    BY <1>1, <2>1, <2>2, <2>3 DEF Inv, IdsDistinct
  <2>5. IdsOwned'
    BY <1>1, <1>4, <2>3 DEF Inv, IdsOwned
  <2>6. IdsResolved'
    BY <1>1, <2>2, <2>3 DEF Inv, IdsResolved
  <2> QED
    BY <1>2, <2>4, <2>5, <2>6
<1> QED
  BY <1>3, <1>4 DEF CommonPass

\* With ids all different, inserting the endpoints loses none of them.
LEMMA BuildEndpointsInv ==
  ASSUME Inv, BuildEndpoints
  PROVE  IdsResolved' /\ IdsDistinct' /\ IdsOwned' /\ EndpointsDistinct'
<1>1. /\ pc = "common" /\ pc' = "discovered"
      /\ UNCHANGED <<entities, slotMap, endpointIds, usedThisRound, i>>
      /\ endpointIds \in Seq(Nat) /\ entities \in Seq(Entity) /\ i \in Nat
      /\ Len(endpointIds) = Len(entities) /\ i > Len(entities)
  BY DEF BuildEndpoints, roundVars, Inv, TypeOK, IdsComplete
<1>2. /\ DOMAIN endpointIds = 1..Len(endpointIds)
      /\ DOMAIN entities = DOMAIN endpointIds
      /\ \A j \in DOMAIN endpointIds : endpointIds[j] # 0
  BY <1>1 DEF Inv, IdsResolved
<1> DEFINE pick(id) == CHOOSE k \in DOMAIN entities :
                         /\ endpointIds[k] = id
                         /\ \A m \in DOMAIN entities : m > k => endpointIds[m] # id
<1>3. ASSUME NEW j \in DOMAIN entities
      PROVE  pick(endpointIds[j]) = j
  <2>1. \A k \in DOMAIN entities : endpointIds[k] = endpointIds[j] => k = j
    BY <1>2, <1>3 DEF Inv, IdsDistinct
  <2>2. \A m \in DOMAIN entities : m > j => endpointIds[m] # endpointIds[j]
    BY <1>1, <1>2, <2>1
  <2> QED
    BY <2>1, <2>2
<1>4. ToSet(endpointIds) = {endpointIds[j] : j \in DOMAIN entities}
  BY <1>2 DEF ToSet
<1>5. /\ DOMAIN endpoints' = ToSet(endpointIds)
      /\ \A id \in ToSet(endpointIds) : endpoints'[id].entity = entities[pick(id)]
  BY DEF BuildEndpoints
<1>6. {endpoints'[id].entity : id \in DOMAIN endpoints'} = {entities[j] : j \in DOMAIN entities}
  <2> HIDE DEF pick
  <2>1. ASSUME NEW j \in DOMAIN entities
        PROVE  /\ endpointIds[j] \in DOMAIN endpoints'
               /\ endpoints'[endpointIds[j]].entity = entities[j]
    BY <1>3, <1>4, <1>5
  <2>2. ASSUME NEW id \in DOMAIN endpoints'
        PROVE  \E j \in DOMAIN entities : id = endpointIds[j]
    BY <1>4, <1>5
  <2> QED
    BY <2>1, <2>2
<1>7. EndpointsDistinct'
  BY <1>1, <1>6 DEF EndpointsDistinct, ToSet
<1> QED
  BY <1>1, <1>2, <1>7 DEF Inv, IdsResolved, IdsDistinct, IdsOwned

\* Each step keeps the inductive invariant, loop by loop.
LEMMA NextInv == ASSUME NoOverflow, Inv, [Next]_vars PROVE Inv'
<1>1. TypeOK' /\ SavedHonoured' /\ IdsComplete'
  BY NextTypes DEF Inv
<1> SUFFICES IdsResolved' /\ IdsDistinct' /\ IdsOwned' /\ EndpointsDistinct'
  BY <1>1 DEF Inv
<1>2. ASSUME NEW l \in Listing, applyEntitiesToDevice(l)
      PROVE  IdsResolved' /\ IdsDistinct' /\ IdsOwned' /\ EndpointsDistinct'
  BY <1>2 DEF applyEntitiesToDevice, IdsResolved, IdsDistinct, IdsOwned,
              EndpointsDistinct
<1>3. CASE SpecialPassEnds
  BY <1>3 DEF SpecialPassEnds, roundVars, Inv, TypeOK, IdsResolved, IdsDistinct,
              IdsOwned, EndpointsDistinct
<1>4. CASE writeDatabase
  BY <1>4 DEF writeDatabase, roundVars, Inv, IdsResolved, IdsDistinct, IdsOwned,
              EndpointsDistinct
<1>5. CASE Restart
  BY <1>5 DEF Restart, IdsResolved, IdsDistinct, IdsOwned, EndpointsDistinct
<1>6. CASE UNCHANGED vars
  BY <1>6 DEF vars, roundVars, Inv, IdsResolved, IdsDistinct, IdsOwned,
              EndpointsDistinct
<1> QED
  BY <1>2, <1>3, <1>4, <1>5, <1>6, SpecialPassInv, CommonPassInv,
     BuildEndpointsInv
  DEF Next

\* As long as numbers fit an endpoint id, every entity of every listing gets an
\* endpoint of its own, and none is lost behind another one.
THEOREM EndpointsAreDistinct == ASSUME NoOverflow PROVE Spec => []EndpointsDistinct
<1>1. Inv => EndpointsDistinct
  BY DEF Inv
<1>2. Inv /\ [Next]_vars => Inv'
  BY NextInv
<1> QED
  BY <1>1, <1>2, InitInv, PTL DEF Spec

\* The loop invariants hold throughout, for any number of names and slots.
THEOREM Invariance == ASSUME NoOverflow PROVE Spec => []Inv
<1>1. Inv /\ [Next]_vars => Inv'
  BY NextInv
<1> QED
  BY <1>1, InitInv, PTL DEF Spec

\* The endpoint built for the j-th entity is its own, under its id.
LEMMA BuiltEndpoint ==
  ASSUME Inv, BuildEndpoints, NEW j \in DOMAIN entities
  PROVE  /\ endpointIds[j] \in DOMAIN endpoints'
         /\ endpoints'[endpointIds[j]] = [entity |-> entities[j], marked |-> entities[j].special]
<1>1. /\ endpointIds \in Seq(Nat) /\ entities \in Seq(Entity) /\ i \in Nat
      /\ pc = "common"
      /\ Len(endpointIds) = Len(entities) /\ i > Len(entities)
  BY DEF BuildEndpoints, Inv, TypeOK, IdsComplete
<1>2. /\ DOMAIN entities = DOMAIN endpointIds
      /\ DOMAIN endpointIds = 1..Len(endpointIds)
      /\ \A k \in DOMAIN endpointIds : endpointIds[k] # 0
  BY <1>1 DEF Inv, IdsResolved
<1> DEFINE pick(id) == CHOOSE k \in DOMAIN entities :
                         /\ endpointIds[k] = id
                         /\ \A m \in DOMAIN entities : m > k => endpointIds[m] # id
<1>3. pick(endpointIds[j]) = j
  <2>1. \A k \in DOMAIN entities : endpointIds[k] = endpointIds[j] => k = j
    BY <1>2 DEF Inv, IdsDistinct
  <2>2. \A m \in DOMAIN entities : m > j => endpointIds[m] # endpointIds[j]
    BY <1>1, <1>2, <2>1
  <2> QED
    BY <2>1, <2>2
<1>4. endpointIds[j] \in ToSet(endpointIds)
  BY <1>2 DEF ToSet
<1>5. /\ DOMAIN endpoints' = ToSet(endpointIds)
      /\ \A id \in ToSet(endpointIds) :
           endpoints'[id] = [entity |-> entities[pick(id)], marked |-> entities[pick(id)].special]
  BY DEF BuildEndpoints
<1> HIDE DEF pick
<1> QED
  BY <1>3, <1>4, <1>5

\* Building the endpoints puts every special entity under a number of its name.
LEMMA BuildOwnNumber ==
  ASSUME NoOverflow, Inv, BuildEndpoints
  PROVE  OwnNumber'
<1>1. /\ UNCHANGED <<entities, slotMap, endpointIds, usedThisRound>>
      /\ entities \in Seq(Entity) /\ endpointIds \in Seq(Nat) /\ usedThisRound \subseteq Number
      /\ pc = "common" /\ Len(endpointIds) = Len(entities)
  BY DEF BuildEndpoints, roundVars, Inv, TypeOK, IdsComplete
<1> SUFFICES ASSUME NEW e \in ToSet(entities), e.special
             PROVE  \E n \in Number : e \in Addressed(n)' \cap Exposed(n)' /\ slotMap[n] = e.name
  BY <1>1 DEF OwnNumber
<1>2. PICK j \in DOMAIN entities : entities[j] = e
  BY DEF ToSet
<1>3. PICK n : j \in DOMAIN endpointIds /\ n = endpointIds[j]
  BY <1>1, <1>2
<1>4. n # 0 /\ slotMap[n] = e.name
  BY <1>1, <1>2, <1>3 DEF Inv, IdsOwned
<1>5. n \in Number
  BY <1>1, <1>3, <1>4 DEF Inv, IdsDistinct
<1>6. n % IdModulus = n
  BY <1>5, SmallIds
<1>7. n \in DOMAIN endpoints' /\ endpoints'[n].entity = e /\ endpoints'[n].marked = TRUE
  <2>1. entities[j].special = TRUE
    BY <1>1, <1>2 DEF Entity
  <2>2. /\ endpointIds[j] \in DOMAIN endpoints'
        /\ endpoints'[endpointIds[j]] = [entity |-> entities[j], marked |-> entities[j].special]
    BY BuiltEndpoint
  <2>3. n \in DOMAIN endpoints' /\ endpoints'[n] = [entity |-> e, marked |-> TRUE]
    BY <1>2, <1>3, <2>1, <2>2
  <2> QED
    BY <2>3
<1>8. e \in Addressed(n)'
  BY <1>4, <1>6, <1>7 DEF Addressed
<1>9. e \in Exposed(n)'
  BY <1>7 DEF Exposed
<1> QED
  BY <1>4, <1>5, <1>8, <1>9

\* As long as numbers fit an endpoint id, a command to the number reserved for a
\* special entity reaches it, and it is exposed there, after every listing.
THEOREM NumbersAreOwn == ASSUME NoOverflow PROVE Spec => []OwnNumber
<1>1. Init => OwnNumber
  BY DEF Init, OwnNumber
<1>2. Inv /\ OwnNumber /\ [Next]_vars => OwnNumber'
  <2> SUFFICES ASSUME Inv, OwnNumber, [Next]_vars PROVE OwnNumber'
    OBVIOUS
  <2>1. CASE UNCHANGED <<pc, entities, endpoints, slotMap>>
    BY <2>1 DEF OwnNumber, Addressed, Exposed
  <2>2. CASE pc' # "discovered"
    BY <2>2 DEF OwnNumber
  <2>3. CASE BuildEndpoints
    BY <2>3, BuildOwnNumber
  <2>4. BuildEndpoints \/ pc' # "discovered" \/ UNCHANGED <<pc, entities, endpoints, slotMap>>
    BY DEF Next, vars, roundVars, applyEntitiesToDevice, SpecialPass, SpecialPassEnds, CommonPass,
           writeDatabase, Restart
  <2> QED
    BY <2>1, <2>2, <2>3, <2>4
<1> QED
  BY <1>1, <1>2, Invariance, PTL DEF Spec

-----------------------------------------------------------------------------
(***************************************************************************)
(* How many slots there are, whatever the modulus                          *)
(***************************************************************************)

\* The entities of a name in a listing are finitely many.
LEMMA MultiplicityFinite ==
  ASSUME NEW l \in Seq(Entity), NEW x
  PROVE  /\ IsFiniteSet({j \in DOMAIN l : l[j].special /\ l[j].name = x})
         /\ Multiplicity(l, x) \in Nat
<1>1. DOMAIN l = 1..Len(l) /\ Len(l) \in Nat
  OBVIOUS
<1>2. IsFiniteSet(1..Len(l))
  BY <1>1, FS_Interval
<1>3. IsFiniteSet({j \in DOMAIN l : l[j].special /\ l[j].name = x})
  BY <1>1, <1>2, FS_Subset
<1> QED
  BY <1>3, FS_CardinalityType DEF Multiplicity

\* One step of the first loop keeps count for every name: one that has as many
\* slots as entities, or more, keeps them; one that has fewer gets them one by
\* one, never more than it needs.
LEMMA SpecialPassCounts ==
  ASSUME TypeOK, IdsComplete, SlotsCounted, SpecialPass
  PROVE  SlotsCounted'
<1> DEFINE last == Len(endpointIds) + 1
           info == entities[last]
<1>1. /\ info \in Entity /\ pc = "special" /\ pc' = "special"
      /\ UNCHANGED <<entities, saved, seen>>
      /\ endpointIds \in Seq(Nat) /\ entities \in Seq(Entity) /\ last \in DOMAIN entities
      /\ slotMap \in [Number -> EntityName \cup {NoName}]
  BY DEF TypeOK, SpecialPass
<1>2. PICK id \in Nat : endpointIds' = Append(endpointIds, id)
  BY IdInNat DEF SpecialPass
<1>3. DOMAIN endpointIds' = DOMAIN endpointIds \cup {last} /\ last \notin DOMAIN endpointIds
  BY <1>1, <1>2
<1>4. ASSUME NEW x \in EntityName
      PROVE  /\ IsFiniteSet(SlotsOf(slotMap, x)) /\ Counted(x)
             /\ seen[x] \in Nat
  BY <1>1 DEF SlotsCounted
<1>5. \A x : Handled(x)' = IF info.special /\ info.name = x THEN Handled(x) \cup {last}
                           ELSE Handled(x)
  BY <1>1, <1>3 DEF Handled
<1> SUFFICES ASSUME NEW x \in EntityName
             PROVE  IsFiniteSet(SlotsOf(slotMap', x)) /\ Counted(x)'
  BY <1>1 DEF SlotsCounted
<1>6. CASE /\ Handled(x)' = Handled(x) /\ SlotsOf(slotMap', x) = SlotsOf(slotMap, x)
           /\ SlotsOf(slotMap, x) \cap usedThisRound' = SlotsOf(slotMap, x) \cap usedThisRound
  BY <1>1, <1>4, <1>6 DEF Counted
<1>7. CASE ~info.special /\ UNCHANGED <<slotMap, usedThisRound>>
  BY <1>5, <1>6, <1>7
<1>8. CASE info.special /\ \E n \in Number :
             /\ Chosen(info.name, n)
             /\ slotMap' = [slotMap EXCEPT ![n] = info.name]
             /\ usedThisRound' = usedThisRound \cup {n}
  <2>1. PICK n \in Number :
             /\ Chosen(info.name, n)
             /\ slotMap' = [slotMap EXCEPT ![n] = info.name]
             /\ usedThisRound' = usedThisRound \cup {n}
    BY <1>8
  <2>2. info.name \in EntityName
    BY <1>1 DEF Entity
  <2>3. slotMap[n] \in {info.name, NoName} /\ n \notin usedThisRound
    BY <2>1, <2>2, ChosenKeeps
  <2>4. CASE x # info.name
    <3>1. n \notin SlotsOf(slotMap, x) /\ SlotsOf(slotMap', x) = SlotsOf(slotMap, x)
      BY <1>1, <2>1, <2>3, <2>4, NameAssumption DEF SlotsOf
    <3>2. Handled(x)' = Handled(x)
      BY <1>5, <2>4
    <3> QED
      BY <1>6, <2>1, <3>1, <3>2
  <2>5. CASE x = info.name
    <3> DEFINE have == SlotsOf(slotMap, x)
               have2 == SlotsOf(slotMap', x)
               done == Cardinality(Handled(x))
               most == Multiplicity(entities, x)
               s == seen[x]
    <3>1. have2 = have \cup {n}
      BY <1>1, <2>1, <2>5 DEF SlotsOf
    <3>2. \/ n \in have /\ have2 = have
          \/ have \subseteq usedThisRound /\ have2 = have \cup {n}
      <4>1. CASE n \in have
        BY <3>1, <4>1
      <4>2. CASE n \notin have
        <5>1. Reservable(x) = {}
          BY <2>1, <2>5, <4>2 DEF Chosen, Reservable, SlotsOf
        <5> QED
          BY <3>1, <5>1 DEF Reservable, SlotsOf
      <4> QED
        BY <4>1, <4>2
    <3>3. /\ IsFiniteSet(Handled(x)) /\ done \in Nat /\ most \in Nat
          /\ done + 1 <= most /\ Cardinality(Handled(x)') = done + 1
      <4> DEFINE all == {j \in DOMAIN entities : entities[j].special /\ entities[j].name = x}
      <4>1. IsFiniteSet(all) /\ most \in Nat /\ most = Cardinality(all)
        BY <1>1, MultiplicityFinite DEF Multiplicity
      <4>2. Handled(x) \cup {last} \subseteq all
        <5>1. DOMAIN endpointIds \subseteq DOMAIN entities
          BY <1>1 DEF IdsComplete
        <5> QED
          BY <1>1, <1>8, <2>5, <5>1 DEF Handled
      <4>3. last \notin Handled(x)
        BY <1>3 DEF Handled
      <4> HIDE DEF all
      <4>4. IsFiniteSet(Handled(x))
        BY <4>1, <4>2, FS_Subset
      <4>5. Cardinality(Handled(x) \cup {last}) = done + 1 /\ done \in Nat
        BY <4>3, <4>4, FS_AddElement, FS_CardinalityType
      <4>6. Cardinality(Handled(x) \cup {last}) <= Cardinality(all)
        BY <4>1, <4>2, FS_Subset
      <4>7. Handled(x)' = Handled(x) \cup {last}
        BY <1>5, <1>8, <2>5
      <4> QED
        BY <4>1, <4>4, <4>5, <4>6, <4>7
    <3>4. /\ IsFiniteSet(have) /\ Cardinality(have \cap usedThisRound) = done
          /\ most <= s /\ Cardinality(have) <= s
          /\ Cardinality(have) < s => s = most
          /\ s \in Nat
      BY <1>4 DEF Counted
    <3> HIDE DEF have, have2, done, most, s
    <3>5. /\ IsFiniteSet(have2)
          /\ Cardinality(have2 \cap (usedThisRound \cup {n})) = done + 1
          /\ Cardinality(have2) <= s
          /\ Cardinality(have2) < s => s = most
      <4>1. IsFiniteSet(have \cap usedThisRound) /\ Cardinality(have) \in Nat
        BY <3>4, FS_Subset, FS_CardinalityType
      <4>2. /\ have2 \cap (usedThisRound \cup {n}) = (have \cap usedThisRound) \cup {n}
            /\ n \notin have \cap usedThisRound
        BY <2>3, <3>2
      <4>3. Cardinality(have2 \cap (usedThisRound \cup {n})) = done + 1
        BY <3>4, <4>1, <4>2, FS_AddElement
      <4>4. CASE n \in have /\ have2 = have
        BY <3>4, <4>3, <4>4
      <4>5. CASE have \subseteq usedThisRound /\ have2 = have \cup {n}
        <5>1. have \cap usedThisRound = have /\ n \notin have
          BY <2>3, <4>5
        <5>2. IsFiniteSet(have2) /\ Cardinality(have2) = Cardinality(have) + 1
          BY <3>4, <4>5, <5>1, FS_AddElement
        <5>3. Cardinality(have) = done
          BY <3>4, <5>1
        <5> QED
          BY <3>3, <3>4, <4>1, <4>3, <5>2, <5>3
      <4> QED
        BY <3>2, <4>4, <4>5
    <3>6. most = Multiplicity(entities', x)
      BY <1>1 DEF most
    <3>7. IsFiniteSet(SlotsOf(slotMap', x)) /\ have2 = SlotsOf(slotMap', x)
      BY <3>5 DEF have2
    <3>8. Cardinality(Handled(x)') = done + 1 /\ seen' = seen /\ most <= s
      BY <1>1, <3>3, <3>4
    <3> QED
      BY <2>1, <3>5, <3>6, <3>7, <3>8 DEF Counted, s
  <2> QED
    BY <2>4, <2>5
<1> QED
  BY <1>7, <1>8 DEF SpecialPass

\* Each step keeps count of the slots; the first loop ends with as many as the
\* listings so far have needed.
LEMMA NextCounts ==
  TypeOK /\ IdsComplete /\ SlotsCounted /\ [Next]_vars => SlotsCounted'
<1> SUFFICES ASSUME TypeOK, IdsComplete, SlotsCounted, [Next]_vars PROVE SlotsCounted'
  OBVIOUS
<1>0. ASSUME NEW x \in EntityName
      PROVE  /\ seen[x] \in Nat /\ IsFiniteSet(SlotsOf(slotMap, x))
             /\ Cardinality(SlotsOf(slotMap, x)) \in Nat
  BY FS_CardinalityType DEF SlotsCounted
<1>1. ASSUME NEW l \in Listing, applyEntitiesToDevice(l)
      PROVE  SlotsCounted'
  <2>1. l \in Seq(Entity) /\ \A x : Multiplicity(l, x) \in Nat
    BY ListingAssumption, MultiplicityFinite
  <2>2. /\ pc # "special" /\ pc' = "special" /\ UNCHANGED <<slotMap, saved>>
        /\ entities' = l /\ endpointIds' = <<>> /\ usedThisRound' = {}
        /\ seen' = [x \in EntityName |-> IF Multiplicity(l, x) > seen[x]
                                          THEN Multiplicity(l, x) ELSE seen[x]]
    BY <1>1 DEF applyEntitiesToDevice, Quiet
  <2>3. seen' \in [EntityName -> Nat]
    BY <1>0, <2>1, <2>2
  <2>4. ASSUME NEW x \in EntityName PROVE Counted(x)'
    <3>1. SlotsOf(slotMap', x) \cap usedThisRound' = {} /\ Handled(x)' = {}
      BY <2>2 DEF Handled
    <3>2. Cardinality(SlotsOf(slotMap', x)) = seen[x]
      BY <2>2 DEF SlotsCounted
    <3>3. seen'[x] = IF Multiplicity(l, x) > seen[x] THEN Multiplicity(l, x) ELSE seen[x]
      BY <2>2
    <3> QED
      BY <1>0, <2>1, <2>2, <3>1, <3>2, <3>3 DEF Counted
  <2> QED
    BY <2>2, <2>3, <2>4 DEF SlotsCounted
<1>2. CASE SpecialPassEnds
  <2>1. /\ pc = "special" /\ pc' = "common" /\ UNCHANGED <<slotMap, saved, seen>>
        /\ DOMAIN endpointIds = DOMAIN entities
    BY <1>2 DEF SpecialPassEnds, TypeOK
  <2>2. ASSUME NEW x \in EntityName
        PROVE  Cardinality(SlotsOf(slotMap, x)) = seen[x]
    <3>1. Counted(x)
      BY <2>1 DEF SlotsCounted
    <3>2. Cardinality(Handled(x)) = Multiplicity(entities, x)
      BY <2>1 DEF Handled, Multiplicity
    <3>3. Cardinality(SlotsOf(slotMap, x) \cap usedThisRound) <= Cardinality(SlotsOf(slotMap, x))
      BY <1>0, FS_Subset
    <3>4. Multiplicity(entities, x) \in Nat
      BY MultiplicityFinite DEF TypeOK
    <3> QED
      BY <1>0, <3>1, <3>2, <3>3, <3>4 DEF Counted
  <2> QED
    BY <2>1, <2>2 DEF SlotsCounted
<1>3. CASE CommonPass \/ BuildEndpoints
  <2>1. pc # "special" /\ pc' # "special" /\ UNCHANGED <<slotMap, saved, seen>>
    BY <1>3 DEF CommonPass, BuildEndpoints
  <2> QED
    BY <2>1 DEF SlotsCounted
<1>4. CASE writeDatabase
  <2>1. /\ pc # "special" /\ UNCHANGED <<pc, slotMap, seen>>
        /\ saved'.slotMap = slotMap /\ saved'.seen = seen
    BY <1>4 DEF writeDatabase, Quiet, serialize
  <2> QED
    BY <2>1 DEF SlotsCounted
<1>5. CASE Restart
  BY <1>5 DEF Restart, SlotsCounted
<1>6. CASE UNCHANGED vars
  <2>1. /\ UNCHANGED <<pc, slotMap, seen, saved, usedThisRound, entities, endpointIds>>
    BY <1>6 DEF vars, roundVars
  <2>2. \A x : Counted(x)' = Counted(x)
    BY <2>1 DEF Counted, Handled
  <2> QED
    BY <2>1, <2>2 DEF SlotsCounted
<1> QED
  BY <1>1, <1>2, <1>3, <1>4, <1>5, <1>6, SpecialPassCounts DEF Next

\* However often a node reconnects, restarts or is reconfigured, a name holds as
\* many slots as it had entities in one listing.
THEOREM SlotsDoNotLeak == Spec => []NoSlotLeak
<1>1. Init => SlotsCounted
  <2> SUFFICES ASSUME Init PROVE SlotsCounted
    OBVIOUS
  <2>1. /\ saved.slotMap = slotMap /\ saved.seen = seen /\ pc # "special"
        /\ seen = [x \in EntityName |-> 0]
    BY DEF Init
  <2>2. \A x \in EntityName : SlotsOf(slotMap, x) = {}
    BY NameAssumption DEF Init, SlotsOf
  <2> QED
    BY <2>1, <2>2, FS_EmptySet DEF SlotsCounted
<1>2. SlotsCounted => NoSlotLeak
  BY DEF SlotsCounted, NoSlotLeak, Quiet
<1> QED
  BY <1>1, <1>2, InitTypes, NextTypes, NextCounts, PTL DEF Spec

=============================================================================
