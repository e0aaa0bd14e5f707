------------------------- MODULE EntityStateProofs -------------------------
(***************************************************************************)
(* What EntityState shows and carries out is right for every node whose    *)
(* keys differ and whose names end in no number, whatever the values, the  *)
(* orders and the bounds.                                                  *)
(***************************************************************************)
EXTENDS EntityState, SequenceTheorems, FiniteSetTheorems, TLAPS

-----------------------------------------------------------------------------
(***************************************************************************)
(* Names                                                                   *)
(***************************************************************************)
\* The count of the loop is at least one and at most the length of the list, and
\* it grows from one namesake to the next.
LEMMA CountOfNamesakes ==
  ASSUME NEW l \in Seq(Entity), NEW i \in DOMAIN l
  PROVE  /\ IsFiniteSet(Namesakes(l, i))
         /\ Cardinality(Namesakes(l, i)) \in 1..Len(l)
<1>1. i \in Nat /\ i >= 1 /\ i <= Len(l) /\ Len(l) \in Nat
  OBVIOUS
<1>2. IsFiniteSet(1..i) /\ Cardinality(1..i) = i
  BY <1>1, FS_Interval
<1>3. Namesakes(l, i) \subseteq 1..i /\ i \in Namesakes(l, i)
  BY <1>1 DEF Namesakes
<1>4. IsFiniteSet(Namesakes(l, i)) /\ Cardinality(Namesakes(l, i)) <= i
  BY <1>2, <1>3, FS_Subset
<1>5. Cardinality(Namesakes(l, i)) \in Nat /\ Cardinality(Namesakes(l, i)) # 0
  BY <1>3, <1>4, FS_CardinalityType, FS_EmptySet
<1> QED BY <1>1, <1>4, <1>5

LEMMA CountGrows ==
  ASSUME NEW l \in Seq(Entity), NEW i \in DOMAIN l, NEW j \in DOMAIN l, i < j,
         l[i].name = l[j].name, l[i].device = l[j].device
  PROVE  Cardinality(Namesakes(l, i)) < Cardinality(Namesakes(l, j))
<1>1. i \in Nat /\ j \in Nat /\ i >= 1 /\ j >= 1
  OBVIOUS
<1>2. Namesakes(l, i) \subseteq Namesakes(l, j) /\ j \in Namesakes(l, j) /\ j \notin Namesakes(l, i)
  BY <1>1 DEF Namesakes
<1>3. IsFiniteSet(Namesakes(l, j)) /\ Cardinality(Namesakes(l, j)) \in Nat /\ Cardinality(Namesakes(l, i)) \in Nat
  BY CountOfNamesakes
<1>4. Namesakes(l, i) # Namesakes(l, j)
  BY <1>2
<1> QED BY <1>2, <1>3, <1>4, FS_Subset

\* Two entities of a device never get the same property name.
LEMMA ObjectIdsDiffer ==
  ASSUME NEW l \in Seq(Entity), PlainNames(l), NEW i \in DOMAIN l, NEW j \in DOMAIN l,
         l[i].device = l[j].device, objectIds(l)[i] = objectIds(l)[j]
  PROVE  i = j
<1> DEFINE ci == Cardinality(Namesakes(l, i))
           cj == Cardinality(Namesakes(l, j))
<1>plain. \A a, b \in DOMAIN l : \A c, d \in 2..Len(l) :
        /\ Suffixed(l[a].name, c) # l[b].name
        /\ Suffixed(l[a].name, c) = Suffixed(l[b].name, d) => l[a].name = l[b].name /\ c = d
  BY DEF PlainNames
<1>1. ci \in 1..Len(l) /\ cj \in 1..Len(l) /\ Len(l) \in Nat
  BY CountOfNamesakes
<1>2. objectIds(l)[i] = IF ci > 1 THEN Suffixed(l[i].name, ci) ELSE l[i].name
  BY DEF objectIds
<1>3. objectIds(l)[j] = IF cj > 1 THEN Suffixed(l[j].name, cj) ELSE l[j].name
  BY DEF objectIds
<1> HIDE DEF ci, cj
<1>4. l[i].name = l[j].name /\ ci = cj
  <2>1. CASE ci > 1 /\ cj > 1
    <3>1. ci \in 2..Len(l) /\ cj \in 2..Len(l)
      BY <1>1, <2>1
    <3>2. Suffixed(l[i].name, ci) = Suffixed(l[j].name, cj)
      BY <1>2, <1>3, <2>1
    <3> QED BY <3>1, <3>2, <1>plain
  <2>2. CASE ci > 1 /\ ~(cj > 1)
    <3>1. ci \in 2..Len(l)
      BY <1>1, <2>2
    <3>2. Suffixed(l[i].name, ci) = l[j].name
      BY <1>2, <1>3, <2>2
    <3> QED BY <3>1, <3>2, <1>plain
  <2>3. CASE ~(ci > 1) /\ cj > 1
    <3>1. cj \in 2..Len(l)
      BY <1>1, <2>3
    <3>2. Suffixed(l[j].name, cj) = l[i].name
      BY <1>2, <1>3, <2>3
    <3> QED BY <3>1, <3>2, <1>plain
  <2>4. CASE ~(ci > 1) /\ ~(cj > 1)
    <3>1. l[i].name = l[j].name
      BY <1>2, <1>3, <2>4
    <3>2. ci = cj
      BY <1>1, <2>4
    <3> QED BY <3>1, <3>2
  <2> QED BY <2>1, <2>2, <2>3, <2>4
<1>5. ~(i < j) /\ ~(j < i)
  BY <1>1, <1>4, CountGrows DEF ci, cj
<1> QED BY <1>5

-----------------------------------------------------------------------------
(***************************************************************************)
(* From the node to the endpoint                                           *)
(***************************************************************************)
LEMMA Quarter ==
  ASSUME NEW v \in Nat
  PROVE  (v * 255) \div 1020 = v \div 4
OBVIOUS

\* What a map with one key and two maps put together hold.
LEMMA SingleMap ==
  ASSUME NEW k, NEW v
  PROVE  DOMAIN (k :> v) = {k} /\ (k :> v)[k] = v
BY DEF :>

LEMMA MergedMaps ==
  ASSUME NEW f, NEW g
  PROVE  /\ DOMAIN (f @@ g) = DOMAIN f \cup DOMAIN g
         /\ \A k \in DOMAIN f : (f @@ g)[k] = f[k]
         /\ \A k \in DOMAIN g \ DOMAIN f : (f @@ g)[k] = g[k]
BY DEF @@

LEMMA ShowsMerged ==
  ASSUME NEW f, NEW g, NEW m, Shows(f, m)
  PROVE  Shows(f @@ g, m)
BY MergedMaps DEF Shows

LEMMA EncodedFields ==
  ASSUME NEW v, NEW f
  PROVE  /\ f \in DOMAIN Encode(v) <=> f \in DOMAIN v /\ v[f] # 0
         /\ f \in DOMAIN v => Get(Encode(v), f, 0) = v[f]
BY DEF Encode, Without, Get

LEMMA PresentFields ==
  ASSUME NEW w, NEW fields, NEW values, NEW k \in DOMAIN values
  PROVE  /\ k \in DOMAIN Present(w, fields, values) <=> \E f \in fields[k] : f \in DOMAIN w
         /\ k \in DOMAIN Present(w, fields, values) => Present(w, fields, values)[k] = values[k]
BY DEF Present

LEMMA PresentKeys ==
  ASSUME NEW w, NEW fields, NEW values
  PROVE  DOMAIN Present(w, fields, values) \subseteq DOMAIN values
BY DEF Present

LEMMA PresentMerged ==
  ASSUME NEW v, NEW fields, NEW values, NEW g, NEW k \in DOMAIN values
  PROVE  LET m    == Present(Encode(v), fields, values) @@ g
             sent == \E f \in fields[k] : f \in DOMAIN v /\ v[f] # 0
         IN /\ k \in DOMAIN m <=> sent \/ k \in DOMAIN g
            /\ sent => m[k] = values[k]
            /\ ~sent /\ k \in DOMAIN g => m[k] = g[k]
<1> DEFINE P == Present(Encode(v), fields, values)
<1>1. \A f : f \in DOMAIN Encode(v) <=> f \in DOMAIN v /\ v[f] # 0
  BY EncodedFields
<1>2. k \in DOMAIN P <=> \E f \in fields[k] : f \in DOMAIN v /\ v[f] # 0
  BY <1>1, PresentFields
<1>3. k \in DOMAIN P => P[k] = values[k]
  BY PresentFields
<1> HIDE DEF P
<1>4. /\ DOMAIN (P @@ g) = DOMAIN P \cup DOMAIN g
      /\ k \in DOMAIN P => (P @@ g)[k] = P[k]
      /\ k \in DOMAIN g /\ k \notin DOMAIN P => (P @@ g)[k] = g[k]
  BY DEF @@
<1> QED BY <1>2, <1>3, <1>4 DEF P

Shown(kind, e, id, v) == Finish(kind, e, id, Decode(kind, Encode(v)) @@ ZeroDefaults(kind))

LEMMA ConvertedSwitch ==
  ASSUME NEW e, e.kind \in {"switch", "toggle"}, NEW id, NEW v, IsValue(e.kind, v), AllSent(e.kind, v)
  PROVE  Shows(Shown(e.kind, e, id, v), MeaningOf(e, id, v))
<1> DEFINE w == Encode(v)
           m == Decode(e.kind, w) @@ ZeroDefaults(e.kind)
<1>1. v \in [{2} -> 0..1]
  BY DEF IsValue
<1>2. Get(w, 2, 0) = v[2]
  BY <1>1, EncodedFields
<1>3. Decode(e.kind, w) = Present(w, [_switchState |-> {2}], [_switchState |-> OnOff(v[2] # 0)])
  BY <1>2 DEF Decode
<1>4. ZeroDefaults(e.kind) = "_switchState" :> "off"
  BY DEF ZeroDefaults
<1>5. m["_switchState"] = OnOff(v[2] = 1)
  <2>1. DOMAIN ZeroDefaults(e.kind) = {"_switchState"} /\ ZeroDefaults(e.kind)["_switchState"] = "off"
    BY <1>4, SingleMap
  <2>2. v \in [{2} -> Int]
    BY <1>1
  <2>3. /\ v[2] # 0 => m["_switchState"] = OnOff(v[2] # 0)
        /\ v[2] = 0 => m["_switchState"] = "off"
    BY <1>3, <2>1, <2>2, PresentMerged
  <2> QED BY <1>1, <2>3 DEF OnOff
<1>6. Shown(e.kind, e, id, v) = (IF special(e) THEN "status" ELSE id) :> m["_switchState"]
  BY DEF Shown, Finish
<1>7. MeaningOf(e, id, v) = (IF special(e) THEN "status" ELSE id) :> OnOff(v[2] = 1)
  BY DEF MeaningOf, special
<1> QED BY <1>5, <1>6, <1>7, SingleMap DEF Shows

LEMMA ConvertedState ==
  ASSUME NEW e, e.kind \in {"binary_sensor", "sensor", "number", "select"}, NEW id, NEW v,
         IsValue(e.kind, v), AllSent(e.kind, v)
  PROVE  Shows(Shown(e.kind, e, id, v), MeaningOf(e, id, v))
<1> DEFINE w == Encode(v)
           x == IF e.kind = "binary_sensor" THEN v[2] # 0 ELSE v[2]
           m == Decode(e.kind, w) @@ ZeroDefaults(e.kind)
<1>1. v \in [{2} -> Int]
  <2>1. CASE e.kind = "binary_sensor"
    <3>1. v \in [{2} -> 0..1]
      BY <2>1 DEF IsValue
    <3> QED BY <3>1
  <2>2. CASE e.kind # "binary_sensor"
    BY <2>2 DEF IsValue
  <2> QED BY <2>1, <2>2
<1>2. Get(w, 2, 0) = v[2]
  BY <1>1, EncodedFields
<1>3. Decode(e.kind, w) = Present(w, [_state |-> {2}], [_state |-> x])
  BY <1>2 DEF Decode
<1>4. /\ v[2] # 0 \/ "_state" \in DOMAIN ZeroDefaults(e.kind) <=> "_state" \in DOMAIN m
      /\ v[2] # 0 => m["_state"] = x
      /\ v[2] = 0 /\ "_state" \in DOMAIN ZeroDefaults(e.kind) => m["_state"] = ZeroDefaults(e.kind)["_state"]
  BY <1>1, <1>3, PresentMerged
<1>5. "_state" \in DOMAIN m /\ m["_state"] = x
  <2>1. CASE e.kind = "binary_sensor"
    <3>1. ZeroDefaults(e.kind) = "_state" :> FALSE
      BY <2>1 DEF ZeroDefaults
    <3>2. DOMAIN ZeroDefaults(e.kind) = {"_state"} /\ ZeroDefaults(e.kind)["_state"] = FALSE
      BY <3>1, SingleMap
    <3>3. CASE v[2] = 0
      <4>1. x = FALSE
        BY <2>1, <3>3
      <4> QED BY <1>4, <3>2, <3>3, <4>1, Zenon
    <3>4. CASE v[2] # 0
      BY <1>4, <3>4, Zenon
    <3> QED BY <3>3, <3>4
  <2>2. CASE e.kind # "binary_sensor"
    <3>1. v[2] # 0
      BY <1>1, <2>2 DEF AllSent, Defaulted
    <3> QED BY <1>4, <3>1
  <2> QED BY <2>1, <2>2
<1>6. Shown(e.kind, e, id, v) = id :> (IF e.kind = "sensor" THEN Rounded(x, e.decimals) ELSE x)
  BY <1>5 DEF Shown, Finish
<1>7. MeaningOf(e, id, v) = id :> (IF e.kind = "sensor" THEN Rounded(x, e.decimals) ELSE x)
  <2>1. CASE e.kind = "binary_sensor"
    <3>1. (v[2] # 0) = (v[2] = 1)
      BY <2>1 DEF IsValue
    <3> QED BY <2>1, <3>1 DEF MeaningOf
  <2>2. CASE e.kind # "binary_sensor"
    BY <2>2 DEF MeaningOf
  <2> QED BY <2>1, <2>2
<1> QED BY <1>6, <1>7, SingleMap DEF Shows

LEMMA ConvertedLock ==
  ASSUME NEW e, e.kind = "lock", NEW id, NEW v, IsValue(e.kind, v), AllSent(e.kind, v)
  PROVE  Shows(Shown(e.kind, e, id, v), MeaningOf(e, id, v))
<1> DEFINE w == Encode(v)
           x == IF v[2] = 1 THEN "off" ELSE "on"
           m == Decode(e.kind, w) @@ ZeroDefaults(e.kind)
<1>1. v \in [{2} -> Int] /\ v[2] # 0
  BY DEF IsValue, AllSent, Defaulted
<1>2. Get(w, 2, 0) = v[2]
  BY <1>1, EncodedFields
<1>3. Decode(e.kind, w) = Present(w, [status |-> {2}], [status |-> x])
  BY <1>2 DEF Decode
<1>4. "status" \in DOMAIN m /\ m["status"] = x
  BY <1>1, <1>3, PresentMerged
<1>5. Shown(e.kind, e, id, v) = m
  BY DEF Shown, Finish
<1>6. MeaningOf(e, id, v) = "status" :> x
  BY DEF MeaningOf
<1> HIDE DEF m, x
<1> QED BY <1>4, <1>5, <1>6 DEF Shows, :>

LEMMA ConvertedCover ==
  ASSUME NEW e, e.kind \in {"cover", "legacy_cover"}, NEW id, NEW v, IsValue(e.kind, v), AllSent(e.kind, v)
  PROVE  Shows(Shown(e.kind, e, id, v), MeaningOf(e, id, v))
<1> DEFINE w == Encode(v)
           F == [_legacyState |-> {2}, _position |-> {3}]
           V == [_legacyState |-> Get(w, 2, 0), _position |-> Get(w, 3, 0)]
           m == Decode(e.kind, w) @@ ZeroDefaults(e.kind)
<1>1. Decode(e.kind, w) = Present(w, F, V)
  BY DEF Decode
<1>2. Shown(e.kind, e, id, v) = CombineCover(e, m)
  BY DEF Shown, Finish
<1>3. CASE e.kind = "cover"
  <2>1. v \in [{3} -> Nat] /\ v[3] # 0
    BY <1>3 DEF IsValue, AllSent, Defaulted
  <2>2. Get(w, 3, 0) = v[3] /\ v \in [{3} -> Int]
    BY <2>1, EncodedFields
  <2>3. "_position" \in DOMAIN m /\ m["_position"] = v[3]
    BY <1>1, <2>1, <2>2, PresentMerged
  <2> QED BY <1>2, <1>3, <2>1, <2>3 DEF CombineCover, MeaningOf, Shows
<1>4. CASE e.kind = "legacy_cover"
  <2>1. v \in [{2} -> 0..1]
    BY <1>4 DEF IsValue
  <2>2. Get(w, 2, 0) = v[2] /\ v \in [{2} -> Int]
    BY <2>1, EncodedFields
  <2>3. DOMAIN ZeroDefaults(e.kind) = {}
    BY <1>4 DEF ZeroDefaults, Nothing
  <2>4. /\ "_legacyState" \in DOMAIN m <=> v[2] # 0
        /\ v[2] # 0 => m["_legacyState"] = v[2]
    BY <1>1, <2>2, <2>3, PresentMerged
  <2>5. Get(m, "_legacyState", 0) = v[2]
    BY <2>1, <2>4 DEF Get
  <2>6. MeaningOf(e, id, v) = [cover |-> IF v[2] = 0 THEN "open" ELSE "closed", position |-> IF v[2] = 0 THEN 100 ELSE 0]
    BY <1>4 DEF MeaningOf
  <2> QED BY <1>2, <1>4, <2>1, <2>5, <2>6 DEF CombineCover, Shows
<1> QED BY <1>3, <1>4

LEMMA ConvertedLight ==
  ASSUME NEW e, e.kind = "light", NEW id, NEW v, IsValue(e.kind, v), AllSent(e.kind, v)
  PROVE  Shows(Shown(e.kind, e, id, v), MeaningOf(e, id, v))
<1> DEFINE w == Encode(v)
           F == [status |-> {2}, level |-> {3}, _r |-> {4}, _g |-> {5}, _b |-> {6}, colorTemperature |-> {8}]
           V == [status |-> OnOff(v[2] # 0), level |-> (v[3] * 255) \div 1020,
                 _r |-> v[4], _g |-> v[5], _b |-> v[6], colorTemperature |-> v[8] \div 1000]
           Z == ZeroDefaults(e.kind)
           m == Present(w, F, V) @@ Z
           color == [c \in 1..3 |-> (Get(m, <<"_r", "_g", "_b">>[c], 0) * 255) \div 1020]
<1>1. /\ v \in [{2, 3, 4, 5, 6, 8} -> Nat] /\ v[2] \in 0..1
      /\ v[3] # 0 /\ v[4] # 0 /\ v[8] # 0
  BY DEF IsValue, AllSent, Defaulted
<1>2. v \in [{2, 3, 4, 5, 6, 8} -> Int] /\ {2, 3, 4, 5, 6, 8} \in SUBSET Int
  BY <1>1
<1>3. \A f \in {2, 3, 4, 5, 6, 8} : Get(w, f, 0) = v[f]
  BY <1>2, EncodedFields
<1>4. Decode(e.kind, w) = Present(w, F, V)
  <2>1. /\ Get(w, 2, 0) = v[2] /\ Get(w, 3, 0) = v[3] /\ Get(w, 4, 0) = v[4]
        /\ Get(w, 5, 0) = v[5] /\ Get(w, 6, 0) = v[6] /\ Get(w, 8, 0) = v[8]
    BY <1>3
  <2> QED BY <2>1 DEF Decode
<1>5. DOMAIN Z = {"status"} /\ Z["status"] = "off"
  BY SingleMap DEF ZeroDefaults
<1>6. \A k \in DOMAIN V :
        LET sent == \E f \in F[k] : f \in DOMAIN v /\ v[f] # 0
        IN /\ k \in DOMAIN m <=> sent \/ k \in DOMAIN Z
           /\ sent => m[k] = V[k]
           /\ ~sent /\ k \in DOMAIN Z => m[k] = Z[k]
  BY PresentMerged
<1> HIDE DEF Z, m
<1>7. "status" \in DOMAIN m /\ m["status"] = OnOff(v[2] = 1)
  <2>1. /\ v[2] # 0 => m["status"] = OnOff(v[2] # 0)
        /\ v[2] = 0 => m["status"] = "off"
        /\ "status" \in DOMAIN m
    BY <1>2, <1>5, <1>6
  <2> QED BY <1>1, <2>1 DEF OnOff
<1>8. "level" \in DOMAIN m /\ m["level"] = v[3] \div 4
  <2>1. "level" \in DOMAIN m /\ m["level"] = (v[3] * 255) \div 1020
    BY <1>1, <1>6
  <2> QED BY <1>1, <2>1, Quarter
<1>9. "colorTemperature" \in DOMAIN m /\ m["colorTemperature"] = v[8] \div 1000
  BY <1>1, <1>6
<1>10. "_r" \in DOMAIN m /\ Get(m, "_r", 0) = v[4]
  BY <1>1, <1>6 DEF Get
<1>11. Get(m, "_g", 0) = v[5]
  BY <1>1, <1>5, <1>6 DEF Get
<1>12. Get(m, "_b", 0) = v[6]
  BY <1>1, <1>5, <1>6 DEF Get
<1>13. Shown(e.kind, e, id, v) = CombineColor(m)
  BY <1>4 DEF Shown, Finish, Z, m
<1>14. color = <<v[4] \div 4, v[5] \div 4, v[6] \div 4>>
  <2>1. color[1] = v[4] \div 4 /\ color[2] = v[5] \div 4 /\ color[3] = v[6] \div 4
    BY <1>1, <1>10, <1>11, <1>12, Quarter
  <2>2. color = [c \in 1..3 |-> color[c]]
    OBVIOUS
  <2> HIDE DEF color
  <2> QED BY <2>1, <2>2
<1> HIDE DEF color
<1>15. Shown(e.kind, e, id, v) = "color" :> color @@ Without(m, {"_r", "_g", "_b"})
  BY <1>10, <1>13 DEF CombineColor, color
<1>16. MeaningOf(e, id, v) = [status |-> OnOff(v[2] = 1), level |-> v[3] \div 4, color |-> color,
                              colorTemperature |-> v[8] \div 1000]
  BY <1>14 DEF MeaningOf
<1> DEFINE W == Without(m, {"_r", "_g", "_b"})
<1>17. /\ "status" \in DOMAIN W /\ W["status"] = m["status"]
       /\ "level" \in DOMAIN W /\ W["level"] = m["level"]
       /\ "colorTemperature" \in DOMAIN W /\ W["colorTemperature"] = m["colorTemperature"]
  BY <1>7, <1>8, <1>9 DEF Without
<1> HIDE DEF W
<1>18. LET s == "color" :> color @@ W
       IN /\ "status" \in DOMAIN s /\ s["status"] = m["status"]
          /\ "level" \in DOMAIN s /\ s["level"] = m["level"]
          /\ "colorTemperature" \in DOMAIN s /\ s["colorTemperature"] = m["colorTemperature"]
          /\ "color" \in DOMAIN s /\ s["color"] = color
  BY <1>17 DEF :>, @@
<1> QED BY <1>7, <1>8, <1>9, <1>15, <1>16, <1>18 DEF Shows, W

\* The names of the enumerations.
LEMMA ClimateTables ==
  /\ DOMAIN climateModes = 1..7 /\ DOMAIN climateFanModes = 1..10
  /\ DOMAIN climatePresets = 1..8 /\ DOMAIN customNames = {1}
BY DEF climateModes, climateFanModes, climatePresets, customNames

LEMMA ConvertedClimate ==
  ASSUME NEW e, e.kind = "climate", NEW id, NEW v, IsValue(e.kind, v), AllSent(e.kind, v)
  PROVE  Shows(Shown(e.kind, e, id, v), MeaningOf(e, id, v))
<1> DEFINE w == Encode(v)
           F == [systemMode |-> {2}, temperature |-> {3}, targetTemperature |-> {4},
                 running |-> {8}, fanMode |-> {9, 11}, operationMode |-> {12, 13}]
           fan == IF v[11] # 0 THEN customNames[v[11]] ELSE climateFanModes[v[9] + 1]
           preset == IF v[13] # 0 THEN customNames[v[13]] ELSE climatePresets[v[12] + 1]
           runs == v[8] \notin {0, 4}
           V == [systemMode |-> climateModes[v[2] + 1], temperature |-> v[3], targetTemperature |-> v[4],
                 running |-> runs, fanMode |-> fan, operationMode |-> preset]
           Z == ZeroDefaults(e.kind)
           m == Present(w, F, V) @@ Z
           Y == [operationMode |-> ClimateName(climatePresets, 0), fanMode |-> ClimateName(climateFanModes, 0)]
<1>1. /\ v \in [{2, 3, 4, 8, 9, 11, 12, 13} -> Int]
      /\ v[2] \in 0..6 /\ v[9] \in 0..9 /\ v[11] \in 0..1 /\ v[12] \in 0..7 /\ v[13] \in 0..1
      /\ v[3] # 0 /\ v[4] # 0
  BY DEF IsValue, AllSent, Defaulted
<1>2. /\ Get(w, 2, 0) = v[2] /\ Get(w, 3, 0) = v[3] /\ Get(w, 4, 0) = v[4] /\ Get(w, 8, 0) = v[8]
      /\ Get(w, 9, 0) = v[9] /\ Get(w, 11, 0) = v[11] /\ Get(w, 12, 0) = v[12] /\ Get(w, 13, 0) = v[13]
      /\ 11 \in DOMAIN w <=> v[11] # 0
      /\ 13 \in DOMAIN w <=> v[13] # 0
  <2>1. \A f \in DOMAIN v : Get(w, f, 0) = v[f] /\ (f \in DOMAIN w <=> v[f] # 0)
    BY EncodedFields
  <2> QED BY <1>1, <2>1
<1>3. Decode(e.kind, w) = Present(w, F, V)
  <2>1. ClimateName(climateModes, v[2]) = climateModes[v[2] + 1]
    <3>1. v[2] + 1 \in 1..7
      BY <1>1
    <3> QED BY <3>1, ClimateTables DEF ClimateName
  <2>2. climateActionRunning(v[8]) = runs
    BY DEF climateActionRunning
  <2>3. (IF 11 \in DOMAIN w THEN ClimateName(customNames, v[11] - 1) ELSE ClimateName(climateFanModes, v[9])) = fan
    <3>1. CASE v[11] # 0
      <4>1. (v[11] - 1) + 1 = v[11] /\ v[11] = 1
        BY <1>1, <3>1
      <4> QED BY <1>2, <3>1, <4>1, ClimateTables DEF ClimateName
    <3>2. CASE v[11] = 0
      <4>1. v[9] + 1 \in 1..10
        BY <1>1
      <4> QED BY <1>2, <3>2, <4>1, ClimateTables DEF ClimateName
    <3> QED BY <3>1, <3>2
  <2>4. (IF 13 \in DOMAIN w THEN ClimateName(customNames, v[13] - 1) ELSE ClimateName(climatePresets, v[12])) = preset
    <3>1. CASE v[13] # 0
      <4>1. (v[13] - 1) + 1 = v[13] /\ v[13] = 1
        BY <1>1, <3>1
      <4> QED BY <1>2, <3>1, <4>1, ClimateTables DEF ClimateName
    <3>2. CASE v[13] = 0
      <4>1. v[12] + 1 \in 1..8
        BY <1>1
      <4> QED BY <1>2, <3>2, <4>1, ClimateTables DEF ClimateName
    <3> QED BY <3>1, <3>2
  <2> HIDE DEF fan, preset, runs, w
  <2> QED BY <1>2, <2>1, <2>2, <2>3, <2>4 DEF Decode
<1>4. Shown(e.kind, e, id, v) = m @@ Y
  BY <1>3 DEF Shown, Finish
<1>5. Z = [systemMode |-> "off", running |-> FALSE]
  BY DEF ZeroDefaults
<1>6. \A k \in DOMAIN V :
        LET sent == \E f \in F[k] : f \in DOMAIN v /\ v[f] # 0
        IN /\ k \in DOMAIN m <=> sent \/ k \in DOMAIN Z
           /\ sent => m[k] = V[k]
           /\ ~sent /\ k \in DOMAIN Z => m[k] = Z[k]
  BY PresentMerged
<1> HIDE DEF Z, m, fan, preset, runs
<1>7. "systemMode" \in DOMAIN m /\ m["systemMode"] = climateModes[v[2] + 1]
  <2>1. /\ "systemMode" \in DOMAIN m
        /\ v[2] # 0 => m["systemMode"] = climateModes[v[2] + 1]
        /\ v[2] = 0 => m["systemMode"] = "off"
    BY <1>1, <1>5, <1>6
  <2> QED BY <1>1, <2>1 DEF climateModes
<1>8. /\ "temperature" \in DOMAIN m /\ m["temperature"] = v[3]
      /\ "targetTemperature" \in DOMAIN m /\ m["targetTemperature"] = v[4]
  BY <1>1, <1>6
<1>9. "running" \in DOMAIN m /\ m["running"] = runs
  <2>1. /\ "running" \in DOMAIN m
        /\ v[8] # 0 => m["running"] = runs
        /\ v[8] = 0 => m["running"] = FALSE
    BY <1>1, <1>5, <1>6
  <2>2. v[8] = 0 => runs = FALSE
    BY DEF runs
  <2> QED BY <2>1, <2>2, Zenon
<1>10. (m @@ Y)["fanMode"] = fan
  <2>1. /\ "fanMode" \in DOMAIN m <=> v[9] # 0 \/ v[11] # 0
        /\ "fanMode" \in DOMAIN m => m["fanMode"] = fan
    BY <1>1, <1>5, <1>6
  <2>2. v[9] = 0 /\ v[11] = 0 => ClimateName(climateFanModes, 0) = fan
    BY ClimateTables DEF fan, ClimateName
  <2> QED BY <2>1, <2>2 DEF @@
<1>11. (m @@ Y)["operationMode"] = preset
  <2>1. /\ "operationMode" \in DOMAIN m <=> v[12] # 0 \/ v[13] # 0
        /\ "operationMode" \in DOMAIN m => m["operationMode"] = preset
    BY <1>1, <1>5, <1>6
  <2>2. v[12] = 0 /\ v[13] = 0 => ClimateName(climatePresets, 0) = preset
    BY ClimateTables DEF preset, ClimateName
  <2> QED BY <2>1, <2>2 DEF @@
<1>12. MeaningOf(e, id, v) = V
  BY DEF MeaningOf, fan, preset, runs
<1>13. /\ "fanMode" \in DOMAIN (m @@ Y) /\ "operationMode" \in DOMAIN (m @@ Y)
       /\ \A k \in DOMAIN m : k \in DOMAIN (m @@ Y) /\ (m @@ Y)[k] = m[k]
  BY DEF @@
<1> DEFINE s == m @@ Y
<1> HIDE DEF s
<1>14. \A k \in DOMAIN V : k \in DOMAIN s /\ s[k] = V[k]
  <2>1. DOMAIN V = {"systemMode", "temperature", "targetTemperature", "running", "fanMode", "operationMode"}
    OBVIOUS
  <2>2. "running" \in DOMAIN s /\ s["running"] = V["running"]
    BY <1>9, <1>13 DEF s
  <2> QED BY <1>7, <1>8, <1>10, <1>11, <1>13, <2>1, <2>2 DEF s
<1> QED BY <1>4, <1>12, <1>14 DEF Shows, s

-----------------------------------------------------------------------------
(***************************************************************************)
(* From the user to the node                                               *)
(***************************************************************************)
\* The endpoint of an entity shows what its value means, whatever the kind, if no
\* zero is left out that the code does not supply.
LEMMA Converted ==
  ASSUME NEW e, e.kind \in Kind, NEW id, NEW v, IsValue(e.kind, v), AllSent(e.kind, v)
  PROVE  Shows(Shown(e.kind, e, id, v), MeaningOf(e, id, v))
<1>1. CASE e.kind \in {"switch", "toggle"}
  BY <1>1, ConvertedSwitch
<1>2. CASE e.kind \in {"binary_sensor", "sensor", "number", "select"}
  BY <1>2, ConvertedState
<1>3. CASE e.kind = "lock"
  BY <1>3, ConvertedLock
<1>4. CASE e.kind \in {"cover", "legacy_cover"}
  BY <1>4, ConvertedCover
<1>5. CASE e.kind = "light"
  BY <1>5, ConvertedLight
<1>6. CASE e.kind = "climate"
  BY <1>6, ConvertedClimate
<1> QED BY <1>1, <1>2, <1>3, <1>4, <1>5, <1>6 DEF Kind

\* The node that carries out a command has a value of its kind, which means what
\* was asked for.
Performed(e, id, v, w, o) ==
  /\ IsValue(e.kind, Executed(e.kind, v, w))
  /\ o \notin Relative => Shows(MeaningOf(e, id, Executed(e.kind, v, w)), AskedOf(e, id, o))

LEMMA PerformedSwitch ==
  ASSUME NEW e, e.kind \in {"switch", "toggle"}, NEW id, NEW v, IsValue(e.kind, v),
         NEW o, IsOrder(e.kind, o), NEW status
  PROVE  Performed(e, id, v, CommandFields(e.kind, status, Key(e, id, o), o[2]), o)
<1> DEFINE b == TurningOn(status, o[2])
           w == 2 :> Bit(b)
           x == [v EXCEPT ![2] = Bit(b)]
<1>1. CommandFields(e.kind, status, Key(e, id, o), o[2]) = w
  BY DEF CommandFields
<1>2. v \in [{2} -> 0..1]
  BY DEF IsValue
<1> HIDE DEF b
<1>3. w[2] = Bit(b) /\ Bit(b) \in 0..1 /\ (Bit(b) = 1 <=> b)
  BY DEF Bit, :>
<1>4. Executed(e.kind, v, w) = x
  BY <1>3 DEF Executed
<1>5. x \in [{2} -> 0..1] /\ (x[2] = 1 <=> b)
  BY <1>2, <1>3
<1>6. IsValue(e.kind, x)
  BY <1>5 DEF IsValue
<1>7. ASSUME o \notin Relative
      PROVE  Shows(MeaningOf(e, id, x), AskedOf(e, id, o))
  <2>1. CASE e.kind = "switch"
    <3>1. o = <<"status", o[2]>> /\ o[2] \in {"on", "off"}
      BY <1>7, <2>1 DEF IsOrder, Relative
    <3>2. OnOff(x[2] = 1) = o[2]
      BY <1>5, <3>1 DEF b, TurningOn, IsOn, OnOff
    <3>3. AskedOf(e, id, o) = "status" :> o[2]
      BY <2>1, <3>1 DEF AskedOf
    <3>4. MeaningOf(e, id, x) = "status" :> o[2]
      BY <2>1, <3>2 DEF MeaningOf
    <3> QED BY <3>3, <3>4 DEF Shows
  <2>2. CASE e.kind = "toggle"
    <3>1. o[1] = "" /\ o[2] # "toggle"
      BY <2>2 DEF IsOrder
    <3>2. OnOff(x[2] = 1) = OnOff(IsOn(o[2]))
      BY <1>5, <3>1 DEF b, TurningOn, OnOff
    <3>3. AskedOf(e, id, o) = id :> OnOff(IsOn(o[2]))
      BY <2>2, <3>1 DEF AskedOf
    <3>4. MeaningOf(e, id, x) = id :> OnOff(IsOn(o[2]))
      BY <2>2, <3>2 DEF MeaningOf
    <3> QED BY <3>3, <3>4 DEF Shows
  <2> QED BY <2>1, <2>2
<1> QED BY <1>1, <1>4, <1>6, <1>7 DEF Performed

LEMMA PerformedLock ==
  ASSUME NEW e, e.kind = "lock", NEW id, NEW v, IsValue(e.kind, v),
         NEW o, IsOrder(e.kind, o), NEW status
  PROVE  Performed(e, id, v, CommandFields(e.kind, status, Key(e, id, o), o[2]), o)
<1> DEFINE b == Locking(status, o[2])
           w == 2 :> Bit(b)
           x == [v EXCEPT ![2] = IF Bit(b) = 1 THEN 1 ELSE 2]
<1>1. CommandFields(e.kind, status, Key(e, id, o), o[2]) = w
  BY DEF CommandFields
<1>2. v \in [{2} -> Nat]
  BY DEF IsValue
<1> HIDE DEF b
<1>3. w[2] = Bit(b) /\ (Bit(b) = 1 <=> b)
  BY DEF Bit, :>
<1>4. Executed(e.kind, v, w) = x
  BY <1>3 DEF Executed
<1>5. x \in [{2} -> Nat] /\ (x[2] = 1 <=> b)
  BY <1>2, <1>3
<1>6. IsValue(e.kind, x)
  BY <1>5 DEF IsValue
<1>7. ASSUME o \notin Relative
      PROVE  Shows(MeaningOf(e, id, x), AskedOf(e, id, o))
  <2>1. o = <<"status", o[2]>> /\ o[2] \in {"on", "off"}
    BY <1>7 DEF IsOrder, Relative
  <2>2. (IF x[2] = 1 THEN "off" ELSE "on") = o[2]
    BY <1>5, <2>1 DEF b, Locking
  <2>3. AskedOf(e, id, o) = "status" :> o[2]
    BY <2>1 DEF AskedOf
  <2>4. MeaningOf(e, id, x) = "status" :> o[2]
    BY <2>2 DEF MeaningOf
  <2> QED BY <2>3, <2>4 DEF Shows
<1> QED BY <1>1, <1>4, <1>6, <1>7 DEF Performed

LEMMA PerformedNumber ==
  ASSUME NEW e, e.kind \in {"select", "number"}, NEW id, NEW v, IsValue(e.kind, v),
         NEW o, IsOrder(e.kind, o), NEW status
  PROVE  Performed(e, id, v, CommandFields(e.kind, status, Key(e, id, o), o[2]), o)
<1> DEFINE w == 2 :> o[2]
           x == [v EXCEPT ![2] = o[2]]
<1>1. CommandFields(e.kind, status, Key(e, id, o), o[2]) = w
  BY DEF CommandFields
<1>2. v \in [{2} -> Int] /\ o[1] = "" /\ o[2] \in Int
  BY DEF IsValue, IsOrder
<1>3. w[2] = o[2]
  BY SingleMap
<1>4. Executed(e.kind, v, w) = x
  BY <1>3 DEF Executed
<1>5. x \in [{2} -> Int] /\ x[2] = o[2]
  BY <1>2
<1>6. IsValue(e.kind, x)
  BY <1>5 DEF IsValue
<1>7. AskedOf(e, id, o) = id :> o[2]
  BY <1>2 DEF AskedOf
<1>8. MeaningOf(e, id, x) = id :> o[2]
  BY <1>5 DEF MeaningOf
<1> QED BY <1>1, <1>4, <1>6, <1>7, <1>8 DEF Performed, Shows

LEMMA PerformedCover ==
  ASSUME NEW e, e.kind = "cover", NEW id, NEW v, IsValue(e.kind, v),
         NEW o, IsOrder(e.kind, o), NEW status
  PROVE  Performed(e, id, v, CommandFields(e.kind, status, Key(e, id, o), o[2]), o)
<1> DEFINE w == CoverFields(o[1], o[2])
           x == Executed(e.kind, v, w)
<1>1. CommandFields(e.kind, status, Key(e, id, o), o[2]) = w
  BY DEF CommandFields, Key, special
<1>2. v \in [{3} -> Nat]
  BY DEF IsValue
<1>3. x = SetField(w, 4, 5, 3, v)
  BY DEF Executed
<1> HIDE DEF x
<1>4. CASE o[1] = "cover" /\ o[2] = "stop"
  <2>1. w = 8 :> 1
    BY <1>4 DEF CoverFields
  <2>2. x = v
    BY <1>3, <2>1 DEF SetField, Get, :>
  <2>3. o \in Relative
    BY <1>4 DEF IsOrder, Relative
  <2> QED BY <1>1, <2>2, <2>3 DEF Performed, x
<1>5. CASE o[1] = "cover" /\ o[2] # "stop"
  <2> DEFINE p == IF o[2] = "open" THEN 1000 ELSE 0
  <2>1. w = 4 :> 1 @@ 5 :> p
    BY <1>5 DEF CoverFields
  <2>2. x = [v EXCEPT ![3] = p]
    BY <1>3, <2>1 DEF SetField, Get, :>, @@
  <2>3. x \in [{3} -> Nat] /\ x[3] = p
    BY <1>2, <2>2
  <2>4. IsValue(e.kind, x)
    BY <2>3 DEF IsValue
  <2>5. AskedOf(e, id, o) = "cover" :> IF o[2] = "open" THEN "open" ELSE "closed"
    BY <1>5 DEF AskedOf
  <2>6. MeaningOf(e, id, x) = [cover |-> IF p = 0 THEN "closed" ELSE "open", position |-> (p + 5) \div 10]
    BY <2>3 DEF MeaningOf
  <2> QED BY <1>1, <2>4, <2>5, <2>6 DEF Performed, Shows, :>, x
<1>6. CASE o[1] = "position"
  <2>1. o[2] \in Nat
    BY <1>6 DEF IsOrder
  <2>2. w = 4 :> 1 @@ 5 :> o[2] * 10
    BY <1>6 DEF CoverFields
  <2>3. x = [v EXCEPT ![3] = o[2] * 10]
    BY <1>3, <2>2 DEF SetField, Get, :>, @@
  <2>4. x \in [{3} -> Nat] /\ x[3] = o[2] * 10
    BY <1>2, <2>1, <2>3
  <2>5. IsValue(e.kind, x)
    BY <2>4 DEF IsValue
  <2>6. AskedOf(e, id, o) = "position" :> o[2]
    BY <1>6 DEF AskedOf
  <2>7. MeaningOf(e, id, x)["position"] = (o[2] * 10 + 5) \div 10 /\ "position" \in DOMAIN MeaningOf(e, id, x)
    BY <2>4 DEF MeaningOf
  <2>8. (o[2] * 10 + 5) \div 10 = o[2]
    BY <2>1
  <2> QED BY <1>1, <2>5, <2>6, <2>7, <2>8 DEF Performed, Shows, :>, x
<1> QED BY <1>4, <1>5, <1>6 DEF IsOrder

LEMMA PerformedLegacyCover ==
  ASSUME NEW e, e.kind = "legacy_cover", NEW id, NEW v, IsValue(e.kind, v),
         NEW o, IsOrder(e.kind, o), NEW status
  PROVE  Performed(e, id, v, CommandFields(e.kind, status, Key(e, id, o), o[2]), o)
<1> DEFINE w == CoverFields(o[1], o[2])
           x == Executed(e.kind, v, w)
<1>1. CommandFields(e.kind, status, Key(e, id, o), o[2]) = w
  BY DEF CommandFields, Key, special
<1>2. v \in [{2} -> 0..1]
  BY DEF IsValue
<1>3. x = IF Get(w, 4, 0) = 1 THEN [v EXCEPT ![2] = IF Get(w, 5, 0) >= 500 THEN 0 ELSE 1] ELSE v
  BY DEF Executed
<1> HIDE DEF x
<1>4. CASE o[1] = "cover" /\ o[2] = "stop"
  <2>1. w = 8 :> 1
    BY <1>4 DEF CoverFields
  <2>2. x = v
    BY <1>3, <2>1 DEF Get, :>
  <2>3. o \in Relative
    BY <1>4 DEF IsOrder, Relative
  <2> QED BY <1>1, <2>2, <2>3 DEF Performed, x
<1>5. CASE o[1] = "cover" /\ o[2] # "stop"
  <2> DEFINE p == IF o[2] = "open" THEN 1000 ELSE 0
  <2>1. w = 4 :> 1 @@ 5 :> p
    BY <1>5 DEF CoverFields
  <2>2. x = [v EXCEPT ![2] = IF o[2] = "open" THEN 0 ELSE 1]
    <3>1. Get(w, 4, 0) = 1 /\ Get(w, 5, 0) = p
      BY <2>1 DEF Get, :>, @@
    <3>2. (IF Get(w, 5, 0) >= 500 THEN 0 ELSE 1) = (IF o[2] = "open" THEN 0 ELSE 1)
      BY <3>1
    <3> QED BY <1>3, <3>1, <3>2, Zenon
  <2>3. x \in [{2} -> 0..1] /\ x[2] = IF o[2] = "open" THEN 0 ELSE 1
    BY <1>2, <2>2
  <2>4. IsValue(e.kind, x)
    BY <2>3 DEF IsValue
  <2>5. AskedOf(e, id, o) = "cover" :> IF o[2] = "open" THEN "open" ELSE "closed"
    BY <1>5 DEF AskedOf
  <2>6. "cover" \in DOMAIN MeaningOf(e, id, x) /\ MeaningOf(e, id, x)["cover"] = IF x[2] = 0 THEN "open" ELSE "closed"
    BY DEF MeaningOf
  <2> QED BY <1>1, <2>3, <2>4, <2>5, <2>6 DEF Performed, Shows, :>, x
<1>6. CASE o[1] = "position"
  <2>1. o[2] \in {0, 100}
    BY <1>6 DEF IsOrder
  <2>2. w = 4 :> 1 @@ 5 :> o[2] * 10
    BY <1>6 DEF CoverFields
  <2>3. x = [v EXCEPT ![2] = IF o[2] = 100 THEN 0 ELSE 1]
    <3>1. Get(w, 4, 0) = 1 /\ Get(w, 5, 0) = o[2] * 10
      BY <2>2 DEF Get, :>, @@
    <3>2. (IF Get(w, 5, 0) >= 500 THEN 0 ELSE 1) = (IF o[2] = 100 THEN 0 ELSE 1)
      BY <2>1, <3>1
    <3> QED BY <1>3, <3>1, <3>2, Zenon
  <2>4. x \in [{2} -> 0..1] /\ x[2] = IF o[2] = 100 THEN 0 ELSE 1
    BY <1>2, <2>1, <2>3
  <2>5. IsValue(e.kind, x)
    BY <2>4 DEF IsValue
  <2>6. AskedOf(e, id, o) = "position" :> o[2]
    BY <1>6 DEF AskedOf
  <2>7. "position" \in DOMAIN MeaningOf(e, id, x) /\ MeaningOf(e, id, x)["position"] = IF x[2] = 0 THEN 100 ELSE 0
    BY DEF MeaningOf
  <2> QED BY <1>1, <2>1, <2>4, <2>5, <2>6, <2>7 DEF Performed, Shows, :>, x
<1> QED BY <1>4, <1>5, <1>6 DEF IsOrder

LEMMA PerformedLight ==
  ASSUME NEW e, e.kind = "light", NEW id, NEW v, IsValue(e.kind, v),
         NEW o, IsOrder(e.kind, o), NEW status
  PROVE  Performed(e, id, v, CommandFields(e.kind, status, Key(e, id, o), o[2]), o)
<1> DEFINE w == LightFields(status, o[1], o[2])
           x == Executed(e.kind, v, w)
           D == {2, 3, 4, 5, 6, 8}
<1>1. CommandFields(e.kind, status, Key(e, id, o), o[2]) = w
  BY DEF CommandFields, Key, special
<1>2. v \in [D -> Nat] /\ v[2] \in 0..1
  BY DEF IsValue
<1>3. x = ExecutedLight(v, w)
  BY DEF Executed
<1>4. AskedOf(e, id, o) = o[1] :> o[2]
  BY DEF AskedOf, IsOrder
<1>5. MeaningOf(e, id, x) =
        [status |-> OnOff(x[2] = 1), level |-> x[3] \div 4,
         color |-> <<x[4] \div 4, x[5] \div 4, x[6] \div 4>>, colorTemperature |-> x[8] \div 1000]
  BY DEF MeaningOf
<1> HIDE DEF x, w
<1>6. ASSUME x \in [D -> Nat], x[2] \in 0..1,
             o \notin Relative =>
               o[1] \in DOMAIN MeaningOf(e, id, x) /\ MeaningOf(e, id, x)[o[1]] = o[2]
      PROVE  Performed(e, id, v, w, o)
  <2>1. IsValue(e.kind, x)
    BY <1>6 DEF IsValue
  <2>2. o \notin Relative => Shows(MeaningOf(e, id, x), AskedOf(e, id, o))
    BY <1>4, <1>6 DEF Shows, :>
  <2> QED BY <2>1, <2>2 DEF Performed, x
<1>7. CASE o[1] = "status"
  <2> DEFINE b == TurningOn(status, o[2])
  <2>1. w = 2 :> 1 @@ 3 :> Bit(b)
    BY <1>7 DEF w, LightFields
  <2> HIDE DEF b
  <2>2. Bit(b) \in 0..1 /\ (Bit(b) = 1 <=> b)
    BY DEF Bit
  <2>3. Get(w, 2, 0) = 1 /\ Get(w, 3, 0) = Bit(b) /\ Get(w, 4, 0) = 0 /\ Get(w, 6, 0) = 0 /\ Get(w, 12, 0) = 0
    <3>1. DOMAIN w = {2, 3} /\ w[2] = 1 /\ w[3] = Bit(b)
      BY <2>1 DEF :>, @@
    <3> QED BY <3>1 DEF Get
  <2>4. x = [v EXCEPT ![2] = Bit(b)]
    BY <1>3, <2>3 DEF ExecutedLight, SetField
  <2>5. x \in [D -> Nat] /\ x[2] = Bit(b)
    BY <1>2, <2>2, <2>4
  <2>6. ASSUME o \notin Relative PROVE OnOff(x[2] = 1) = o[2]
    <3>1. o[2] \in {"on", "off"}
      BY <1>7, <2>6 DEF IsOrder, Relative
    <3> QED BY <2>2, <2>5, <3>1 DEF b, TurningOn, IsOn, OnOff
  <2> QED BY <1>1, <1>5, <1>6, <1>7, <2>2, <2>5, <2>6
<1>8. CASE o[1] = "level"
  <2>1. w = [f \in {2, 3, 4} |-> 1] @@ 5 :> o[2] * 4
    BY <1>8 DEF w, LightFields
  <2>2. o[2] \in Nat
    BY <1>8 DEF IsOrder
  <2>3. /\ Get(w, 2, 0) = 1 /\ Get(w, 3, 0) = 1 /\ Get(w, 4, 0) = 1 /\ Get(w, 5, 0) = o[2] * 4
        /\ Get(w, 6, 0) = 0 /\ Get(w, 12, 0) = 0
    BY <2>1 DEF Get, :>, @@
  <2>4. x = [[v EXCEPT ![3] = o[2] * 4] EXCEPT ![2] = 1]
    BY <1>3, <2>3 DEF ExecutedLight, SetField
  <2>5. x \in [D -> Nat] /\ x[2] = 1 /\ x[3] = o[2] * 4
    BY <1>2, <2>2, <2>4
  <2>6. x[3] \div 4 = o[2]
    BY <2>2, <2>5
  <2> QED BY <1>1, <1>5, <1>6, <1>8, <2>5, <2>6
<1>9. CASE o[1] = "colorTemperature"
  <2>1. w = [f \in {2, 3, 12} |-> 1] @@ 13 :> o[2] * 1000
    BY <1>9 DEF w, LightFields
  <2>2. o[2] \in Nat
    BY <1>9 DEF IsOrder
  <2>3. /\ Get(w, 2, 0) = 1 /\ Get(w, 3, 0) = 1 /\ Get(w, 4, 0) = 0
        /\ Get(w, 6, 0) = 0 /\ Get(w, 12, 0) = 1 /\ Get(w, 13, 0) = o[2] * 1000
    BY <2>1 DEF Get, :>, @@
  <2>4. x = [[v EXCEPT ![8] = Get(w, 13, 0)] EXCEPT ![2] = Get(w, 3, 0)]
    <3> DEFINE y == [v EXCEPT ![8] = Get(w, 13, 0)]
    <3>1. SetField(w, 12, 13, 8, v) = y
      BY <2>3 DEF SetField
    <3> HIDE DEF y
    <3>2. SetField(w, 6, 9, 6, y) = y /\ SetField(w, 6, 8, 5, y) = y /\ SetField(w, 6, 7, 4, y) = y
      BY <2>3 DEF SetField
    <3>3. SetField(w, 4, 5, 3, y) = y /\ SetField(w, 2, 3, 2, y) = [y EXCEPT ![2] = Get(w, 3, 0)]
      BY <2>3 DEF SetField
    <3>4. x = [y EXCEPT ![2] = Get(w, 3, 0)]
      BY <1>3, <3>1, <3>2, <3>3 DEF ExecutedLight
    <3> QED BY <3>4 DEF y
  <2>5. x \in [D -> Nat] /\ x[2] = 1 /\ x[8] = o[2] * 1000
    BY <1>2, <2>2, <2>3, <2>4
  <2>6. x[8] \div 1000 = o[2]
    BY <2>2, <2>5
  <2> QED BY <1>1, <1>5, <1>6, <1>9, <2>5, <2>6
<1>10. CASE o[1] = "color"
  <2> DEFINE c == o[2]
  <2>1. w = [f \in {2, 3, 6} |-> 1] @@ [f \in {7, 8, 9} |-> c[f - 6] * 4]
    BY <1>10 DEF w, LightFields
  <2>2. c \in [1..3 -> Nat]
    BY <1>10 DEF IsOrder
  <2>3. /\ Get(w, 2, 0) = 1 /\ Get(w, 3, 0) = 1 /\ Get(w, 4, 0) = 0 /\ Get(w, 6, 0) = 1 /\ Get(w, 12, 0) = 0
        /\ Get(w, 7, 0) = c[1] * 4 /\ Get(w, 8, 0) = c[2] * 4 /\ Get(w, 9, 0) = c[3] * 4
    <3>1. DOMAIN w = {2, 3, 6, 7, 8, 9} /\ w[2] = 1 /\ w[3] = 1 /\ w[6] = 1
      BY <2>1 DEF @@
    <3>2. w[7] = c[1] * 4 /\ w[8] = c[2] * 4 /\ w[9] = c[3] * 4
      <4>1. 7 - 6 = 1 /\ 8 - 6 = 2 /\ 9 - 6 = 3
        OBVIOUS
      <4> QED BY <2>1, <4>1 DEF @@
    <3> QED BY <3>1, <3>2 DEF Get
  <2>4. x = [[[[v EXCEPT ![6] = c[3] * 4] EXCEPT ![5] = c[2] * 4] EXCEPT ![4] = c[1] * 4] EXCEPT ![2] = 1]
    BY <1>3, <2>3 DEF ExecutedLight, SetField
  <2>5. x \in [D -> Nat] /\ x[2] = 1 /\ x[4] = c[1] * 4 /\ x[5] = c[2] * 4 /\ x[6] = c[3] * 4
    <3>1. c[1] * 4 \in Nat /\ c[2] * 4 \in Nat /\ c[3] * 4 \in Nat
      BY <2>2
    <3> QED BY <1>2, <2>4, <3>1
  <2>6. x[4] \div 4 = c[1] /\ x[5] \div 4 = c[2] /\ x[6] \div 4 = c[3]
    <3>1. c[1] \in Nat /\ c[2] \in Nat /\ c[3] \in Nat
      BY <2>2
    <3> QED BY <2>5, <3>1
  <2>7. <<x[4] \div 4, x[5] \div 4, x[6] \div 4>> = c
    <3>1. <<c[1], c[2], c[3]>> = c
      BY <2>2
    <3> QED BY <2>6, <3>1
  <2> QED BY <1>1, <1>5, <1>6, <1>10, <2>5, <2>7
<1> QED BY <1>7, <1>8, <1>9, <1>10 DEF IsOrder

LEMMA ClimateValues ==
  ASSUME NEW names, DOMAIN names \subseteq Nat, NEW x, \E k \in DOMAIN names : x = names[k]
  PROVE  /\ ClimateValue(names, x) \in Int /\ ClimateValue(names, x) + 1 \in DOMAIN names
         /\ names[ClimateValue(names, x) + 1] = x
<1> DEFINE c == CHOOSE k \in DOMAIN names : names[k] = x
<1>1. c \in DOMAIN names /\ names[c] = x
  OBVIOUS
<1>2. ClimateValue(names, x) = c - 1
  BY DEF ClimateValue
<1> HIDE DEF c
<1>3. (c - 1) + 1 = c /\ c - 1 \in Int
  BY <1>1
<1> QED BY <1>1, <1>2, <1>3

LEMMA CustomMode ==
  /\ ClimateValue(climateFanModes, "custom") = -1
  /\ ClimateValue(climatePresets, "custom") = -1
  /\ ClimateValue(customNames, "custom") = 0
<1>1. \A n \in DOMAIN climateFanModes : climateFanModes[n] # "custom"
  BY DEF climateFanModes
<1>2. \A n \in DOMAIN climatePresets : climatePresets[n] # "custom"
  BY DEF climatePresets
<1>3. DOMAIN customNames = {1} /\ customNames[1] = "custom"
  BY DEF customNames
<1> QED BY <1>1, <1>2, <1>3 DEF ClimateValue

\* A command that sets no mode of the pair, the standard or the custom one.
LEMMA ModeUnchanged ==
  ASSUME NEW v, NEW w, NEW has, NEW from, NEW to, NEW hasCustom, NEW fromCustom, NEW custom,
         Get(w, has, 0) = 0, Get(w, hasCustom, 0) = 0
  PROVE  ExecutedMode(v, w, has, from, to, hasCustom, fromCustom, custom) = v
BY DEF ExecutedMode, SetField, ClearField

LEMMA ModeStandard ==
  ASSUME NEW v, NEW w, NEW has, NEW from, NEW to, NEW hasCustom, NEW fromCustom, NEW custom,
         Get(w, has, 0) = 1, Get(w, hasCustom, 0) = 0
  PROVE  ExecutedMode(v, w, has, from, to, hasCustom, fromCustom, custom)
         = [[v EXCEPT ![custom] = 0] EXCEPT ![to] = Get(w, from, 0)]
BY DEF ExecutedMode, SetField, ClearField

LEMMA ModeCustom ==
  ASSUME NEW v, NEW w, NEW has, NEW from, NEW to, NEW hasCustom, NEW fromCustom, NEW custom,
         Get(w, has, 0) = 0, Get(w, hasCustom, 0) = 1
  PROVE  ExecutedMode(v, w, has, from, to, hasCustom, fromCustom, custom)
         = [[v EXCEPT ![to] = 0] EXCEPT ![custom] = Get(w, fromCustom, 0)]
BY DEF ExecutedMode, SetField, ClearField

LEMMA PerformedClimate ==
  ASSUME NEW e, e.kind = "climate", NEW id, NEW v, IsValue(e.kind, v),
         NEW o, IsOrder(e.kind, o), NEW status
  PROVE  Performed(e, id, v, CommandFields(e.kind, status, Key(e, id, o), o[2]), o)
<1> DEFINE w == ClimateFields(o[1], o[2])
           x == Executed(e.kind, v, w)
           M == MeaningOf(e, id, x)
           fan == IF x[11] # 0 THEN customNames[x[11]] ELSE climateFanModes[x[9] + 1]
           preset == IF x[13] # 0 THEN customNames[x[13]] ELSE climatePresets[x[12] + 1]
           runs == x[8] \notin {0, 4}
           D == {2, 3, 4, 8, 9, 11, 12, 13}
           InRange(y) == y[2] \in 0..6 /\ y[9] \in 0..9 /\ y[11] \in 0..1 /\ y[12] \in 0..7 /\ y[13] \in 0..1
<1>1. CommandFields(e.kind, status, Key(e, id, o), o[2]) = w
  BY DEF CommandFields, Key, special
<1>2. v \in [D -> Int] /\ InRange(v)
  BY DEF IsValue
<1>3. x = ExecutedClimate(v, w)
  BY DEF Executed
<1>4. AskedOf(e, id, o) = o[1] :> o[2]
  BY DEF AskedOf, IsOrder
<1>5. M = [systemMode |-> climateModes[x[2] + 1], temperature |-> x[3], targetTemperature |-> x[4],
           running |-> runs, fanMode |-> fan, operationMode |-> preset]
  BY DEF MeaningOf
<1> HIDE DEF x, w, M, fan, preset, runs
<1>meaning. /\ DOMAIN M = {"systemMode", "temperature", "targetTemperature", "running", "fanMode", "operationMode"}
            /\ M["systemMode"] = climateModes[x[2] + 1] /\ M["targetTemperature"] = x[4]
            /\ M["fanMode"] = fan /\ M["operationMode"] = preset
  BY <1>5
<1>6. ASSUME x \in [D -> Int], InRange(x),
             o[1] \in DOMAIN M /\ M[o[1]] = o[2]
      PROVE  Performed(e, id, v, w, o)
  <2>1. IsValue(e.kind, x)
    BY <1>6 DEF IsValue
  <2>2. Shows(MeaningOf(e, id, x), AskedOf(e, id, o))
    BY <1>4, <1>6 DEF Shows, :>, M
  <2> QED BY <2>1, <2>2 DEF Performed, x
<1>7. CASE o[1] = "systemMode"
  <2> DEFINE c == ClimateValue(climateModes, o[2])
  <2>1. c \in 0..6 /\ climateModes[c + 1] = o[2]
    <3>1. \E k \in DOMAIN climateModes : o[2] = climateModes[k]
      BY <1>7 DEF IsOrder
    <3>2. DOMAIN climateModes = 1..7 /\ DOMAIN climateModes \subseteq Nat
      BY ClimateTables
    <3>3. c \in Int /\ c + 1 \in DOMAIN climateModes /\ climateModes[c + 1] = o[2]
      BY <3>1, <3>2, ClimateValues
    <3> QED BY <3>2, <3>3
  <2>2. w = 2 :> 1 @@ 3 :> c
    BY <1>7, <2>1 DEF w, ClimateFields
  <2> HIDE DEF c
  <2>3. /\ Get(w, 2, 0) = 1 /\ Get(w, 3, 0) = c /\ Get(w, 4, 0) = 0 /\ Get(w, 12, 0) = 0 /\ Get(w, 16, 0) = 0
        /\ Get(w, 18, 0) = 0 /\ Get(w, 20, 0) = 0
    BY <2>2 DEF Get, :>, @@
  <2>4. x = [v EXCEPT ![2] = Get(w, 3, 0)]
    BY <1>3, <2>3, ModeUnchanged DEF ExecutedClimate, SetField
  <2>5. x \in [D -> Int] /\ x[2] = c /\ \A f \in D \ {2} : x[f] = v[f]
    BY <1>2, <2>1, <2>3, <2>4
  <2>6. InRange(x)
    BY <1>2, <2>1, <2>5
  <2>7. o[1] \in DOMAIN M /\ M[o[1]] = o[2]
    BY <1>meaning, <1>7, <2>1, <2>5
  <2> QED BY <1>1, <1>6, <2>5, <2>6, <2>7
<1>8. CASE o[1] = "targetTemperature"
  <2>1. o[2] \in Int
    BY <1>8 DEF IsOrder
  <2>2. w = 4 :> 1 @@ 5 :> o[2]
    BY <1>8 DEF w, ClimateFields
  <2>3. /\ Get(w, 4, 0) = 1 /\ Get(w, 5, 0) = o[2] /\ Get(w, 2, 0) = 0 /\ Get(w, 12, 0) = 0 /\ Get(w, 16, 0) = 0
        /\ Get(w, 18, 0) = 0 /\ Get(w, 20, 0) = 0
    BY <2>2 DEF Get, :>, @@
  <2>4. x = [v EXCEPT ![4] = Get(w, 5, 0)]
    BY <1>3, <2>3, ModeUnchanged DEF ExecutedClimate, SetField
  <2>5. x \in [D -> Int] /\ x[4] = o[2] /\ \A f \in D \ {4} : x[f] = v[f]
    BY <1>2, <2>1, <2>3, <2>4
  <2>6. InRange(x)
    BY <1>2, <2>5
  <2>7. o[1] \in DOMAIN M /\ M[o[1]] = o[2]
    BY <1>meaning, <1>8, <2>5
  <2> QED BY <1>1, <1>6, <2>5, <2>6, <2>7
<1>9. CASE o[1] = "fanMode"
  <2>1. w = Standard(climateFanModes, o[2], 12, 13, 16, 17)
    BY <1>9 DEF w, ClimateFields
  <2>2. CASE \E k \in DOMAIN climateFanModes : o[2] = climateFanModes[k]
    <3> DEFINE c == ClimateValue(climateFanModes, o[2])
    <3>1. c \in 0..9 /\ climateFanModes[c + 1] = o[2]
      <4>1. DOMAIN climateFanModes = 1..10 /\ DOMAIN climateFanModes \subseteq Nat
        BY ClimateTables
      <4>2. c \in Int /\ c + 1 \in DOMAIN climateFanModes /\ climateFanModes[c + 1] = o[2]
        BY <2>2, <4>1, ClimateValues
      <4> QED BY <4>1, <4>2
    <3> HIDE DEF c
    <3>2. w = 12 :> 1 @@ 13 :> c
      BY <2>1, <3>1 DEF Standard, c
    <3>3. /\ Get(w, 12, 0) = 1 /\ Get(w, 13, 0) = c /\ Get(w, 16, 0) = 0
          /\ Get(w, 2, 0) = 0 /\ Get(w, 4, 0) = 0 /\ Get(w, 18, 0) = 0 /\ Get(w, 20, 0) = 0
      BY <3>2 DEF Get, :>, @@
    <3>4. x = [[v EXCEPT ![11] = 0] EXCEPT ![9] = Get(w, 13, 0)]
      BY <1>3, <3>3, ModeUnchanged, ModeStandard DEF ExecutedClimate, SetField
    <3>5. x \in [D -> Int] /\ x[9] = c /\ x[11] = 0 /\ \A f \in D \ {9, 11} : x[f] = v[f]
      BY <1>2, <3>1, <3>3, <3>4
    <3>6. InRange(x)
      BY <1>2, <3>1, <3>5
    <3>7. o[1] \in DOMAIN M /\ M[o[1]] = o[2]
      <4>1. fan = o[2]
        BY <3>1, <3>5 DEF fan
      <4> QED BY <1>meaning, <1>9, <4>1
    <3> QED BY <1>1, <1>6, <3>5, <3>6, <3>7
  <2>3. CASE o[2] = "custom"
    <3>1. w = 16 :> 1 @@ 17 :> 1
      BY <2>1, <2>3, CustomMode DEF Standard
    <3>2. /\ Get(w, 12, 0) = 0 /\ Get(w, 16, 0) = 1 /\ Get(w, 17, 0) = 1
          /\ Get(w, 2, 0) = 0 /\ Get(w, 4, 0) = 0 /\ Get(w, 18, 0) = 0 /\ Get(w, 20, 0) = 0
      BY <3>1 DEF Get, :>, @@
    <3>3. x = [[v EXCEPT ![9] = 0] EXCEPT ![11] = Get(w, 17, 0)]
      BY <1>3, <3>2, ModeUnchanged, ModeCustom DEF ExecutedClimate, SetField
    <3>4. x \in [D -> Int] /\ x[9] = 0 /\ x[11] = 1 /\ \A f \in D \ {9, 11} : x[f] = v[f]
      BY <1>2, <3>2, <3>3
    <3>5. InRange(x)
      BY <1>2, <3>4
    <3>6. customNames[1] = "custom"
      BY DEF customNames
    <3>7. o[1] \in DOMAIN M /\ M[o[1]] = o[2]
      <4>1. fan = o[2]
        BY <2>3, <3>4, <3>6 DEF fan
      <4> QED BY <1>meaning, <1>9, <4>1
    <3> QED BY <1>1, <1>6, <3>4, <3>5, <3>7
  <2> QED BY <1>9, <2>2, <2>3 DEF IsOrder
<1>10. CASE o[1] = "operationMode"
  <2>1. w = Standard(climatePresets, o[2], 18, 19, 20, 21)
    BY <1>10 DEF w, ClimateFields
  <2>2. CASE \E k \in DOMAIN climatePresets : o[2] = climatePresets[k]
    <3> DEFINE c == ClimateValue(climatePresets, o[2])
    <3>1. c \in 0..7 /\ climatePresets[c + 1] = o[2]
      <4>1. DOMAIN climatePresets = 1..8 /\ DOMAIN climatePresets \subseteq Nat
        BY ClimateTables
      <4>2. c \in Int /\ c + 1 \in DOMAIN climatePresets /\ climatePresets[c + 1] = o[2]
        BY <2>2, <4>1, ClimateValues
      <4> QED BY <4>1, <4>2
    <3> HIDE DEF c
    <3>2. w = 18 :> 1 @@ 19 :> c
      BY <2>1, <3>1 DEF Standard, c
    <3>3. /\ Get(w, 18, 0) = 1 /\ Get(w, 19, 0) = c /\ Get(w, 20, 0) = 0
          /\ Get(w, 2, 0) = 0 /\ Get(w, 4, 0) = 0 /\ Get(w, 12, 0) = 0 /\ Get(w, 16, 0) = 0
      BY <3>2 DEF Get, :>, @@
    <3>4. x = [[v EXCEPT ![13] = 0] EXCEPT ![12] = Get(w, 19, 0)]
      BY <1>3, <3>3, ModeUnchanged, ModeStandard DEF ExecutedClimate, SetField
    <3>5. x \in [D -> Int] /\ x[12] = c /\ x[13] = 0 /\ \A f \in D \ {12, 13} : x[f] = v[f]
      BY <1>2, <3>1, <3>3, <3>4
    <3>6. InRange(x)
      BY <1>2, <3>1, <3>5
    <3>7. o[1] \in DOMAIN M /\ M[o[1]] = o[2]
      <4>1. preset = o[2]
        BY <3>1, <3>5 DEF preset
      <4> QED BY <1>meaning, <1>10, <4>1
    <3> QED BY <1>1, <1>6, <3>5, <3>6, <3>7
  <2>3. CASE o[2] = "custom"
    <3>1. w = 20 :> 1 @@ 21 :> 1
      BY <2>1, <2>3, CustomMode DEF Standard
    <3>2. /\ Get(w, 18, 0) = 0 /\ Get(w, 20, 0) = 1 /\ Get(w, 21, 0) = 1
          /\ Get(w, 2, 0) = 0 /\ Get(w, 4, 0) = 0 /\ Get(w, 12, 0) = 0 /\ Get(w, 16, 0) = 0
      BY <3>1 DEF Get, :>, @@
    <3>3. x = [[v EXCEPT ![12] = 0] EXCEPT ![13] = Get(w, 21, 0)]
      BY <1>3, <3>2, ModeUnchanged, ModeCustom DEF ExecutedClimate, SetField
    <3>4. x \in [D -> Int] /\ x[12] = 0 /\ x[13] = 1 /\ \A f \in D \ {12, 13} : x[f] = v[f]
      BY <1>2, <3>2, <3>3
    <3>5. InRange(x)
      BY <1>2, <3>4
    <3>6. customNames[1] = "custom"
      BY DEF customNames
    <3>7. o[1] \in DOMAIN M /\ M[o[1]] = o[2]
      <4>1. preset = o[2]
        BY <2>3, <3>4, <3>6 DEF preset
      <4> QED BY <1>meaning, <1>10, <4>1
    <3> QED BY <1>1, <1>6, <3>4, <3>5, <3>7
  <2> QED BY <1>10, <2>2, <2>3 DEF IsOrder
<1> QED BY <1>1, <1>7, <1>8, <1>9, <1>10 DEF IsOrder

\* Every command of a regular order does what it says.
LEMMA OrderPerformed ==
  ASSUME NEW e, e.kind \in Kind, NEW id, NEW v, IsValue(e.kind, v),
         NEW o, IsOrder(e.kind, o), NEW status
  PROVE  Performed(e, id, v, CommandFields(e.kind, status, Key(e, id, o), o[2]), o)
<1>1. e.kind \notin {"sensor", "binary_sensor"}
  BY DEF IsOrder
<1>2. CASE e.kind \in {"switch", "toggle"}
  BY <1>2, PerformedSwitch
<1>3. CASE e.kind = "lock"
  BY <1>3, PerformedLock
<1>4. CASE e.kind \in {"select", "number"}
  BY <1>4, PerformedNumber
<1>5. CASE e.kind = "cover"
  BY <1>5, PerformedCover
<1>6. CASE e.kind = "legacy_cover"
  BY <1>6, PerformedLegacyCover
<1>7. CASE e.kind = "light"
  BY <1>7, PerformedLight
<1>8. CASE e.kind = "climate"
  BY <1>8, PerformedClimate
<1> QED BY <1>1, <1>2, <1>3, <1>4, <1>5, <1>6, <1>7, <1>8 DEF Kind

-----------------------------------------------------------------------------
(***************************************************************************)
(* Queues                                                                  *)
(***************************************************************************)
LEMMA QueueAppend ==
  ASSUME NEW q, IsQueue(q), NEW x
  PROVE  /\ IsQueue(Append(q, x))
         /\ DOMAIN Append(q, x) = DOMAIN q \cup {Len(q) + 1}
         /\ Append(q, x)[Len(q) + 1] = x
         /\ \A n \in DOMAIN q : n <= Len(q) /\ n \in Nat /\ Append(q, x)[n] = q[n]
         /\ Len(q) \in Nat
<1> DEFINE S == {q[n] : n \in DOMAIN q}
           r == Append(q, x)
           T == {r[n] : n \in DOMAIN r}
<1>1. q \in Seq(S)
  BY DEF IsQueue
<1>2. q \in Seq(S \cup {x}) /\ x \in S \cup {x}
  BY <1>1
<1> HIDE DEF S
<1>3. r \in Seq(S \cup {x}) /\ Len(r) = Len(q) + 1 /\ Len(q) \in Nat
  BY <1>2
<1>4. DOMAIN q = 1..Len(q) /\ DOMAIN r = 1..(Len(q) + 1)
  BY <1>2, <1>3
<1>5. r[Len(q) + 1] = x /\ \A n \in 1..Len(q) : r[n] = q[n]
  BY <1>2
<1> HIDE DEF r
<1>6. r \in Seq(T)
  <2>1. \A n \in 1..Len(r) : r[n] \in T
    BY <1>3, <1>4
  <2> QED BY <1>3, <2>1
<1>7. DOMAIN r = DOMAIN q \cup {Len(q) + 1}
  BY <1>3, <1>4
<1> QED BY <1>3, <1>4, <1>5, <1>6, <1>7 DEF IsQueue, r

LEMMA QueueTail ==
  ASSUME NEW q, IsQueue(q), q # <<>>
  PROVE  /\ IsQueue(Tail(q))
         /\ 1 \in DOMAIN q /\ Head(q) = q[1]
         /\ \A n \in DOMAIN Tail(q) : n \in Nat /\ n + 1 \in DOMAIN q /\ Tail(q)[n] = q[n + 1]
         /\ \A n \in DOMAIN q : n \in Nat /\ n >= 1 /\ (n # 1 => n - 1 \in DOMAIN Tail(q))
<1> DEFINE S == {q[n] : n \in DOMAIN q}
           r == Tail(q)
           T == {r[n] : n \in DOMAIN r}
<1>1. q \in Seq(S)
  BY DEF IsQueue
<1> HIDE DEF S
<1>2. r \in Seq(S) /\ Len(r) = Len(q) - 1 /\ Len(q) \in Nat /\ Len(q) >= 1
  BY <1>1
<1>3. DOMAIN q = 1..Len(q) /\ DOMAIN r = 1..(Len(q) - 1)
  BY <1>1, <1>2
<1>4. Head(q) = q[1] /\ \A n \in 1..(Len(q) - 1) : r[n] = q[n + 1]
  BY <1>1, <1>2
<1> HIDE DEF r
<1>5. r \in Seq(T)
  <2>1. \A n \in 1..Len(r) : r[n] \in T
    BY <1>2, <1>3
  <2> QED BY <1>2, <2>1
<1>6. \A n \in DOMAIN r : n \in Nat /\ n + 1 \in DOMAIN q
  BY <1>2, <1>3
<1>7. \A n \in DOMAIN q : n \in Nat /\ n >= 1 /\ (n # 1 => n - 1 \in DOMAIN r)
  BY <1>2, <1>3
<1> QED BY <1>2, <1>3, <1>4, <1>5, <1>6, <1>7 DEF IsQueue, r

LEMMA EmptyQueue ==
  IsQueue(<<>>) /\ DOMAIN <<>> = {}
BY DEF IsQueue

\* What is the last item of an owner after one more, or one less.
LEMMA LastAppended ==
  ASSUME NEW q, IsQueue(q), NEW x
  PROVE  /\ Len(q) + 1 \in DOMAIN Append(q, x)
         /\ LastOf(Append(q, x), x.owner, Len(q) + 1)
<1>1. \A m \in DOMAIN Append(q, x) : ~(m > Len(q) + 1)
  BY QueueAppend
<1> QED BY <1>1, QueueAppend DEF LastOf

LEMMA LastAfterOther ==
  ASSUME NEW q, IsQueue(q), NEW x, NEW i, x.owner # i
  PROVE  /\ NoneOf(q, i) => NoneOf(Append(q, x), i)
         /\ \A n \in DOMAIN q : LastOf(q, i, n) =>
              n \in DOMAIN Append(q, x) /\ LastOf(Append(q, x), i, n) /\ Append(q, x)[n] = q[n]
<1>1. DOMAIN Append(q, x) = DOMAIN q \cup {Len(q) + 1} /\ Append(q, x)[Len(q) + 1].owner # i
  BY QueueAppend
<1>2. \A n \in DOMAIN q : Append(q, x)[n] = q[n]
  BY QueueAppend
<1> QED BY <1>1, <1>2 DEF NoneOf, LastOf

LEMMA NoneInTail ==
  ASSUME NEW q, IsQueue(q), q # <<>>, NEW i, NoneOf(q, i)
  PROVE  NoneOf(Tail(q), i)
BY QueueTail DEF NoneOf

LEMMA LastInTail ==
  ASSUME NEW q, IsQueue(q), q # <<>>, NEW i, NEW n \in DOMAIN q, LastOf(q, i, n)
  PROVE  /\ n = 1 => NoneOf(Tail(q), i)
         /\ n # 1 => n - 1 \in DOMAIN Tail(q) /\ LastOf(Tail(q), i, n - 1) /\ Tail(q)[n - 1] = q[n]
<1>1. \A m \in DOMAIN Tail(q) : m \in Nat /\ m + 1 \in DOMAIN q /\ Tail(q)[m] = q[m + 1]
  BY QueueTail
<1>2. n \in Nat /\ n >= 1
  BY QueueTail
<1>3. CASE n = 1
  <2>1. \A m \in DOMAIN Tail(q) : m + 1 \in DOMAIN q /\ m + 1 > n /\ Tail(q)[m] = q[m + 1]
    <3>1. \A m \in DOMAIN Tail(q) : m >= 1
      BY QueueTail DEF IsQueue
    <3> QED BY <1>1, <1>3, <3>1
  <2> QED BY <1>3, <2>1 DEF NoneOf, LastOf
<1>4. CASE n # 1
  <2>1. n - 1 \in DOMAIN Tail(q) /\ (n - 1) + 1 = n
    BY <1>2, <1>4, QueueTail
  <2>2. Tail(q)[n - 1] = q[n]
    BY <1>1, <2>1
  <2>3. \A m \in DOMAIN Tail(q) : m > n - 1 => m + 1 \in DOMAIN q /\ m + 1 > n /\ Tail(q)[m] = q[m + 1]
    BY <1>1, <1>2
  <2> QED BY <1>4, <2>1, <2>2, <2>3 DEF LastOf
<1> QED BY <1>3, <1>4

-----------------------------------------------------------------------------
(***************************************************************************)
(* The steps                                                               *)
(***************************************************************************)
LEMMA RegularEntities ==
  ASSUME Regular, entities \in Listing
  PROVE  /\ entities \in Seq(Entity) /\ DistinctKeys(entities) /\ PlainNames(entities)
         /\ \A i \in Endpoint : entities[i].kind \in Kind /\ i \in Nat \ {0}
<1>1. entities \in Seq(Entity)
  BY ListingAssumption
<1>2. \A i \in DOMAIN entities : entities[i] \in Entity /\ i \in Nat \ {0}
  BY <1>1
<1> QED BY <1>1, <1>2 DEF Regular, Endpoint, Entity

LEMMA FoundByKey ==
  ASSUME Regular, entities \in Listing, NEW i \in Endpoint
  PROVE  findEndpointByKey(entities[i].key) = {i}
BY RegularEntities DEF findEndpointByKey, DistinctKeys, Endpoint

LEMMA OwnIds ==
  ASSUME Regular, entities \in Listing
  PROVE  OwnObjectId /\ \A i, j \in Endpoint :
           entities[i].device = entities[j].device /\ objectId(i) = objectId(j) => i = j
<1>1. ASSUME NEW i \in Endpoint, NEW j \in Endpoint, entities[i].device = entities[j].device,
             objectId(i) = objectId(j)
      PROVE  i = j
  BY <1>1, RegularEntities, ObjectIdsDiffer DEF Endpoint, objectId
<1> QED BY <1>1 DEF OwnObjectId, endpointForAction

\* The entities of a node never change: what is said of them alone stays true.
LEMMA SameEntities ==
  ASSUME entities' = entities
  PROVE  /\ Endpoint' = Endpoint /\ AllDevices' = AllDevices
         /\ \A i : objectId(i)' = objectId(i) /\ Topic(i)' = Topic(i)
         /\ \A i, v : Message(i, v)' = Message(i, v)
         /\ \A i, o : AskedState(i, o)' = AskedState(i, o)
BY DEF Endpoint, AllDevices, objectId, Topic, Message, AskedState

LEMMA SameNode ==
  ASSUME entities' = entities, NEW i, node'[i] = node[i]
  PROVE  Meaning(i)' = Meaning(i) /\ (NothingOmitted(i)' <=> NothingOmitted(i))
BY SameEntities DEF Meaning, NothingOmitted

LEMMA SameQueues ==
  ASSUME entities' = entities
  PROVE  /\ \A m : OwnReport(m)' <=> OwnReport(m)
         /\ \A c : OwnCommand(c)' <=> OwnCommand(c)
BY SameEntities DEF OwnReport, OwnCommand

\* An endpoint whose state and whose entity stay as they are, while the reports of
\* others come and go.
LEMMA ReportedStays ==
  ASSUME entities' = entities, NEW i, node'[i] = node[i], stateMap'[i] = stateMap[i],
         IsQueue(states), Reported(i),
         \/ states' = states
         \/ \E x : x.owner # i /\ states' = Append(states, x)
         \/ states # <<>> /\ Head(states).owner # i /\ states' = Tail(states)
  PROVE  Reported(i)'
<1>1. /\ Meaning(i)' = Meaning(i) /\ (NothingOmitted(i)' <=> NothingOmitted(i))
      /\ Message(i, node[i])' = Message(i, node[i])
  <2>1. Message(i, node[i])' = Message(i, node[i])
    BY DEF Message
  <2> QED BY <2>1, SameNode
<1>2. (NothingOmitted(i)' => Agrees(i, Meaning(i))') <=> (NothingOmitted(i) => Agrees(i, Meaning(i)))
  BY <1>1 DEF Agrees
<1>3. SUFFICES \/ \E n \in DOMAIN states' : LastOf(states', i, n) /\ states'[n] = Message(i, node[i])
               \/ NoneOf(states', i) /\ (NothingOmitted(i) => Agrees(i, Meaning(i)))
  BY <1>1, <1>2 DEF Reported
<1>4. CASE states' = states
  BY <1>4 DEF Reported
<1>5. CASE \E x : x.owner # i /\ states' = Append(states, x)
  BY <1>5, LastAfterOther DEF Reported
<1>6. CASE states # <<>> /\ Head(states).owner # i /\ states' = Tail(states)
  <2>1. CASE NoneOf(states, i)
    <3>1. NothingOmitted(i) => Agrees(i, Meaning(i))
      BY <2>1 DEF Reported, NoneOf, LastOf
    <3>2. NoneOf(Tail(states), i)
      BY <1>6, <2>1, NoneInTail
    <3> QED BY <1>6, <3>1, <3>2
  <2>2. CASE \E n \in DOMAIN states : LastOf(states, i, n) /\ states[n] = Message(i, node[i])
    <3>1. PICK n \in DOMAIN states : LastOf(states, i, n) /\ states[n] = Message(i, node[i])
      BY <2>2
    <3>2. n # 1
      BY <1>6, <3>1, QueueTail DEF LastOf
    <3>3. n - 1 \in DOMAIN Tail(states) /\ LastOf(Tail(states), i, n - 1) /\ Tail(states)[n - 1] = states[n]
      BY <1>6, <3>1, <3>2, LastInTail
    <3> QED BY <1>6, <3>1, <3>3
  <2> QED BY <2>1, <2>2 DEF Reported
<1> QED BY <1>4, <1>5, <1>6

\* An entity whose node and whose last order stay as they are, while the commands
\* for others come and go.
LEMMA CarriedStays ==
  ASSUME entities' = entities, NEW i, node'[i] = node[i], asked'[i] = asked[i],
         IsQueue(commands), Carried(i),
         \/ commands' = commands
         \/ \E x : x.owner # i /\ commands' = Append(commands, x)
         \/ commands # <<>> /\ Head(commands).owner # i /\ commands' = Tail(commands)
  PROVE  Carried(i)'
<1>1. /\ Meaning(i)' = Meaning(i)
      /\ AskedState(i, asked[i])' = AskedState(i, asked[i])
  <2>1. AskedState(i, asked[i])' = AskedState(i, asked[i])
    BY DEF AskedState, objectId
  <2> QED BY <2>1, SameNode
<1>2. SUFFICES ASSUME asked[i] # Nothing
               PROVE  \/ \E n \in DOMAIN commands' : LastOf(commands', i, n) /\ commands'[n].order = asked[i]
                      \/ NoneOf(commands', i) /\ Shows(Meaning(i), AskedState(i, asked[i]))
  BY <1>1 DEF Carried
<1>3. CASE commands' = commands
  BY <1>2, <1>3 DEF Carried
<1>4. CASE \E x : x.owner # i /\ commands' = Append(commands, x)
  <2>1. PICK x : x.owner # i /\ commands' = Append(commands, x)
    BY <1>4
  <2>2. CASE NoneOf(commands, i) /\ Shows(Meaning(i), AskedState(i, asked[i]))
    <3>1. NoneOf(Append(commands, x), i)
      BY <2>1, <2>2, LastAfterOther
    <3> QED BY <2>1, <2>2, <3>1
  <2>3. CASE \E n \in DOMAIN commands : LastOf(commands, i, n) /\ commands[n].order = asked[i]
    <3>1. PICK n \in DOMAIN commands : LastOf(commands, i, n) /\ commands[n].order = asked[i]
      BY <2>3
    <3>2. /\ n \in DOMAIN Append(commands, x) /\ LastOf(Append(commands, x), i, n)
          /\ Append(commands, x)[n] = commands[n]
      BY <2>1, <3>1, LastAfterOther
    <3> QED BY <2>1, <3>1, <3>2
  <2> QED BY <1>2, <2>2, <2>3 DEF Carried
<1>5. CASE commands # <<>> /\ Head(commands).owner # i /\ commands' = Tail(commands)
  <2>1. CASE NoneOf(commands, i)
    <3>1. Shows(Meaning(i), AskedState(i, asked[i]))
      BY <1>2, <2>1 DEF Carried, NoneOf, LastOf
    <3>2. NoneOf(Tail(commands), i)
      BY <1>5, <2>1, NoneInTail
    <3> QED BY <1>5, <3>1, <3>2
  <2>2. CASE \E n \in DOMAIN commands : LastOf(commands, i, n) /\ commands[n].order = asked[i]
    <3>1. PICK n \in DOMAIN commands : LastOf(commands, i, n) /\ commands[n].order = asked[i]
      BY <2>2
    <3>2. n # 1
      BY <1>5, <3>1, QueueTail DEF LastOf
    <3>3. n - 1 \in DOMAIN Tail(commands) /\ LastOf(Tail(commands), i, n - 1)
          /\ Tail(commands)[n - 1] = commands[n]
      BY <1>5, <3>1, <3>2, LastInTail
    <3> QED BY <1>5, <3>1, <3>3
  <2> QED BY <1>2, <2>1, <2>2 DEF Carried
<1> QED BY <1>3, <1>4, <1>5

LEMMA PropertyStays ==
  ASSUME entities' = entities, NEW i, stateMap'[i] = stateMap[i], OwnProperty(i)
  PROVE  OwnProperty(i)'
BY SameEntities DEF OwnProperty

\* Publishing, the broker and the timer leave the rest alone.
LEMMA QuietStep ==
  ASSUME StateInv, UNCHANGED <<entities, node, states, commands, subscribed, stateMap, asked>>,
         DOMAIN published' = DOMAIN published
  PROVE  StateInv'
<1>1. Typed'
  BY SameEntities DEF StateInv, Typed
<1>2. Queued'
  BY SameQueues DEF StateInv, Queued
<1>3. ASSUME NEW i \in Endpoint, subscribed PROVE Reported(i)'
  BY <1>3, ReportedStays DEF StateInv, Typed
<1>4. ASSUME NEW i \in Endpoint PROVE Carried(i)'
  BY <1>4, CarriedStays DEF StateInv, Typed
<1>5. ASSUME NEW i \in Endpoint PROVE OwnProperty(i)'
  BY <1>5, PropertyStays DEF StateInv
<1> QED BY <1>1, <1>2, <1>3, <1>4, <1>5, SameEntities DEF StateInv

LEMMA PublishedTopics ==
  ASSUME NEW ds, NEW maps, publishDeviceState(ds, maps)
  PROVE  DOMAIN published' = DOMAIN published
BY DEF publishDeviceState

LEMMA InitInv ==
  ASSUME Regular, Init
  PROVE  StateInv
<1>1. Typed
  <2>1. \A i \in Endpoint : IsValue(entities[i].kind, node[i])
    BY RegularEntities DEF Init, Regular
  <2> QED BY <2>1, EmptyQueue DEF Init, Typed
<1>2. Queued
  BY EmptyQueue DEF Init, Queued
<1>3. \A i \in Endpoint : Carried(i)
  BY DEF Init, Carried
<1>4. \A i \in Endpoint : OwnProperty(i)
  BY EmptyQueue DEF Init, OwnProperty, Nothing
<1> QED BY <1>1, <1>2, <1>3, <1>4 DEF StateInv, Init

LEMMA NodeChangesInv ==
  ASSUME Regular, StateInv, NEW i \in Endpoint, NEW v \in Sample[entities[i].kind], NodeChanges(i, v)
  PROVE  StateInv'
<1> DEFINE x == Message(i, v)
<1>1. /\ entities' = entities /\ commands' = commands /\ subscribed' = subscribed
      /\ stateMap' = stateMap /\ published' = published
      /\ states' = IF subscribed THEN Append(states, x) ELSE states
  BY DEF NodeChanges
<1>2. node' = [node EXCEPT ![i] = v] /\ asked' = [asked EXCEPT ![i] = Nothing]
  BY DEF NodeChanges
<1>3. Typed /\ Queued
  BY DEF StateInv
<1>4. /\ node'[i] = v /\ asked'[i] = Nothing /\ DOMAIN node' = Endpoint /\ DOMAIN asked' = Endpoint
      /\ \A j \in Endpoint \ {i} : node'[j] = node[j] /\ asked'[j] = asked[j]
  BY <1>2, <1>3 DEF Typed
<1>5. x.owner = i /\ OwnReport(x)
  BY DEF Message, OwnReport
<1> HIDE DEF x
<1>6. IsQueue(states) /\ IsQueue(states')
  BY <1>1, <1>3, QueueAppend DEF Typed
<1>7. Typed'
  <2>1. IsValue(entities[i].kind, v)
    BY <1>3, RegularEntities DEF Typed, Regular
  <2>2. \A j \in Endpoint : IsValue(entities[j].kind, node'[j])
    BY <1>3, <1>4, <2>1 DEF Typed
  <2> QED BY <1>1, <1>3, <1>4, <1>6, <2>2, SameEntities DEF Typed
<1>8. Queued'
  <2>1. \A n \in DOMAIN states' : OwnReport(states'[n])
    BY <1>1, <1>3, <1>5, <1>6, QueueAppend DEF Queued
  <2> QED BY <1>1, <1>3, <2>1, SameQueues DEF Queued
<1>9. ASSUME NEW j \in Endpoint, subscribed PROVE Reported(j)'
  <2>1. CASE j = i
    <3>1. Message(i, node[i])' = x
      BY <1>1, <1>4 DEF Message, x
    <3>2. \E n \in DOMAIN states' : LastOf(states', i, n) /\ states'[n] = x
      <4>1. states' = Append(states, x)
        BY <1>1, <1>9
      <4>2. Len(states) + 1 \in DOMAIN Append(states, x) /\ LastOf(Append(states, x), i, Len(states) + 1)
        BY <1>5, <1>6, LastAppended
      <4>3. Append(states, x)[Len(states) + 1] = x
        BY <1>6, QueueAppend
      <4> QED BY <4>1, <4>2, <4>3
    <3> QED BY <2>1, <3>1, <3>2 DEF Reported
  <2>2. CASE j # i
    <3>1. x.owner # j /\ states' = Append(states, x)
      BY <1>1, <1>5, <1>9, <2>2
    <3> QED BY <1>1, <1>4, <1>6, <1>9, <2>2, <3>1, ReportedStays DEF StateInv
  <2> QED BY <2>1, <2>2
<1>10. ASSUME NEW j \in Endpoint PROVE Carried(j)'
  <2>1. CASE j = i
    BY <1>4, <2>1 DEF Carried
  <2>2. CASE j # i
    BY <1>1, <1>3, <1>4, <2>2, CarriedStays DEF StateInv, Typed
  <2> QED BY <2>1, <2>2
<1>11. ASSUME NEW j \in Endpoint PROVE OwnProperty(j)'
  BY <1>1, PropertyStays DEF StateInv
<1> QED BY <1>1, <1>7, <1>8, <1>9, <1>10, <1>11, SameEntities DEF StateInv

LEMMA DisconnectedInv ==
  ASSUME StateInv, Disconnected
  PROVE  StateInv'
<1>1. /\ entities' = entities /\ node' = node /\ stateMap' = stateMap /\ published' = published
      /\ states' = <<>> /\ commands' = <<>> /\ ~subscribed'
      /\ asked' = [i \in Endpoint |-> Nothing]
  BY DEF Disconnected
<1>2. Typed'
  BY <1>1, SameEntities, EmptyQueue DEF StateInv, Typed
<1>3. Queued'
  BY <1>1, EmptyQueue DEF Queued
<1>4. \A i \in Endpoint : Carried(i)'
  BY <1>1 DEF Carried
<1>5. \A i \in Endpoint : OwnProperty(i)'
  BY <1>1, PropertyStays DEF StateInv
<1> QED BY <1>1, <1>2, <1>3, <1>4, <1>5, SameEntities DEF StateInv

LEMMA SubscribeInv ==
  ASSUME Regular, StateInv, Subscribe
  PROVE  StateInv'
<1>1. /\ entities' = entities /\ node' = node /\ published' = published /\ asked' = asked
      /\ states' = [i \in Endpoint |-> Message(i, node[i])] /\ commands' = commands /\ subscribed'
      /\ stateMap' = [i \in Endpoint |-> Nothing]
  BY DEF Subscribe, NewEndpoints
<1>2. Typed /\ Queued
  BY DEF StateInv
<1>3. \A i \in Endpoint : Message(i, node[i]).owner = i /\ OwnReport(Message(i, node[i]))
  BY DEF Message, OwnReport
<1>4. DOMAIN states' = Endpoint /\ \A i \in Endpoint : states'[i] = Message(i, node[i])
  BY <1>1
<1>5. IsQueue(states')
  <2>1. Endpoint = 1..Len(entities) /\ Len(entities) \in Nat
    BY <1>2, RegularEntities DEF Typed, Endpoint
  <2> DEFINE S == {states'[n] : n \in DOMAIN states'}
             M(n) == Message(n, node[n])
  <2>2. states' = [i \in 1..Len(entities) |-> M(i)] /\ \A i \in 1..Len(entities) : M(i) \in S
    BY <1>1, <1>4, <2>1
  <2> HIDE DEF S, M
  <2>3. states' \in Seq(S)
    BY <2>1, <2>2
  <2> QED BY <2>3 DEF IsQueue, S
<1>6. Typed'
  BY <1>1, <1>2, <1>5, SameEntities DEF Typed
<1>7. Queued'
  BY <1>1, <1>2, <1>3, <1>4, SameQueues DEF Queued
<1>8. ASSUME NEW i \in Endpoint PROVE Reported(i)'
  <2>1. Message(i, node[i])' = Message(i, node[i])
    BY <1>1 DEF Message
  <2>2. LastOf(states', i, i)
    BY <1>3, <1>4, RegularEntities, <1>2 DEF LastOf, Typed
  <2> QED BY <1>4, <2>1, <2>2 DEF Reported
<1>9. ASSUME NEW i \in Endpoint PROVE Carried(i)'
  BY <1>1, <1>2, CarriedStays DEF StateInv, Typed
<1>10. \A i \in Endpoint : OwnProperty(i)'
  BY <1>1, EmptyQueue DEF OwnProperty, Nothing
<1> QED BY <1>1, <1>6, <1>7, <1>8, <1>9, <1>10, SameEntities DEF StateInv
\* A report becomes the property of an entity on the shared topic, and no other.
LEMMA FinishedProperty ==
  ASSUME NEW e, e.kind \in Kind, ~special(e), NEW id, NEW m
  PROVE  DOMAIN Finish(e.kind, e, id, m) \subseteq {id}
<1>1. e.kind \in {"toggle", "binary_sensor", "sensor", "select", "number"}
  BY DEF special, Kind
<1>2. \A x : DOMAIN (id :> x) = {id}
  BY SingleMap
<1>3. DOMAIN Nothing = {}
  BY DEF Nothing
<1> QED BY <1>1, <1>2, <1>3 DEF Finish

\* What a report does: it changes the endpoint of its entity.
LEMMA ReportHandled ==
  ASSUME Regular, StateInv, processStateUpdate
  PROVE  LET o == Head(states).owner
             e == entities[o]
         IN /\ states # <<>> /\ Head(states) = states[1] /\ 1 \in DOMAIN states
            /\ o \in Endpoint /\ Head(states).kind = e.kind
            /\ stateMap' = [stateMap EXCEPT ![o] =
                 Finish(e.kind, e, objectId(o), Decode(e.kind, Head(states).fields) @@ ZeroDefaults(e.kind)) @@ @]
            /\ publishDeviceState({e.device}, stateMap')
<1> DEFINE msg == Head(states)
<1>1. states # <<>>
  BY DEF processStateUpdate
<1>2. msg = states[1] /\ 1 \in DOMAIN states
  BY <1>1, QueueTail DEF StateInv, Typed
<1>3. OwnReport(msg)
  BY <1>2 DEF StateInv, Queued
<1>4. msg.owner \in Endpoint /\ msg.key = entities[msg.owner].key /\ msg.kind = entities[msg.owner].kind
  BY <1>3 DEF OwnReport
<1>5. findEndpointByKey(msg.key) = {msg.owner}
  BY <1>4, FoundByKey DEF StateInv, Typed
<1>6. \E i \in findEndpointByKey(msg.key) :
      \E m \in {Decode(msg.kind, msg.fields) @@ ZeroDefaults(msg.kind)} :
      \E state \in {Finish(msg.kind, entities[i], objectId(i), m)} :
        /\ stateMap' = [stateMap EXCEPT ![i] = state @@ @]
        /\ publishDeviceState({entities[i].device}, stateMap')
  BY <1>5 DEF processStateUpdate
<1> QED BY <1>1, <1>2, <1>4, <1>5, <1>6

LEMMA processStateUpdateInv ==
  ASSUME Regular, StateInv, processStateUpdate
  PROVE  StateInv'
<1>0. PICK o : o = Head(states).owner
  OBVIOUS
<1> DEFINE e == entities[o]
           state == Finish(e.kind, e, objectId(o), Decode(e.kind, Head(states).fields) @@ ZeroDefaults(e.kind))
<1>1. /\ entities' = entities /\ node' = node /\ commands' = commands /\ subscribed' = subscribed
      /\ asked' = asked /\ states' = Tail(states)
  BY DEF processStateUpdate
<1>2. Typed /\ Queued
  BY DEF StateInv
<1>3. /\ states # <<>> /\ Head(states) = states[1] /\ 1 \in DOMAIN states /\ o \in Endpoint
      /\ stateMap' = [stateMap EXCEPT ![o] = state @@ @]
      /\ publishDeviceState({e.device}, stateMap')
  BY <1>0, ReportHandled
<1>4. e.kind \in Kind
  BY <1>2, <1>3, RegularEntities DEF Typed
<1>property. ~special(e) => DOMAIN state \subseteq {objectId(o)}
  BY <1>4, FinishedProperty
<1>shown. ASSUME states[1] = Message(o, node[o]), NothingOmitted(o)
          PROVE  Shows(state, Meaning(o))
  <2>1. Head(states).fields = Encode(node[o])
    BY <1>3, <1>shown DEF Message
  <2>2. IsValue(e.kind, node[o]) /\ AllSent(e.kind, node[o])
    BY <1>2, <1>3, <1>shown DEF Typed, NothingOmitted
  <2>3. Shows(Shown(e.kind, e, objectId(o), node[o]), MeaningOf(e, objectId(o), node[o]))
    BY <1>4, <2>2, Converted
  <2> QED BY <2>1, <2>3 DEF Shown, Meaning
<1> HIDE DEF state
<1>5. /\ DOMAIN stateMap' = Endpoint /\ stateMap'[o] = state @@ stateMap[o]
      /\ \A j \in Endpoint \ {o} : stateMap'[j] = stateMap[j]
  BY <1>2, <1>3 DEF Typed
<1>6. IsQueue(states) /\ IsQueue(states')
  BY <1>1, <1>2, <1>3, QueueTail DEF Typed
<1>7. Typed'
  <2>1. DOMAIN published' = DOMAIN published
    BY <1>3, PublishedTopics
  <2> QED BY <1>1, <1>2, <1>5, <1>6, <2>1, SameEntities DEF Typed
<1>8. Queued'
  <2>1. \A n \in DOMAIN states' : OwnReport(states'[n])
    BY <1>1, <1>2, <1>3, <1>6, QueueTail DEF Queued
  <2>2. subscribed
    BY <1>2, <1>3 DEF Queued
  <2> QED BY <1>1, <1>2, <2>1, <2>2, SameQueues DEF Queued
<1>9. ASSUME NEW j \in Endpoint, subscribed PROVE Reported(j)'
  <2>1. CASE j = o
    <3>1. PICK n \in DOMAIN states : LastOf(states, o, n) /\ states[n] = Message(o, node[o])
      BY <1>0, <1>3, <1>9 DEF StateInv, Reported, NoneOf
    <3>2. CASE n # 1
      <4>1. n - 1 \in DOMAIN states' /\ LastOf(states', o, n - 1) /\ states'[n - 1] = Message(o, node[o])
        BY <1>1, <1>3, <1>6, <3>1, <3>2, LastInTail
      <4>2. Message(o, node[o])' = Message(o, node[o])
        BY <1>1, SameEntities DEF Message
      <4> QED BY <2>1, <4>1, <4>2 DEF Reported
    <3>3. CASE n = 1
      <4>1. NoneOf(states', o)
        BY <1>1, <1>3, <1>6, <3>1, <3>3, LastInTail
      <4>2. ASSUME NothingOmitted(o) PROVE Shows(state @@ stateMap[o], Meaning(o))
        <5>1. Shows(state, Meaning(o))
          BY <1>shown, <3>1, <3>3, <4>2
        <5> QED BY <5>1, ShowsMerged
      <4>3. Meaning(o)' = Meaning(o) /\ (NothingOmitted(o)' <=> NothingOmitted(o))
        BY <1>1, SameNode
      <4> QED BY <1>5, <2>1, <4>1, <4>2, <4>3 DEF Reported, Agrees
    <3> QED BY <3>2, <3>3
  <2>2. CASE j # o
    <3>1. Reported(j) /\ stateMap'[j] = stateMap[j]
      BY <1>5, <1>9, <2>2 DEF StateInv
    <3> QED BY <1>0, <1>1, <1>3, <1>6, <2>2, <3>1, ReportedStays
  <2> QED BY <2>1, <2>2
<1>10. ASSUME NEW j \in Endpoint PROVE Carried(j)'
  BY <1>1, <1>2, CarriedStays DEF StateInv, Typed
<1>11. ASSUME NEW j \in Endpoint PROVE OwnProperty(j)'
  <2>1. CASE j = o
    <3>1. DOMAIN stateMap'[o] = DOMAIN state \cup DOMAIN stateMap[o]
      BY <1>5, MergedMaps
    <3>2. ~special(e) => DOMAIN stateMap[o] \subseteq {objectId(o)}
      BY <1>3 DEF StateInv, OwnProperty
    <3>3. objectId(o)' = objectId(o) /\ entities'[o] = e
      BY <1>1, SameEntities
    <3> QED BY <1>property, <2>1, <3>1, <3>2, <3>3 DEF OwnProperty
  <2>2. CASE j # o
    BY <1>1, <1>5, <2>2, PropertyStays DEF StateInv
  <2> QED BY <2>1, <2>2
<1> QED BY <1>1, <1>7, <1>8, <1>9, <1>10, <1>11, SameEntities DEF StateInv
\* A command depends on the status of the endpoint as on one of two.
LEMMA StatusOf ==
  ASSUME NEW kind \in Kind \ {"sensor", "binary_sensor"}, NEW status, NEW key, NEW v
  PROVE  \E s \in {"on", "off"} : CommandFields(kind, status, key, v) = CommandFields(kind, s, key, v)
<1> DEFINE s == IF kind = "lock" THEN IF status = "off" THEN "off" ELSE "on"
                ELSE IF status = "on" THEN "on" ELSE "off"
<1>1. s \in {"on", "off"}
  OBVIOUS
<1>2. kind = "lock" => Locking(status, v) = Locking(s, v)
  BY DEF Locking
<1>3. kind # "lock" => TurningOn(status, v) = TurningOn(s, v)
  BY DEF TurningOn
<1> HIDE DEF s
<1>4. CASE kind = "lock"
  BY <1>1, <1>2, <1>4 DEF CommandFields
<1>5. CASE kind \in {"switch", "toggle"}
  BY <1>1, <1>3, <1>5 DEF CommandFields
<1>6. CASE kind = "light"
  <2>1. LightFields(status, key, v) = LightFields(s, key, v)
    BY <1>3, <1>6 DEF LightFields
  <2> QED BY <1>1, <1>6, <2>1 DEF CommandFields
<1>7. CASE kind \in {"cover", "legacy_cover"}
  BY <1>1, <1>7 DEF CommandFields
<1>8. CASE kind = "climate"
  BY <1>1, <1>8 DEF CommandFields
<1>9. CASE kind \in {"select", "number"}
  BY <1>1, <1>9 DEF CommandFields
<1> QED BY <1>4, <1>5, <1>6, <1>7, <1>8, <1>9 DEF Kind

\* An order reaches the endpoint that it is for.
LEMMA OrderSent ==
  ASSUME Regular, StateInv, NEW i \in Endpoint, NEW o \in Order[entities[i].kind], mqttReceived(i, o)
  PROVE  LET x == [owner |-> i, order |-> o,
                   fields |-> sendCommand(i, Key(entities[i], objectId(i), o), o[2])]
         IN /\ commands' = IF subscribed THEN Append(commands, x) ELSE commands
            /\ OwnCommand(x) /\ IsOrder(entities[i].kind, o)
<1> DEFINE e == entities[i]
           key == Key(e, objectId(i), o)
           X(j) == [owner |-> j, order |-> o, fields |-> sendCommand(j, key, o[2])]
<1>1. entities \in Listing
  BY DEF StateInv, Typed
<1>2. \E j \in (IF special(e) THEN {i} ELSE endpointForAction(e.device, key)) :
        commands' = IF subscribed THEN Append(commands, X(j)) ELSE commands
  BY DEF mqttReceived
<1>3. ~special(e) => endpointForAction(e.device, key) = {i}
  BY <1>1, OwnIds DEF OwnObjectId, Key
<1>4. commands' = IF subscribed THEN Append(commands, X(i)) ELSE commands
  BY <1>2, <1>3
<1>5. IsOrder(e.kind, o)
  BY <1>1, RegularEntities DEF Regular
<1>6. OwnCommand(X(i))
  <2>1. \E s \in {"on", "off"} : sendCommand(i, key, o[2]) = CommandFields(e.kind, s, key, o[2])
    <3>1. e.kind \in Kind \ {"sensor", "binary_sensor"}
      BY <1>1, <1>5, RegularEntities DEF IsOrder
    <3> DEFINE status == Get(stateMap[i], "status", "")
    <3>2. sendCommand(i, key, o[2]) = CommandFields(e.kind, status, key, o[2])
      BY DEF sendCommand
    <3> HIDE DEF e, key, status
    <3>3. \E s \in {"on", "off"} : CommandFields(e.kind, status, key, o[2]) = CommandFields(e.kind, s, key, o[2])
      BY <3>1, StatusOf
    <3> QED BY <3>2, <3>3
  <2> HIDE DEF sendCommand
  <2>2. X(i).owner = i /\ X(i).order = o /\ X(i).fields = sendCommand(i, key, o[2])
    OBVIOUS
  <2> HIDE DEF X
  <2> QED BY <1>5, <2>1, <2>2 DEF OwnCommand
<1> QED BY <1>4, <1>5, <1>6

LEMMA mqttReceivedInv ==
  ASSUME Regular, StateInv, NEW i \in Endpoint, NEW o \in Order[entities[i].kind], mqttReceived(i, o)
  PROVE  StateInv'
<1>0. PICK x : /\ x = [owner |-> i, order |-> o,
                       fields |-> sendCommand(i, Key(entities[i], objectId(i), o), o[2])]
  OBVIOUS
<1>1. /\ entities' = entities /\ node' = node /\ states' = states /\ subscribed' = subscribed
      /\ stateMap' = stateMap /\ published' = published
      /\ asked' = [asked EXCEPT ![i] = IF subscribed /\ o \notin Relative THEN o ELSE Nothing]
  BY DEF mqttReceived
<1>2. Typed /\ Queued
  BY DEF StateInv
<1>3. /\ commands' = (IF subscribed THEN Append(commands, x) ELSE commands)
      /\ OwnCommand(x) /\ IsOrder(entities[i].kind, o)
  BY <1>0, OrderSent
<1>4. x.owner = i /\ x.order = o
  BY <1>0
<1>5. /\ asked'[i] = (IF subscribed /\ o \notin Relative THEN o ELSE Nothing)
      /\ DOMAIN asked' = Endpoint
      /\ \A j \in Endpoint \ {i} : asked'[j] = asked[j]
  BY <1>1, <1>2 DEF Typed
<1>6. IsQueue(commands) /\ IsQueue(commands')
  BY <1>2, <1>3, QueueAppend DEF Typed
<1>7. Typed'
  BY <1>1, <1>2, <1>5, <1>6, SameEntities DEF Typed
<1>8. Queued'
  <2>1. \A n \in DOMAIN commands' : OwnCommand(commands'[n])
    BY <1>2, <1>3, <1>6, QueueAppend DEF Queued
  <2> QED BY <1>1, <1>2, <1>3, <2>1, SameQueues DEF Queued
<1>9. ASSUME NEW j \in Endpoint, subscribed PROVE Reported(j)'
  BY <1>1, <1>2, <1>9, ReportedStays DEF StateInv, Typed
<1>10. ASSUME NEW j \in Endpoint PROVE Carried(j)'
  <2>1. CASE j = i /\ asked'[i] # Nothing
    <3>1. subscribed /\ o \notin Relative /\ asked'[i] = o /\ commands' = Append(commands, x)
      BY <1>3, <1>5, <2>1
    <3>2. Len(commands) + 1 \in DOMAIN commands' /\ LastOf(commands', i, Len(commands) + 1)
      BY <1>4, <1>6, <3>1, LastAppended
    <3>3. commands'[Len(commands) + 1].order = o
      BY <1>4, <1>6, <3>1, QueueAppend
    <3>4. Relative' = Relative
      BY DEF Relative
    <3> QED BY <1>1, <1>3, <2>1, <3>1, <3>2, <3>3, <3>4 DEF Carried
  <2>2. CASE j = i /\ asked'[i] = Nothing
    BY <2>2 DEF Carried
  <2>3. CASE j # i
    <3>1. commands' = commands \/ (x.owner # j /\ commands' = Append(commands, x))
      BY <1>3, <1>4, <2>3
    <3>2. Carried(j) /\ asked'[j] = asked[j]
      BY <1>5, <2>3 DEF StateInv
    <3> QED BY <1>1, <1>6, <3>1, <3>2, CarriedStays
  <2> QED BY <2>1, <2>2, <2>3
<1>11. ASSUME NEW j \in Endpoint PROVE OwnProperty(j)'
  BY <1>1, PropertyStays DEF StateInv
<1> QED BY <1>1, <1>7, <1>8, <1>9, <1>10, <1>11, SameEntities DEF StateInv

LEMMA NodeExecutesInv ==
  ASSUME Regular, StateInv, NodeExecutes
  PROVE  StateInv'
<1>0. PICK c : c = Head(commands)
  OBVIOUS
<1> DEFINE i == c.owner
           e == entities[i]
<1>v. PICK v : v = Executed(e.kind, node[i], c.fields)
  OBVIOUS
<1>x. PICK x : x = Message(i, v)
  OBVIOUS
<1>1. /\ entities' = entities /\ subscribed' = subscribed /\ stateMap' = stateMap
      /\ published' = published /\ asked' = asked
      /\ commands # <<>> /\ commands' = Tail(commands)
      /\ node' = [node EXCEPT ![i] = v] /\ states' = Append(states, x)
  BY <1>0, <1>v, <1>x DEF NodeExecutes
<1>2. Typed /\ Queued
  BY DEF StateInv
<1>3. IsQueue(commands) /\ IsQueue(commands') /\ c = commands[1] /\ 1 \in DOMAIN commands
  BY <1>0, <1>1, <1>2, QueueTail DEF Typed
<1>4. subscribed /\ OwnCommand(c)
  BY <1>1, <1>2, <1>3 DEF Queued
<1>5. i \in Endpoint /\ e.kind \in Kind
  BY <1>2, <1>4, RegularEntities DEF OwnCommand, Typed
<1>6. /\ IsValue(e.kind, v)
      /\ c.order \notin Relative => Shows(MeaningOf(e, objectId(i), v), AskedState(i, c.order))
  <2>1. PICK s \in {"on", "off"} : c.fields = CommandFields(e.kind, s, Key(e, objectId(i), c.order), c.order[2])
    BY <1>4 DEF OwnCommand
  <2>2. IsOrder(e.kind, c.order) /\ IsValue(e.kind, node[i])
    BY <1>2, <1>4, <1>5 DEF OwnCommand, Typed
  <2>3. Performed(e, objectId(i), node[i],
                  CommandFields(e.kind, s, Key(e, objectId(i), c.order), c.order[2]), c.order)
    BY <1>5, <2>2, OrderPerformed
  <2> QED BY <1>v, <2>1, <2>3 DEF Performed, AskedState
<1>7. node'[i] = v /\ DOMAIN node' = Endpoint /\ \A j \in Endpoint \ {i} : node'[j] = node[j]
  BY <1>1, <1>2, <1>5 DEF Typed
<1>8. x.owner = i /\ OwnReport(x)
  BY <1>5, <1>x DEF Message, OwnReport
<1>9. IsQueue(states) /\ IsQueue(states')
  BY <1>1, <1>2, QueueAppend DEF Typed
<1>10. Typed'
  <2>1. \A j \in Endpoint : IsValue(entities[j].kind, node'[j])
    BY <1>2, <1>6, <1>7 DEF Typed
  <2> QED BY <1>1, <1>2, <1>3, <1>7, <1>9, <2>1, SameEntities DEF Typed
<1>11. Queued'
  <2>1. \A n \in DOMAIN states' : OwnReport(states'[n])
    BY <1>1, <1>2, <1>8, <1>9, QueueAppend DEF Queued
  <2>2. \A n \in DOMAIN commands' : OwnCommand(commands'[n])
    BY <1>1, <1>2, <1>3, QueueTail DEF Queued
  <2> QED BY <1>1, <1>4, <2>1, <2>2, SameQueues DEF Queued
<1>12. ASSUME NEW j \in Endpoint PROVE Reported(j)'
  <2>1. CASE j = i
    <3>1. Message(i, node[i])' = x
      BY <1>1, <1>7, <1>x DEF Message
    <3>2. Len(states) + 1 \in DOMAIN states' /\ LastOf(states', i, Len(states) + 1)
      BY <1>1, <1>8, <1>9, LastAppended
    <3>3. states'[Len(states) + 1] = x
      BY <1>1, <1>9, QueueAppend
    <3> QED BY <2>1, <3>1, <3>2, <3>3 DEF Reported
  <2>2. CASE j # i
    <3>1. Reported(j) /\ node'[j] = node[j] /\ x.owner # j
      BY <1>4, <1>7, <1>8, <2>2 DEF StateInv
    <3> QED BY <1>1, <1>9, <3>1, ReportedStays
  <2> QED BY <2>1, <2>2
<1>13. ASSUME NEW j \in Endpoint PROVE Carried(j)'
  <2>1. CASE j = i /\ asked[i] # Nothing
    <3>1. /\ IsOrder(e.kind, asked[i]) /\ asked[i] \notin Relative
          /\ \E n \in DOMAIN commands : LastOf(commands, i, n) /\ commands[n].order = asked[i]
      BY <1>3, <1>5, <2>1 DEF StateInv, Carried, NoneOf
    <3>2. PICK n \in DOMAIN commands : LastOf(commands, i, n) /\ commands[n].order = asked[i]
      BY <3>1
    <3>3. CASE n # 1
      <4>1. n - 1 \in DOMAIN commands' /\ LastOf(commands', i, n - 1) /\ commands'[n - 1].order = asked[i]
        BY <1>1, <1>3, <3>2, <3>3, LastInTail
      <4> QED BY <1>1, <2>1, <3>1, <4>1 DEF Carried, Relative
    <3>4. CASE n = 1
      <4>1. NoneOf(commands', i) /\ c.order = asked[i]
        BY <1>1, <1>3, <3>2, <3>4, LastInTail
      <4>2. Shows(MeaningOf(e, objectId(i), v), AskedState(i, asked[i]))
        BY <1>6, <3>1, <4>1
      <4>3. Meaning(i)' = MeaningOf(e, objectId(i), v) /\ AskedState(i, asked[i])' = AskedState(i, asked[i])
        BY <1>1, <1>7, SameEntities DEF Meaning, AskedState
      <4> QED BY <1>1, <2>1, <3>1, <4>1, <4>2, <4>3 DEF Carried, Relative
    <3> QED BY <3>3, <3>4
  <2>2. CASE j = i /\ asked[i] = Nothing
    BY <1>1, <2>2 DEF Carried
  <2>3. CASE j # i
    <3>1. Carried(j) /\ node'[j] = node[j]
      BY <1>7, <2>3 DEF StateInv
    <3> QED BY <1>0, <1>1, <1>3, <2>3, <3>1, CarriedStays
  <2> QED BY <2>1, <2>2, <2>3
<1>14. ASSUME NEW j \in Endpoint PROVE OwnProperty(j)'
  BY <1>1, PropertyStays DEF StateInv
<1> QED BY <1>1, <1>10, <1>11, <1>12, <1>13, <1>14, SameEntities DEF StateInv

LEMMA StepInv ==
  ASSUME Regular, StateInv, [Next]_vars
  PROVE  StateInv'
<1>1. CASE \E i \in Endpoint : \E v \in Sample[entities[i].kind] : NodeChanges(i, v)
  BY <1>1, NodeChangesInv
<1>2. CASE \E i \in Endpoint : \E o \in Order[entities[i].kind] : mqttReceived(i, o)
  BY <1>2, mqttReceivedInv
<1>3. CASE Disconnected
  BY <1>3, DisconnectedInv
<1>4. CASE MqttLost \/ haStatus \/ mqttConnected
  BY <1>4, QuietStep DEF MqttLost, haStatus, mqttConnected
<1>5. CASE getProperties \/ updateProperties
  BY <1>5, QuietStep, PublishedTopics DEF getProperties, updateProperties
<1>6. CASE Subscribe
  BY <1>6, SubscribeInv
<1>7. CASE NodeExecutes
  BY <1>7, NodeExecutesInv
<1>8. CASE processStateUpdate
  BY <1>8, processStateUpdateInv
<1>9. CASE UNCHANGED vars
  BY <1>9, QuietStep DEF vars
<1> QED BY <1>1, <1>2, <1>3, <1>4, <1>5, <1>6, <1>7, <1>8, <1>9 DEF Next, Disturbance, Progress
-----------------------------------------------------------------------------
(***************************************************************************)
(* Publishing                                                              *)
(***************************************************************************)
\* Two entities share a topic only if neither is special, and then their
\* properties differ: what is said on a topic is what each of its entities holds.
LEMMA SnapshotShows ==
  ASSUME Regular, entities \in Listing, NEW i \in Endpoint, NEW maps,
         \A j \in Endpoint : ~special(entities[j]) => DOMAIN maps[j] \subseteq {objectId(j)}
  PROVE  Shows(Snapshot(Topic(i), maps), maps[i])
<1> DEFINE shown == {j \in Endpoint : Topic(j) = Topic(i)}
<1>1. ASSUME NEW k \in DOMAIN maps[i], NEW j \in shown, k \in DOMAIN maps[j]
      PROVE  j = i
  <2>1. j \in Endpoint /\ i \in Nat \ {0} /\ j \in Nat \ {0}
    BY RegularEntities
  <2>2. /\ entities[j].device = entities[i].device
        /\ (IF special(entities[j]) THEN j ELSE 0) = (IF special(entities[i]) THEN i ELSE 0)
    BY DEF Topic
  <2>3. CASE special(entities[i])
    BY <2>1, <2>2, <2>3
  <2>4. CASE ~special(entities[i])
    <3>1. ~special(entities[j])
      BY <2>1, <2>2, <2>4
    <3>2. k = objectId(i) /\ k = objectId(j)
      BY <1>1, <2>1, <2>4, <3>1
    <3> QED BY <2>1, <2>2, <3>2, OwnIds
  <2> QED BY <2>3, <2>4
<1>2. i \in shown
  OBVIOUS
<1> DEFINE keys == UNION {DOMAIN maps[j] : j \in shown}
           Holder(k) == CHOOSE j \in shown : k \in DOMAIN maps[j]
<1>3. Snapshot(Topic(i), maps) = [k \in keys |-> maps[Holder(k)][k]]
  BY DEF Snapshot
<1> HIDE DEF shown
<1>4. ASSUME NEW k \in DOMAIN maps[i] PROVE k \in keys /\ Holder(k) = i
  BY <1>1, <1>2
<1> HIDE DEF keys, Holder
<1> QED BY <1>3, <1>4 DEF Shows

LEMMA Republished ==
  ASSUME Regular, entities \in Listing, NEW i \in Endpoint, NEW maps, NEW ds,
         \A j \in Endpoint : ~special(entities[j]) => DOMAIN maps[j] \subseteq {objectId(j)},
         DOMAIN published = {Topic(j) : j \in Endpoint}, publishDeviceState(ds, maps)
  PROVE  /\ mqtt /\ entities[i].device \in ds => Shows(published'[Topic(i)], maps[i])
         /\ entities[i].device \notin ds => published'[Topic(i)] = published[Topic(i)]
<1> DEFINE now == Snapshot(Topic(i), maps)
<1>1. Topic(i)[1] = entities[i].device
  BY DEF Topic
<1>2. published'[Topic(i)] =
        IF mqtt /\ entities[i].device \in ds /\ now # Nothing THEN now ELSE published[Topic(i)]
  BY <1>1 DEF publishDeviceState
<1>3. Shows(now, maps[i])
  BY SnapshotShows
<1>4. now = Nothing => \A s : Shows(s, maps[i])
  BY <1>3, EmptyQueue DEF Shows, Nothing
<1> HIDE DEF now
<1> QED BY <1>2, <1>3, <1>4

LEMMA PublishedStep ==
  ASSUME Regular, StateInv, PublishedFresh, [Next]_vars
  PROVE  PublishedFresh'
<1>0. Typed /\ \A j \in Endpoint : ~special(entities[j]) => DOMAIN stateMap[j] \subseteq {objectId(j)}
  BY DEF StateInv, OwnProperty
<1>entities. entities' = entities
  BY DEF Next, Disturbance, Progress, NodeChanges, mqttReceived, Disconnected, MqttLost, haStatus,
         getProperties, Subscribe, mqttConnected, NodeExecutes, updateProperties, processStateUpdate, vars
<1>1. CASE UNCHANGED <<stateMap, mqtt, m_propertiesTimer, published>>
  BY <1>1, <1>entities, SameEntities DEF PublishedFresh
<1>2. CASE ~mqtt' \/ m_propertiesTimer'
  BY <1>2 DEF PublishedFresh
<1>3. CASE publishDeviceState(AllDevices, stateMap) /\ UNCHANGED <<stateMap, mqtt>>
  <2>1. ASSUME NEW i \in Endpoint, mqtt PROVE Shows(published'[Topic(i)], stateMap[i])
    <3>1. entities[i].device \in AllDevices
      BY DEF AllDevices
    <3> QED BY <1>0, <1>3, <2>1, <3>1, Republished DEF Typed
  <2> QED BY <1>3, <1>entities, <2>1, SameEntities DEF PublishedFresh
<1>4. CASE processStateUpdate
  <2>1. PICK o : o = Head(states).owner
    OBVIOUS
  <2> DEFINE d == entities[o].device
  <2>2. o \in Endpoint /\ publishDeviceState({d}, stateMap') /\ \A j \in Endpoint \ {o} : stateMap'[j] = stateMap[j]
    <3>1. /\ o \in Endpoint /\ publishDeviceState({d}, stateMap')
          /\ \E x : stateMap' = [stateMap EXCEPT ![o] = x]
      BY <1>4, <2>1, ReportHandled
    <3> QED BY <1>0, <3>1 DEF Typed
  <2>3. \A j \in Endpoint : ~special(entities[j]) => DOMAIN stateMap'[j] \subseteq {objectId(j)}
    BY <1>4, <1>entities, StepInv, SameEntities DEF StateInv, OwnProperty
  <2>4. ASSUME NEW i \in Endpoint, mqtt, ~m_propertiesTimer
        PROVE  Shows(published'[Topic(i)], stateMap'[i])
    <3>1. CASE entities[i].device = d
      BY <1>0, <2>2, <2>3, <2>4, <3>1, Republished DEF Typed
    <3>2. CASE entities[i].device # d
      <4>1. published'[Topic(i)] = published[Topic(i)] /\ stateMap'[i] = stateMap[i]
        BY <1>0, <2>2, <2>3, <3>2, Republished DEF Typed
      <4> QED BY <2>4, <4>1 DEF PublishedFresh
    <3> QED BY <3>1, <3>2
  <2>5. mqtt' = mqtt /\ m_propertiesTimer' = m_propertiesTimer
    BY <1>4 DEF processStateUpdate
  <2> QED BY <1>entities, <2>4, <2>5, SameEntities DEF PublishedFresh
<1> QED BY <1>1, <1>2, <1>3, <1>4
        DEF Next, Disturbance, Progress, NodeChanges, mqttReceived, Disconnected, MqttLost, haStatus,
            getProperties, Subscribe, mqttConnected, NodeExecutes, updateProperties, vars

-----------------------------------------------------------------------------
(***************************************************************************)
(* The theorems                                                            *)
(***************************************************************************)
\* With nothing under way to the service, the endpoints show the entities.
LEMMA HandledShown ==
  ASSUME StateInv, AllHandled, NEW i \in Endpoint, NothingOmitted(i)
  PROVE  Agrees(i, Meaning(i))
<1>1. ~ \E n \in DOMAIN states : TRUE
  BY EmptyQueue DEF AllHandled
<1> QED BY <1>1 DEF StateInv, AllHandled, Reported

LEMMA HandledEchoed ==
  ASSUME StateInv, AllHandled, commands = <<>>, NEW i \in Endpoint, asked[i] # Nothing, NothingOmitted(i)
  PROVE  Agrees(i, AskedState(i, asked[i]))
<1>1. ~ \E n \in DOMAIN commands : TRUE
  BY EmptyQueue
<1>2. Shows(Meaning(i), AskedState(i, asked[i]))
  BY <1>1 DEF StateInv, Carried
<1>3. Shows(stateMap[i], Meaning(i))
  BY HandledShown DEF Agrees
<1> QED BY <1>2, <1>3 DEF Agrees, Shows

\* The values, the queues of reports and commands and the endpoints agree at all
\* times: the last report of an entity is of its value, and without one its
\* endpoint shows it; the last command carries the last order, and without one
\* it is done.
THEOREM StatesInvariant ==
  ASSUME Regular
  PROVE  Spec => []StateInv
<1>1. Init => StateInv
  BY InitInv
<1>2. StateInv /\ [Next]_vars => StateInv'
  BY StepInv
<1> QED BY <1>1, <1>2, PTL DEF Spec

\* When all reports are handled, every endpoint shows what its entity is, for
\* every node, whatever was changed, ordered, lost and reconnected before.
THEOREM StatesShown ==
  ASSUME Regular
  PROVE  Spec => []ShownExact
<1>1. StateInv => ShownExact
  BY HandledShown DEF ShownExact
<1> QED BY <1>1, StatesInvariant, PTL

\* The last order for an entity is what its endpoint shows once everything under
\* way has arrived, for every kind and every value that the code translates.
THEOREM OrdersShown ==
  ASSUME Regular
  PROVE  Spec => []EchoShown
<1>1. StateInv => EchoShown
  BY HandledEchoed DEF EchoShown
<1> QED BY <1>1, StatesInvariant, PTL

\* A property on the shared topic leads to its own entity, however many have
\* the same name.
THEOREM ObjectIdsLead ==
  ASSUME Regular
  PROVE  Spec => []OwnObjectId
<1>1. StateInv => OwnObjectId
  BY OwnIds DEF StateInv, Typed
<1> QED BY <1>1, StatesInvariant, PTL

\* With the broker connected and the timer at rest, the topics say what the
\* endpoints hold.
THEOREM TopicsAreFresh ==
  ASSUME Regular
  PROVE  Spec => []PublishedFresh
<1>1. Init => PublishedFresh
  BY DEF Init, PublishedFresh
<1>2. StateInv /\ PublishedFresh /\ [Next]_vars => PublishedFresh'
  BY PublishedStep
<1> QED BY <1>1, <1>2, StatesInvariant, PTL DEF Spec

\* A report changes the endpoint of its entity and no other: with keys that
\* differ, what the comment of processStateUpdate says is what it does.
THEOREM ReportsAreCredited ==
  ASSUME Regular
  PROVE  Spec => CreditedToOwner
<1>1. ASSUME StateInv, processStateUpdate, NEW i \in Endpoint, stateMap'[i] # stateMap[i]
      PROVE  i = Head(states).owner
  <2>1. PICK o : o = Head(states).owner
    OBVIOUS
  <2>2. \E x : stateMap' = [stateMap EXCEPT ![o] = x]
    BY <1>1, <2>1, ReportHandled
  <2>3. DOMAIN stateMap = Endpoint
    BY <1>1 DEF StateInv, Typed
  <2> QED BY <1>1, <2>1, <2>2, <2>3
<1>2. StateInv /\ [Next]_vars =>
        [\A i \in Endpoint : processStateUpdate /\ stateMap'[i] # stateMap[i] => i = Head(states).owner]_vars
  BY <1>1
<1> QED BY <1>2, StatesInvariant, PTL DEF Spec, CreditedToOwner
\* A toggle under the status that an endpoint shows changes the value.
Flips(e, v, s) ==
  Executed(e.kind, v, CommandFields(e.kind, Get(s, "status", ""), "status", "toggle"))[2] # v[2]

LEMMA Toggled ==
  ASSUME NEW e, e.kind \in {"switch", "light", "lock"}, NEW id, NEW v, IsValue(e.kind, v),
         NEW s, Shows(s, MeaningOf(e, id, v))
  PROVE  Flips(e, v, s)
<1> DEFINE status == Get(s, "status", "")
           on == OnOff(v[2] = 1)
           n == IF v[2] = 1 THEN 0 ELSE 1
           M == MeaningOf(e, id, v)
           w == CommandFields(e.kind, status, "status", "toggle")
<1>1. "status" \in DOMAIN M => "status" \in DOMAIN s /\ status = M["status"]
  BY DEF Shows, Get
<1>2. CASE e.kind = "switch"
  <2>1. v \in [{2} -> 0..1]
    BY <1>2 DEF IsValue
  <2>2. M = "status" :> on
    BY <1>2 DEF MeaningOf
  <2>3. status = on
    <3> HIDE DEF M, on, status
    <3>1. DOMAIN ("status" :> on) = {"status"} /\ ("status" :> on)["status"] = on
      BY SingleMap
    <3> QED BY <1>1, <2>2, <3>1
  <2> HIDE DEF status
  <2>4. Bit(TurningOn(status, "toggle")) = n
    BY <2>3 DEF TurningOn, Bit, OnOff
  <2> HIDE DEF n
  <2>5. w = 2 :> n
    BY <1>2, <2>4 DEF CommandFields
  <2> HIDE DEF w
  <2>6. Executed(e.kind, v, w) = [v EXCEPT ![2] = n]
    BY <1>2, <2>5, SingleMap DEF Executed
  <2>7. n # v[2]
    BY <2>1 DEF n
  <2> QED BY <2>1, <2>6, <2>7 DEF w, status, Flips
<1>3. CASE e.kind = "lock"
  <2>1. v \in [{2} -> Nat]
    BY <1>3 DEF IsValue
  <2> DEFINE locked == IF v[2] = 1 THEN "off" ELSE "on"
  <2>2. M = "status" :> locked
    BY <1>3 DEF MeaningOf
  <2>3. status = locked
    <3> HIDE DEF M, locked, status
    <3>1. DOMAIN ("status" :> locked) = {"status"} /\ ("status" :> locked)["status"] = locked
      BY SingleMap
    <3> QED BY <1>1, <2>2, <3>1
  <2> HIDE DEF status
  <2>4. Bit(Locking(status, "toggle")) = n
    BY <2>3 DEF Locking, Bit
  <2> HIDE DEF n
  <2>5. w = 2 :> n
    BY <1>3, <2>4 DEF CommandFields
  <2> HIDE DEF w
  <2>6. Executed(e.kind, v, w) = [v EXCEPT ![2] = IF n = 1 THEN 1 ELSE 2]
    BY <1>3, <2>5, SingleMap DEF Executed
  <2>7. (IF n = 1 THEN 1 ELSE 2) # v[2]
    BY <2>1 DEF n
  <2> QED BY <2>1, <2>6, <2>7 DEF w, status, Flips
<1>4. CASE e.kind = "light"
  <2>1. v \in [{2, 3, 4, 5, 6, 8} -> Nat] /\ v[2] \in 0..1
    BY <1>4 DEF IsValue
  <2>2. M = [status |-> on, level |-> v[3] \div 4,
             color |-> <<v[4] \div 4, v[5] \div 4, v[6] \div 4>>, colorTemperature |-> v[8] \div 1000]
    BY <1>4 DEF MeaningOf
  <2>3. "status" \in DOMAIN M /\ M["status"] = on
    <3> HIDE DEF M, on
    <3> QED BY <2>2
  <2>4. status = on
    BY <1>1, <2>3
  <2> HIDE DEF status
  <2>5. Bit(TurningOn(status, "toggle")) = n
    BY <2>4 DEF TurningOn, Bit, OnOff
  <2> HIDE DEF n
  <2>6. w = 2 :> 1 @@ 3 :> n
    BY <1>4, <2>5 DEF CommandFields, LightFields
  <2> HIDE DEF w
  <2>7. /\ Get(w, 2, 0) = 1 /\ Get(w, 3, 0) = n
        /\ Get(w, 4, 0) = 0 /\ Get(w, 6, 0) = 0 /\ Get(w, 12, 0) = 0
    BY <2>6 DEF Get, :>, @@
  <2>8. Executed(e.kind, v, w) = [v EXCEPT ![2] = n]
    BY <1>4, <2>7 DEF Executed, ExecutedLight, SetField
  <2>9. n # v[2]
    BY <2>1 DEF n
  <2> QED BY <2>1, <2>8, <2>9 DEF w, status, Flips
<1> QED BY <1>2, <1>3, <1>4

LEMMA ToggleStep ==
  ASSUME Regular, StateInv, [Next]_vars, NEW i \in Endpoint,
         AllHandled, commands = <<>>, NothingOmitted(i),
         commands' # <<>>, commands'[1].owner = i, commands'[1].order = <<"status", "toggle">>,
         special(entities[i])
  PROVE  Executed(entities[i].kind, node[i], commands'[1].fields)[2] # node[i][2]
<1>1. PICK j \in Endpoint : \E o \in Order[entities[j].kind] : mqttReceived(j, o)
  BY DEF Next, Disturbance, Progress, NodeChanges, Disconnected, MqttLost, haStatus,
         getProperties, Subscribe, mqttConnected, NodeExecutes, updateProperties, processStateUpdate, vars
<1>2. PICK o \in Order[entities[j].kind] : mqttReceived(j, o)
  BY <1>1
<1> DEFINE e == entities[j]
           x == [owner |-> j, order |-> o, fields |-> sendCommand(j, Key(e, objectId(j), o), o[2])]
<1>3. commands' = Append(commands, x) /\ IsOrder(e.kind, o)
  BY <1>2, OrderSent DEF AllHandled
<1>4. commands'[1] = x
  BY <1>3
<1>5. j = i /\ o = <<"status", "toggle">>
  BY <1>4
<1>6. e.kind \in {"switch", "light", "lock"}
  BY <1>3, <1>5 DEF IsOrder, special
<1>7. x.fields = CommandFields(e.kind, Get(stateMap[i], "status", ""), "status", "toggle")
  BY <1>5 DEF sendCommand, Key
<1>8. IsValue(e.kind, node[i]) /\ Shows(stateMap[i], MeaningOf(e, objectId(i), node[i]))
  <2>1. Agrees(i, Meaning(i))
    BY HandledShown
  <2> QED BY <1>5, <2>1 DEF Agrees, Meaning, StateInv, Typed
<1> HIDE DEF x, e
<1>9. Executed(e.kind, node[i], x.fields)[2] # node[i][2]
  <2> DEFINE s == stateMap[i]
             v == node[i]
             id == objectId(i)
  <2>1. IsValue(e.kind, v) /\ Shows(s, MeaningOf(e, id, v))
    BY <1>8
  <2> HIDE DEF s, v, id
  <2>2. Flips(e, v, s)
    BY <1>6, <2>1, Toggled
  <2> QED BY <1>7, <2>2 DEF s, v, Flips
<1> QED BY <1>4, <1>5, <1>9 DEF e

\* A toggle handled when nothing is under way turns a switch, a light or a lock
\* to the other state: sendCommand reads the status that the endpoint shows.
THEOREM TogglesFlip ==
  ASSUME Regular
  PROVE  Spec => ToggleFlips
<1>1. StateInv /\ [Next]_vars =>
        [\A i \in Endpoint :
           /\ AllHandled /\ commands = <<>> /\ NothingOmitted(i)
           /\ commands' # <<>> /\ commands'[1].owner = i /\ commands'[1].order = <<"status", "toggle">>
           /\ special(entities[i])
           => Executed(entities[i].kind, node[i], commands'[1].fields)[2] # node[i][2]]_vars
  BY ToggleStep
<1> QED BY <1>1, StatesInvariant, PTL DEF Spec, ToggleFlips
=============================================================================
