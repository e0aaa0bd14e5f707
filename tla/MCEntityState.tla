--------------------------- MODULE MCEntityState ---------------------------
(***************************************************************************)
(* EntityState for TLC: nodes with one or two entities, of every kind.      *)
(***************************************************************************)
EXTENDS EntityState

T == INSTANCE TLC
MCSuffixed(name, count) == name \o T!ToString(count)

E(name, key, device, kind) ==
  [name |-> name, key |-> key, device |-> device, kind |-> kind, decimals |-> 0]
Temp(key, device) == [E("temp", key, device, "sensor") EXCEPT !.decimals = 1]

\* Equal names on one device, a sub-device, and each kind beside another.
MCListing ==
  { <<E("a", 1, 0, "switch"), E("a", 2, 1, "toggle")>>,
    <<E("b", 1, 0, "binary_sensor"), E("b", 2, 0, "toggle")>>,
    <<Temp(1, 0), Temp(2, 1)>>,
    <<E("c", 1, 0, "number"), E("c", 2, 0, "select")>>,
    <<E("d", 1, 0, "light")>>,
    <<E("e", 1, 0, "cover")>>,
    <<E("f", 1, 0, "legacy_cover")>>,
    <<E("g", 1, 0, "lock"), E("g", 2, 1, "switch")>>,
    <<E("h", 1, 0, "climate")>> }

\* Keys are hashes of names: equal names on two devices have equal keys.
MCEqualKeys == {<<Temp(1, 0), Temp(1, 1)>>}

\* A sensor that may read zero.
MCSensor == {<<Temp(1, 0)>>}

V(f, x)  == f :> x
\* The values xs of the fields fs, in this order.
Vs(fs, xs) == [f \in {fs[n] : n \in DOMAIN fs} |-> xs[CHOOSE n \in DOMAIN fs : fs[n] = f]]
ClimateFieldsOf == <<2, 3, 4, 8, 9, 11, 12, 13>>
MCSample ==
  [switch        |-> {V(2, 0), V(2, 1)},
   toggle        |-> {V(2, 0), V(2, 1)},
   binary_sensor |-> {V(2, 0), V(2, 1)},
   sensor        |-> {V(2, 0), V(2, 1949), V(2, -1950)},
   light         |-> {Vs(<<2, 3, 4, 5, 6, 8>>, <<0, 1020, 1020, 0, 3, 370500>>)},
   cover         |-> {V(3, 0), V(3, 4), V(3, 1000)},
   legacy_cover  |-> {V(2, 0), V(2, 1)},
   lock          |-> {V(2, 0), V(2, 1), V(2, 2)},
   climate       |-> {Vs(ClimateFieldsOf, <<0, 20250, 21500, 0, 0, 0, 0, 0>>),
                      Vs(ClimateFieldsOf, <<3, 20250, 21500, 4, 2, 1, 5, 1>>)},
   select        |-> {V(2, 1), V(2, 2)},
   number        |-> {V(2, 0), V(2, 500)}]

Status == {<<"status", "on">>, <<"status", "off">>, <<"status", "toggle">>}
MCOrder ==
  [switch        |-> Status,
   toggle        |-> {<<"", "true">>, <<"", "false">>},
   binary_sensor |-> {},
   sensor        |-> {},
   light         |-> {<<"status", "toggle">>, <<"level", 128>>, <<"color", <<255, 0, 1>>>>, <<"colorTemperature", 250>>},
   cover         |-> {<<"cover", "open">>, <<"cover", "close">>, <<"cover", "stop">>, <<"position", 29>>},
   legacy_cover  |-> {<<"cover", "open">>, <<"cover", "close">>, <<"cover", "stop">>, <<"position", 100>>},
   lock          |-> Status,
   climate       |-> {<<"systemMode", "fan">>, <<"operationMode", "none">>}
                     \cup {<<"fanMode", x>> : x \in {"quiet", "custom"}},
   select        |-> {<<"", 1>>, <<"", 2>>},
   number        |-> {<<"", 500>>, <<"", 750>>}]

\* The theorems of EntityStateProofs are about nodes and users like these.
ASSUME MCRegular ==
  /\ \A l \in MCListing : DistinctKeys(l) /\ PlainNames(l)
  /\ \A kind \in Kind :
       /\ \A v \in MCSample[kind] : IsValue(kind, v)
       /\ \A o \in MCOrder[kind] : IsOrder(kind, o)
=============================================================================
