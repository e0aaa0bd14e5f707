----------------------------- MODULE MCRegistry -----------------------------
(***************************************************************************)
(* Registry for TLC: two nodes, the first with a sub-device, and commands  *)
(* in which a name and a host each mean different devices at different     *)
(* times.                                                                  *)
(***************************************************************************)
EXTENDS Registry, TLC

CONSTANTS h1, h2, s, n

MCHost      == {h1, h2}
MCSubDevice == {<<h1, s>>}

Order(a, d, x, v) == [action |-> a, device |-> d, name |-> x, valid |-> v]

MCCommand ==
  { Order("addDevice", h1, Unnamed, TRUE),
    Order("addDevice", h2, n, TRUE),
    Order("addDevice", h2, n, FALSE),
    Order("addDevice", h2, h1, TRUE),
    Order("removeDevice", h1, Unnamed, TRUE),
    Order("removeDevice", n, Unnamed, TRUE),
    Order("updateDevice", h1, n, TRUE),
    Order("updateDevice", s, n, TRUE),
    Order("restartService", None, Unnamed, TRUE) }

\* Users who add a device and leave it alone.
MCAdding == {Order("addDevice", h1, Unnamed, TRUE)}
=============================================================================
