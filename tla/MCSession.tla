----------------------------- MODULE MCSession -----------------------------
(***************************************************************************)
(* Session for TLC: a node whose sub-devices are renumbered and whose      *)
(* entities move between them when it gets its other configuration.        *)
(***************************************************************************)
EXTENDS Session, TLC

E(d, k) == [device |-> d, key |-> k]

MCConfig ==
  {[names |-> (1 :> "kitchen"), entities |-> <<E(0, 1), E(1, 2)>>],
   [names |-> (1 :> "porch") @@ (2 :> "kitchen"), entities |-> <<E(1, 2), E(2, 3)>>]}

=============================================================================
