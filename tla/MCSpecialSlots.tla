--------------------------- MODULE MCSpecialSlots --------------------------
(***************************************************************************)
(* SpecialSlots for TLC: every listing of up to MaxEntities entities, two  *)
(* special ones of the same name included, each with a key of its own.     *)
(* The name of a common entity plays no part and is fixed.                 *)
(***************************************************************************)
EXTENDS SpecialSlots, TLC

CONSTANTS MaxEntities, CommonName

Kinds == {<<x, TRUE>> : x \in EntityName \ {CommonName}} \cup {<<CommonName, FALSE>>}

MCListing ==
  UNION {{[j \in 1..n |-> [key |-> j, name |-> f[j][1], special |-> f[j][2]]] :
            f \in [1..n -> Kinds]} : n \in 0..MaxEntities}

Symmetry == Permutations(EntityName \ {CommonName})

=============================================================================
