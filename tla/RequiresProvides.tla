------------------------- MODULE RequiresProvides -------------------------
(***************************************************************************)
(* The requires-provides mapping between resources                         *)
(* (RequiresProvidesMapping, a BidirectionalManyMapping).  Both directions *)
(* are derived from one function, as both sides of the mapping are kept    *)
(* consistent by every operation on it.                                    *)
(***************************************************************************)
CONSTANT
    Resources   \* the resource ids of the model

Edges == [Resources -> SUBSET Resources]

NoEdges == [r \in Resources |-> {}]

\* provides_view: the inverse of requires.
provides(requires, r) == {d \in Resources : r \in requires[d]}

\* The requires once the entries of S are deleted on both sides of the mapping.
drop_edges(requires, S) ==
    [r \in Resources |-> IF r \in S THEN {} ELSE requires[r] \ S]
=============================================================================
