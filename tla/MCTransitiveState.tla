------------------------- MODULE MCTransitiveState -------------------------
(***************************************************************************)
(* All calls of update_transitive_state on three resources whose requires  *)
(* follow the order r1, r2, r3.                                            *)
(***************************************************************************)
EXTENDS TransitiveState

CONSTANTS r1, r2, r3, h1

MCResources == {r1, r2, r3}

Acyclic ==
    {g \in Edges : g[r1] = {} /\ g[r2] \subseteq {r1} /\ g[r3] \subseteq {r1, r2}}
=============================================================================
