------------------------------ MODULE MCFaults ------------------------------
(***************************************************************************)
(* The smallest instance of ResourceScheduler in which database writes may *)
(* fail and a batch of versions may delete and re-create a resource, or    *)
(* change its intent and change it back.                                   *)
(***************************************************************************)
EXTENDS ResourceScheduler

CONSTANTS r1, r2, h1, h2, ag1, ag2

Version(intent, requires, undefined) ==
    [intent |-> intent, requires |-> requires, undefined |-> undefined]

\* Two resources on agents of their own, r2 requires r1: an update, an undefined r1.
Pair == {r1, r2}
MCHashes == {h1, h2}
PairAgents == [r \in Pair |-> IF r = r2 THEN ag2 ELSE ag1]
PairReleases ==
    {Version([r \in Pair |-> h1], [NoEdges EXCEPT ![r2] = {r1}], {}),
     Version([r \in Pair |-> h2], [NoEdges EXCEPT ![r2] = {r1}], {r1}),
     Version([r \in Pair |-> IF r = r1 THEN h1 ELSE None], NoEdges, {})}
=============================================================================
