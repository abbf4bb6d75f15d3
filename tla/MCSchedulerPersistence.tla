----------------------- MODULE MCSchedulerPersistence -----------------------
(***************************************************************************)
(* The smallest instance with an event and a block: r2 requires r1, each   *)
(* on an agent of its own.                                                 *)
(***************************************************************************)
EXTENDS SchedulerPersistence

CONSTANTS r1, r2, h1, h2, h3, ag1, ag2

Version(intent, requires, undefined) ==
    [intent |-> intent, requires |-> requires, undefined |-> undefined]

Pair == {r1, r2}
PairAgents == [r \in Pair |-> IF r = r2 THEN ag2 ELSE ag1]
Intent(i1, i2) == [r \in Pair |-> IF r = r1 THEN i1 ELSE i2]
Chain == [NoEdges EXCEPT ![r2] = {r1}]

\* An update together with a deletion, and an undefined r1.
PairReleases ==
    {Version(Intent(h1, h1), Chain, {}),
     Version(Intent(h2, None), NoEdges, {}),
     Version(Intent(h3, h1), Chain, {r1})}

\* An update of r1, and one of r2 on top of it.
UpdateReleases ==
    {Version(Intent(h1, h1), NoEdges, {}),
     Version(Intent(h2, h1), NoEdges, {}),
     Version(Intent(h2, h2), NoEdges, {})}
=============================================================================
