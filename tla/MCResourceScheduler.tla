----------------------- MODULE MCResourceScheduler -----------------------
(***************************************************************************)
(* Instances of ResourceScheduler for TLC: three resources r1, r2, r3 with *)
(* one or two agents, and small sets of versions to release.               *)
(***************************************************************************)
EXTENDS ResourceScheduler

CONSTANTS r1, r2, r3, h1, h2, ag1, ag2

MCResources == {r1, r2, r3}
MCHashes == {h1, h2}

\* r2 on its own agent, r1 and r3 share one.
TwoAgents == [r \in MCResources |-> IF r = r2 THEN ag2 ELSE ag1]
OneAgent == [r \in MCResources |-> ag1]

Version(intent, requires, undefined) ==
    [intent |-> intent, requires |-> requires, undefined |-> undefined]

All(h) == [r \in MCResources |-> h]

Chain == [NoEdges EXCEPT ![r2] = {r1}, ![r3] = {r2}]
Join == [NoEdges EXCEPT ![r3] = {r1, r2}]

\* Updates, a deletion and a change of requires, every resource defined.
UpdateReleases ==
    {Version(All(h1), Chain, {}),
     Version([All(h1) EXCEPT ![r1] = h2], Chain, {}),
     Version([All(h1) EXCEPT ![r3] = None], [Chain EXCEPT ![r3] = {}], {}),
     Version(All(h1), Join, {})}

\* One update, for the runs about what deploys do to each other.
EventReleases ==
    {Version(All(h1), Chain, {}),
     Version([All(h1) EXCEPT ![r1] = h2], [Chain EXCEPT ![r3] = {}], {})}

\* Resources that become undefined and defined again.
UndefinedReleases ==
    {Version(All(h1), Chain, {}),
     Version(All(h2), Chain, {r1}),
     Version([All(h1) EXCEPT ![r2] = h2], Chain, {r2})}

TimerReleases ==
    {Version(All(h1), Chain, {}),
     Version([All(h1) EXCEPT ![r1] = h2], Chain, {r1}),
     Version([All(h1) EXCEPT ![r3] = None], [Chain EXCEPT ![r3] = {}], {})}
=============================================================================
