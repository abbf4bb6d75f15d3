---------------------------- MODULE DesiredState ----------------------------
(***************************************************************************)
(* What the scheduler promises to a user who looks at the compliance of    *)
(* resources: a resource that is reported compliant was last deployed, and *)
(* successfully, with the intent that is desired now.                      *)
(***************************************************************************)
CONSTANTS
    Resources,
    Hashes,     \* the intents a resource may have
    None        \* not desired; not known to be deployed

VARIABLES
    desired,    \* the intent of each resource in the latest model version
    actual,     \* the intent each resource was last deployed with
    reported    \* the resources reported compliant

Init ==
    /\ desired = [r \in Resources |-> None]
    /\ actual = [r \in Resources |-> None]
    /\ reported = {}

\* New intents are desired: a resource whose intent changes is not compliant any more.
Release ==
    /\ desired' \in [Resources -> Hashes \cup {None}]
    /\ reported' \subseteq {r \in reported : desired'[r] = desired[r]}
    /\ UNCHANGED actual

\* A deploy of r ends.  Only the desired intent may be reported as compliant.
Deployed(r) ==
    /\ \E h \in Hashes \cup {None} : actual' = [actual EXCEPT ![r] = h]
    /\ \/ reported' = reported \ {r}
       \/ actual'[r] = desired[r] /\ reported' = reported \cup {r}
    /\ UNCHANGED desired

Next == Release \/ \E r \in Resources : Deployed(r)

Spec == Init /\ [][Next]_<<desired, actual, reported>>

\* The compliance that is reported is the truth.
ReportedIsActual == \A r \in reported : actual[r] = desired[r]
=============================================================================
