---------------------------- MODULE ModelState ----------------------------
(***************************************************************************)
(* The scheduler's model state (deploy/state.py): for every managed        *)
(* resource its intent, its requires and its state, and the set of dirty   *)
(* resources.  The methods of the class ModelState are operators on a      *)
(* model value; a method whose result depends on the iteration order of a  *)
(* Python set is the set of its possible results.                          *)
(*                                                                         *)
(* An intent is reduced to its attribute hash, a point in time to whether  *)
(* it was set, and the agent of a resource is a constant of the scheduler. *)
(***************************************************************************)
EXTENDS RequiresProvides, Naturals, FiniteSets

CONSTANTS
    Hashes,     \* the attribute hashes
    None        \* Python's None: no intent, never deployed

ASSUME NoneAssumption == None \notin Hashes

ComplianceStates == {"COMPLIANT", "HAS_UPDATE", "NON_COMPLIANT", "UNDEFINED"}
HandlerResults == {"NEW", "SUCCESSFUL", "FAILED", "SKIPPED"}
BlockedStates == {"BLOCKED", "NOT_BLOCKED", "TEMPORARILY_BLOCKED"}

ResourceStates ==
    [compliance : ComplianceStates, last_handler_run : HandlerResults, blocked : BlockedStates,
     last_deployed : BOOLEAN, last_handler_run_compliant : BOOLEAN \cup {None}]

\* A resource is managed iff it has an intent; the state of any other resource is
\* NoState, and it requires nothing.
NoState == [compliance |-> "HAS_UPDATE", last_handler_run |-> "NEW", blocked |-> "NOT_BLOCKED",
            last_deployed |-> FALSE, last_handler_run_compliant |-> None]

Models == [intent : [Resources -> Hashes \cup {None}],
           requires : Edges,
           resource_state : [Resources -> ResourceStates],
           dirty : SUBSET Resources]

EmptyModel == [intent |-> [r \in Resources |-> None],
               requires |-> NoEdges,
               resource_state |-> [r \in Resources |-> NoState],
               dirty |-> {}]

managed(m) == {r \in Resources : m.intent[r] # None}

is_blocked(m) == {r \in managed(m) : m.resource_state[r].blocked = "BLOCKED"}

is_undefined(m) == {r \in managed(m) : m.resource_state[r].compliance = "UNDEFINED"}

\* A released model version: the intent of its resources, their requires, and the
\* resources with an unknown attribute.
ModelVersions == [intent : [Resources -> Hashes \cup {None}],
                  requires : Edges,
                  undefined : SUBSET Resources]

-----------------------------------------------------------------------------
(* drop, update_resource and update_requires, each for a set of resources *)

drop(m, S) ==
    [intent         |-> [r \in Resources |-> IF r \in S THEN None ELSE m.intent[r]],
     requires       |-> drop_edges(m.requires, S),
     resource_state |-> [r \in Resources |-> IF r \in S THEN NoState ELSE m.resource_state[r]],
     dirty          |-> m.dirty \ S]

\* The state update_resource leaves for r: a fresh one for a new resource, else the
\* known one with a new compliance, which stays BLOCKED if it was.
updated_state(m, v, r, new) ==
    LET compliance == IF r \in v.undefined THEN "UNDEFINED" ELSE "HAS_UPDATE"
        blocked    == IF r \in v.undefined THEN "BLOCKED" ELSE "NOT_BLOCKED"
    IN  IF r \in new
        THEN [NoState EXCEPT !.compliance = compliance, !.blocked = blocked]
        ELSE [m.resource_state[r] EXCEPT !.compliance = compliance,
                                         !.blocked = IF @ = "BLOCKED" THEN @ ELSE blocked]

\* update_resource for the new resources (force_new: a managed one is dropped first)
\* and the updated ones.
update_resource(m, v, new, updated) ==
    LET changed == new \cup updated
        state == [r \in Resources |-> IF r \in changed THEN updated_state(m, v, r, new)
                                      ELSE m.resource_state[r]]
    IN  [intent         |-> [r \in Resources |-> IF r \in changed THEN v.intent[r] ELSE m.intent[r]],
         requires       |-> drop_edges(m.requires, new),
         resource_state |-> state,
         dirty          |-> (m.dirty \ changed)
                              \cup {r \in changed : state[r].blocked = "NOT_BLOCKED"}]

should_skip_for_dependencies(m, r) ==
    \E d \in m.requires[r] : m.resource_state[d].last_handler_run_compliant = FALSE

\* Mutant: a resource that gets another chance is not marked dirty.
freed_not_dirty(m, v, S) ==
    LET changed == [m EXCEPT !.requires = [r \in Resources |->
                                             IF r \in S THEN v.requires[r] ELSE m.requires[r]]]
    IN  [changed EXCEPT !.resource_state = [r \in Resources |->
            IF /\ r \in S /\ m.resource_state[r].blocked = "TEMPORARILY_BLOCKED"
               /\ ~should_skip_for_dependencies(changed, r)
            THEN [m.resource_state[r] EXCEPT !.blocked = "NOT_BLOCKED"]
            ELSE m.resource_state[r]]]

\* update_requires for the resources S: a resource that waits for its dependencies
\* and drops one of them gets another chance if no bad one is left.
update_requires(m, v, S) ==
    LET changed == [m EXCEPT !.requires = [r \in Resources |->
                                             IF r \in S THEN v.requires[r] ELSE m.requires[r]]]
        freed == {r \in S : /\ m.resource_state[r].blocked = "TEMPORARILY_BLOCKED"
                            /\ m.requires[r] \ v.requires[r] # {}
                            /\ ~should_skip_for_dependencies(changed, r)}
    IN  [changed EXCEPT !.dirty = @ \cup freed,
                        !.resource_state = [r \in Resources |->
                           IF r \in freed THEN [m.resource_state[r] EXCEPT !.blocked = "NOT_BLOCKED"]
                           ELSE m.resource_state[r]]]

-----------------------------------------------------------------------------
(***************************************************************************)
(* update_transitive_state.  Its worklists visit nodes in an arbitrary     *)
(* order; the module TransitiveState runs them step by step and checks     *)
(* that they compute what is defined here.                                 *)
(***************************************************************************)

\* The least subset of S that is closed under P, where P(U) are the members that
\* follow from the members U, and more of them follow from more members.
LeastClosed(S, P(_)) ==
    {r \in S : \A U \in SUBSET S : P(U) \cap S \subseteq U => r \in U}

\* The resources one provides step from S.
dependants(m, S) == {r \in managed(m) : m.requires[r] \cap S # {}}

\* Stage 2: everything downstream of a new undefined resource, up to what is
\* blocked already.
propagate_undefined(m, new_undefined) ==
    LeastClosed(managed(m) \ is_blocked(m), LAMBDA T : dependants(m, new_undefined \cup T))

\* Stage 3, first loop: the resources of verify_blocked that can be found to have a
\* blocked dependency (B: the resources blocked so far).  One that is visited before
\* its dependency gets blocked is not.
verified_blocked(m, B, verify_blocked) ==
    {S \in SUBSET (verify_blocked \ B) :
        /\ \A r \in S : m.requires[r] \cap (B \cup S) # {}
        /\ \A r \in (verify_blocked \ B) \ S : m.requires[r] \cap B = {}}

\* Stage 3, second loop: walks on from the resources S through the dependants that
\* are BLOCKED, and passes over the others.
propagate_blocked(m, B, S) ==
    LeastClosed(B, LAMBDA T : dependants(m, S \cup T))

\* Mutant: unblocking does not spread to dependants.
unblock_directly(m, B, verify_unblocked) ==
    {r \in (verify_unblocked \cap B) \ is_undefined(m) : m.requires[r] \cap B = {}}

\* Stage 4: the blocked resources found to have no blocked dependency any more,
\* starting from verify_unblocked.
propagate_unblocked(m, B, verify_unblocked) ==
    LeastClosed(B, LAMBDA T : {r \in (verify_unblocked \cup dependants(m, T)) \ is_undefined(m) :
                                  m.requires[r] \cap B \subseteq T})

is_dirty(state) == state.compliance \in {"HAS_UPDATE", "NON_COMPLIANT"}

\* The possible results: the resulting model, and the returned sets.
update_transitive_state(m, new_undefined, verify_blocked, verify_unblocked) ==
    LET stage2 == propagate_undefined(m, new_undefined)
        B2     == is_blocked(m) \cup stage2
        result(stage3) ==
            LET B3        == B2 \cup stage3
                blocked   == stage2 \cup stage3 \cup propagate_blocked(m, B3, stage3)
                unblocked == propagate_unblocked(m, B3, verify_unblocked)
                state == [r \in Resources |->
                            IF r \in unblocked THEN [m.resource_state[r] EXCEPT !.blocked = "NOT_BLOCKED"]
                            ELSE IF r \in blocked THEN [m.resource_state[r] EXCEPT !.blocked = "BLOCKED"]
                            ELSE m.resource_state[r]]
            IN  [blocked |-> blocked, unblocked |-> unblocked,
                 model |-> [m EXCEPT !.resource_state = state,
                                     !.dirty = (@ \ blocked) \cup {r \in unblocked : is_dirty(state[r])}]]
    IN  {result(stage3) : stage3 \in verified_blocked(m, B2, verify_blocked)}

-----------------------------------------------------------------------------
(* What the transitive state is meant to be *)

\* The managed resources that are undefined or depend, directly or not, on one.
DependsOnUndefined(m) ==
    LeastClosed(managed(m), LAMBDA T : is_undefined(m) \cup dependants(m, T))
=============================================================================
