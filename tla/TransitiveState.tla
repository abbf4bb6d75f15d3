-------------------------- MODULE TransitiveState --------------------------
(***************************************************************************)
(* ModelState.update_transitive_state step by step: each action is one     *)
(* iteration of one of its loops, which take the nodes of their worklists  *)
(* in any order.  A call is made the way _new_version makes it: from a     *)
(* consistent model and a version that replaces it.                        *)
(***************************************************************************)
EXTENDS NewVersions

CONSTANTS
    Graphs,         \* the requires relations of the models considered
    Compliance      \* the compliances, other than UNDEFINED, of their resources

ASSUME GraphsAssumption == Graphs \subseteq Edges /\ Compliance \subseteq ComplianceStates

VARIABLES
    call,           \* the model and the arguments at the start of the call
    m,              \* the model as updated so far
    stage,          \* the loop that is running
    todo,           \* its worklist
    found,          \* the worklist that the first loop of stage 3 leaves to the second
    hard_blocked,   \* is_blocked: definitely blocked nodes
    blockers,       \* known_blockers_cache
    out_blocked,
    out_unblocked

vars == <<call, m, stage, todo, found, hard_blocked, blockers, out_blocked, out_unblocked>>

\* Only resources of the model require and are required.
well_formed(intent, requires) ==
    \A r \in Resources : requires[r] \subseteq {d \in Resources : {intent[r], intent[d]} \subseteq Hashes}

\* The model whose resources have this intent, requires and compliance, and the
\* consistent transitive state.
consistent_model(intent, requires, compliance) ==
    LET x == [intent |-> intent, requires |-> requires, dirty |-> {},
              resource_state |-> [r \in Resources |->
                 IF intent[r] = None THEN NoState ELSE [NoState EXCEPT !.compliance = compliance[r]]]]
        B == DependsOnUndefined(x)
    IN  [x EXCEPT !.resource_state = [r \in Resources |->
                     IF r \in B THEN [@[r] EXCEPT !.blocked = "BLOCKED"] ELSE @[r]],
                  !.dirty = {r \in managed(x) \ B : is_dirty(x.resource_state[r])}]

Intents == [Resources -> Hashes \cup {None}]

Init ==
    \E intent \in Intents, requires \in Graphs,
       compliance \in [Resources -> Compliance \cup {"UNDEFINED"}],
       v \in [intent : Intents, requires : Graphs, undefined : SUBSET Resources] :
        /\ well_formed(intent, requires) /\ well_formed(v.intent, v.requires)
        /\ v.undefined \subseteq {r \in Resources : v.intent[r] # None}
        /\ LET old     == consistent_model(intent, requires, compliance)
               c       == intent_changes(old, v, {}, {})
               added   == {r \in Resources : added_requires(old, v)[r] # {}}
               dropped == {r \in Resources : dropped_requires(old, v)[r] # {}}
           IN  call = [model |-> update_requires(update_resource(old, v, c.new, c.updated), v,
                                                 added \cup dropped),
                       new_undefined |-> became_undefined(old, v, c),
                       verify_blocked |-> added,
                       verify_unblocked |-> became_defined(old, v, c) \cup dropped]
        /\ m = call.model
        /\ stage = "undefined"
        /\ todo = dependants(m, call.new_undefined)
        /\ found = {}
        /\ hard_blocked = call.new_undefined
        /\ blockers = [r \in Resources |-> None]
        /\ out_blocked = {} /\ out_unblocked = {}

blocked(r) == m.resource_state[r].blocked = "BLOCKED"

block_resource_transitive(r) ==
    m' = [m EXCEPT !.resource_state[r].blocked = "BLOCKED", !.dirty = @ \ {r}]

unblock_resource(r) ==
    m' = [m EXCEPT !.resource_state[r].blocked = "NOT_BLOCKED",
                   !.dirty = IF is_dirty(m.resource_state[r]) THEN @ \cup {r} ELSE @]

\* The loop of this stage is done: the next one starts with the worklist `next'.
EndOfLoop(this, next_stage, next) ==
    /\ stage = this /\ todo = {}
    /\ stage' = next_stage /\ todo' = next
    /\ UNCHANGED <<call, m, found, hard_blocked, blockers, out_blocked, out_unblocked>>

\* Stage 2: r is downstream of a new undefined resource.
PropagateUndefined(r) ==
    /\ stage = "undefined" /\ r \in todo
    /\ hard_blocked' = hard_blocked \cup {r}
    /\ IF r \in hard_blocked \/ blocked(r)
       THEN todo' = todo \ {r} /\ UNCHANGED <<m, out_blocked>>
       ELSE /\ block_resource_transitive(r)
            /\ out_blocked' = out_blocked \cup {r}
            /\ todo' = (todo \ {r}) \cup dependants(m, {r})
    /\ UNCHANGED <<call, stage, found, blockers, out_unblocked>>

\* Mutant: the cached dependency is trusted.
cached_dependency(r) ==
    IF blockers[r] # None THEN {blockers[r]} ELSE {d \in m.requires[r] : blocked(d)}

\* The blocked dependencies that a check of r may find: the cached one, if it still
\* is blocked, any of them otherwise.
blocked_dependency(r) ==
    IF blockers[r] # None /\ blocked(blockers[r]) THEN {blockers[r]}
    ELSE {d \in m.requires[r] : blocked(d)}

\* update_blocked_status_to_blocked, stage 3, first loop.
VerifyBlocked(r) ==
    /\ stage = "verify_blocked" /\ r \in todo
    /\ todo' = todo \ {r}
    /\ IF r \in hard_blocked \/ blocked(r) \/ blocked_dependency(r) = {}
       THEN UNCHANGED <<m, found, hard_blocked, blockers, out_blocked>>
       ELSE \E d \in blocked_dependency(r) :
              /\ blockers' = [blockers EXCEPT ![r] = d]
              /\ hard_blocked' = IF d \in hard_blocked THEN hard_blocked \cup {r} ELSE hard_blocked
              /\ block_resource_transitive(r)
              /\ out_blocked' = out_blocked \cup {r}
              /\ found' = found \cup {r}
    /\ UNCHANGED <<call, stage, out_unblocked>>

\* Mutant: the node is not taken off the worklist.
PropagateWithoutPop(r) ==
    LET S == {d \in dependants(m, {r}) : blocked(d)}
    IN  /\ stage = "blocked" /\ r \in todo
        /\ hard_blocked' = IF r \in hard_blocked THEN hard_blocked \cup dependants(m, {r})
                           ELSE hard_blocked
        /\ m' = [m EXCEPT !.dirty = @ \ S]
        /\ out_blocked' = out_blocked \cup S
        /\ todo' = todo \cup S
        /\ UNCHANGED <<call, stage, found, blockers, out_unblocked>>

\* Stage 3, second loop.
PropagateBlocked(r) ==
    LET S == {d \in dependants(m, {r}) : blocked(d)}
    IN  /\ stage = "blocked" /\ r \in todo
        /\ hard_blocked' = IF r \in hard_blocked THEN hard_blocked \cup dependants(m, {r})
                           ELSE hard_blocked
        /\ m' = [m EXCEPT !.dirty = @ \ S]
        /\ out_blocked' = out_blocked \cup S
        /\ todo' = (todo \ {r}) \cup S
        /\ UNCHANGED <<call, stage, found, blockers, out_unblocked>>

\* update_blocked_status, stage 4.
VerifyUnblocked(r) ==
    LET root == m.resource_state[r].compliance = "UNDEFINED"
    IN  /\ stage = "unblocked" /\ r \in todo
        /\ IF r \in hard_blocked \/ ~blocked(r) \/ root
           THEN /\ hard_blocked' = IF blocked(r) /\ root THEN hard_blocked \cup {r} ELSE hard_blocked
                /\ todo' = todo \ {r}
                /\ UNCHANGED <<m, blockers, out_unblocked>>
           ELSE /\ UNCHANGED hard_blocked
                /\ IF blocked_dependency(r) # {}
                   THEN /\ \E d \in blocked_dependency(r) : blockers' = [blockers EXCEPT ![r] = d]
                        /\ todo' = todo \ {r}
                        /\ UNCHANGED <<m, out_unblocked>>
                   ELSE /\ blockers' = [blockers EXCEPT ![r] = None]
                        /\ unblock_resource(r)
                        /\ out_unblocked' = out_unblocked \cup {r}
                        /\ todo' = (todo \ {r}) \cup dependants(m, {r})
        /\ UNCHANGED <<call, stage, found, out_blocked>>

Next ==
    \/ \E r \in Resources : \/ PropagateUndefined(r) \/ VerifyBlocked(r)
                            \/ PropagateBlocked(r) \/ VerifyUnblocked(r)
    \/ EndOfLoop("undefined", "verify_blocked", call.verify_blocked)
    \/ EndOfLoop("verify_blocked", "blocked", found)
    \/ EndOfLoop("blocked", "unblocked", call.verify_unblocked)
    \/ EndOfLoop("unblocked", "done", {})

Spec == Init /\ [][Next]_vars /\ WF_vars(Next)
-----------------------------------------------------------------------------
(* Properties *)

(***************************************************************************)
(* In whatever order the worklists are taken, update_transitive_state ends *)
(* with a result that the operator of that name in ModelState allows.      *)
(***************************************************************************)
ResultAsSpecified ==
    stage = "done" =>
        [blocked |-> out_blocked, unblocked |-> out_unblocked, model |-> m]
          \in update_transitive_state(call.model, call.new_undefined, call.verify_blocked,
                                      call.verify_unblocked)

(***************************************************************************)
(* Nothing is left blocked that depends on no undefined resource, in       *)
(* whatever order stages 3 and 4 block and unblock; and after a call that  *)
(* adds no requires nothing that depends on one is left unblocked.         *)
(***************************************************************************)
ConsistentResult ==
    stage = "done" =>
        /\ is_blocked(m) \subseteq DependsOnUndefined(m)
        /\ call.verify_blocked = {} => DependsOnUndefined(m) \subseteq is_blocked(m)

(***************************************************************************)
(* The loops of update_transitive_state, which push nodes back on their    *)
(* worklists, come to an end.                                              *)
(***************************************************************************)
Terminates == <>(stage = "done")
=============================================================================
