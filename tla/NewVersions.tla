---------------------------- MODULE NewVersions ----------------------------
(***************************************************************************)
(* What changes between the managed model and a new version of it          *)
(* (scheduler._get_intent_changes and the first part of _new_version), and *)
(* how the model state follows.  A batch of versions that were released    *)
(* since the last one that was processed is consolidated into its last     *)
(* version.                                                                *)
(***************************************************************************)
EXTENDS ModelState

\* The consolidated changes of intent of a batch of versions that ends in v.  Earlier
\* versions of the batch lack the resources `recreated', and have another intent for
\* the resources `reverted': that counts as an update whatever v brings.
intent_changes(m, v, recreated, reverted) ==
    LET present == {r \in Resources : v.intent[r] # None}
    IN  [deleted |-> managed(m) \ present,
         new     |-> (present \ managed(m)) \cup recreated,
         updated |-> {r \in (managed(m) \cap present) \ recreated :
                         \/ r \in reverted
                         \/ v.intent[r] # m.intent[r]
                         \/ (r \in v.undefined) # (r \in is_undefined(m))}]

added_requires(m, v) ==
    [r \in Resources |-> IF v.intent[r] # None THEN v.requires[r] \ m.requires[r] ELSE {}]

dropped_requires(m, v) ==
    [r \in Resources |-> IF v.intent[r] # None THEN m.requires[r] \ v.requires[r] ELSE {}]

became_undefined(m, v, c) ==
    {r \in c.new \cup c.updated : r \in v.undefined /\ r \notin is_undefined(m)}

became_defined(m, v, c) ==
    {r \in c.new \cup c.updated : r \notin v.undefined /\ r \in is_undefined(m)}

\* The dependants of re-created resources no longer skip for them.
reset_requires(m, recreated) ==
    LET S == dependants(m, recreated)
    IN  [m EXCEPT !.resource_state = [r \in Resources |->
            IF /\ r \in S
               /\ m.resource_state[r].blocked = "TEMPORARILY_BLOCKED"
               /\ ~should_skip_for_dependencies(m, r)
            THEN [m.resource_state[r] EXCEPT !.blocked = "NOT_BLOCKED"]
            ELSE m.resource_state[r]]]

\* The model once intent, requires and transitive state are updated: one result per
\* order in which update_transitive_state may visit its nodes.
updated_models(m, v, c, recreated) ==
    LET added   == {r \in Resources : added_requires(m, v)[r] # {}}
        dropped == {r \in Resources : dropped_requires(m, v)[r] # {}}
        m1 == update_resource(m, v, c.new, c.updated)
        m2 == update_requires(m1, v, added \cup dropped)
    IN  {[out EXCEPT !.model = reset_requires(out.model, recreated)] :
            out \in update_transitive_state(m2, became_undefined(m, v, c), added,
                                            became_defined(m, v, c) \cup dropped)}
=============================================================================
