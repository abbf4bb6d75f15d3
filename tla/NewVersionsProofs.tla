------------------------- MODULE NewVersionsProofs -------------------------
(***************************************************************************)
(* The operations of ModelState and the changes between versions: their    *)
(* results are well-formed models, and all that follows update_resource in *)
(* _new_version leaves intents and compliance alone (SameCompliance), so   *)
(* that only an update can withdraw compliance.                            *)
(***************************************************************************)
EXTENDS NewVersions, TLAPS

\* The state of a resource that is created is a resource state.
LEMMA NoStateType == NoState \in ResourceStates
  BY DEF NoState, ResourceStates, ComplianceStates, HandlerResults, BlockedStates

\* So is the one that update_resource assigns.
LEMMA UpdatedStateType ==
    ASSUME NEW m \in Models, NEW v \in ModelVersions, NEW r \in Resources, NEW new
    PROVE  updated_state(m, v, r, new) \in ResourceStates
  <1> DEFINE compliance == IF r \in v.undefined THEN "UNDEFINED" ELSE "HAS_UPDATE"
             blocked    == IF r \in v.undefined THEN "BLOCKED" ELSE "NOT_BLOCKED"
  <1>1. compliance \in ComplianceStates /\ blocked \in BlockedStates
    BY DEF ComplianceStates, BlockedStates
  <1> HIDE DEF compliance, blocked
  <1>2. m.resource_state[r] \in ResourceStates
    BY DEF Models
  <1>3. CASE r \in new
    <2>1. updated_state(m, v, r, new) = [NoState EXCEPT !.compliance = compliance, !.blocked = blocked]
      BY <1>3 DEF updated_state, compliance, blocked
    <2> QED BY <1>1, <2>1, NoStateType DEF ResourceStates
  <1>4. CASE r \notin new
    <2> DEFINE kept == IF m.resource_state[r].blocked = "BLOCKED" THEN m.resource_state[r].blocked ELSE blocked
    <2>1. updated_state(m, v, r, new)
            = [m.resource_state[r] EXCEPT !.compliance = compliance, !.blocked = kept]
      BY <1>4 DEF updated_state, compliance, blocked
    <2>2. kept \in BlockedStates BY <1>1, <1>2 DEF ResourceStates
    <2> QED BY <1>1, <1>2, <2>1, <2>2 DEF ResourceStates
  <1> QED BY <1>3, <1>4

\* Changing whether a resource is blocked gives a resource state of the same compliance.
LEMMA BlockedChangeType ==
    ASSUME NEW s \in ResourceStates, NEW l \in BlockedStates
    PROVE  /\ [s EXCEPT !.blocked = l] \in ResourceStates
           /\ [s EXCEPT !.blocked = l].compliance = s.compliance
  BY DEF ResourceStates

\* Deleting resources from the requires-provides mapping leaves a mapping.
LEMMA DropEdgesType ==
    ASSUME NEW requires \in Edges, NEW S
    PROVE  drop_edges(requires, S) \in Edges
  BY DEF drop_edges, Edges

\* drop leaves a well-formed model: the dropped resources have no intent, all others keep
\* theirs and their state, and no edge is added.
LEMMA DropType ==
    ASSUME NEW m \in Models, NEW S
    PROVE  /\ drop(m, S) \in Models
           /\ \A r \in Resources : drop(m, S).intent[r] = IF r \in S THEN None ELSE m.intent[r]
           /\ \A r \in Resources \ S :
                drop(m, S).resource_state[r] = m.resource_state[r]
           /\ \A r \in Resources : drop(m, S).requires[r] \subseteq m.requires[r]
  <1>1. drop_edges(m.requires, S) \in Edges
    BY DropEdgesType DEF Models
  <1>2. [r \in Resources |-> IF r \in S THEN NoState ELSE m.resource_state[r]]
          \in [Resources -> ResourceStates]
    BY NoStateType DEF Models
  <1>3. \A r \in Resources : drop_edges(m.requires, S)[r] \subseteq m.requires[r]
    BY DEF drop_edges
  <1> QED BY <1>1, <1>2, <1>3 DEF drop, Models

\* update_resource leaves a well-formed model in which exactly the new and updated
\* resources have the intent of the version and a new state.
LEMMA UpdateResourceType ==
    ASSUME NEW m \in Models, NEW v \in ModelVersions,
           NEW new \in SUBSET Resources, NEW updated \in SUBSET Resources
    PROVE  /\ update_resource(m, v, new, updated) \in Models
           /\ \A r \in Resources :
                /\ update_resource(m, v, new, updated).intent[r]
                      = IF r \in new \cup updated THEN v.intent[r] ELSE m.intent[r]
                /\ update_resource(m, v, new, updated).resource_state[r]
                      = IF r \in new \cup updated THEN updated_state(m, v, r, new)
                        ELSE m.resource_state[r]
  <1> DEFINE changed == new \cup updated
             state == [r \in Resources |-> IF r \in changed THEN updated_state(m, v, r, new)
                                           ELSE m.resource_state[r]]
             intent == [r \in Resources |-> IF r \in changed THEN v.intent[r] ELSE m.intent[r]]
             dirty == (m.dirty \ changed) \cup {r \in changed : state[r].blocked = "NOT_BLOCKED"}
  <1>1. state \in [Resources -> ResourceStates]
    BY UpdatedStateType DEF Models
  <1>2. drop_edges(m.requires, new) \in Edges
    BY DropEdgesType DEF Models
  <1>3. intent \in [Resources -> Hashes \cup {None}]
    BY DEF Models, ModelVersions
  <1>4. dirty \in SUBSET Resources
    BY DEF Models
  <1>5. update_resource(m, v, new, updated)
          = [intent |-> intent, requires |-> drop_edges(m.requires, new),
             resource_state |-> state, dirty |-> dirty]
    BY DEF update_resource
  <1> HIDE DEF state, intent, dirty
  <1>6. update_resource(m, v, new, updated) \in Models
    BY <1>1, <1>2, <1>3, <1>4, <1>5 DEF Models
  <1> QED BY <1>5, <1>6 DEF state, intent

\* Two models have the same intents and compliances.
SameCompliance(m1, m2) ==
    \A r \in Resources : /\ m2.intent[r] = m1.intent[r]
                         /\ m2.resource_state[r].compliance = m1.resource_state[r].compliance

\* update_requires leaves a well-formed model, with the requires of the version for the
\* resources it is called for, and no compliance changed.
LEMMA UpdateRequiresType ==
    ASSUME NEW m \in Models, NEW v \in ModelVersions, NEW S \in SUBSET Resources
    PROVE  /\ update_requires(m, v, S) \in Models /\ SameCompliance(m, update_requires(m, v, S))
           /\ \A r \in Resources :
                update_requires(m, v, S).requires[r] = IF r \in S THEN v.requires[r] ELSE m.requires[r]
  <1> DEFINE requires == [r \in Resources |-> IF r \in S THEN v.requires[r] ELSE m.requires[r]]
             changed == [m EXCEPT !.requires = requires]
             freed == {r \in S : /\ m.resource_state[r].blocked = "TEMPORARILY_BLOCKED"
                                 /\ m.requires[r] \ v.requires[r] # {}
                                 /\ ~should_skip_for_dependencies(changed, r)}
             state == [r \in Resources |->
                           IF r \in freed THEN [m.resource_state[r] EXCEPT !.blocked = "NOT_BLOCKED"]
                           ELSE m.resource_state[r]]
  <1>1. requires \in Edges
    BY DEF Models, ModelVersions, Edges
  <1>2. freed \in SUBSET Resources
    OBVIOUS
  <1>3. update_requires(m, v, S) = [changed EXCEPT !.dirty = @ \cup freed, !.resource_state = state]
    BY DEF update_requires
  <1> HIDE DEF requires, freed
  <1>4. \A r \in Resources : /\ state[r] \in ResourceStates
                             /\ state[r].compliance = m.resource_state[r].compliance
    BY BlockedChangeType DEF Models, BlockedStates
  <1>5. state \in [Resources -> ResourceStates]
    BY <1>4
  <1> HIDE DEF state
  <1>6. /\ update_requires(m, v, S) \in Models /\ SameCompliance(m, update_requires(m, v, S))
        /\ update_requires(m, v, S).requires = requires
    BY <1>1, <1>2, <1>3, <1>4, <1>5 DEF Models, SameCompliance
  <1> QED BY <1>6 DEF requires

\* Resetting TEMPORARILY_BLOCKED for the dependants of re-created resources changes no
\* compliance and no requires.
LEMMA ResetRequiresType ==
    ASSUME NEW m \in Models, NEW recreated
    PROVE  /\ reset_requires(m, recreated) \in Models /\ SameCompliance(m, reset_requires(m, recreated))
           /\ reset_requires(m, recreated).requires = m.requires
  <1> DEFINE reset(r) == /\ r \in dependants(m, recreated)
                         /\ m.resource_state[r].blocked = "TEMPORARILY_BLOCKED"
                         /\ ~should_skip_for_dependencies(m, r)
             state == [r \in Resources |->
                         IF reset(r) THEN [m.resource_state[r] EXCEPT !.blocked = "NOT_BLOCKED"]
                         ELSE m.resource_state[r]]
  <1>1. reset_requires(m, recreated) = [m EXCEPT !.resource_state = state]
    BY DEF reset_requires
  <1> HIDE DEF reset
  <1>2. \A r \in Resources : /\ state[r] \in ResourceStates
                             /\ state[r].compliance = m.resource_state[r].compliance
    BY BlockedChangeType DEF Models, BlockedStates
  <1>3. state \in [Resources -> ResourceStates]
    BY <1>2
  <1> HIDE DEF state
  <1> QED BY <1>1, <1>2, <1>3 DEF Models, SameCompliance

\* Whatever order its worklists take, update_transitive_state changes no compliance and
\* no requires.
LEMMA UpdateTransitiveStateType ==
    ASSUME NEW m \in Models, NEW new_undefined, NEW verify_blocked \in SUBSET Resources,
           NEW verify_unblocked,
           NEW out \in update_transitive_state(m, new_undefined, verify_blocked, verify_unblocked)
    PROVE  /\ out.model \in Models /\ SameCompliance(m, out.model)
           /\ out.unblocked \subseteq Resources
           /\ out = [blocked |-> out.blocked, unblocked |-> out.unblocked, model |-> out.model]
           /\ out.model.requires = m.requires
  <1> DEFINE stage2 == propagate_undefined(m, new_undefined)
             B2     == is_blocked(m) \cup stage2
  <1>1. PICK stage3 \in verified_blocked(m, B2, verify_blocked) :
          LET B3        == B2 \cup stage3
              blocked   == stage2 \cup stage3 \cup propagate_blocked(m, B3, stage3)
              unblocked == propagate_unblocked(m, B3, verify_unblocked)
              state == [r \in Resources |->
                          IF r \in unblocked THEN [m.resource_state[r] EXCEPT !.blocked = "NOT_BLOCKED"]
                          ELSE IF r \in blocked THEN [m.resource_state[r] EXCEPT !.blocked = "BLOCKED"]
                          ELSE m.resource_state[r]]
          IN  out = [blocked |-> blocked, unblocked |-> unblocked,
                     model |-> [m EXCEPT !.resource_state = state,
                                  !.dirty = (@ \ blocked) \cup {r \in unblocked : is_dirty(state[r])}]]
    BY Zenon DEF update_transitive_state
  <1> DEFINE B3        == B2 \cup stage3
             blocked   == stage2 \cup stage3 \cup propagate_blocked(m, B3, stage3)
             unblocked == propagate_unblocked(m, B3, verify_unblocked)
             state == [r \in Resources |->
                        IF r \in unblocked THEN [m.resource_state[r] EXCEPT !.blocked = "NOT_BLOCKED"]
                        ELSE IF r \in blocked THEN [m.resource_state[r] EXCEPT !.blocked = "BLOCKED"]
                        ELSE m.resource_state[r]]
             dirty == (m.dirty \ blocked) \cup {r \in unblocked : is_dirty(state[r])}
  <1>2. out = [blocked |-> blocked, unblocked |-> unblocked,
               model |-> [m EXCEPT !.resource_state = state, !.dirty = dirty]]
    BY <1>1
  <1>3. stage2 \subseteq Resources /\ is_blocked(m) \subseteq Resources
    BY DEF propagate_undefined, LeastClosed, managed, is_blocked
  <1>4. stage3 \subseteq Resources
    BY DEF verified_blocked
  <1>5. unblocked \subseteq B3
    BY DEF propagate_unblocked, LeastClosed
  <1>6. unblocked \subseteq Resources
    BY <1>3, <1>4, <1>5
  <1> HIDE DEF blocked, unblocked
  <1>7. dirty \in SUBSET Resources
    BY <1>6 DEF Models
  <1>8. \A r \in Resources : /\ state[r] \in ResourceStates
                             /\ state[r].compliance = m.resource_state[r].compliance
    BY BlockedChangeType DEF Models, BlockedStates
  <1>9. state \in [Resources -> ResourceStates]
    BY <1>8
  <1> HIDE DEF state, dirty
  <1>10. /\ out.model = [m EXCEPT !.resource_state = state, !.dirty = dirty]
         /\ out.unblocked = unblocked
         /\ out = [blocked |-> out.blocked, unblocked |-> out.unblocked, model |-> out.model]
    BY <1>2
  <1> QED BY <1>6, <1>7, <1>8, <1>9, <1>10 DEF Models, SameCompliance

\* The type of intent_changes.
IntentChanges == [deleted : SUBSET Resources, new : SUBSET Resources, updated : SUBSET Resources]

\* The model that _new_version computes is well formed, has the compliance that
\* update_resource assigned, and its requires differ from those before by the added and
\* dropped ones only.
LEMMA UpdatedModelsType ==
    ASSUME NEW m \in Models, NEW v \in ModelVersions, NEW recreated, NEW c \in IntentChanges,
           NEW out \in updated_models(m, v, c, recreated)
    PROVE  /\ out.model \in Models
           /\ SameCompliance(update_resource(m, v, c.new, c.updated), out.model)
           /\ out.unblocked \subseteq Resources
           /\ \A r \in Resources :
                /\ out.model.requires[r] \subseteq m.requires[r] \cup added_requires(m, v)[r]
                /\ out.model.requires[r] \cap dropped_requires(m, v)[r] = {}
  <1> DEFINE added   == {r \in Resources : added_requires(m, v)[r] # {}}
             dropped == {r \in Resources : dropped_requires(m, v)[r] # {}}
             m1 == update_resource(m, v, c.new, c.updated)
             m2 == update_requires(m1, v, added \cup dropped)
             outs == update_transitive_state(m2, became_undefined(m, v, c), added,
                                             became_defined(m, v, c) \cup dropped)
  <1>0. out \in {[o EXCEPT !.model = reset_requires(o.model, recreated)] : o \in outs}
    BY DEF updated_models
  <1> HIDE DEF outs
  <1>1. PICK o \in outs : out = [o EXCEPT !.model = reset_requires(o.model, recreated)]
    BY <1>0
  <1> USE DEF outs
  <1>2. added \in SUBSET Resources /\ added \cup dropped \in SUBSET Resources
    OBVIOUS
  <1> HIDE DEF added, dropped
  <1>3. m1 \in Models /\ \A r \in Resources : m1.requires[r] \subseteq m.requires[r]
    <2>1. m1 \in Models
      BY UpdateResourceType DEF IntentChanges
    <2>2. m1.requires = drop_edges(m.requires, c.new)
      BY DEF update_resource
    <2> HIDE DEF m1
    <2> QED BY <2>1, <2>2 DEF drop_edges
  <1> HIDE DEF m1
  <1>4. /\ m2 \in Models /\ SameCompliance(m1, m2)
        /\ \A r \in Resources :
             m2.requires[r] = IF r \in added \cup dropped THEN v.requires[r] ELSE m1.requires[r]
    BY <1>2, <1>3, UpdateRequiresType
  <1> HIDE DEF m2
  <1>5. /\ o.model \in Models /\ SameCompliance(m2, o.model) /\ o.unblocked \subseteq Resources
        /\ o = [blocked |-> o.blocked, unblocked |-> o.unblocked, model |-> o.model]
        /\ o.model.requires = m2.requires
    BY <1>2, <1>4, UpdateTransitiveStateType, SMTT(30)
  <1>6. /\ reset_requires(o.model, recreated) \in Models
        /\ SameCompliance(o.model, reset_requires(o.model, recreated))
        /\ reset_requires(o.model, recreated).requires = o.model.requires
    BY <1>5, ResetRequiresType
  <1>7. /\ out.model = reset_requires(o.model, recreated)
        /\ out.unblocked = o.unblocked
    BY <1>1, <1>5
  <1> HIDE DEF outs
  <1>8. out.model.requires = m2.requires
    BY <1>5, <1>6, <1>7
  <1>9. ASSUME NEW r \in Resources
        PROVE  /\ m2.requires[r] \subseteq m.requires[r] \cup added_requires(m, v)[r]
               /\ m2.requires[r] \cap dropped_requires(m, v)[r] = {}
    <2>1. CASE r \in added \cup dropped
      BY <1>4, <2>1 DEF added, dropped, added_requires, dropped_requires
    <2>2. CASE r \notin added \cup dropped
      BY <1>3, <1>4, <2>2 DEF dropped
    <2> QED BY <2>1, <2>2
  <1> QED BY <1>4, <1>5, <1>6, <1>7, <1>8, <1>9 DEF SameCompliance, m1

\* _get_intent_changes classifies resources of the model.
LEMMA IntentChangesType ==
    ASSUME NEW m \in Models, NEW v \in ModelVersions, NEW recreated \in SUBSET Resources, NEW reverted
    PROVE  intent_changes(m, v, recreated, reverted) \in IntentChanges
  BY DEF intent_changes, IntentChanges, managed

\* The changes of requires are edges between resources.
LEMMA RequiresChangesType ==
    ASSUME NEW m \in Models, NEW v \in ModelVersions
    PROVE  added_requires(m, v) \in Edges /\ dropped_requires(m, v) \in Edges
  BY DEF added_requires, dropped_requires, Edges, Models, ModelVersions

-----------------------------------------------------------------------------
(* What a new version does to the blocked state and to the dirty set *)

\* Two resource states that differ in nothing but the blocked state.
SameButBlocked(s, t) ==
    /\ t.compliance = s.compliance /\ t.last_handler_run = s.last_handler_run
    /\ t.last_deployed = s.last_deployed
    /\ t.last_handler_run_compliant = s.last_handler_run_compliant

\* Changing the blocked state changes nothing else.
LEMMA BlockedChange ==
    ASSUME NEW s \in ResourceStates, NEW l \in BlockedStates
    PROVE  /\ [s EXCEPT !.blocked = l].blocked = l
           /\ SameButBlocked(s, [s EXCEPT !.blocked = l])
           /\ SameButBlocked(s, s)
  BY DEF ResourceStates, SameButBlocked

\* The state update_resource leaves for a resource that it updates: what is known of its deploys is kept.
LEMMA UpdatedResourceState ==
    ASSUME NEW m \in Models, NEW v, NEW r \in Resources, NEW new, r \notin new,
           NEW s, s = updated_state(m, v, r, new), NEW t, t = m.resource_state[r]
    PROVE  /\ s.compliance = IF r \in v.undefined THEN "UNDEFINED" ELSE "HAS_UPDATE"
           /\ s.blocked = IF r \in v.undefined \/ t.blocked = "BLOCKED" THEN "BLOCKED" ELSE "NOT_BLOCKED"
           /\ s.last_handler_run = t.last_handler_run /\ s.last_deployed = t.last_deployed
           /\ s.last_handler_run_compliant = t.last_handler_run_compliant
  <1> DEFINE compliance == IF r \in v.undefined THEN "UNDEFINED" ELSE "HAS_UPDATE"
             blocked == IF r \in v.undefined THEN "BLOCKED" ELSE "NOT_BLOCKED"
             kept == IF t.blocked = "BLOCKED" THEN t.blocked ELSE blocked
  <1>1. s = [t EXCEPT !.compliance = compliance, !.blocked = kept]
    BY DEF updated_state
  <1>2. t \in ResourceStates
    BY DEF Models
  <1>3. kept = IF r \in v.undefined \/ t.blocked = "BLOCKED" THEN "BLOCKED" ELSE "NOT_BLOCKED"
    OBVIOUS
  <1> HIDE DEF compliance, kept
  <1>4. /\ s.compliance = compliance /\ s.blocked = kept
        /\ s.last_handler_run = t.last_handler_run /\ s.last_deployed = t.last_deployed
        /\ s.last_handler_run_compliant = t.last_handler_run_compliant
    BY <1>1, <1>2 DEF ResourceStates
  <1> QED BY <1>3, <1>4 DEF compliance

\* The resources that update_requires frees of their bad dependencies.
Freed(m, v, S) ==
    {r \in S : /\ m.resource_state[r].blocked = "TEMPORARILY_BLOCKED"
               /\ m.requires[r] \ v.requires[r] # {}
               /\ \A d \in v.requires[r] : m.resource_state[d].last_handler_run_compliant # FALSE}

\* update_requires changes nothing but the requires and the freed resources, which become
\* dirty.
LEMMA UpdateRequiresState ==
    ASSUME NEW m \in Models, NEW v \in ModelVersions, NEW S \in SUBSET Resources
    PROVE  LET n == update_requires(m, v, S)
           IN  /\ n.intent = m.intent
               /\ n.dirty = m.dirty \cup Freed(m, v, S)
               /\ \A r \in Resources :
                    /\ SameButBlocked(m.resource_state[r], n.resource_state[r])
                    /\ n.resource_state[r].blocked = IF r \in Freed(m, v, S) THEN "NOT_BLOCKED"
                                                     ELSE m.resource_state[r].blocked
  <1> DEFINE requires == [r \in Resources |-> IF r \in S THEN v.requires[r] ELSE m.requires[r]]
             changed == [m EXCEPT !.requires = requires]
             freed == {r \in S : /\ m.resource_state[r].blocked = "TEMPORARILY_BLOCKED"
                                 /\ m.requires[r] \ v.requires[r] # {}
                                 /\ ~should_skip_for_dependencies(changed, r)}
             state == [r \in Resources |->
                           IF r \in freed THEN [m.resource_state[r] EXCEPT !.blocked = "NOT_BLOCKED"]
                           ELSE m.resource_state[r]]
             n == update_requires(m, v, S)
  <1>1. n = [changed EXCEPT !.dirty = @ \cup freed, !.resource_state = state]
    BY DEF update_requires
  <1>2. freed = Freed(m, v, S)
    <2>1. changed.resource_state = m.resource_state /\ \A r \in S : changed.requires[r] = v.requires[r]
      BY DEF Models
    <2> HIDE DEF changed
    <2>2. \A r \in S : should_skip_for_dependencies(changed, r) <=>
                          \E d \in v.requires[r] : m.resource_state[d].last_handler_run_compliant = FALSE
      BY <2>1 DEF should_skip_for_dependencies
    <2> QED BY <2>2 DEF Freed
  <1> HIDE DEF freed, requires
  <1>3. n.intent = m.intent /\ n.dirty = m.dirty \cup freed /\ n.resource_state = state
    BY <1>1 DEF Models
  <1>4. \A r \in Resources : /\ SameButBlocked(m.resource_state[r], state[r])
                             /\ state[r].blocked = IF r \in freed THEN "NOT_BLOCKED"
                                                   ELSE m.resource_state[r].blocked
    <2> TAKE r \in Resources
    <2>1. m.resource_state[r] \in ResourceStates /\ "NOT_BLOCKED" \in BlockedStates
      BY DEF Models, BlockedStates
    <2>2. CASE r \in freed
      BY <2>1, <2>2, BlockedChange
    <2>3. CASE ~(r \in freed)
      BY <2>1, <2>3, BlockedChange
    <2> QED BY <2>2, <2>3
  <1> HIDE DEF state, n
  <1> QED BY <1>2, <1>3, <1>4 DEF n

\* reset_requires changes nothing but the blocked state of resources that skip, and nothing
\* at all when no resource was re-created.
LEMMA ResetRequiresState ==
    ASSUME NEW m \in Models, NEW recreated
    PROVE  LET n == reset_requires(m, recreated)
           IN  /\ n.intent = m.intent /\ n.dirty = m.dirty
               /\ \A r \in Resources :
                    /\ SameButBlocked(m.resource_state[r], n.resource_state[r])
                    /\ \/ n.resource_state[r].blocked = m.resource_state[r].blocked
                       \/ /\ recreated # {}
                          /\ m.resource_state[r].blocked = "TEMPORARILY_BLOCKED"
                          /\ n.resource_state[r].blocked = "NOT_BLOCKED"
  <1> DEFINE reset(r) == /\ r \in dependants(m, recreated)
                         /\ m.resource_state[r].blocked = "TEMPORARILY_BLOCKED"
                         /\ ~should_skip_for_dependencies(m, r)
             state == [r \in Resources |->
                         IF reset(r) THEN [m.resource_state[r] EXCEPT !.blocked = "NOT_BLOCKED"]
                         ELSE m.resource_state[r]]
             n == reset_requires(m, recreated)
  <1>1. n = [m EXCEPT !.resource_state = state]
    BY DEF reset_requires
  <1>2. \A r : reset(r) => recreated # {} /\ m.resource_state[r].blocked = "TEMPORARILY_BLOCKED"
    BY DEF dependants
  <1> HIDE DEF reset
  <1>3. \A r \in Resources :
           /\ SameButBlocked(m.resource_state[r], state[r])
           /\ state[r].blocked = IF reset(r) THEN "NOT_BLOCKED" ELSE m.resource_state[r].blocked
    <2> TAKE r \in Resources
    <2>1. m.resource_state[r] \in ResourceStates /\ "NOT_BLOCKED" \in BlockedStates
      BY DEF Models, BlockedStates
    <2>2. CASE reset(r)
      BY <2>1, <2>2, BlockedChange
    <2>3. CASE ~(reset(r))
      BY <2>1, <2>3, BlockedChange
    <2> QED BY <2>2, <2>3
  <1>4. n.intent = m.intent /\ n.dirty = m.dirty /\ n.resource_state = state
    BY <1>1 DEF Models
  <1> HIDE DEF state, n
  <1> QED BY <1>2, <1>3, <1>4 DEF n

\* What stage 3 and stage 4 start from: is_blocked(m) and all that stage 2 adds.
BlockedAfterStage2(m, new_undefined) == is_blocked(m) \cup propagate_undefined(m, new_undefined)

\* The sets that update_transitive_state returns, from what its stages find.
StagesFound(m, new_undefined, verify_blocked, verify_unblocked, out) ==
    \E stage3 \in verified_blocked(m, BlockedAfterStage2(m, new_undefined), verify_blocked) :
        LET B3 == BlockedAfterStage2(m, new_undefined) \cup stage3
        IN  /\ out.blocked = propagate_undefined(m, new_undefined) \cup stage3
                               \cup propagate_blocked(m, B3, stage3)
            /\ out.unblocked = propagate_unblocked(m, B3, verify_unblocked)

\* The blocked state of r once update_transitive_state returned o for the model n.
BlockedBy(n, o, r) == IF r \in o.unblocked THEN "NOT_BLOCKED"
                      ELSE IF r \in o.blocked THEN "BLOCKED" ELSE n.resource_state[r].blocked

\* What update_transitive_state makes of the blocked state and of the dirty set of the
\* model n.  Undefined resources are never unblocked.
TransitiveDone(n, o) ==
    /\ o.model \in Models /\ o.model.intent = n.intent /\ o.model.requires = n.requires
    /\ o.unblocked \subseteq (is_blocked(n) \cup o.blocked) \ is_undefined(n)
    /\ o.unblocked \subseteq Resources
    /\ o.model.dirty = (n.dirty \ o.blocked) \cup {r \in o.unblocked : is_dirty(n.resource_state[r])}
    /\ \A r \in Resources : /\ SameButBlocked(n.resource_state[r], o.model.resource_state[r])
                            /\ o.model.resource_state[r].blocked = BlockedBy(n, o, r)

\* That, and how the sets that it returns are found.
LEMMA TransitiveStateResult ==
    ASSUME NEW m \in Models, NEW new_undefined, NEW verify_blocked \in SUBSET Resources,
           NEW verify_unblocked,
           NEW out \in update_transitive_state(m, new_undefined, verify_blocked, verify_unblocked)
    PROVE  /\ StagesFound(m, new_undefined, verify_blocked, verify_unblocked, out)
           /\ TransitiveDone(m, out)
  <1>3. out.model \in Models /\ out.unblocked \subseteq Resources /\ out.model.requires = m.requires
    BY UpdateTransitiveStateType
  <1> DEFINE stage2 == propagate_undefined(m, new_undefined)
             B2     == is_blocked(m) \cup stage2
  <1>1. PICK stage3 \in verified_blocked(m, B2, verify_blocked) :
          LET B3        == B2 \cup stage3
              blocked   == stage2 \cup stage3 \cup propagate_blocked(m, B3, stage3)
              unblocked == propagate_unblocked(m, B3, verify_unblocked)
              state == [r \in Resources |->
                          IF r \in unblocked THEN [m.resource_state[r] EXCEPT !.blocked = "NOT_BLOCKED"]
                          ELSE IF r \in blocked THEN [m.resource_state[r] EXCEPT !.blocked = "BLOCKED"]
                          ELSE m.resource_state[r]]
          IN  out = [blocked |-> blocked, unblocked |-> unblocked,
                     model |-> [m EXCEPT !.resource_state = state,
                                  !.dirty = (@ \ blocked) \cup {r \in unblocked : is_dirty(state[r])}]]
    BY Zenon DEF update_transitive_state
  <1> DEFINE B3        == B2 \cup stage3
             blocked   == stage2 \cup stage3 \cup propagate_blocked(m, B3, stage3)
             unblocked == propagate_unblocked(m, B3, verify_unblocked)
             state == [r \in Resources |->
                        IF r \in unblocked THEN [m.resource_state[r] EXCEPT !.blocked = "NOT_BLOCKED"]
                        ELSE IF r \in blocked THEN [m.resource_state[r] EXCEPT !.blocked = "BLOCKED"]
                        ELSE m.resource_state[r]]
             dirty == (m.dirty \ blocked) \cup {r \in unblocked : is_dirty(state[r])}
  <1>2. out = [blocked |-> blocked, unblocked |-> unblocked,
               model |-> [m EXCEPT !.resource_state = state, !.dirty = dirty]]
    BY <1>1
  <1>4. unblocked \subseteq B3 \ is_undefined(m)
    <2> DEFINE P(T) == {r \in (verify_unblocked \cup dependants(m, T)) \ is_undefined(m) :
                          m.requires[r] \cap B3 \subseteq T}
    <2>1. unblocked = {r \in B3 : \A U \in SUBSET B3 : P(U) \cap B3 \subseteq U => r \in U}
      BY DEF propagate_unblocked, LeastClosed
    <2> DEFINE U == B3 \ is_undefined(m)
    <2>2. P(U) \cap B3 \subseteq U /\ U \in SUBSET B3
      OBVIOUS
    <2> HIDE DEF P, U, unblocked
    <2>3. unblocked \subseteq U
      BY <2>1, <2>2
    <2> QED BY <2>3 DEF U
  <1>5. B3 \subseteq is_blocked(m) \cup blocked
    OBVIOUS
  <1>6. B2 = BlockedAfterStage2(m, new_undefined)
    BY DEF BlockedAfterStage2
  <1> HIDE DEF B2
  <1>7. LET BB3 == BlockedAfterStage2(m, new_undefined) \cup stage3
        IN  /\ blocked = propagate_undefined(m, new_undefined) \cup stage3
                           \cup propagate_blocked(m, BB3, stage3)
            /\ unblocked = propagate_unblocked(m, BB3, verify_unblocked)
    BY <1>6
  <1> HIDE DEF blocked, unblocked, B3
  <1>8. \A r \in Resources :
          /\ SameButBlocked(m.resource_state[r], state[r])
          /\ state[r].blocked = IF r \in unblocked THEN "NOT_BLOCKED"
                                ELSE IF r \in blocked THEN "BLOCKED" ELSE m.resource_state[r].blocked
    <2> TAKE r \in Resources
    <2>1. m.resource_state[r] \in ResourceStates /\ {"NOT_BLOCKED", "BLOCKED"} \subseteq BlockedStates
      BY DEF Models, BlockedStates
    <2>2. CASE r \in unblocked
      BY <2>1, <2>2, BlockedChange
    <2>3. CASE r \notin unblocked /\ r \in blocked
      BY <2>1, <2>3, BlockedChange
    <2>4. CASE r \notin unblocked /\ r \notin blocked
      BY <2>1, <2>4, BlockedChange
    <2> QED BY <2>2, <2>3, <2>4
  <1> HIDE DEF state
  <1>9. dirty = (m.dirty \ blocked) \cup {r \in unblocked : is_dirty(m.resource_state[r])}
    <2>1. unblocked \subseteq Resources
      BY <1>2, <1>3
    <2>2. \A r \in unblocked : is_dirty(state[r]) <=> is_dirty(m.resource_state[r])
      BY <1>8, <2>1 DEF is_dirty, SameButBlocked
    <2> QED BY <2>2
  <1> HIDE DEF dirty
  <1>10. /\ out.blocked = blocked /\ out.unblocked = unblocked
         /\ out.model.intent = m.intent /\ out.model.dirty = dirty /\ out.model.resource_state = state
    BY <1>2 DEF Models
  <1>11. StagesFound(m, new_undefined, verify_blocked, verify_unblocked, out)
    BY <1>6, <1>7, <1>10 DEF StagesFound
  <1>12. TransitiveDone(m, out)
    BY <1>3, <1>4, <1>5, <1>8, <1>9, <1>10 DEF TransitiveDone, BlockedBy
  <1> QED BY <1>11, <1>12

\* The resources whose requires a new version adds to, or drops.
Added(m, v)   == {r \in Resources : added_requires(m, v)[r] # {}}
Dropped(m, v) == {r \in Resources : dropped_requires(m, v)[r] # {}}

\* The model that update_transitive_state is called with.
WithRequires(m, v, c) ==
    update_requires(update_resource(m, v, c.new, c.updated), v, Added(m, v) \cup Dropped(m, v))

\* What _new_version computes is the result of one such call; only the resources that skip
\* for a re-created one are reset afterwards.
LEMMA UpdatedModelsResult ==
    ASSUME NEW m \in Models, NEW v \in ModelVersions, NEW recreated, NEW c \in IntentChanges,
           NEW out \in updated_models(m, v, c, recreated)
    PROVE  \E o \in update_transitive_state(WithRequires(m, v, c), became_undefined(m, v, c), Added(m, v),
                                            became_defined(m, v, c) \cup Dropped(m, v)) :
             /\ out.model = reset_requires(o.model, recreated)
             /\ out.blocked = o.blocked /\ out.unblocked = o.unblocked
             /\ o.model \in Models /\ WithRequires(m, v, c) \in Models
  <1> DEFINE outs == update_transitive_state(WithRequires(m, v, c), became_undefined(m, v, c), Added(m, v),
                                             became_defined(m, v, c) \cup Dropped(m, v))
  <1>1. out \in {[o EXCEPT !.model = reset_requires(o.model, recreated)] : o \in outs}
    BY DEF updated_models, WithRequires, Added, Dropped
  <1>2. WithRequires(m, v, c) \in Models
    <2>1. update_resource(m, v, c.new, c.updated) \in Models
      BY UpdateResourceType, SMTT(30) DEF IntentChanges
    <2>2. Added(m, v) \cup Dropped(m, v) \in SUBSET Resources
      BY DEF Added, Dropped
    <2> QED BY <2>1, <2>2, UpdateRequiresType DEF WithRequires
  <1> HIDE DEF outs
  <1>3. PICK o \in outs : out = [o EXCEPT !.model = reset_requires(o.model, recreated)]
    BY <1>1
  <1>4. Added(m, v) \in SUBSET Resources
    BY DEF Added
  <1>5. /\ o.model \in Models
        /\ o = [blocked |-> o.blocked, unblocked |-> o.unblocked, model |-> o.model]
    BY <1>2, <1>4, UpdateTransitiveStateType DEF outs
  <1>6. /\ out.model = reset_requires(o.model, recreated)
        /\ out.blocked = o.blocked /\ out.unblocked = o.unblocked
    BY <1>3, <1>5
  <1> QED BY <1>2, <1>5, <1>6 DEF outs
\* The model n once update_requires is done, resource by resource; F are the resources that
\* it frees of their bad dependencies.
RequiresDone(m, v, c, n, F) ==
    LET S == Added(m, v) \cup Dropped(m, v)
        changed == c.new \cup c.updated
    IN  /\ F \in SUBSET (S \ changed)
        /\ n.dirty = (m.dirty \ changed) \cup F
                       \cup {r \in changed : r \notin v.undefined
                               /\ (r \in c.new \/ m.resource_state[r].blocked # "BLOCKED")}
        /\ \A r \in Resources :
             LET s == m.resource_state[r]
                 t == n.resource_state[r]
             IN  /\ n.intent[r] = IF r \in changed THEN v.intent[r] ELSE m.intent[r]
                 /\ n.requires[r] = IF r \in S THEN v.requires[r] ELSE drop_edges(m.requires, c.new)[r]
                 /\ r \in changed => t.compliance = IF r \in v.undefined THEN "UNDEFINED" ELSE "HAS_UPDATE"
                 /\ r \in c.new =>
                      /\ t.blocked = IF r \in v.undefined THEN "BLOCKED" ELSE "NOT_BLOCKED"
                      /\ t.last_handler_run = "NEW" /\ t.last_deployed = FALSE
                      /\ t.last_handler_run_compliant = None
                 /\ r \in c.updated \ c.new =>
                      /\ t.blocked = IF r \in v.undefined \/ s.blocked = "BLOCKED"
                                     THEN "BLOCKED" ELSE "NOT_BLOCKED"
                      /\ t.last_handler_run = s.last_handler_run /\ t.last_deployed = s.last_deployed
                      /\ t.last_handler_run_compliant = s.last_handler_run_compliant
                 /\ r \notin changed =>
                      /\ SameButBlocked(s, t)
                      /\ t.blocked = IF r \in F THEN "NOT_BLOCKED" ELSE s.blocked
                 /\ r \in F => s.blocked = "TEMPORARILY_BLOCKED"
        /\ \A r \in S \ changed :
             (/\ m.resource_state[r].blocked = "TEMPORARILY_BLOCKED"
              /\ drop_edges(m.requires, c.new)[r] \ v.requires[r] # {}
              /\ \A d \in v.requires[r] : n.resource_state[d].last_handler_run_compliant # FALSE)
             => r \in F

\* That is the model update_transitive_state is called with.
LEMMA WithRequiresState ==
    ASSUME NEW m \in Models, NEW v \in ModelVersions, NEW c \in IntentChanges
    PROVE  \E F \in SUBSET Resources : RequiresDone(m, v, c, WithRequires(m, v, c), F)
  <1>a. c.new \in SUBSET Resources /\ c.updated \in SUBSET Resources
    BY DEF IntentChanges
  <1>b. PICK new, updated \in SUBSET Resources : new = c.new /\ updated = c.updated
    BY <1>a
  <1>c. /\ update_resource(m, v, new, updated) \in Models
        /\ \A r \in Resources :
             /\ update_resource(m, v, new, updated).intent[r]
                  = IF r \in new \cup updated THEN v.intent[r] ELSE m.intent[r]
             /\ update_resource(m, v, new, updated).resource_state[r]
                  = IF r \in new \cup updated THEN updated_state(m, v, r, new) ELSE m.resource_state[r]
    BY UpdateResourceType
  <1> DEFINE changed == c.new \cup c.updated
             S == Added(m, v) \cup Dropped(m, v)
             m1 == update_resource(m, v, c.new, c.updated)
             n == WithRequires(m, v, c)
             F == Freed(m1, v, S)
  <1>1. c.new \in SUBSET Resources /\ c.updated \in SUBSET Resources
    BY <1>a
  <1>2. /\ m1 \in Models
        /\ \A r \in Resources :
             /\ m1.intent[r] = IF r \in changed THEN v.intent[r] ELSE m.intent[r]
             /\ m1.resource_state[r] = IF r \in changed THEN updated_state(m, v, r, c.new)
                                       ELSE m.resource_state[r]
    BY <1>b, <1>c
  <1>3. /\ m1.requires = drop_edges(m.requires, c.new)
        /\ m1.dirty = (m.dirty \ changed) \cup {r \in changed : m1.resource_state[r].blocked = "NOT_BLOCKED"}
    <2> DEFINE state == [r \in Resources |-> IF r \in changed THEN updated_state(m, v, r, c.new)
                                              ELSE m.resource_state[r]]
    <2>1. /\ m1.requires = drop_edges(m.requires, c.new) /\ m1.resource_state = state
          /\ m1.dirty = (m.dirty \ changed) \cup {r \in changed : state[r].blocked = "NOT_BLOCKED"}
      BY DEF update_resource
    <2> HIDE DEF m1, state
    <2> QED BY <2>1
  <1>4. S \in SUBSET Resources
    BY DEF Added, Dropped
  <1>5. n = update_requires(m1, v, S)
    BY DEF WithRequires
  <1> HIDE DEF m1, S, n, F
  <1>6. /\ n.intent = m1.intent /\ n.dirty = m1.dirty \cup F
        /\ \A r \in Resources :
             /\ SameButBlocked(m1.resource_state[r], n.resource_state[r])
             /\ n.resource_state[r].blocked = IF r \in F THEN "NOT_BLOCKED" ELSE m1.resource_state[r].blocked
    BY <1>2, <1>4, <1>5, UpdateRequiresState DEF F
  <1>7. \A r \in Resources : n.requires[r] = IF r \in S THEN v.requires[r] ELSE m1.requires[r]
    <2>1. PICK mm \in Models, SS \in SUBSET Resources : mm = m1 /\ SS = S
      BY <1>2, <1>4
    <2>2. \A r \in Resources :
             update_requires(mm, v, SS).requires[r] = IF r \in SS THEN v.requires[r] ELSE mm.requires[r]
      BY UpdateRequiresType
    <2> QED BY <1>5, <2>1, <2>2
  <1>8. \A r \in Resources :
          LET s == m.resource_state[r]
              t == m1.resource_state[r]
          IN  /\ r \in c.new =>
                   /\ t.compliance = IF r \in v.undefined THEN "UNDEFINED" ELSE "HAS_UPDATE"
                   /\ t.blocked = IF r \in v.undefined THEN "BLOCKED" ELSE "NOT_BLOCKED"
                   /\ t.last_handler_run = "NEW" /\ t.last_deployed = FALSE
                   /\ t.last_handler_run_compliant = None
              /\ r \in c.updated \ c.new =>
                   /\ t.compliance = IF r \in v.undefined THEN "UNDEFINED" ELSE "HAS_UPDATE"
                   /\ t.blocked = IF r \in v.undefined \/ s.blocked = "BLOCKED" THEN "BLOCKED" ELSE "NOT_BLOCKED"
                   /\ t.last_handler_run = s.last_handler_run /\ t.last_deployed = s.last_deployed
                   /\ t.last_handler_run_compliant = s.last_handler_run_compliant
              /\ r \notin changed => t = s
    <2> TAKE r \in Resources
    <2>1. CASE r \in c.new
      <3>1. PICK s : s = m1.resource_state[r]
        OBVIOUS
      <3>2. s = updated_state(m, v, r, c.new)
        BY <1>2, <2>1, <3>1
      <3> HIDE DEF changed
      <3>3. /\ s.compliance = IF r \in v.undefined THEN "UNDEFINED" ELSE "HAS_UPDATE"
            /\ s.blocked = IF r \in v.undefined THEN "BLOCKED" ELSE "NOT_BLOCKED"
            /\ s.last_handler_run = "NEW" /\ s.last_deployed = FALSE
            /\ s.last_handler_run_compliant = None
        BY <2>1, <3>2 DEF updated_state, NoState
      <3> QED BY <2>1, <3>1, <3>3 DEF changed
    <2>2. CASE r \in c.updated \ c.new
      <3>1. PICK s, t : s = m1.resource_state[r] /\ t = m.resource_state[r]
        OBVIOUS
      <3>2. s = updated_state(m, v, r, c.new) /\ r \notin c.new
        BY <1>2, <2>2, <3>1
      <3> HIDE DEF changed
      <3>3. /\ s.compliance = IF r \in v.undefined THEN "UNDEFINED" ELSE "HAS_UPDATE"
            /\ s.blocked = IF r \in v.undefined \/ t.blocked = "BLOCKED" THEN "BLOCKED" ELSE "NOT_BLOCKED"
            /\ s.last_handler_run = t.last_handler_run /\ s.last_deployed = t.last_deployed
            /\ s.last_handler_run_compliant = t.last_handler_run_compliant
        BY <3>1, <3>2, UpdatedResourceState
      <3> QED BY <2>2, <3>1, <3>2, <3>3 DEF changed
    <2>3. CASE r \notin changed
      BY <1>2, <2>3
    <2> QED BY <2>1, <2>2, <2>3
  <1>9. F \in SUBSET (S \ changed) /\ \A r \in F : m.resource_state[r].blocked = "TEMPORARILY_BLOCKED"
    <2>1. \A r \in F : r \in S /\ m1.resource_state[r].blocked = "TEMPORARILY_BLOCKED"
      BY DEF F, Freed
    <2> QED BY <1>1, <1>4, <1>8, <2>1
  <1>10. n.dirty = (m.dirty \ changed) \cup F
           \cup {r \in changed : r \notin v.undefined
                   /\ (r \in c.new \/ m.resource_state[r].blocked # "BLOCKED")}
    <2>1. \A r \in changed : m1.resource_state[r].blocked = "NOT_BLOCKED" <=>
             r \notin v.undefined /\ (r \in c.new \/ m.resource_state[r].blocked # "BLOCKED")
      BY <1>1, <1>8
    <2> QED BY <1>3, <1>6, <2>1
  <1>11. \A r \in Resources :
           LET s == m.resource_state[r]
               t == n.resource_state[r]
           IN  /\ n.intent[r] = IF r \in changed THEN v.intent[r] ELSE m.intent[r]
               /\ n.requires[r] = IF r \in S THEN v.requires[r] ELSE drop_edges(m.requires, c.new)[r]
               /\ r \in changed => t.compliance = IF r \in v.undefined THEN "UNDEFINED" ELSE "HAS_UPDATE"
               /\ r \in c.new =>
                    /\ t.blocked = IF r \in v.undefined THEN "BLOCKED" ELSE "NOT_BLOCKED"
                    /\ t.last_handler_run = "NEW" /\ t.last_deployed = FALSE
                    /\ t.last_handler_run_compliant = None
               /\ r \in c.updated \ c.new =>
                    /\ t.blocked = IF r \in v.undefined \/ s.blocked = "BLOCKED" THEN "BLOCKED" ELSE "NOT_BLOCKED"
                    /\ t.last_handler_run = s.last_handler_run /\ t.last_deployed = s.last_deployed
                    /\ t.last_handler_run_compliant = s.last_handler_run_compliant
               /\ r \notin changed =>
                    /\ SameButBlocked(s, t)
                    /\ t.blocked = IF r \in F THEN "NOT_BLOCKED" ELSE s.blocked
               /\ r \in F => s.blocked = "TEMPORARILY_BLOCKED"
    <2> TAKE r \in Resources
    <2>1. /\ n.intent[r] = IF r \in changed THEN v.intent[r] ELSE m.intent[r]
          /\ n.requires[r] = IF r \in S THEN v.requires[r] ELSE drop_edges(m.requires, c.new)[r]
          /\ r \in F => m.resource_state[r].blocked = "TEMPORARILY_BLOCKED"
      BY <1>2, <1>3, <1>6, <1>7, <1>9
    <2>2. CASE r \in c.new
      BY <1>6, <1>8, <1>9, <2>1, <2>2 DEF SameButBlocked
    <2>3. CASE r \in c.updated \ c.new
      BY <1>6, <1>8, <1>9, <2>1, <2>3 DEF SameButBlocked
    <2>4. CASE r \notin changed
      BY <1>6, <1>8, <2>1, <2>4 DEF SameButBlocked
    <2> QED BY <2>2, <2>3, <2>4
  <1>12. \A r \in S \ changed :
           (/\ m.resource_state[r].blocked = "TEMPORARILY_BLOCKED"
            /\ drop_edges(m.requires, c.new)[r] \ v.requires[r] # {}
            /\ \A d \in v.requires[r] : n.resource_state[d].last_handler_run_compliant # FALSE)
           => r \in F
    <2> SUFFICES ASSUME NEW r \in S \ changed,
                        m.resource_state[r].blocked = "TEMPORARILY_BLOCKED",
                        drop_edges(m.requires, c.new)[r] \ v.requires[r] # {},
                        \A d \in v.requires[r] : n.resource_state[d].last_handler_run_compliant # FALSE
                 PROVE  r \in F
      OBVIOUS
    <2>1. m1.resource_state[r] = m.resource_state[r] /\ m1.requires[r] = drop_edges(m.requires, c.new)[r]
      BY <1>2, <1>3, <1>4
    <2>2. v.requires[r] \subseteq Resources
      BY <1>4 DEF ModelVersions, Edges
    <2>3. \A d \in v.requires[r] : m1.resource_state[d].last_handler_run_compliant # FALSE
      BY <1>6, <2>2 DEF SameButBlocked
    <2> QED BY <2>1, <2>3 DEF F, Freed
  <1>13. F \in SUBSET Resources
    BY <1>4, <1>9
  <1>14. RequiresDone(m, v, c, n, F)
    BY <1>9, <1>10, <1>11, <1>12 DEF RequiresDone, S
  <1> QED BY <1>13, <1>14 DEF n
-----------------------------------------------------------------------------
(***************************************************************************)
(* What the searches of update_transitive_state find.  Each is the least   *)
(* set that is closed under a step of the search, hence also a fixpoint of *)
(* it: whatever is found has a reason that is found as well.               *)
(***************************************************************************)

\* Stage 2 finds every managed resource that is not blocked yet and requires a new undefined
\* one or another resource that it finds, and only those.
LEMMA PropagateUndefinedResult ==
    ASSUME NEW m, NEW new_undefined
    PROVE  \A r \in managed(m) \ is_blocked(m) :
              r \in propagate_undefined(m, new_undefined) <=>
                m.requires[r] \cap (new_undefined \cup propagate_undefined(m, new_undefined)) # {}
  <1> DEFINE S == managed(m) \ is_blocked(m)
             P(T) == dependants(m, new_undefined \cup T)
             D == {r \in S : \A U \in SUBSET S : P(U) \cap S \subseteq U => r \in U}
  <1>1. D = propagate_undefined(m, new_undefined)
    BY DEF propagate_undefined, LeastClosed
  <1>2. \A T, U : T \subseteq U => P(T) \subseteq P(U)
    BY DEF dependants
  <1>3. \A T : \A r \in S : r \in P(T) <=> m.requires[r] \cap (new_undefined \cup T) # {}
    BY DEF dependants
  <1> HIDE DEF S, P
  <1>4. \A U \in SUBSET S : P(U) \cap S \subseteq U => D \subseteq U
    OBVIOUS
  <1>5. D \subseteq S
    OBVIOUS
  <1>6. P(D) \cap S \subseteq D
    <2> SUFFICES ASSUME NEW r \in P(D), r \in S, NEW U \in SUBSET S, P(U) \cap S \subseteq U PROVE r \in U
      OBVIOUS
    <2>1. D \subseteq U
      BY <1>4
    <2> QED BY <1>2, <2>1
  <1>7. D \subseteq P(D) \cap S
    <2>1. P(P(D) \cap S) \subseteq P(D)
      BY <1>2, <1>6
    <2> HIDE DEF D
    <2>2. PICK U \in SUBSET S : U = P(D) \cap S
      OBVIOUS
    <2>3. P(U) \cap S \subseteq U
      BY <2>1, <2>2
    <2> QED BY <1>4, <2>2, <2>3
  <1> HIDE DEF D
  <1>8. \A r \in S : r \in D <=> m.requires[r] \cap (new_undefined \cup D) # {}
    BY <1>3, <1>6, <1>7
  <1> QED BY <1>1, <1>8 DEF S

\* It finds nothing else.
LEMMA PropagateUndefinedScope ==
    ASSUME NEW m, NEW new_undefined
    PROVE  propagate_undefined(m, new_undefined) \subseteq managed(m) \ is_blocked(m)
  BY DEF propagate_undefined, LeastClosed

\* The second loop of stage 3 finds nothing if it starts from nothing.
LEMMA PropagateBlockedNothing ==
    ASSUME NEW m, NEW B
    PROVE  propagate_blocked(m, B, {}) = {}
  <1> DEFINE P(T) == dependants(m, {} \cup T)
  <1>1. propagate_blocked(m, B, {}) = {r \in B : \A U \in SUBSET B : P(U) \cap B \subseteq U => r \in U}
    BY DEF propagate_blocked, LeastClosed
  <1>2. P({}) \cap B \subseteq {}
    BY DEF dependants
  <1> HIDE DEF P
  <1> QED BY <1>1, <1>2

\* Stage 4 unblocks resources of B that are defined, each with all that it requires in B.
\* It does unblock one of those that it starts from, or a dependant of one it unblocks, if
\* nothing that this one requires stays blocked.
LEMMA PropagateUnblockedResult ==
    ASSUME NEW m, NEW B, NEW verify_unblocked
    PROVE  /\ propagate_unblocked(m, B, verify_unblocked) \subseteq B \ is_undefined(m)
           /\ \A r \in propagate_unblocked(m, B, verify_unblocked) :
                m.requires[r] \cap B \subseteq propagate_unblocked(m, B, verify_unblocked)
           /\ \A r \in B \ is_undefined(m) :
                (/\ r \in verify_unblocked \cup dependants(m, propagate_unblocked(m, B, verify_unblocked))
                 /\ m.requires[r] \cap B \subseteq propagate_unblocked(m, B, verify_unblocked))
                => r \in propagate_unblocked(m, B, verify_unblocked)
  <1> DEFINE P(T) == {r \in (verify_unblocked \cup dependants(m, T)) \ is_undefined(m) :
                        m.requires[r] \cap B \subseteq T}
             D == {r \in B : \A U \in SUBSET B : P(U) \cap B \subseteq U => r \in U}
  <1>1. D = propagate_unblocked(m, B, verify_unblocked)
    BY DEF propagate_unblocked, LeastClosed
  <1>2. \A T, U : T \subseteq U => P(T) \subseteq P(U)
    BY DEF dependants
  <1>3. \A T : \A r \in P(T) : r \notin is_undefined(m) /\ m.requires[r] \cap B \subseteq T
    OBVIOUS
  <1>d. \A T : \A r \in B \ is_undefined(m) :
          (r \in verify_unblocked \cup dependants(m, T) /\ m.requires[r] \cap B \subseteq T) => r \in P(T)
    OBVIOUS
  <1> HIDE DEF P
  <1>4. \A U \in SUBSET B : P(U) \cap B \subseteq U => D \subseteq U
    OBVIOUS
  <1>5. D \subseteq B
    OBVIOUS
  <1>6. P(D) \cap B \subseteq D
    <2> SUFFICES ASSUME NEW r \in P(D), r \in B, NEW U \in SUBSET B, P(U) \cap B \subseteq U PROVE r \in U
      OBVIOUS
    <2>1. D \subseteq U
      BY <1>4
    <2> QED BY <1>2, <2>1
  <1>7. D \subseteq P(D) \cap B
    <2>1. P(P(D) \cap B) \subseteq P(D)
      BY <1>2, <1>6
    <2> HIDE DEF D
    <2>2. PICK U \in SUBSET B : U = P(D) \cap B
      OBVIOUS
    <2>3. P(U) \cap B \subseteq U
      BY <2>1, <2>2
    <2> QED BY <1>4, <2>2, <2>3
  <1> HIDE DEF D
  <1>8. /\ D \subseteq B \ is_undefined(m)
        /\ \A r \in D : m.requires[r] \cap B \subseteq D
    BY <1>3, <1>5, <1>7
  <1>9. \A r \in B \ is_undefined(m) :
          (r \in verify_unblocked \cup dependants(m, D) /\ m.requires[r] \cap B \subseteq D) => r \in D
    BY <1>d, <1>6
  <1> QED BY <1>1, <1>8, <1>9, Zenon
=============================================================================
