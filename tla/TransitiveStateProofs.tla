----------------------- MODULE TransitiveStateProofs -----------------------
(***************************************************************************)
(* The loops of update_transitive_state, for any number of resources: they *)
(* end with a result that ModelState!update_transitive_state allows, also  *)
(* if requires have cycles, and if they have none nothing is left blocked  *)
(* that depends on no undefined resource.                                  *)
(***************************************************************************)
EXTENDS TransitiveState, NewVersionsProofs
-----------------------------------------------------------------------------
(* The model as a function of what was blocked and unblocked *)

\* The model once the resources bl were blocked and un, later, were unblocked.
result_model(x, bl, un) ==
    LET state == [r \in Resources |->
                    IF r \in un THEN [x.resource_state[r] EXCEPT !.blocked = "NOT_BLOCKED"]
                    ELSE IF r \in bl THEN [x.resource_state[r] EXCEPT !.blocked = "BLOCKED"]
                    ELSE x.resource_state[r]]
    IN  [x EXCEPT !.resource_state = state,
                  !.dirty = (@ \ bl) \cup {r \in un : is_dirty(state[r])}]

\* What has to be blocked and unblocked for a result that is specified.
LEMMA SpecifiedResult ==
    ASSUME NEW x, NEW nu, NEW vb, NEW vu,
           NEW S \in verified_blocked(x, BlockedAfterStage2(x, nu), vb),
           NEW B, B = BlockedAfterStage2(x, nu) \cup S,
           NEW bl, bl = propagate_undefined(x, nu) \cup S \cup propagate_blocked(x, B, S),
           NEW un, un = propagate_unblocked(x, B, vu)
    PROVE  [blocked |-> bl, unblocked |-> un, model |-> result_model(x, bl, un)]
             \in update_transitive_state(x, nu, vb, vu)
  <1> DEFINE stage2    == propagate_undefined(x, nu)
             B2        == is_blocked(x) \cup stage2
             B3        == B2 \cup S
             blocked_  == stage2 \cup S \cup propagate_blocked(x, B3, S)
             unblocked == propagate_unblocked(x, B3, vu)
             state == [r \in Resources |->
                        IF r \in unblocked THEN [x.resource_state[r] EXCEPT !.blocked = "NOT_BLOCKED"]
                        ELSE IF r \in blocked_ THEN [x.resource_state[r] EXCEPT !.blocked = "BLOCKED"]
                        ELSE x.resource_state[r]]
             changed == [x EXCEPT !.resource_state = state,
                                  !.dirty = (@ \ blocked_) \cup {r \in unblocked : is_dirty(state[r])}]
  <1>1. S \in verified_blocked(x, B2, vb)
    BY DEF BlockedAfterStage2
  <1>2. [blocked |-> blocked_, unblocked |-> unblocked, model |-> changed]
          \in update_transitive_state(x, nu, vb, vu)
    BY <1>1, Zenon DEF update_transitive_state
  <1>3. bl = blocked_ /\ un = unblocked
    BY DEF BlockedAfterStage2
  <1>4. result_model(x, bl, un) = changed
    BY <1>3, Zenon DEF result_model
  <1> QED BY <1>2, <1>3, <1>4, Zenon

\* Resource states that agree on the blocked state and on all else are equal.
LEMMA SameState ==
    ASSUME NEW s \in ResourceStates, NEW t \in ResourceStates, SameButBlocked(s, t), s.blocked = t.blocked
    PROVE  s = t
  BY DEF ResourceStates, SameButBlocked

\* Models that agree on every component are equal.
LEMMA SameModel ==
    ASSUME NEW x \in Models, NEW y \in Models, x.intent = y.intent, x.requires = y.requires,
           x.dirty = y.dirty,
           \A r \in Resources : /\ SameButBlocked(x.resource_state[r], y.resource_state[r])
                                /\ x.resource_state[r].blocked = y.resource_state[r].blocked
    PROVE  x = y
  <1>1. \A r \in Resources : x.resource_state[r] = y.resource_state[r]
    BY SameState DEF Models
  <1>2. x.resource_state = y.resource_state
    BY <1>1 DEF Models
  <1> QED BY <1>2 DEF Models

\* y differs from x in that bl were blocked and un unblocked.
ResultParts(x, bl, un, y) ==
    /\ y \in Models /\ y.intent = x.intent /\ y.requires = x.requires
    /\ y.dirty = (x.dirty \ bl) \cup {r \in un : is_dirty(x.resource_state[r])}
    /\ \A r \in Resources :
         /\ SameButBlocked(x.resource_state[r], y.resource_state[r])
         /\ y.resource_state[r].blocked =
              IF r \in un THEN "NOT_BLOCKED"
              ELSE IF r \in bl THEN "BLOCKED" ELSE x.resource_state[r].blocked

\* The parts of result_model.
LEMMA ResultModel ==
    ASSUME NEW x \in Models, NEW bl \in SUBSET Resources, NEW un \in SUBSET Resources
    PROVE  ResultParts(x, bl, un, result_model(x, bl, un))
  <1> DEFINE state == [r \in Resources |->
                        IF r \in un THEN [x.resource_state[r] EXCEPT !.blocked = "NOT_BLOCKED"]
                        ELSE IF r \in bl THEN [x.resource_state[r] EXCEPT !.blocked = "BLOCKED"]
                        ELSE x.resource_state[r]]
             dirty == (x.dirty \ bl) \cup {r \in un : is_dirty(state[r])}
             y == result_model(x, bl, un)
  <1>1. y = [x EXCEPT !.resource_state = state, !.dirty = dirty]
    BY DEF result_model
  <1>2. \A r \in Resources :
          /\ state[r] \in ResourceStates
          /\ SameButBlocked(x.resource_state[r], state[r])
          /\ state[r].blocked = IF r \in un THEN "NOT_BLOCKED"
                                ELSE IF r \in bl THEN "BLOCKED" ELSE x.resource_state[r].blocked
    <2> TAKE r \in Resources
    <2>1. x.resource_state[r] \in ResourceStates /\ {"NOT_BLOCKED", "BLOCKED"} \subseteq BlockedStates
      BY DEF Models, BlockedStates
    <2>2. CASE r \in un
      <3> DEFINE t == [x.resource_state[r] EXCEPT !.blocked = "NOT_BLOCKED"]
      <3>1. t \in ResourceStates /\ t.blocked = "NOT_BLOCKED" /\ SameButBlocked(x.resource_state[r], t)
        BY <2>1, BlockedChange, BlockedChangeType
      <3>2. state[r] = t
        BY <2>2
      <3> HIDE DEF t, state
      <3> QED BY <2>2, <3>1, <3>2
    <2>3. CASE r \notin un /\ r \in bl
      <3> DEFINE t == [x.resource_state[r] EXCEPT !.blocked = "BLOCKED"]
      <3>1. t \in ResourceStates /\ t.blocked = "BLOCKED" /\ SameButBlocked(x.resource_state[r], t)
        BY <2>1, BlockedChange, BlockedChangeType
      <3>2. state[r] = t
        BY <2>3
      <3> HIDE DEF t, state
      <3> QED BY <2>3, <3>1, <3>2
    <2>4. CASE r \notin un /\ r \notin bl
      BY <2>1, <2>4, BlockedChange
    <2> QED BY <2>2, <2>3, <2>4
  <1>3. state \in [Resources -> ResourceStates]
    BY <1>2
  <1> HIDE DEF state
  <1>4. \A r \in un : is_dirty(state[r]) <=> is_dirty(x.resource_state[r])
    <2> TAKE r \in un
    <2>1. state[r].compliance = x.resource_state[r].compliance
      BY <1>2 DEF SameButBlocked
    <2> QED BY <2>1 DEF is_dirty
  <1>5. dirty = (x.dirty \ bl) \cup {r \in un : is_dirty(x.resource_state[r])}
    BY <1>4
  <1>6. dirty \in SUBSET Resources
    BY DEF Models
  <1> HIDE DEF dirty, y
  <1>7. /\ y \in Models /\ y.intent = x.intent /\ y.requires = x.requires
        /\ y.dirty = dirty /\ y.resource_state = state
    BY <1>1, <1>3, <1>6 DEF Models
  <1>8. ResultParts(x, bl, un, y)
    BY <1>2, <1>5, <1>7 DEF ResultParts
  <1> QED BY <1>8 DEF y

\* y differs from x in the blocked state of r and in the dirty set.
OneChanged(x, r, l, D, y) ==
    /\ y \in Models /\ y.intent = x.intent /\ y.requires = x.requires /\ y.dirty = D
    /\ \A q \in Resources :
         /\ SameButBlocked(x.resource_state[q], y.resource_state[q])
         /\ y.resource_state[q].blocked = IF q = r THEN l ELSE x.resource_state[q].blocked

\* Setting the blocked state of one resource, and the dirty set.
LEMMA OneBlockedChange ==
    ASSUME NEW x \in Models, NEW r \in Resources, NEW l \in BlockedStates, NEW D \in SUBSET Resources
    PROVE  OneChanged(x, r, l, D, [x EXCEPT !.resource_state[r].blocked = l, !.dirty = D])
  <1> DEFINE y == [x EXCEPT !.resource_state[r].blocked = l, !.dirty = D]
             state == [x.resource_state EXCEPT ![r] = [x.resource_state[r] EXCEPT !.blocked = l]]
  <1>1. y = [x EXCEPT !.resource_state = state, !.dirty = D]
    BY DEF Models
  <1>2. \A q \in Resources :
          /\ state[q] \in ResourceStates
          /\ SameButBlocked(x.resource_state[q], state[q])
          /\ state[q].blocked = IF q = r THEN l ELSE x.resource_state[q].blocked
    <2> TAKE q \in Resources
    <2>1. x.resource_state[q] \in ResourceStates
      BY DEF Models
    <2>2. CASE q = r
      BY <2>1, <2>2, BlockedChange, BlockedChangeType DEF Models
    <2>3. CASE q # r
      BY <2>1, <2>3, BlockedChange DEF Models
    <2> QED BY <2>2, <2>3
  <1>3. state \in [Resources -> ResourceStates]
    BY BlockedChangeType DEF Models
  <1> HIDE DEF state, y
  <1>4. /\ y \in Models /\ y.intent = x.intent /\ y.requires = x.requires
        /\ y.dirty = D /\ y.resource_state = state
    BY <1>1, <1>3 DEF Models
  <1>5. OneChanged(x, r, l, D, y)
    BY <1>2, <1>4 DEF OneChanged
  <1> QED BY <1>5 DEF y

\* Only managed resources are blocked.
ManagedBlocked(x) == \A r \in Resources : x.resource_state[r].blocked = "BLOCKED" => r \in managed(x)

\* y is x, but for the blocked state and the dirty set: of the resources that were blocked
\* in x or are in bl, those in un are not blocked in y.
SameButBlockedModel(x, bl, un, y) ==
    /\ managed(y) = managed(x) /\ is_undefined(y) = is_undefined(x)
    /\ y.requires = x.requires
    /\ \A S : dependants(y, S) = dependants(x, S)
    /\ is_blocked(y) = (is_blocked(x) \cup bl) \ un
    /\ \A r \in Resources :
         /\ y.resource_state[r].blocked = "BLOCKED" <=> r \in is_blocked(y)
         /\ y.resource_state[r].compliance = x.resource_state[r].compliance

\* result_model changes neither which resources are managed nor what they require; those
\* that it leaves blocked are the ones that were, or were blocked, and were not unblocked.
\* That is all result_model changes.
LEMMA ResultBlocked ==
    ASSUME NEW x \in Models, NEW bl \in SUBSET managed(x), NEW un \in SUBSET managed(x),
           ManagedBlocked(x), NEW y, y = result_model(x, bl, un)
    PROVE  SameButBlockedModel(x, bl, un, y)
  <1>1. bl \in SUBSET Resources /\ un \in SUBSET Resources
    BY DEF managed
  <1>p. ResultParts(x, bl, un, y)
    BY <1>1, ResultModel
  <1>2. /\ y.intent = x.intent /\ y.requires = x.requires
        /\ \A r \in Resources :
             /\ SameButBlocked(x.resource_state[r], y.resource_state[r])
             /\ y.resource_state[r].blocked =
                  IF r \in un THEN "NOT_BLOCKED"
                  ELSE IF r \in bl THEN "BLOCKED" ELSE x.resource_state[r].blocked
    BY <1>p DEF ResultParts
  <1>3. managed(y) = managed(x)
    BY <1>2 DEF managed
  <1>4. \A r \in Resources : y.resource_state[r].compliance = x.resource_state[r].compliance
    BY <1>2 DEF SameButBlocked
  <1>5. managed(x) \subseteq Resources
    BY DEF managed
  <1>6. is_undefined(y) = is_undefined(x)
    BY <1>3, <1>4, <1>5 DEF is_undefined
  <1>7. is_blocked(y) = (is_blocked(x) \cup bl) \ un
    BY <1>2, <1>3, <1>5 DEF is_blocked
  <1>8. \A r \in Resources : y.resource_state[r].blocked = "BLOCKED" => r \in managed(y)
    BY <1>2, <1>3 DEF ManagedBlocked
  <1>9. \A r \in Resources : y.resource_state[r].blocked = "BLOCKED" <=> r \in is_blocked(y)
    BY <1>8 DEF is_blocked
  <1>10. \A S : dependants(y, S) = dependants(x, S)
    BY <1>2, <1>3 DEF dependants
  <1> QED BY <1>2, <1>3, <1>4, <1>6, <1>7, <1>9, <1>10 DEF SameButBlockedModel

\* The model block_resource_transitive(r) makes of y.
WithBlocked(y, r) == [y EXCEPT !.resource_state[r].blocked = "BLOCKED", !.dirty = @ \ {r}]

\* block_resource_transitive blocks one more.
LEMMA BlockOne ==
    ASSUME NEW x \in Models, NEW bl \in SUBSET Resources, NEW r \in Resources,
           NEW y, y = result_model(x, bl, {})
    PROVE  WithBlocked(y, r) = result_model(x, bl \cup {r}, {})
  <1> DEFINE D == y.dirty \ {r}
             z == [y EXCEPT !.resource_state[r].blocked = "BLOCKED", !.dirty = D]
             w == result_model(x, bl \cup {r}, {})
  <1>1. ResultParts(x, bl, {}, y)
    BY ResultModel
  <1>2. ResultParts(x, bl \cup {r}, {}, w)
    BY ResultModel
  <1>3. D \in SUBSET Resources /\ "BLOCKED" \in BlockedStates /\ y \in Models
    BY <1>1 DEF Models, BlockedStates, ResultParts
  <1> HIDE DEF D, w
  <1>4. OneChanged(y, r, "BLOCKED", D, z)
    BY <1>3, OneBlockedChange
  <1> HIDE DEF z
  <1>5. z.dirty = w.dirty
    BY <1>1, <1>2, <1>4 DEF ResultParts, OneChanged, D
  <1>6. \A q \in Resources : /\ SameButBlocked(z.resource_state[q], w.resource_state[q])
                             /\ z.resource_state[q].blocked = w.resource_state[q].blocked
    <2> TAKE q \in Resources
    <2>1. /\ SameButBlocked(x.resource_state[q], y.resource_state[q])
          /\ SameButBlocked(x.resource_state[q], w.resource_state[q])
          /\ SameButBlocked(y.resource_state[q], z.resource_state[q])
      BY <1>1, <1>2, <1>4 DEF ResultParts, OneChanged
    <2>2. z.resource_state[q].blocked = w.resource_state[q].blocked
      <3>1. CASE q = r
        BY <1>2, <1>4, <3>1 DEF ResultParts, OneChanged
      <3>2. CASE q # r
        BY <1>1, <1>2, <1>4, <3>2 DEF ResultParts, OneChanged
      <3> QED BY <3>1, <3>2
    <2> QED BY <2>1, <2>2 DEF SameButBlocked
  <1>7. z \in Models /\ w \in Models /\ z.intent = w.intent /\ z.requires = w.requires
    BY <1>1, <1>2, <1>4 DEF ResultParts, OneChanged
  <1>8. z = w
    BY <1>5, <1>6, <1>7, SameModel
  <1> QED BY <1>8 DEF z, w, D, WithBlocked

\* One step of the code that does so, on the model the call has reached.
LEMMA BlockStep ==
    ASSUME NEW r \in Resources, call.model \in Models, out_blocked \in SUBSET Resources,
           m = result_model(call.model, out_blocked, {}),
           block_resource_transitive(r), out_blocked' = out_blocked \cup {r}
    PROVE  m' = result_model(call.model, out_blocked', {})
  <1> DEFINE x == call.model
             bl == out_blocked
             y == m
  <1>1. x \in Models /\ bl \in SUBSET Resources /\ y = result_model(x, bl, {})
    OBVIOUS
  <1>2. m' = WithBlocked(y, r)
    BY DEF block_resource_transitive, WithBlocked
  <1> HIDE DEF x, bl, y
  <1>3. m' = result_model(x, bl \cup {r}, {})
    BY <1>1, <1>2, BlockOne
  <1> QED BY <1>3 DEF x, bl

\* The resources S are blocked.
AllBlocked(y, S) == \A r \in S : y.resource_state[r].blocked = "BLOCKED"

\* To report as blocked what is blocked already changes the dirty set at most.
LEMMA BlockAgain ==
    ASSUME NEW x \in Models, NEW bl \in SUBSET Resources,
           NEW y, y = result_model(x, bl, {}),
           NEW S \in SUBSET Resources, AllBlocked(y, S)
    PROVE  [y EXCEPT !.dirty = @ \ S] = result_model(x, bl \cup S, {})
  <1> DEFINE z == [y EXCEPT !.dirty = y.dirty \ S]
             w == result_model(x, bl \cup S, {})
  <1>1. ResultParts(x, bl, {}, y)
    BY ResultModel
  <1>2. ResultParts(x, bl \cup S, {}, w)
    BY ResultModel
  <1>3. y \in Models
    BY <1>1 DEF ResultParts
  <1>4. /\ z \in Models /\ z.intent = y.intent /\ z.requires = y.requires /\ z.dirty = y.dirty \ S
        /\ z.resource_state = y.resource_state
    BY <1>3 DEF Models
  <1> HIDE DEF w, z
  <1>5. z.dirty = w.dirty
    BY <1>1, <1>2, <1>4 DEF ResultParts
  <1>6. \A q \in Resources : /\ SameButBlocked(z.resource_state[q], w.resource_state[q])
                             /\ z.resource_state[q].blocked = w.resource_state[q].blocked
    BY <1>1, <1>2, <1>4 DEF SameButBlocked, ResultParts, AllBlocked
  <1>7. w \in Models /\ z.intent = w.intent /\ z.requires = w.requires
    BY <1>1, <1>2, <1>4 DEF ResultParts
  <1>8. z = w
    BY <1>4, <1>5, <1>6, <1>7, SameModel
  <1> QED BY <1>8 DEF z, w

\* The model that unblock_resource(r) makes of y.
Unblocked(y, r) ==
    [y EXCEPT !.resource_state[r].blocked = "NOT_BLOCKED",
              !.dirty = IF is_dirty(y.resource_state[r]) THEN @ \cup {r} ELSE @]

\* unblock_resource unblocks one more.
LEMMA UnblockOne ==
    ASSUME NEW x \in Models, NEW bl \in SUBSET Resources, NEW un \in SUBSET Resources,
           NEW r \in Resources, NEW y, y = result_model(x, bl, un)
    PROVE  Unblocked(y, r) = result_model(x, bl, un \cup {r})
  <1> DEFINE D == IF is_dirty(y.resource_state[r]) THEN y.dirty \cup {r} ELSE y.dirty
             z == [y EXCEPT !.resource_state[r].blocked = "NOT_BLOCKED", !.dirty = D]
             w == result_model(x, bl, un \cup {r})
  <1>1. ResultParts(x, bl, un, y)
    BY ResultModel
  <1>2. ResultParts(x, bl, un \cup {r}, w)
    BY ResultModel
  <1>3. D \in SUBSET Resources /\ "NOT_BLOCKED" \in BlockedStates /\ y \in Models
    BY <1>1 DEF Models, BlockedStates, ResultParts
  <1>4. is_dirty(y.resource_state[r]) <=> is_dirty(x.resource_state[r])
    BY <1>1 DEF is_dirty, SameButBlocked, ResultParts
  <1>5. D = w.dirty
    BY <1>1, <1>2, <1>4 DEF ResultParts
  <1> HIDE DEF D, w
  <1>6. OneChanged(y, r, "NOT_BLOCKED", D, z)
    BY <1>3, OneBlockedChange
  <1> HIDE DEF z
  <1>7. \A q \in Resources : /\ SameButBlocked(z.resource_state[q], w.resource_state[q])
                             /\ z.resource_state[q].blocked = w.resource_state[q].blocked
    <2> TAKE q \in Resources
    <2>1. /\ SameButBlocked(x.resource_state[q], y.resource_state[q])
          /\ SameButBlocked(x.resource_state[q], w.resource_state[q])
          /\ SameButBlocked(y.resource_state[q], z.resource_state[q])
      BY <1>1, <1>2, <1>6 DEF ResultParts, OneChanged
    <2>2. z.resource_state[q].blocked = w.resource_state[q].blocked
      <3>1. CASE q = r
        BY <1>2, <1>6, <3>1 DEF ResultParts, OneChanged
      <3>2. CASE q # r
        BY <1>1, <1>2, <1>6, <3>2 DEF ResultParts, OneChanged
      <3> QED BY <3>1, <3>2
    <2> QED BY <2>1, <2>2 DEF SameButBlocked
  <1>8. /\ z \in Models /\ w \in Models /\ z.intent = w.intent /\ z.requires = w.requires
        /\ z.dirty = w.dirty
    BY <1>1, <1>2, <1>5, <1>6 DEF ResultParts, OneChanged
  <1>9. z = w
    BY <1>7, <1>8, SameModel
  <1> QED BY <1>9 DEF z, w, D, Unblocked
-----------------------------------------------------------------------------
(* What the searches find is least: the converse of what NewVersionsProofs says of them *)

\* Stage 2 finds no more than any set that holds all it goes on to.
LEMMA PropagateUndefinedLeast ==
    ASSUME NEW x, NEW nu, NEW U \in SUBSET (managed(x) \ is_blocked(x)),
           dependants(x, nu \cup U) \subseteq U \cup is_blocked(x)
    PROVE  propagate_undefined(x, nu) \subseteq U
  <1> DEFINE P(T) == dependants(x, nu \cup T)
             S == managed(x) \ is_blocked(x)
  <1>1. propagate_undefined(x, nu) = {r \in S : \A T \in SUBSET S : P(T) \cap S \subseteq T => r \in T}
    BY DEF propagate_undefined, LeastClosed
  <1>2. P(U) \cap S \subseteq U
    OBVIOUS
  <1> HIDE DEF P
  <1> QED BY <1>1, <1>2

\* The second loop of stage 3 walks through B, goes on to every dependant in B of what it
\* finds, and finds no more than that takes.
LEMMA PropagateBlockedResult ==
    ASSUME NEW x, NEW B, NEW S
    PROVE  /\ propagate_blocked(x, B, S) \subseteq B
           /\ dependants(x, S \cup propagate_blocked(x, B, S)) \cap B \subseteq propagate_blocked(x, B, S)
           /\ \A U \in SUBSET B : dependants(x, S \cup U) \cap B \subseteq U
                => propagate_blocked(x, B, S) \subseteq U
  <1> DEFINE P(T) == dependants(x, S \cup T)
             D == {r \in B : \A U \in SUBSET B : P(U) \cap B \subseteq U => r \in U}
  <1>1. D = propagate_blocked(x, B, S)
    BY DEF propagate_blocked, LeastClosed
  <1>2. \A T, U : T \subseteq U => P(T) \subseteq P(U)
    BY DEF dependants
  <1>3. \A U \in SUBSET B : dependants(x, S \cup U) \cap B \subseteq U => P(U) \cap B \subseteq U
    OBVIOUS
  <1> HIDE DEF P
  <1>4. \A U \in SUBSET B : P(U) \cap B \subseteq U => D \subseteq U
    OBVIOUS
  <1>5. D \subseteq B
    OBVIOUS
  <1>6. P(D) \cap B \subseteq D
    <2> SUFFICES ASSUME NEW r \in P(D), r \in B, NEW U \in SUBSET B, P(U) \cap B \subseteq U PROVE r \in U
      OBVIOUS
    <2>1. D \subseteq U
      BY <1>4
    <2> QED BY <1>2, <2>1
  <1> HIDE DEF D
  <1>7. \A U \in SUBSET B : dependants(x, S \cup U) \cap B \subseteq U => D \subseteq U
    BY <1>3, <1>4
  <1>8. dependants(x, S \cup D) \cap B \subseteq D
    BY <1>6 DEF P
  <1> QED BY <1>1, <1>5, <1>7, <1>8

\* Stage 4 unblocks no more than any set that holds what can be unblocked next.
LEMMA PropagateUnblockedLeast ==
    ASSUME NEW x, NEW B, NEW vu, NEW U \in SUBSET B,
           \A r \in (B \ is_undefined(x)) \cap (vu \cup dependants(x, U)) :
              x.requires[r] \cap B \subseteq U => r \in U
    PROVE  propagate_unblocked(x, B, vu) \subseteq U
  <1> DEFINE P(T) == {r \in (vu \cup dependants(x, T)) \ is_undefined(x) : x.requires[r] \cap B \subseteq T}
  <1>1. propagate_unblocked(x, B, vu)
          = {r \in B : \A T \in SUBSET B : P(T) \cap B \subseteq T => r \in T}
    BY DEF propagate_unblocked, LeastClosed
  <1>2. P(U) \cap B \subseteq U
    OBVIOUS
  <1> HIDE DEF P
  <1> QED BY <1>1, <1>2

\* What depends on an undefined resource: the undefined ones and all that requires one that does;
\* and no more than any set that holds those.
LEMMA DependsOnUndefinedResult ==
    ASSUME NEW x
    PROVE  /\ DependsOnUndefined(x) \subseteq managed(x)
           /\ \A r \in managed(x) :
                r \in DependsOnUndefined(x) <=>
                  r \in is_undefined(x) \/ x.requires[r] \cap DependsOnUndefined(x) # {}
           /\ \A U \in SUBSET managed(x) :
                is_undefined(x) \cup dependants(x, U) \subseteq U => DependsOnUndefined(x) \subseteq U
  <1> DEFINE S == managed(x)
             P(T) == is_undefined(x) \cup dependants(x, T)
             D == {r \in S : \A U \in SUBSET S : P(U) \cap S \subseteq U => r \in U}
  <1>1. D = DependsOnUndefined(x)
    BY DEF DependsOnUndefined, LeastClosed
  <1>2. \A T, U : T \subseteq U => P(T) \subseteq P(U)
    BY DEF dependants
  <1>3. \A T : \A r \in S : r \in P(T) <=> r \in is_undefined(x) \/ x.requires[r] \cap T # {}
    BY DEF dependants
  <1>4. \A U \in SUBSET S : is_undefined(x) \cup dependants(x, U) \subseteq U => P(U) \cap S \subseteq U
    OBVIOUS
  <1> HIDE DEF S, P
  <1>5. \A U \in SUBSET S : P(U) \cap S \subseteq U => D \subseteq U
    OBVIOUS
  <1>6. D \subseteq S
    OBVIOUS
  <1>7. P(D) \cap S \subseteq D
    <2> SUFFICES ASSUME NEW r \in P(D), r \in S, NEW U \in SUBSET S, P(U) \cap S \subseteq U PROVE r \in U
      OBVIOUS
    <2>1. D \subseteq U
      BY <1>5
    <2> QED BY <1>2, <2>1
  <1>8. D \subseteq P(D) \cap S
    <2>1. P(P(D) \cap S) \subseteq P(D)
      BY <1>2, <1>7
    <2> HIDE DEF D
    <2>2. PICK U \in SUBSET S : U = P(D) \cap S
      OBVIOUS
    <2>3. P(U) \cap S \subseteq U
      BY <2>1, <2>2
    <2> QED BY <1>5, <2>2, <2>3
  <1> HIDE DEF D
  <1>9. \A r \in S : r \in D <=> r \in is_undefined(x) \/ x.requires[r] \cap D # {}
    BY <1>3, <1>7, <1>8
  <1>10. \A U \in SUBSET S : is_undefined(x) \cup dependants(x, U) \subseteq U => D \subseteq U
    BY <1>4, <1>5
  <1> QED BY <1>1, <1>6, <1>9, <1>10 DEF S
-----------------------------------------------------------------------------
(* The inductive invariant *)

\* What the searches of each stage find in this call; the second depends on what the first
\* loop of stage 3 found.
Stage2       == propagate_undefined(call.model, call.new_undefined)
BeforeStage3 == BlockedAfterStage2(call.model, call.new_undefined)
BeforeStage4 == BeforeStage3 \cup found
Reached      == propagate_blocked(call.model, BeforeStage4, found)
Unblockable  == propagate_unblocked(call.model, BeforeStage4, call.verify_unblocked)

\* All that was blocked at some moment of the call.
EverBlocked == is_blocked(call.model) \cup out_blocked

\* The third loop reaches what was not blocked before it.
LEMMA ReachedScope == Reached \subseteq BeforeStage4
  <1> DEFINE x == call.model
  <1> HIDE DEF x
  <1>1. propagate_blocked(x, BeforeStage4, found) \subseteq BeforeStage4
    BY PropagateBlockedResult
  <1> QED BY <1>1 DEF Reached, x

\* The arguments of a call: new undefined resources are blocked already, and only managed
\* resources are blocked.
CallType(c) ==
    /\ c.model \in Models
    /\ c.new_undefined \subseteq is_undefined(c.model) \cap is_blocked(c.model)
    /\ ManagedBlocked(c.model)
    /\ c.verify_blocked \subseteq managed(c.model)
    /\ c.verify_unblocked \subseteq Resources

\* The model is the one of the call but for what was blocked and unblocked, and the cache
\* names a dependency.
StateType ==
    /\ stage \in {"undefined", "verify_blocked", "blocked", "unblocked", "done"}
    /\ todo \subseteq Resources /\ hard_blocked \subseteq Resources
    /\ \A r \in Resources : blockers[r] # None => blockers[r] \in call.model.requires[r]
    /\ out_blocked \subseteq managed(call.model) /\ out_unblocked \subseteq managed(call.model)
    /\ m = result_model(call.model, out_blocked, out_unblocked)

\* Hard blocked resources stay blocked: no set of defined resources that could be unblocked
\* together, because they require nothing else that is blocked, holds one.
HardBlockedStay ==
    \A U \in SUBSET Resources :
        /\ U \cap is_undefined(call.model) = {}
        /\ \A u \in U : call.model.requires[u] \cap EverBlocked \subseteq U
        => U \cap hard_blocked = {}

InStage2 ==
    stage = "undefined" =>
        /\ out_unblocked = {} /\ found = {}
        /\ call.new_undefined \cup out_blocked \subseteq hard_blocked
        /\ hard_blocked \subseteq EverBlocked
        /\ out_blocked \subseteq Stage2
        /\ todo \subseteq dependants(call.model, call.new_undefined \cup out_blocked)
        /\ dependants(call.model, call.new_undefined \cup out_blocked) \subseteq todo \cup EverBlocked

InVerifyBlocked ==
    stage = "verify_blocked" =>
        /\ out_unblocked = {} /\ out_blocked = Stage2 \cup found
        /\ found \subseteq call.verify_blocked \ BeforeStage3
        /\ hard_blocked \subseteq EverBlocked
        /\ todo \subseteq call.verify_blocked
        /\ \A r \in found : call.model.requires[r] \cap BeforeStage4 # {}
        /\ \A r \in (call.verify_blocked \ BeforeStage3) \ (found \cup todo) :
             call.model.requires[r] \cap BeforeStage3 = {}

\* X: what the second loop of stage 3 has pushed on its worklist so far.
InBlocked ==
    stage = "blocked" =>
        /\ out_unblocked = {}
        /\ found \in verified_blocked(call.model, BeforeStage3, call.verify_blocked)
        /\ \E X \in SUBSET Reached :
             /\ out_blocked = Stage2 \cup found \cup X
             /\ todo \subseteq found \cup X
             /\ dependants(call.model, (found \cup X) \ todo) \cap BeforeStage4 \subseteq X

\* Whatever stage 4 could unblock next is on its worklist.
InStage4 ==
    stage \in {"unblocked", "done"} =>
        /\ found \in verified_blocked(call.model, BeforeStage3, call.verify_blocked)
        /\ out_blocked = Stage2 \cup found \cup Reached
        /\ out_unblocked \subseteq Unblockable
        /\ \A r \in out_unblocked : call.model.requires[r] \cap BeforeStage4 \subseteq out_unblocked
        /\ todo \subseteq call.verify_unblocked \cup dependants(call.model, out_unblocked)
        /\ \A r \in (BeforeStage4 \ is_undefined(call.model))
                      \cap (call.verify_unblocked \cup dependants(call.model, out_unblocked)) :
             call.model.requires[r] \cap BeforeStage4 \subseteq out_unblocked
               => r \in todo \cup out_unblocked
        /\ stage = "done" => todo = {}

LoopInvariant ==
    /\ CallType(call) /\ StateType /\ HardBlockedStay
    /\ InStage2 /\ InVerifyBlocked /\ InBlocked /\ InStage4

\* The searches of a call do not change while `found' does not.
LEMMA SameSearches ==
    ASSUME call' = call
    PROVE  /\ Stage2' = Stage2 /\ BeforeStage3' = BeforeStage3
           /\ found' = found => /\ BeforeStage4' = BeforeStage4 /\ Reached' = Reached
                                /\ Unblockable' = Unblockable
  BY DEF Stage2, BeforeStage3, BeforeStage4, Reached, Unblockable

\* What the model of the moment says, in terms of the model of the call.
LEMMA ModelNow ==
    ASSUME CallType(call), StateType
    PROVE  /\ m.requires = call.model.requires
           /\ \A S : dependants(m, S) = dependants(call.model, S)
           /\ is_blocked(m) = EverBlocked \ out_unblocked
           /\ \A r \in Resources :
                /\ blocked(r) <=> r \in EverBlocked \ out_unblocked
                /\ m.resource_state[r].compliance = call.model.resource_state[r].compliance
           /\ EverBlocked \subseteq managed(call.model) /\ managed(call.model) \subseteq Resources
  <1>1. call.model \in Models /\ ManagedBlocked(call.model)
    BY DEF CallType
  <1>2. /\ out_blocked \in SUBSET managed(call.model) /\ out_unblocked \in SUBSET managed(call.model)
        /\ m = result_model(call.model, out_blocked, out_unblocked)
    BY DEF StateType
  <1>3. /\ m.requires = call.model.requires
        /\ \A S : dependants(m, S) = dependants(call.model, S)
        /\ is_blocked(m) = (is_blocked(call.model) \cup out_blocked) \ out_unblocked
        /\ \A r \in Resources :
             /\ m.resource_state[r].blocked = "BLOCKED" <=> r \in is_blocked(m)
             /\ m.resource_state[r].compliance = call.model.resource_state[r].compliance
    <2>1. SameButBlockedModel(call.model, out_blocked, out_unblocked, m)
      BY <1>1, <1>2, ResultBlocked
    <2> QED BY <2>1 DEF SameButBlockedModel
  <1>4. is_blocked(call.model) \subseteq managed(call.model) /\ managed(call.model) \subseteq Resources
    BY DEF is_blocked, managed
  <1> QED BY <1>2, <1>3, <1>4 DEF EverBlocked, blocked

\* A dependency that a check finds is required and blocked; it finds one if there is one.
LEMMA BlockedDependency ==
    ASSUME CallType(call), StateType, NEW r \in Resources
    PROVE  /\ blocked_dependency(r) \subseteq call.model.requires[r] \cap (EverBlocked \ out_unblocked)
           /\ blocked_dependency(r) = {}
                => call.model.requires[r] \cap (EverBlocked \ out_unblocked) = {}
  <1>1. call.model.requires[r] \subseteq Resources
    BY DEF CallType, Models, Edges
  <1>2. m.requires = call.model.requires /\ \A d \in Resources : blocked(d) <=> d \in EverBlocked \ out_unblocked
    BY ModelNow
  <1>3. blockers[r] # None => blockers[r] \in call.model.requires[r]
    BY DEF StateType
  <1> QED BY <1>1, <1>2, <1>3 DEF blocked_dependency

\* A resource may become hard blocked if it is undefined or requires a hard blocked one.
LEMMA HardGrows ==
    ASSUME HardBlockedStay, call' = call, EverBlocked \subseteq EverBlocked',
           \A h \in hard_blocked' \ hard_blocked :
              \/ h \in is_undefined(call.model)
              \/ call.model.requires[h] \cap hard_blocked \cap EverBlocked' # {}
    PROVE  HardBlockedStay'
  <1> SUFFICES ASSUME NEW U \in SUBSET Resources, U \cap is_undefined(call.model) = {},
                      \A u \in U : call.model.requires[u] \cap EverBlocked' \subseteq U
               PROVE  U \cap hard_blocked' = {}
    BY DEF HardBlockedStay
  <1>1. \A u \in U : call.model.requires[u] \cap EverBlocked \subseteq U
    OBVIOUS
  <1>2. U \cap hard_blocked = {}
    BY <1>1 DEF HardBlockedStay
  <1> QED BY <1>2

\* Stage 2.
LEMMA PropagateUndefinedStep ==
    ASSUME LoopInvariant, NEW r \in Resources, PropagateUndefined(r)
    PROVE  LoopInvariant'
  <1> USE DEF LoopInvariant
  <1>1. /\ stage = "undefined" /\ stage' = stage /\ call' = call /\ found' = found /\ blockers' = blockers
        /\ out_unblocked' = out_unblocked /\ r \in todo /\ hard_blocked' = hard_blocked \cup {r}
    BY DEF PropagateUndefined
  <1>2. /\ out_unblocked = {} /\ found = {}
        /\ call.new_undefined \cup out_blocked \subseteq hard_blocked
        /\ hard_blocked \subseteq EverBlocked
        /\ out_blocked \subseteq Stage2
        /\ todo \subseteq dependants(call.model, call.new_undefined \cup out_blocked)
        /\ dependants(call.model, call.new_undefined \cup out_blocked) \subseteq todo \cup EverBlocked
    BY <1>1 DEF InStage2
  <1>3. r \in managed(call.model) /\ call.model.requires[r] \cap (call.new_undefined \cup out_blocked) # {}
    BY <1>1, <1>2 DEF dependants
  <1>4. CallType(call)' /\ Stage2' = Stage2
    BY <1>1, SameSearches
  <1>5. \/ /\ r \in EverBlocked /\ todo' = todo \ {r} /\ m' = m /\ out_blocked' = out_blocked
        \/ /\ r \notin EverBlocked /\ block_resource_transitive(r)
           /\ out_blocked' = out_blocked \cup {r}
           /\ todo' = (todo \ {r}) \cup dependants(call.model, {r})
    <2>1. /\ \A S : dependants(m, S) = dependants(call.model, S)
          /\ blocked(r) <=> r \in EverBlocked \ out_unblocked
      BY ModelNow
    <2> QED BY <1>2, <2>1 DEF PropagateUndefined
  <1>6. m' = result_model(call.model, out_blocked', {})
    <2>1. m = result_model(call.model, out_blocked, {})
      BY <1>2 DEF StateType
    <2>2. CASE m' = m /\ out_blocked' = out_blocked
      BY <2>1, <2>2
    <2>3. CASE block_resource_transitive(r) /\ out_blocked' = out_blocked \cup {r}
      <3>1. call.model \in Models /\ out_blocked \in SUBSET Resources
        BY DEF CallType, StateType, managed
      <3> QED BY <1>1, <2>1, <2>3, <3>1, BlockStep
    <2> QED BY <1>5, <2>2, <2>3
  <1>7. dependants(call.model, {r}) \subseteq Resources
    BY DEF dependants, managed
  <1>8. StateType'
    BY <1>1, <1>2, <1>3, <1>5, <1>6, <1>7 DEF StateType
  <1>9. EverBlocked' = EverBlocked \cup out_blocked' /\ r \in EverBlocked'
    BY <1>1, <1>5 DEF EverBlocked
  <1>10. HardBlockedStay'
    <2>1. call.model.requires[r] \cap hard_blocked \cap EverBlocked' # {}
      BY <1>2, <1>3, <1>9
    <2> QED BY <1>1, <1>9, <2>1, HardGrows
  <1>11. out_blocked' \subseteq Stage2
    <2>1. CASE out_blocked' = out_blocked
      BY <1>2, <2>1
    <2>2. CASE r \notin EverBlocked /\ out_blocked' = out_blocked \cup {r}
      <3>1. r \in managed(call.model) \ is_blocked(call.model)
        BY <1>3, <2>2 DEF EverBlocked
      <3>2. call.model.requires[r] \cap (call.new_undefined \cup Stage2) # {}
        BY <1>2, <1>3
      <3>3. r \in Stage2
        BY <3>1, <3>2, PropagateUndefinedResult DEF Stage2
      <3> QED BY <1>2, <2>2, <3>3
    <2> QED BY <1>5, <2>1, <2>2
  <1>12. dependants(call.model, call.new_undefined \cup out_blocked')
           = dependants(call.model, call.new_undefined \cup out_blocked)
               \cup (IF out_blocked' = out_blocked THEN {} ELSE dependants(call.model, {r}))
    BY <1>5 DEF dependants
  <1>13. InStage2'
    <2>1. CASE r \in EverBlocked /\ todo' = todo \ {r} /\ m' = m /\ out_blocked' = out_blocked
      BY <1>1, <1>2, <1>4, <1>9, <1>11, <2>1 DEF InStage2
    <2>2. CASE /\ r \notin EverBlocked /\ out_blocked' = out_blocked \cup {r}
               /\ todo' = (todo \ {r}) \cup dependants(call.model, {r})
      <3>1. out_blocked' # out_blocked
        BY <2>2 DEF EverBlocked
      <3> QED BY <1>1, <1>2, <1>4, <1>9, <1>11, <1>12, <2>2, <3>1 DEF InStage2
    <2> QED BY <1>5, <2>1, <2>2
  <1>14. InVerifyBlocked' /\ InBlocked' /\ InStage4'
    BY <1>1 DEF InVerifyBlocked, InBlocked, InStage4
  <1> QED BY <1>4, <1>8, <1>10, <1>13, <1>14

\* Stage 3, first loop.
LEMMA VerifyBlockedStep ==
    ASSUME LoopInvariant, NEW r \in Resources, VerifyBlocked(r)
    PROVE  LoopInvariant'
  <1> USE DEF LoopInvariant
  <1>1. /\ stage = "verify_blocked" /\ stage' = stage /\ call' = call
        /\ out_unblocked' = out_unblocked /\ r \in todo /\ todo' = todo \ {r}
    BY DEF VerifyBlocked
  <1>2. /\ out_unblocked = {} /\ out_blocked = Stage2 \cup found
        /\ found \subseteq call.verify_blocked \ BeforeStage3
        /\ hard_blocked \subseteq EverBlocked
        /\ todo \subseteq call.verify_blocked
        /\ \A q \in found : call.model.requires[q] \cap BeforeStage4 # {}
        /\ \A q \in (call.verify_blocked \ BeforeStage3) \ (found \cup todo) :
             call.model.requires[q] \cap BeforeStage3 = {}
    BY <1>1 DEF InVerifyBlocked
  <1>3. EverBlocked = BeforeStage3 \cup found
    BY <1>2 DEF EverBlocked, BeforeStage3, BlockedAfterStage2, Stage2
  <1>4. CallType(call)' /\ Stage2' = Stage2 /\ BeforeStage3' = BeforeStage3
    BY <1>1, SameSearches
  <1>5. r \in managed(call.model)
    BY <1>1, <1>2 DEF CallType
  <1>6. blocked(r) <=> r \in EverBlocked
    BY <1>2, ModelNow
  <1>7. InStage2' /\ InBlocked' /\ InStage4'
    BY <1>1 DEF InStage2, InBlocked, InStage4
  <1>8. CASE r \in hard_blocked \/ blocked(r) \/ blocked_dependency(r) = {}
    <2>1. UNCHANGED <<m, found, hard_blocked, blockers, out_blocked>>
      BY <1>8 DEF VerifyBlocked
    <2>2. StateType'
      BY <1>1, <2>1 DEF StateType
    <2>3. EverBlocked' = EverBlocked
      BY <1>1, <2>1 DEF EverBlocked
    <2>4. HardBlockedStay'
      BY <1>1, <2>1, <2>3 DEF HardBlockedStay
    <2>5. r \in EverBlocked \/ call.model.requires[r] \cap BeforeStage3 = {}
      BY <1>2, <1>3, <1>6, <1>8, BlockedDependency
    <2>6. BeforeStage4' = BeforeStage4
      BY <1>1, <2>1, SameSearches
    <2>7. InVerifyBlocked'
      BY <1>1, <1>2, <1>3, <1>4, <2>1, <2>3, <2>5, <2>6 DEF InVerifyBlocked
    <2> QED BY <1>4, <1>7, <2>2, <2>4, <2>7
  <1>9. CASE ~(r \in hard_blocked \/ blocked(r) \/ blocked_dependency(r) = {})
    <2>1. PICK d \in blocked_dependency(r) :
            /\ blockers' = [blockers EXCEPT ![r] = d]
            /\ hard_blocked' = (IF d \in hard_blocked THEN hard_blocked \cup {r} ELSE hard_blocked)
            /\ block_resource_transitive(r)
            /\ out_blocked' = out_blocked \cup {r}
            /\ found' = found \cup {r}
      BY <1>9 DEF VerifyBlocked
    <2>2. d \in call.model.requires[r] /\ d \in EverBlocked
      BY <1>2, BlockedDependency
    <2>3. m' = result_model(call.model, out_blocked', {})
      <3>1. m = result_model(call.model, out_blocked, {})
        BY <1>2 DEF StateType
      <3>2. call.model \in Models /\ out_blocked \in SUBSET Resources
        BY DEF CallType, StateType, managed
      <3> QED BY <1>1, <2>1, <3>1, <3>2, BlockStep
    <2>4. \A q \in Resources : blockers'[q] # None => blockers'[q] \in call.model.requires[q]
      BY <2>1, <2>2 DEF StateType
    <2>5. StateType'
      BY <1>1, <1>2, <1>5, <2>1, <2>3, <2>4 DEF StateType
    <2>6. EverBlocked' = EverBlocked \cup {r}
      BY <1>1, <2>1 DEF EverBlocked
    <2>7. HardBlockedStay'
      <3>1. \A h \in hard_blocked' \ hard_blocked : call.model.requires[h] \cap hard_blocked \cap EverBlocked' # {}
        BY <2>1, <2>2, <2>6
      <3> QED BY <1>1, <2>6, <3>1, HardGrows
    <2>8. BeforeStage4 = BeforeStage3 \cup found /\ BeforeStage4' = BeforeStage3 \cup found'
      BY <1>4 DEF BeforeStage4
    <2>9. r \notin BeforeStage3
      BY <1>3, <1>6, <1>9
    <2>10. \A q \in found' : call.model.requires[q] \cap BeforeStage4' # {}
      BY <1>2, <1>3, <2>1, <2>2, <2>8
    <2>11. InVerifyBlocked'
      BY <1>1, <1>2, <1>4, <2>1, <2>6, <2>9, <2>10 DEF InVerifyBlocked
    <2> QED BY <1>4, <1>7, <2>5, <2>7, <2>11
  <1> QED BY <1>8, <1>9

\* Stage 3, second loop.
LEMMA PropagateBlockedStep ==
    ASSUME LoopInvariant, NEW r \in Resources, PropagateBlocked(r)
    PROVE  LoopInvariant'
  <1> USE DEF LoopInvariant
  <1> DEFINE S == dependants(call.model, {r}) \cap BeforeStage4
  <1>1. /\ stage = "blocked" /\ stage' = stage /\ call' = call /\ found' = found /\ blockers' = blockers
        /\ out_unblocked' = out_unblocked /\ r \in todo
    BY DEF PropagateBlocked
  <1>2. /\ out_unblocked = {}
        /\ found \in verified_blocked(call.model, BeforeStage3, call.verify_blocked)
    BY <1>1 DEF InBlocked
  <1>3. PICK X \in SUBSET Reached :
             /\ out_blocked = Stage2 \cup found \cup X
             /\ todo \subseteq found \cup X
             /\ dependants(call.model, (found \cup X) \ todo) \cap BeforeStage4 \subseteq X
    BY <1>1 DEF InBlocked
  <1>4. /\ Reached \subseteq BeforeStage4
        /\ dependants(call.model, found \cup Reached) \cap BeforeStage4 \subseteq Reached
    BY PropagateBlockedResult DEF Reached
  <1>5. EverBlocked = BeforeStage4
    BY <1>3, <1>4 DEF EverBlocked, BeforeStage4, BeforeStage3, BlockedAfterStage2, Stage2
  <1>6. /\ CallType(call)' /\ Stage2' = Stage2 /\ BeforeStage3' = BeforeStage3
        /\ BeforeStage4' = BeforeStage4 /\ Reached' = Reached
    BY <1>1, SameSearches
  <1>7. /\ hard_blocked' \subseteq hard_blocked \cup (IF r \in hard_blocked
                                                      THEN dependants(call.model, {r}) ELSE {})
        /\ m' = [m EXCEPT !.dirty = @ \ S]
        /\ out_blocked' = out_blocked \cup S
        /\ todo' = (todo \ {r}) \cup S
    <2>1. /\ \A T : dependants(m, T) = dependants(call.model, T)
          /\ \A q \in Resources : blocked(q) <=> q \in EverBlocked
      BY <1>2, ModelNow
    <2>2. dependants(call.model, {r}) \subseteq Resources
      BY DEF dependants, managed
    <2>3. {d \in dependants(m, {r}) : blocked(d)} = S
      BY <1>5, <2>1, <2>2
    <2> QED BY <2>1, <2>3 DEF PropagateBlocked
  <1>8. S \subseteq managed(call.model) /\ managed(call.model) \subseteq Resources
    BY DEF dependants, managed
  <1>9. m' = result_model(call.model, out_blocked', {})
    <2>1. m = result_model(call.model, out_blocked, {})
      BY <1>2 DEF StateType
    <2>2. call.model \in Models /\ out_blocked \in SUBSET Resources /\ S \in SUBSET Resources
      BY <1>8 DEF CallType, StateType
    <2>3. \A q \in S : m.resource_state[q].blocked = "BLOCKED"
      BY <1>2, <1>5, <1>8, ModelNow DEF blocked
    <2>4. AllBlocked(m, S)
      BY <2>3 DEF AllBlocked
    <2> HIDE DEF S
    <2>5. [m EXCEPT !.dirty = @ \ S] = result_model(call.model, out_blocked \cup S, {})
      BY <2>1, <2>2, <2>4, BlockAgain
    <2>6. m' = [m EXCEPT !.dirty = @ \ S] /\ out_blocked' = out_blocked \cup S
      BY <1>7
    <2> QED BY <2>5, <2>6
  <1>10. dependants(call.model, {r}) \subseteq managed(call.model)
    BY DEF dependants
  <1>11. StateType'
    <2> HIDE DEF S
    <2>1. hard_blocked' \subseteq Resources
      BY <1>7, <1>8, <1>10 DEF StateType
    <2> QED BY <1>1, <1>2, <1>7, <1>8, <1>9, <2>1 DEF StateType
  <1>12. EverBlocked' = EverBlocked
    BY <1>1, <1>5, <1>7 DEF EverBlocked
  <1>13. HardBlockedStay'
    <2>1. r \in EverBlocked
      BY <1>1, <1>3, <1>4, <1>5 DEF BeforeStage4
    <2>2. ASSUME NEW h \in hard_blocked' \ hard_blocked
          PROVE  call.model.requires[h] \cap hard_blocked \cap EverBlocked' # {}
      <3>1. r \in hard_blocked /\ h \in dependants(call.model, {r})
        BY <1>7
      <3>2. r \in call.model.requires[h]
        BY <3>1 DEF dependants
      <3> QED BY <1>12, <2>1, <3>1, <3>2
    <2> QED BY <1>1, <1>12, <2>2, HardGrows
  <1>14. r \in found \cup Reached
    BY <1>1, <1>3
  <1>15. S \subseteq Reached
    BY <1>4, <1>14 DEF dependants
  <1>16. dependants(call.model, (found \cup (X \cup S)) \ todo') \cap BeforeStage4 \subseteq X \cup S
    <2>1. (found \cup (X \cup S)) \ todo' \subseteq ((found \cup X) \ todo) \cup {r}
      BY <1>7
    <2>2. dependants(call.model, (found \cup (X \cup S)) \ todo')
            \subseteq dependants(call.model, (found \cup X) \ todo) \cup dependants(call.model, {r})
      BY <2>1 DEF dependants
    <2> QED BY <1>3, <2>2
  <1>17. InBlocked'
    <2> DEFINE Y == X \cup S
    <2>1. Y \in SUBSET Reached'
      BY <1>6, <1>15
    <2>2. out_blocked' = Stage2' \cup found' \cup Y /\ todo' \subseteq found' \cup Y
      BY <1>1, <1>3, <1>6, <1>7
    <2>3. dependants(call.model', (found' \cup Y) \ todo') \cap BeforeStage4' \subseteq Y
      BY <1>1, <1>6, <1>16
    <2> HIDE DEF Y, S
    <2>4. \E Z \in SUBSET Reached' :
             /\ out_blocked' = Stage2' \cup found' \cup Z
             /\ todo' \subseteq found' \cup Z
             /\ dependants(call.model', (found' \cup Z) \ todo') \cap BeforeStage4' \subseteq Z
      BY <2>1, <2>2, <2>3
    <2> QED BY <1>1, <1>2, <1>6, <2>4 DEF InBlocked
  <1>18. InStage2' /\ InVerifyBlocked' /\ InStage4'
    BY <1>1 DEF InStage2, InVerifyBlocked, InStage4
  <1> QED BY <1>6, <1>11, <1>13, <1>17, <1>18

\* Before and in stage 4 exactly BeforeStage4 was blocked, of managed resources.
LEMMA BlockedInStage4 ==
    ASSUME out_blocked = Stage2 \cup found \cup Reached
    PROVE  EverBlocked = BeforeStage4
  <1>1. Reached \subseteq BeforeStage4
    BY PropagateBlockedResult DEF Reached
  <1> QED BY <1>1 DEF EverBlocked, BeforeStage4, BeforeStage3, BlockedAfterStage2, Stage2

\* Stage 4: r is looked at and stays as it is.
LEMMA VerifyUnblockedKeeps ==
    ASSUME LoopInvariant, NEW r \in Resources, VerifyUnblocked(r), out_unblocked' = out_unblocked
    PROVE  LoopInvariant'
  <1> USE DEF LoopInvariant
  <1> DEFINE candidates == (BeforeStage4 \ is_undefined(call.model))
                             \cap (call.verify_unblocked \cup dependants(call.model, out_unblocked))
  <1>1. /\ stage = "unblocked" /\ stage' = stage /\ call' = call /\ found' = found
        /\ out_blocked' = out_blocked /\ r \in todo
    BY DEF VerifyUnblocked
  <1>2. /\ found \in verified_blocked(call.model, BeforeStage3, call.verify_blocked)
        /\ out_blocked = Stage2 \cup found \cup Reached
        /\ out_unblocked \subseteq Unblockable
        /\ \A q \in out_unblocked : call.model.requires[q] \cap BeforeStage4 \subseteq out_unblocked
        /\ todo \subseteq call.verify_unblocked \cup dependants(call.model, out_unblocked)
        /\ \A q \in candidates :
             call.model.requires[q] \cap BeforeStage4 \subseteq out_unblocked => q \in todo \cup out_unblocked
    BY <1>1 DEF InStage4
  <1>3. /\ CallType(call)' /\ Stage2' = Stage2 /\ BeforeStage3' = BeforeStage3
        /\ BeforeStage4' = BeforeStage4 /\ Reached' = Reached /\ Unblockable' = Unblockable
    BY <1>1, SameSearches
  <1>4. EverBlocked = BeforeStage4 /\ EverBlocked' = EverBlocked
    BY <1>1, <1>2, BlockedInStage4 DEF EverBlocked
  <1>5. /\ blocked(r) <=> r \in BeforeStage4 \ out_unblocked
        /\ m.resource_state[r].compliance = call.model.resource_state[r].compliance
        /\ BeforeStage4 \subseteq managed(call.model) /\ managed(call.model) \subseteq Resources
    BY <1>4, ModelNow
  <1>6. r \in BeforeStage4 /\ m.resource_state[r].compliance = "UNDEFINED" => r \in is_undefined(call.model)
    BY <1>5 DEF is_undefined
  <1>7. /\ todo' = todo \ {r} /\ m' = m
        /\ \/ /\ r \in hard_blocked \/ ~blocked(r) \/ m.resource_state[r].compliance = "UNDEFINED"
              /\ blockers' = blockers
              /\ \/ hard_blocked' = hard_blocked
                 \/ hard_blocked' = hard_blocked \cup {r} /\ r \in is_undefined(call.model)
           \/ /\ hard_blocked' = hard_blocked
              /\ \E d \in blocked_dependency(r) : blockers' = [blockers EXCEPT ![r] = d]
    <2>1. CASE r \in hard_blocked \/ ~blocked(r) \/ m.resource_state[r].compliance = "UNDEFINED"
      BY <1>5, <1>6, <2>1 DEF VerifyUnblocked
    <2>2. CASE ~(r \in hard_blocked \/ ~blocked(r) \/ m.resource_state[r].compliance = "UNDEFINED")
      <3>1. r \notin out_unblocked
        BY <1>5, <2>2
      <3> QED BY <2>2, <3>1 DEF VerifyUnblocked
    <2> QED BY <2>1, <2>2
  <1>8. \A q \in Resources : blockers'[q] # None => blockers'[q] \in call.model.requires[q]
    <2>1. CASE blockers' = blockers
      BY <2>1 DEF StateType
    <2>2. CASE \E d \in blocked_dependency(r) : blockers' = [blockers EXCEPT ![r] = d]
      <3>1. PICK d \in blocked_dependency(r) : blockers' = [blockers EXCEPT ![r] = d]
        BY <2>2
      <3>2. d \in call.model.requires[r]
        BY BlockedDependency
      <3> QED BY <3>1, <3>2 DEF StateType
    <2> QED BY <1>7, <2>1, <2>2
  <1>9. StateType'
    BY <1>1, <1>7, <1>8 DEF StateType
  <1>10. HardBlockedStay'
    BY <1>1, <1>4, <1>7, HardGrows
  <1>11. ASSUME r \in candidates, call.model.requires[r] \cap BeforeStage4 \subseteq out_unblocked
         PROVE  r \in out_unblocked
    <2> SUFFICES ASSUME r \notin out_unblocked PROVE FALSE
      OBVIOUS
    <2>1. r \in BeforeStage4 /\ r \notin is_undefined(call.model) /\ blocked(r)
      BY <1>5, <1>11
    <2>2. CASE r \in hard_blocked
      <3> DEFINE U == out_unblocked \cup {r}
      <3>1. out_unblocked \cap is_undefined(call.model) = {}
        BY <1>2, PropagateUnblockedResult DEF Unblockable
      <3>2. U \in SUBSET Resources
        BY <1>5 DEF StateType
      <3>3. \A u \in U : call.model.requires[u] \cap EverBlocked \subseteq U
        BY <1>2, <1>4, <1>11
      <3>4. U \cap is_undefined(call.model) = {}
        BY <2>1, <3>1
      <3> HIDE DEF U
      <3>5. U \cap hard_blocked = {}
        BY <3>2, <3>3, <3>4 DEF HardBlockedStay
      <3> QED BY <2>2, <3>5 DEF U
    <2>3. CASE \E d \in blocked_dependency(r) : TRUE
      BY <1>4, <1>11, <2>3, BlockedDependency
    <2> QED BY <1>6, <1>7, <2>1, <2>2, <2>3
  <1>12. InStage4'
    <2>1. \A q \in candidates :
            call.model.requires[q] \cap BeforeStage4 \subseteq out_unblocked => q \in todo' \cup out_unblocked
      BY <1>2, <1>7, <1>11
    <2>2. todo' \subseteq call.verify_unblocked \cup dependants(call.model, out_unblocked)
      BY <1>2, <1>7
    <2> QED BY <1>1, <1>2, <1>3, <2>1, <2>2 DEF InStage4
  <1>13. InStage2' /\ InVerifyBlocked' /\ InBlocked'
    BY <1>1 DEF InStage2, InVerifyBlocked, InBlocked
  <1> QED BY <1>3, <1>9, <1>10, <1>12, <1>13

\* Stage 4: r is unblocked.
LEMMA VerifyUnblockedFrees ==
    ASSUME LoopInvariant, NEW r \in Resources, VerifyUnblocked(r), out_unblocked' # out_unblocked
    PROVE  LoopInvariant'
  <1> USE DEF LoopInvariant
  <1>1. /\ stage = "unblocked" /\ stage' = stage /\ call' = call /\ found' = found
        /\ out_blocked' = out_blocked /\ r \in todo
    BY DEF VerifyUnblocked
  <1>2. /\ found \in verified_blocked(call.model, BeforeStage3, call.verify_blocked)
        /\ out_blocked = Stage2 \cup found \cup Reached
        /\ out_unblocked \subseteq Unblockable
        /\ \A q \in out_unblocked : call.model.requires[q] \cap BeforeStage4 \subseteq out_unblocked
        /\ todo \subseteq call.verify_unblocked \cup dependants(call.model, out_unblocked)
        /\ \A q \in (BeforeStage4 \ is_undefined(call.model))
                      \cap (call.verify_unblocked \cup dependants(call.model, out_unblocked)) :
             call.model.requires[q] \cap BeforeStage4 \subseteq out_unblocked => q \in todo \cup out_unblocked
    BY <1>1 DEF InStage4
  <1>3. /\ CallType(call)' /\ Stage2' = Stage2 /\ BeforeStage3' = BeforeStage3
        /\ BeforeStage4' = BeforeStage4 /\ Reached' = Reached /\ Unblockable' = Unblockable
    BY <1>1, SameSearches
  <1>4. EverBlocked = BeforeStage4 /\ EverBlocked' = EverBlocked
    BY <1>1, <1>2, BlockedInStage4 DEF EverBlocked
  <1>5. /\ \A S : dependants(m, S) = dependants(call.model, S)
        /\ blocked(r) <=> r \in BeforeStage4 \ out_unblocked
        /\ m.resource_state[r].compliance = call.model.resource_state[r].compliance
        /\ BeforeStage4 \subseteq managed(call.model) /\ managed(call.model) \subseteq Resources
    BY <1>4, ModelNow
  <1>6. /\ blocked(r) /\ m.resource_state[r].compliance # "UNDEFINED"
        /\ blocked_dependency(r) = {}
        /\ hard_blocked' = hard_blocked
        /\ blockers' = [blockers EXCEPT ![r] = None]
        /\ unblock_resource(r)
        /\ out_unblocked' = out_unblocked \cup {r}
        /\ todo' = (todo \ {r}) \cup dependants(m, {r})
    BY DEF VerifyUnblocked
  <1>7. /\ r \in BeforeStage4 /\ r \notin out_unblocked /\ r \notin is_undefined(call.model)
        /\ todo' = (todo \ {r}) \cup dependants(call.model, {r})
    BY <1>5, <1>6 DEF is_undefined
  <1>8. call.model.requires[r] \cap BeforeStage4 \subseteq out_unblocked
    BY <1>4, <1>6, BlockedDependency
  <1>9. m' = result_model(call.model, out_blocked, out_unblocked')
    <2>1. m = result_model(call.model, out_blocked, out_unblocked)
      BY DEF StateType
    <2>2. /\ call.model \in Models /\ out_blocked \in SUBSET Resources
          /\ out_unblocked \in SUBSET Resources
      BY <1>5 DEF CallType, StateType
    <2>3. m' = Unblocked(m, r)
      BY <1>6 DEF unblock_resource, Unblocked
    <2>4. Unblocked(m, r) = result_model(call.model, out_blocked, out_unblocked \cup {r})
      BY <2>1, <2>2, UnblockOne
    <2> QED BY <1>6, <2>3, <2>4
  <1>10. dependants(call.model, {r}) \subseteq Resources
    BY DEF dependants, managed
  <1>11. StateType'
    <2>1. \A q \in Resources : blockers'[q] # None => blockers'[q] \in call.model.requires[q]
      BY <1>6 DEF StateType
    <2> QED BY <1>1, <1>5, <1>6, <1>7, <1>9, <1>10, <2>1 DEF StateType
  <1>12. HardBlockedStay'
    BY <1>1, <1>4, <1>6 DEF HardBlockedStay
  <1>13. r \in Unblockable
    <2>1. r \in call.verify_unblocked \cup dependants(call.model, Unblockable)
      BY <1>1, <1>2 DEF dependants
    <2>2. call.model.requires[r] \cap BeforeStage4 \subseteq Unblockable
      BY <1>2, <1>8
    <2> QED BY <1>7, <2>1, <2>2, PropagateUnblockedResult DEF Unblockable
  <1>14. dependants(call.model, out_unblocked')
           = dependants(call.model, out_unblocked) \cup dependants(call.model, {r})
    BY <1>6 DEF dependants
  <1>15. ASSUME NEW q \in (BeforeStage4 \ is_undefined(call.model))
                            \cap (call.verify_unblocked \cup dependants(call.model, out_unblocked')),
                call.model.requires[q] \cap BeforeStage4 \subseteq out_unblocked'
         PROVE  q \in todo' \cup out_unblocked'
    <2>1. CASE q \in dependants(call.model, {r})
      BY <1>7, <2>1
    <2>2. CASE q \notin dependants(call.model, {r})
      <3>1. r \notin call.model.requires[q]
        BY <1>5, <1>15, <2>2 DEF dependants
      <3>2. call.model.requires[q] \cap BeforeStage4 \subseteq out_unblocked
        BY <1>6, <1>15, <3>1
      <3>3. q \in call.verify_unblocked \cup dependants(call.model, out_unblocked)
        BY <1>14, <1>15, <2>2
      <3>4. q \in todo \cup out_unblocked
        BY <1>2, <1>15, <3>2, <3>3
      <3>5. q # r => q \in todo' \cup out_unblocked'
        BY <1>6, <1>7, <3>4
      <3> QED BY <1>6, <3>5
    <2> QED BY <2>1, <2>2
  <1>16. InStage4'
    <2>1. todo' \subseteq call.verify_unblocked \cup dependants(call.model, out_unblocked')
      BY <1>2, <1>7, <1>14
    <2>2. \A q \in out_unblocked' : call.model.requires[q] \cap BeforeStage4 \subseteq out_unblocked'
      BY <1>2, <1>6, <1>8
    <2> QED BY <1>1, <1>2, <1>3, <1>6, <1>13, <1>15, <2>1, <2>2 DEF InStage4
  <1>17. InStage2' /\ InVerifyBlocked' /\ InBlocked'
    BY <1>1 DEF InStage2, InVerifyBlocked, InBlocked
  <1> QED BY <1>3, <1>11, <1>12, <1>16, <1>17

\* A loop that has emptied its worklist hands over to the next.
LEMMA EndOfLoopStep ==
    ASSUME LoopInvariant, NEW this, NEW next_stage, NEW next, EndOfLoop(this, next_stage, next),
           \/ this = "undefined" /\ next_stage = "verify_blocked" /\ next = call.verify_blocked
           \/ this = "verify_blocked" /\ next_stage = "blocked" /\ next = found
           \/ this = "blocked" /\ next_stage = "unblocked" /\ next = call.verify_unblocked
           \/ this = "unblocked" /\ next_stage = "done" /\ next = {}
    PROVE  LoopInvariant'
  <1> USE DEF LoopInvariant
  <1>1. /\ stage = this /\ stage' = next_stage /\ todo = {} /\ todo' = next
        /\ UNCHANGED <<call, m, found, hard_blocked, blockers, out_blocked, out_unblocked>>
    BY DEF EndOfLoop
  <1>2. /\ CallType(call)' /\ Stage2' = Stage2 /\ BeforeStage3' = BeforeStage3
        /\ BeforeStage4' = BeforeStage4 /\ Reached' = Reached /\ Unblockable' = Unblockable
        /\ EverBlocked' = EverBlocked
    BY <1>1, SameSearches DEF EverBlocked
  <1>3. HardBlockedStay'
    BY <1>1, <1>2 DEF HardBlockedStay
  <1>4. call.verify_blocked \subseteq Resources /\ call.verify_unblocked \subseteq Resources
    BY DEF CallType, managed
  <1>5. CASE this = "undefined" /\ next_stage = "verify_blocked" /\ next = call.verify_blocked
    <2>1. /\ out_unblocked = {} /\ found = {}
          /\ hard_blocked \subseteq EverBlocked
          /\ out_blocked \subseteq Stage2
          /\ dependants(call.model, call.new_undefined \cup out_blocked) \subseteq EverBlocked
      BY <1>1, <1>5 DEF InStage2
    <2>2. Stage2 \subseteq managed(call.model) \ is_blocked(call.model)
      BY PropagateUndefinedScope DEF Stage2
    <2>3. Stage2 \subseteq out_blocked
      BY <2>1, <2>2, PropagateUndefinedLeast DEF Stage2, EverBlocked
    <2>4. InVerifyBlocked'
      BY <1>1, <1>2, <1>5, <2>1, <2>3 DEF InVerifyBlocked
    <2>5. StateType'
      BY <1>1, <1>4, <1>5 DEF StateType
    <2>6. InStage2' /\ InBlocked' /\ InStage4'
      BY <1>1, <1>5 DEF InStage2, InBlocked, InStage4
    <2> QED BY <1>2, <1>3, <2>4, <2>5, <2>6
  <1>6. CASE this = "verify_blocked" /\ next_stage = "blocked" /\ next = found
    <2>1. /\ out_unblocked = {} /\ out_blocked = Stage2 \cup found
          /\ found \subseteq call.verify_blocked \ BeforeStage3
          /\ \A r \in found : call.model.requires[r] \cap BeforeStage4 # {}
          /\ \A r \in (call.verify_blocked \ BeforeStage3) \ found :
               call.model.requires[r] \cap BeforeStage3 = {}
      BY <1>1, <1>6 DEF InVerifyBlocked
    <2>2. found \in verified_blocked(call.model, BeforeStage3, call.verify_blocked)
      BY <2>1 DEF verified_blocked, BeforeStage4
    <2>3. dependants(call.model, (found \cup {}) \ found) = {}
      BY DEF dependants
    <2>4. InBlocked'
      <3> DEFINE Y == {}
      <3>1. /\ Y \in SUBSET Reached' /\ out_blocked' = Stage2' \cup found' \cup Y /\ todo' \subseteq found' \cup Y
            /\ dependants(call.model', (found' \cup Y) \ todo') \cap BeforeStage4' \subseteq Y
        BY <1>1, <1>2, <1>6, <2>1, <2>3
      <3> HIDE DEF Y
      <3>2. \E Z \in SUBSET Reached' :
               /\ out_blocked' = Stage2' \cup found' \cup Z
               /\ todo' \subseteq found' \cup Z
               /\ dependants(call.model', (found' \cup Z) \ todo') \cap BeforeStage4' \subseteq Z
        BY <3>1
      <3> QED BY <1>1, <1>2, <2>1, <2>2, <3>2 DEF InBlocked
    <2>5. StateType'
      BY <1>1, <1>4, <1>6, <2>1 DEF StateType
    <2>6. InStage2' /\ InVerifyBlocked' /\ InStage4'
      BY <1>1, <1>6 DEF InStage2, InVerifyBlocked, InStage4
    <2> QED BY <1>2, <1>3, <2>4, <2>5, <2>6
  <1>7. CASE this = "blocked" /\ next_stage = "unblocked" /\ next = call.verify_unblocked
    <2>1. /\ out_unblocked = {}
          /\ found \in verified_blocked(call.model, BeforeStage3, call.verify_blocked)
      BY <1>1, <1>7 DEF InBlocked
    <2>2. PICK X \in SUBSET Reached :
               /\ out_blocked = Stage2 \cup found \cup X
               /\ dependants(call.model, (found \cup X) \ todo) \cap BeforeStage4 \subseteq X
      BY <1>1, <1>7 DEF InBlocked
    <2>3. X = Reached
      <3>1. X \in SUBSET BeforeStage4
        BY ReachedScope
      <3>2. (found \cup X) \ todo = found \cup X
        BY <1>1
      <3>3. dependants(call.model, found \cup X) \cap BeforeStage4 \subseteq X
        BY <2>2, <3>2
      <3>4. Reached \subseteq X
        BY <3>1, <3>3, PropagateBlockedResult DEF Reached
      <3> QED BY <3>4
    <2>4. dependants(call.model, {}) = {}
      BY DEF dependants
    <2>5. InStage4'
      BY <1>1, <1>2, <1>7, <2>1, <2>2, <2>3, <2>4 DEF InStage4
    <2>6. StateType'
      BY <1>1, <1>4, <1>7 DEF StateType
    <2>7. InStage2' /\ InVerifyBlocked' /\ InBlocked'
      BY <1>1, <1>7 DEF InStage2, InVerifyBlocked, InBlocked
    <2> QED BY <1>2, <1>3, <2>5, <2>6, <2>7
  <1>8. CASE this = "unblocked" /\ next_stage = "done" /\ next = {}
    <2>1. InStage4'
      BY <1>1, <1>2, <1>8 DEF InStage4
    <2>2. StateType'
      BY <1>1, <1>4, <1>8 DEF StateType
    <2>3. InStage2' /\ InVerifyBlocked' /\ InBlocked'
      BY <1>1, <1>8 DEF InStage2, InVerifyBlocked, InBlocked
    <2> QED BY <1>2, <1>3, <2>1, <2>2, <2>3
  <1> QED BY <1>5, <1>6, <1>7, <1>8

\* The invariant is inductive.
LEMMA LoopInvariantStep ==
    ASSUME LoopInvariant, [Next]_vars
    PROVE  LoopInvariant'
  <1>1. ASSUME NEW r \in Resources, PropagateUndefined(r) PROVE LoopInvariant'
    BY <1>1, PropagateUndefinedStep
  <1>2. ASSUME NEW r \in Resources, VerifyBlocked(r) PROVE LoopInvariant'
    BY <1>2, VerifyBlockedStep
  <1>3. ASSUME NEW r \in Resources, PropagateBlocked(r) PROVE LoopInvariant'
    BY <1>3, PropagateBlockedStep
  <1>4. ASSUME NEW r \in Resources, VerifyUnblocked(r) PROVE LoopInvariant'
    BY <1>4, VerifyUnblockedKeeps, VerifyUnblockedFrees
  <1>5. CASE EndOfLoop("undefined", "verify_blocked", call.verify_blocked)
    BY <1>5, EndOfLoopStep
  <1>6. CASE EndOfLoop("verify_blocked", "blocked", found)
    BY <1>6, EndOfLoopStep
  <1>7. CASE EndOfLoop("blocked", "unblocked", call.verify_unblocked)
    BY <1>7, EndOfLoopStep
  <1>8. CASE EndOfLoop("unblocked", "done", {})
    BY <1>8, EndOfLoopStep
  <1>9. CASE UNCHANGED vars
    <2>1. /\ call' = call /\ m' = m /\ stage' = stage /\ todo' = todo /\ found' = found
          /\ hard_blocked' = hard_blocked /\ blockers' = blockers
          /\ out_blocked' = out_blocked /\ out_unblocked' = out_unblocked
      BY <1>9 DEF vars
    <2>2. /\ Stage2' = Stage2 /\ BeforeStage3' = BeforeStage3 /\ BeforeStage4' = BeforeStage4
          /\ Reached' = Reached /\ Unblockable' = Unblockable /\ EverBlocked' = EverBlocked
      BY <2>1, SameSearches DEF EverBlocked
    <2>3. CallType(call)' /\ StateType' /\ HardBlockedStay'
      BY <2>1, <2>2 DEF LoopInvariant, StateType, HardBlockedStay
    <2>4. InStage2' /\ InVerifyBlocked'
      BY <2>1, <2>2 DEF LoopInvariant, InStage2, InVerifyBlocked
    <2>5. InBlocked' /\ InStage4'
      BY <2>1, <2>2 DEF LoopInvariant, InBlocked, InStage4
    <2> QED BY <2>3, <2>4, <2>5 DEF LoopInvariant
  <1> QED BY <1>1, <1>2, <1>3, <1>4, <1>5, <1>6, <1>7, <1>8, <1>9 DEF Next

\* At the end the result is one that is specified.
LEMMA LoopInvariantResult ==
    ASSUME LoopInvariant
    PROVE  ResultAsSpecified
  <1> SUFFICES ASSUME stage = "done"
               PROVE  [blocked |-> out_blocked, unblocked |-> out_unblocked, model |-> m]
                        \in update_transitive_state(call.model, call.new_undefined, call.verify_blocked,
                                                    call.verify_unblocked)
    BY DEF ResultAsSpecified
  <1>1. /\ found \in verified_blocked(call.model, BeforeStage3, call.verify_blocked)
        /\ out_blocked = Stage2 \cup found \cup Reached
        /\ out_unblocked \subseteq Unblockable
        /\ \A r \in (BeforeStage4 \ is_undefined(call.model))
                      \cap (call.verify_unblocked \cup dependants(call.model, out_unblocked)) :
             call.model.requires[r] \cap BeforeStage4 \subseteq out_unblocked => r \in out_unblocked
    BY DEF LoopInvariant, InStage4
  <1>2. out_unblocked \in SUBSET BeforeStage4
    BY <1>1, PropagateUnblockedResult DEF Unblockable
  <1>3. Unblockable \subseteq out_unblocked
    BY <1>1, <1>2, PropagateUnblockedLeast DEF Unblockable
  <1>4. out_unblocked = propagate_unblocked(call.model, BeforeStage4, call.verify_unblocked)
    BY <1>1, <1>3 DEF Unblockable
  <1>5. out_blocked = propagate_undefined(call.model, call.new_undefined) \cup found
                        \cup propagate_blocked(call.model, BeforeStage4, found)
    BY <1>1 DEF Stage2, Reached
  <1>6. m = result_model(call.model, out_blocked, out_unblocked)
    BY DEF LoopInvariant, StateType
  <1> QED BY <1>1, <1>4, <1>5, <1>6, SpecifiedResult DEF BeforeStage4, BeforeStage3
-----------------------------------------------------------------------------
(* The calls that _new_version makes *)

\* Only managed resources require and are required, and blocked are those that depend on an
\* undefined one.
ConsistentModel(x) ==
    /\ x \in Models
    /\ \A r \in Resources : /\ x.requires[r] \subseteq managed(x)
                            /\ r \notin managed(x) => x.requires[r] = {}
                            /\ x.resource_state[r].blocked = "BLOCKED" <=> r \in DependsOnUndefined(x)

\* The resources of a version.
InVersion(v) == {r \in Resources : v.intent[r] # None}

\* A version whose resources require, and have undefined, only resources of it.
ClosedVersion(v) ==
    /\ v \in ModelVersions /\ v.undefined \subseteq InVersion(v)
    /\ \A r \in Resources : /\ v.requires[r] \subseteq InVersion(v)
                            /\ r \notin InVersion(v) => v.requires[r] = {}

\* The call for the model x and the version v.
CallFor(x, v) ==
    LET c == intent_changes(x, v, {}, {})
    IN  [model |-> WithRequires(x, v, c),
         new_undefined |-> became_undefined(x, v, c),
         verify_blocked |-> Added(x, v),
         verify_unblocked |-> became_defined(x, v, c) \cup Dropped(x, v)]

\* Models with the same resources, requires and undefined resources have the same resources
\* that depend on one.
LEMMA SameDependsOnUndefined ==
    ASSUME NEW x, NEW y, managed(x) = managed(y), x.requires = y.requires, is_undefined(x) = is_undefined(y)
    PROVE  DependsOnUndefined(x) \subseteq DependsOnUndefined(y)
  <1>1. \A T : dependants(x, T) = dependants(y, T)
    BY DEF dependants
  <1>2. /\ DependsOnUndefined(y) \subseteq managed(y)
        /\ \A r \in managed(y) :
             r \in DependsOnUndefined(y) <=>
               r \in is_undefined(y) \/ y.requires[r] \cap DependsOnUndefined(y) # {}
    BY DependsOnUndefinedResult
  <1>3. is_undefined(y) \subseteq managed(y)
    BY DEF is_undefined
  <1>4. is_undefined(x) \cup dependants(x, DependsOnUndefined(y)) \subseteq DependsOnUndefined(y)
    BY <1>2, <1>3 DEF dependants
  <1> QED BY <1>2, <1>4, DependsOnUndefinedResult

\* The models of the calls are consistent.
LEMMA ConsistentModelResult ==
    ASSUME NEW intent \in Intents, NEW requires \in Edges, NEW compliance \in [Resources -> ComplianceStates],
           well_formed(intent, requires)
    PROVE  ConsistentModel(consistent_model(intent, requires, compliance))
           /\ consistent_model(intent, requires, compliance).requires = requires
  <1> DEFINE state == [r \in Resources |->
                         IF intent[r] = None THEN NoState ELSE [NoState EXCEPT !.compliance = compliance[r]]]
             x == [intent |-> intent, requires |-> requires, dirty |-> {}, resource_state |-> state]
             B == DependsOnUndefined(x)
             blocked_state == [r \in Resources |->
                                 IF r \in B THEN [x.resource_state[r] EXCEPT !.blocked = "BLOCKED"]
                                 ELSE x.resource_state[r]]
             D == {r \in managed(x) \ B : is_dirty(x.resource_state[r])}
             y == consistent_model(intent, requires, compliance)
  <1>1. y = [x EXCEPT !.resource_state = blocked_state, !.dirty = D]
    BY Zenon DEF consistent_model
  <1>2. \A r \in Resources : state[r] \in ResourceStates /\ state[r].blocked # "BLOCKED"
    <2> TAKE r \in Resources
    <2>1. NoState \in ResourceStates /\ NoState.blocked = "NOT_BLOCKED"
      BY NoStateType DEF NoState
    <2>2. [NoState EXCEPT !.compliance = compliance[r]] \in ResourceStates
      BY <2>1 DEF ResourceStates
    <2>3. [NoState EXCEPT !.compliance = compliance[r]].blocked = "NOT_BLOCKED"
      BY DEF NoState
    <2> QED BY <2>1, <2>2, <2>3
  <1>3. state \in [Resources -> ResourceStates]
    BY <1>2
  <1> HIDE DEF state
  <1>4. /\ x.intent = intent /\ x.requires = requires /\ x.resource_state = state /\ x.dirty = {}
        /\ x = [intent |-> x.intent, requires |-> x.requires, dirty |-> x.dirty,
                resource_state |-> x.resource_state]
    OBVIOUS
  <1>5. x \in Models
    BY <1>3 DEF Models, Intents
  <1> HIDE DEF x
  <1>6. B \subseteq managed(x) /\ managed(x) \subseteq Resources
    BY DependsOnUndefinedResult DEF managed
  <1> HIDE DEF B
  <1>7. \A r \in Resources :
          /\ blocked_state[r] \in ResourceStates
          /\ SameButBlocked(x.resource_state[r], blocked_state[r])
          /\ blocked_state[r].blocked = "BLOCKED" <=> r \in B
    <2> TAKE r \in Resources
    <2>1. /\ x.resource_state[r] \in ResourceStates /\ x.resource_state[r].blocked # "BLOCKED"
          /\ "BLOCKED" \in BlockedStates
      BY <1>2, <1>4 DEF BlockedStates
    <2>2. CASE r \in B
      BY <2>1, <2>2, BlockedChange, BlockedChangeType
    <2>3. CASE r \notin B
      BY <2>1, <2>3, BlockedChange
    <2> QED BY <2>2, <2>3
  <1>8. blocked_state \in [Resources -> ResourceStates] /\ D \in SUBSET Resources
    BY <1>6, <1>7
  <1> HIDE DEF blocked_state, D, y
  <1>9. /\ y \in Models /\ y.intent = x.intent /\ y.requires = x.requires /\ y.resource_state = blocked_state
    BY <1>1, <1>5, <1>8 DEF Models
  <1>10. managed(y) = managed(x)
    BY <1>9 DEF managed
  <1>11. is_undefined(y) = is_undefined(x)
    BY <1>6, <1>7, <1>9, <1>10 DEF is_undefined, SameButBlocked
  <1>12. DependsOnUndefined(y) = B
    <2>1. DependsOnUndefined(x) \subseteq DependsOnUndefined(y)
      BY <1>9, <1>10, <1>11, SameDependsOnUndefined
    <2>2. DependsOnUndefined(y) \subseteq DependsOnUndefined(x)
      BY <1>9, <1>10, <1>11, SameDependsOnUndefined
    <2> QED BY <2>1, <2>2 DEF B
  <1>13. ASSUME NEW r \in Resources
         PROVE  /\ y.requires[r] \subseteq managed(y)
                /\ r \notin managed(y) => y.requires[r] = {}
    <2>1. requires[r] \subseteq {d \in Resources : {intent[r], intent[d]} \subseteq Hashes}
      BY DEF well_formed
    <2>2. None \notin Hashes
      BY NoneAssumption
    <2>3. y.requires = requires /\ y.intent = intent
      BY <1>4, <1>9
    <2> QED BY <2>1, <2>2, <2>3 DEF managed
  <1>14. ConsistentModel(y)
    BY <1>7, <1>9, <1>12, <1>13 DEF ConsistentModel
  <1> QED BY <1>4, <1>9, <1>14 DEF y

\* The model of a call against the model x before it and the version v: resources of v have
\* what v says, the others what x said, and nothing is unblocked.
CalledModel(x, v, n) ==
    /\ n \in Models
    /\ managed(n) = managed(x) \cup InVersion(v)
    /\ \A r \in Resources :
         /\ n.requires[r] = IF r \in InVersion(v) THEN v.requires[r] ELSE x.requires[r]
         /\ r \in is_undefined(n) <=>
              IF r \in InVersion(v) THEN r \in v.undefined ELSE r \in is_undefined(x)
         /\ n.resource_state[r].blocked = "BLOCKED" <=>
              r \in DependsOnUndefined(x) \/ (r \in InVersion(v) /\ r \in v.undefined)

\* That holds in every call.
LEMMA CallForModel ==
    ASSUME NEW x, ConsistentModel(x), NEW v, ClosedVersion(v)
    PROVE  CalledModel(x, v, CallFor(x, v).model)
  <1> DEFINE c == intent_changes(x, v, {}, {})
             n == WithRequires(x, v, c)
             S == Added(x, v) \cup Dropped(x, v)
             changed == c.new \cup c.updated
  <1>1. x \in Models /\ v \in ModelVersions
    BY DEF ConsistentModel, ClosedVersion
  <1>2. c \in IntentChanges
    BY <1>1, IntentChangesType
  <1>3. /\ c.new = InVersion(v) \ managed(x)
        /\ c.updated = {r \in managed(x) \cap InVersion(v) :
                          v.intent[r] # x.intent[r] \/ (r \in v.undefined) # (r \in is_undefined(x))}
    BY DEF intent_changes, InVersion
  <1> HIDE DEF c
  <1>4. PICK F \in SUBSET Resources : RequiresDone(x, v, c, n, F)
    BY <1>1, <1>2, WithRequiresState
  <1>5. n \in Models
    <2>1. PICK new, updated \in SUBSET Resources : new = c.new /\ updated = c.updated
      BY <1>2 DEF IntentChanges
    <2>2. PICK y \in Models : y = update_resource(x, v, new, updated)
      BY <1>1, UpdateResourceType
    <2>3. PICK T \in SUBSET Resources : T = S
      BY DEF Added, Dropped
    <2>4. n = update_requires(y, v, T)
      BY <2>1, <2>2, <2>3 DEF WithRequires
    <2> QED BY <1>1, <2>4, UpdateRequiresType
  <1> HIDE DEF n
  <1>6. F \in SUBSET (S \ changed)
    BY <1>4 DEF RequiresDone
  <1>7. \A r \in Resources :
             LET s == x.resource_state[r]
                 t == n.resource_state[r]
             IN  /\ n.intent[r] = IF r \in changed THEN v.intent[r] ELSE x.intent[r]
                 /\ n.requires[r] = IF r \in S THEN v.requires[r] ELSE drop_edges(x.requires, c.new)[r]
                 /\ r \in changed => t.compliance = IF r \in v.undefined THEN "UNDEFINED" ELSE "HAS_UPDATE"
                 /\ r \in c.new => t.blocked = IF r \in v.undefined THEN "BLOCKED" ELSE "NOT_BLOCKED"
                 /\ r \in c.updated \ c.new =>
                      t.blocked = IF r \in v.undefined \/ s.blocked = "BLOCKED" THEN "BLOCKED" ELSE "NOT_BLOCKED"
                 /\ r \notin changed =>
                      /\ SameButBlocked(s, t)
                      /\ t.blocked = IF r \in F THEN "NOT_BLOCKED" ELSE s.blocked
                 /\ r \in F => s.blocked = "TEMPORARILY_BLOCKED"
    BY <1>4 DEF RequiresDone
  <1>8. /\ managed(x) \subseteq Resources /\ InVersion(v) \subseteq Resources
        /\ is_undefined(x) \subseteq managed(x)
        /\ DependsOnUndefined(x) \subseteq managed(x) /\ is_undefined(x) \subseteq DependsOnUndefined(x)
    BY DependsOnUndefinedResult DEF managed, InVersion, is_undefined
  <1>9. \A r \in Resources : /\ x.requires[r] \subseteq managed(x)
                             /\ r \notin managed(x) => x.requires[r] = {}
                             /\ x.resource_state[r].blocked = "BLOCKED" <=> r \in DependsOnUndefined(x)
    BY DEF ConsistentModel
  <1>10. managed(n) = managed(x) \cup InVersion(v)
    <2>1. \A r \in Resources : n.intent[r] # None <=> x.intent[r] # None \/ v.intent[r] # None
      <3> TAKE r \in Resources
      <3>1. n.intent[r] = IF r \in changed THEN v.intent[r] ELSE x.intent[r]
        BY <1>7
      <3>2. r \in changed => v.intent[r] # None
        BY <1>3 DEF InVersion
      <3>3. v.intent[r] # None /\ r \notin changed => x.intent[r] # None
        BY <1>3 DEF managed, InVersion
      <3> QED BY <3>1, <3>2, <3>3
    <2> QED BY <2>1 DEF managed, InVersion
  <1>11. ASSUME NEW r \in Resources
         PROVE  n.requires[r] = IF r \in InVersion(v) THEN v.requires[r] ELSE x.requires[r]
    <2>1. drop_edges(x.requires, c.new)[r] = x.requires[r]
      BY <1>3, <1>9 DEF drop_edges
    <2>2. r \in S => r \in InVersion(v)
      BY DEF Added, Dropped, added_requires, dropped_requires, InVersion
    <2>3. r \in InVersion(v) /\ r \notin S => v.requires[r] = x.requires[r]
      <3>1. r \in InVersion(v) /\ r \notin S => v.requires[r] \ x.requires[r] = {} /\ x.requires[r] \ v.requires[r] = {}
        BY DEF Added, Dropped, added_requires, dropped_requires, InVersion
      <3> QED BY <3>1
    <2> QED BY <1>7, <2>1, <2>2, <2>3
  <1>12. ASSUME NEW r \in Resources
         PROVE  n.resource_state[r].compliance =
                  IF r \in changed THEN IF r \in v.undefined THEN "UNDEFINED" ELSE "HAS_UPDATE"
                  ELSE x.resource_state[r].compliance
    BY <1>7 DEF SameButBlocked
  <1>13. ASSUME NEW r \in Resources
         PROVE  r \in is_undefined(n) <=>
                  IF r \in InVersion(v) THEN r \in v.undefined ELSE r \in is_undefined(x)
    <2>1. r \in is_undefined(n) <=> r \in managed(x) \cup InVersion(v) /\ n.resource_state[r].compliance = "UNDEFINED"
      BY <1>10 DEF is_undefined
    <2>2. r \in is_undefined(x) <=> r \in managed(x) /\ x.resource_state[r].compliance = "UNDEFINED"
      BY DEF is_undefined
    <2>3. CASE r \in changed
      BY <1>3, <1>12, <2>1, <2>3
    <2>4. CASE r \notin changed
      BY <1>3, <1>12, <2>1, <2>2, <2>4
    <2> QED BY <2>3, <2>4
  <1>14. ASSUME NEW r \in Resources
         PROVE  n.resource_state[r].blocked = "BLOCKED" <=>
                  r \in DependsOnUndefined(x) \/ (r \in InVersion(v) /\ r \in v.undefined)
    <2>1. CASE r \in c.new
      <3>1. r \notin DependsOnUndefined(x) /\ r \in InVersion(v)
        BY <1>3, <1>8, <2>1
      <3> QED BY <1>7, <2>1, <3>1
    <2>2. CASE r \in c.updated \ c.new
      <3>1. r \in InVersion(v)
        BY <1>3, <2>2
      <3> QED BY <1>7, <1>9, <2>2, <3>1
    <2>3. CASE r \notin changed
      <3>1. r \in InVersion(v) /\ r \in v.undefined => r \in DependsOnUndefined(x)
        BY <1>3, <1>8, <2>3
      <3> QED BY <1>7, <1>9, <2>3, <3>1
    <2> QED BY <2>1, <2>2, <2>3
  <1>15. CalledModel(x, v, n)
    BY <1>5, <1>10, <1>11, <1>13, <1>14 DEF CalledModel
  <1>16. CallFor(x, v).model = n
    BY DEF CallFor, c, n
  <1> QED BY <1>15, <1>16

\* What a call is made for.
LEMMA CallForRest ==
    ASSUME NEW x, ConsistentModel(x), NEW v, ClosedVersion(v), NEW c, c = CallFor(x, v)
    PROVE  /\ c.new_undefined = {r \in InVersion(v) : r \in v.undefined /\ r \notin is_undefined(x)}
           /\ {r \in InVersion(v) : r \notin v.undefined /\ r \in is_undefined(x)} \subseteq c.verify_unblocked
           /\ c.verify_unblocked \subseteq InVersion(v)
           /\ \A r \in InVersion(v) : x.requires[r] \subseteq v.requires[r] \/ r \in c.verify_unblocked
           /\ c.verify_blocked = {r \in InVersion(v) : ~(v.requires[r] \subseteq x.requires[r])}
  <1> DEFINE ch == intent_changes(x, v, {}, {})
  <1>1. /\ ch.new = InVersion(v) \ managed(x)
        /\ ch.updated = {r \in managed(x) \cap InVersion(v) :
                           v.intent[r] # x.intent[r] \/ (r \in v.undefined) # (r \in is_undefined(x))}
    BY DEF intent_changes, InVersion
  <1>2. /\ c.new_undefined = became_undefined(x, v, ch)
        /\ c.verify_blocked = Added(x, v)
        /\ c.verify_unblocked = became_defined(x, v, ch) \cup Dropped(x, v)
    BY DEF CallFor
  <1> HIDE DEF ch
  <1>3. is_undefined(x) \subseteq managed(x)
    BY DEF is_undefined
  <1>4. became_undefined(x, v, ch) = {r \in InVersion(v) : r \in v.undefined /\ r \notin is_undefined(x)}
    BY <1>1 DEF became_undefined
  <1>5. became_defined(x, v, ch) = {r \in InVersion(v) : r \notin v.undefined /\ r \in is_undefined(x)}
    BY <1>1, <1>3 DEF became_defined
  <1>6. Added(x, v) = {r \in InVersion(v) : ~(v.requires[r] \subseteq x.requires[r])}
    BY DEF Added, added_requires, InVersion
  <1>7. Dropped(x, v) = {r \in InVersion(v) : ~(x.requires[r] \subseteq v.requires[r])}
    BY DEF Dropped, dropped_requires, InVersion
  <1> QED BY <1>2, <1>4, <1>5, <1>6, <1>7

\* What the model of a call has to do with its arguments: a blocked resource that no longer
\* depends on an undefined one is to be verified, or else requires a blocked one; without
\* added requires all dependants of what was blocked before are blocked.
CallConsistent(c) ==
    /\ is_undefined(c.model) \subseteq is_blocked(c.model)
    /\ \A r \in is_blocked(c.model) \ is_undefined(c.model) :
         r \in c.verify_unblocked \/ c.model.requires[r] \cap is_blocked(c.model) # {}
    /\ c.verify_blocked = {} =>
         dependants(c.model, is_blocked(c.model) \ c.new_undefined) \subseteq is_blocked(c.model)

\* Requires without a cycle: every set of resources has one that requires none of the set.
Acyclic(requires) ==
    \A S \in SUBSET Resources : S # {} => \E r \in S : requires[r] \cap S = {}

\* The call of an initial state.
CallFrom(x, v) ==
    /\ ConsistentModel(x) /\ ClosedVersion(v)
    /\ {x.requires, v.requires} \subseteq Graphs
    /\ call = CallFor(x, v)

\* Every initial state has one, and nothing else.
LEMMA InitCall ==
    ASSUME Init
    PROVE  /\ \E x, v : CallFrom(x, v)
           /\ m = call.model /\ stage = "undefined"
           /\ todo = dependants(m, call.new_undefined) /\ found = {}
           /\ hard_blocked = call.new_undefined
           /\ blockers = [r \in Resources |-> None]
           /\ out_blocked = {} /\ out_unblocked = {}
  <1>1. PICK intent \in Intents, requires \in Graphs,
             compliance \in [Resources -> Compliance \cup {"UNDEFINED"}],
             v \in [intent : Intents, requires : Graphs, undefined : SUBSET Resources] :
          /\ well_formed(intent, requires) /\ well_formed(v.intent, v.requires)
          /\ v.undefined \subseteq {r \in Resources : v.intent[r] # None}
          /\ LET old     == consistent_model(intent, requires, compliance)
                 c       == intent_changes(old, v, {}, {})
                 added   == {r \in Resources : added_requires(old, v)[r] # {}}
                 dropped == {r \in Resources : dropped_requires(old, v)[r] # {}}
             IN  call = [model |-> update_requires(update_resource(old, v, c.new, c.updated), v,
                                                   added \cup dropped),
                         new_undefined |-> became_undefined(old, v, c),
                         verify_blocked |-> added,
                         verify_unblocked |-> became_defined(old, v, c) \cup dropped]
          /\ m = call.model
          /\ stage = "undefined"
          /\ todo = dependants(m, call.new_undefined)
          /\ found = {}
          /\ hard_blocked = call.new_undefined
          /\ blockers = [r \in Resources |-> None]
          /\ out_blocked = {} /\ out_unblocked = {}
    BY Zenon DEF Init
  <1> DEFINE x == consistent_model(intent, requires, compliance)
  <1>2. Graphs \subseteq Edges /\ Compliance \subseteq ComplianceStates
    BY GraphsAssumption
  <1>3. requires \in Edges /\ compliance \in [Resources -> ComplianceStates]
    BY <1>2 DEF ComplianceStates
  <1>4. ConsistentModel(x) /\ x.requires = requires
    BY <1>1, <1>3, ConsistentModelResult
  <1> HIDE DEF x
  <1>5. v \in ModelVersions
    BY <1>2 DEF ModelVersions, Intents
  <1>6. \A r \in Resources : /\ v.requires[r] \subseteq InVersion(v)
                             /\ r \notin InVersion(v) => v.requires[r] = {}
    <2> TAKE r \in Resources
    <2>1. v.requires[r] \subseteq {d \in Resources : {v.intent[r], v.intent[d]} \subseteq Hashes}
      BY <1>1 DEF well_formed
    <2> QED BY <2>1, NoneAssumption DEF InVersion
  <1>7. ClosedVersion(v)
    BY <1>1, <1>5, <1>6 DEF ClosedVersion, InVersion
  <1>8. call = CallFor(x, v)
    <2> DEFINE c       == intent_changes(x, v, {}, {})
               added   == {r \in Resources : added_requires(x, v)[r] # {}}
               dropped == {r \in Resources : dropped_requires(x, v)[r] # {}}
    <2>1. call = [model |-> update_requires(update_resource(x, v, c.new, c.updated), v, added \cup dropped),
                  new_undefined |-> became_undefined(x, v, c),
                  verify_blocked |-> added,
                  verify_unblocked |-> became_defined(x, v, c) \cup dropped]
      BY <1>1, Zenon DEF x
    <2>2. added = Added(x, v) /\ dropped = Dropped(x, v)
      BY DEF Added, Dropped
    <2> HIDE DEF added, dropped
    <2>3. update_requires(update_resource(x, v, c.new, c.updated), v, added \cup dropped) = WithRequires(x, v, c)
      BY <2>2 DEF WithRequires
    <2> QED BY <2>1, <2>2, <2>3 DEF CallFor
  <1>9. CallFrom(x, v)
    BY <1>4, <1>7, <1>8 DEF CallFrom
  <1>10. /\ m = call.model /\ stage = "undefined"
         /\ todo = dependants(m, call.new_undefined) /\ found = {}
         /\ hard_blocked = call.new_undefined
         /\ blockers = [r \in Resources |-> None]
         /\ out_blocked = {} /\ out_unblocked = {}
    BY <1>1, Zenon
  <1> QED BY <1>9, <1>10

\* Calls are well formed and consistent, and without a cycle if models and versions are.
LEMMA CallFacts ==
    ASSUME NEW x, NEW v, CallFrom(x, v)
    PROVE  /\ CallType(call) /\ CallConsistent(call)
           /\ (\A g \in Graphs : Acyclic(g)) => Acyclic(call.model.requires)
  <1>1. ConsistentModel(x) /\ ClosedVersion(v) /\ call = CallFor(x, v)
        /\ x.requires \in Graphs /\ v.requires \in Graphs
    BY DEF CallFrom
  <1>2. PICK n : n = call.model
    OBVIOUS
  <1>3. CalledModel(x, v, n)
    BY <1>1, <1>2, CallForModel
  <1>4. /\ n \in Models
        /\ managed(n) = managed(x) \cup InVersion(v)
        /\ \A r \in Resources :
             /\ n.requires[r] = IF r \in InVersion(v) THEN v.requires[r] ELSE x.requires[r]
             /\ r \in is_undefined(n) <=>
                  IF r \in InVersion(v) THEN r \in v.undefined ELSE r \in is_undefined(x)
             /\ n.resource_state[r].blocked = "BLOCKED" <=>
                  r \in DependsOnUndefined(x) \/ (r \in InVersion(v) /\ r \in v.undefined)
    BY <1>3 DEF CalledModel
  <1>5. PICK nu, vb, vu : nu = call.new_undefined /\ vb = call.verify_blocked /\ vu = call.verify_unblocked
    OBVIOUS
  <1>6. /\ nu = {r \in InVersion(v) : r \in v.undefined /\ r \notin is_undefined(x)}
        /\ {r \in InVersion(v) : r \notin v.undefined /\ r \in is_undefined(x)} \subseteq vu
        /\ vu \subseteq InVersion(v)
        /\ \A r \in InVersion(v) : x.requires[r] \subseteq v.requires[r] \/ r \in vu
        /\ vb = {r \in InVersion(v) : ~(v.requires[r] \subseteq x.requires[r])}
    BY <1>1, <1>5, CallForRest
  <1>7. /\ managed(x) \subseteq Resources /\ InVersion(v) \subseteq Resources
        /\ is_undefined(x) \subseteq managed(x) /\ is_undefined(n) \subseteq managed(n)
        /\ DependsOnUndefined(x) \subseteq managed(x)
        /\ \A r \in managed(x) :
             r \in DependsOnUndefined(x) <=>
               r \in is_undefined(x) \/ x.requires[r] \cap DependsOnUndefined(x) # {}
    BY DependsOnUndefinedResult DEF managed, InVersion, is_undefined
  <1>8. \A r \in Resources : /\ x.requires[r] \subseteq managed(x)
                             /\ r \notin managed(x) => x.requires[r] = {}
                             /\ v.requires[r] \subseteq InVersion(v)
    BY <1>1 DEF ConsistentModel, ClosedVersion
  <1>9. \A r \in Resources : r \in is_blocked(n) <=>
          r \in DependsOnUndefined(x) \/ (r \in InVersion(v) /\ r \in v.undefined)
    BY <1>4, <1>7 DEF is_blocked
  <1>10. CallType(call)
    <2>1. nu \subseteq is_undefined(n) \cap is_blocked(n)
      BY <1>4, <1>6, <1>7, <1>9
    <2>2. ManagedBlocked(n)
      BY <1>4, <1>7 DEF ManagedBlocked
    <2>3. vb \subseteq managed(n) /\ vu \subseteq Resources
      BY <1>4, <1>6, <1>7
    <2> QED BY <1>2, <1>4, <1>5, <2>1, <2>2, <2>3 DEF CallType
  <1>11. is_undefined(n) \subseteq is_blocked(n)
    BY <1>4, <1>7, <1>9
  <1>12. ASSUME NEW r \in is_blocked(n), r \notin is_undefined(n), r \notin vu
         PROVE  n.requires[r] \cap is_blocked(n) # {}
    <2>1. r \in Resources
      BY <1>4, <1>7 DEF is_blocked
    <2>2. r \in DependsOnUndefined(x) /\ r \notin is_undefined(x)
      BY <1>4, <1>6, <1>9, <1>12, <2>1
    <2>3. PICK d \in x.requires[r] : d \in DependsOnUndefined(x)
      BY <1>7, <2>2
    <2>4. d \in is_blocked(n)
      BY <1>7, <1>9, <2>3
    <2>5. d \in n.requires[r]
      BY <1>4, <1>6, <1>12, <2>1, <2>3
    <2> QED BY <2>4, <2>5
  <1>13. ASSUME vb = {}, NEW r \in dependants(n, is_blocked(n) \ nu)
         PROVE  r \in is_blocked(n)
    <2>1. PICK d \in n.requires[r] : d \in is_blocked(n) /\ d \notin nu
      BY DEF dependants
    <2>2. r \in Resources /\ d \in Resources
      BY <1>4, <1>7, <2>1 DEF dependants, is_blocked
    <2>3. d \in DependsOnUndefined(x)
      BY <1>6, <1>7, <1>9, <2>1, <2>2
    <2>4. d \in x.requires[r]
      BY <1>4, <1>6, <1>13, <2>1, <2>2
    <2>5. r \in managed(x)
      BY <1>8, <2>2, <2>4
    <2>6. r \in DependsOnUndefined(x)
      BY <1>7, <2>3, <2>4, <2>5
    <2> QED BY <1>9, <2>2, <2>6
  <1>14. CallConsistent(call)
    BY <1>2, <1>5, <1>11, <1>12, <1>13 DEF CallConsistent
  <1>15. ASSUME Acyclic(x.requires), Acyclic(v.requires), NEW S \in SUBSET Resources, S # {}
         PROVE  \E r \in S : n.requires[r] \cap S = {}
    <2>1. CASE S \cap InVersion(v) = {}
      <3>1. PICK r \in S : x.requires[r] \cap S = {}
        BY <1>15 DEF Acyclic
      <3> QED BY <1>4, <2>1, <3>1
    <2>2. CASE S \cap InVersion(v) # {}
      <3>1. PICK r \in S \cap InVersion(v) : v.requires[r] \cap (S \cap InVersion(v)) = {}
        <4>1. S \cap InVersion(v) \in SUBSET Resources
          OBVIOUS
        <4> QED BY <1>15, <2>2, <4>1 DEF Acyclic
      <3> QED BY <1>4, <1>8, <3>1
    <2> QED BY <2>1, <2>2
  <1>16. (\A g \in Graphs : Acyclic(g)) => Acyclic(n.requires)
    <2> SUFFICES ASSUME \A g \in Graphs : Acyclic(g) PROVE Acyclic(n.requires)
      OBVIOUS
    <2>1. Acyclic(x.requires) /\ Acyclic(v.requires)
      BY <1>1
    <2> QED BY <1>15, <2>1 DEF Acyclic
  <1> QED BY <1>2, <1>10, <1>14, <1>16
-----------------------------------------------------------------------------
(* The theorems *)

\* The invariant holds when a call starts.
LEMMA LoopInvariantInit ==
    ASSUME Init
    PROVE  LoopInvariant
  <1>1. /\ m = call.model /\ stage = "undefined"
        /\ todo = dependants(m, call.new_undefined) /\ found = {}
        /\ hard_blocked = call.new_undefined
        /\ blockers = [r \in Resources |-> None]
        /\ out_blocked = {} /\ out_unblocked = {}
    BY InitCall
  <1>2. CallType(call)
    BY InitCall, CallFacts
  <1>3. /\ call.model \in Models /\ call.new_undefined \subseteq is_undefined(call.model)
        /\ call.new_undefined \subseteq is_blocked(call.model)
    BY <1>2 DEF CallType
  <1>4. call.model = result_model(call.model, {}, {})
    <2> DEFINE y == result_model(call.model, {}, {})
    <2>1. ResultParts(call.model, {}, {}, y)
      BY <1>3, ResultModel
    <2> HIDE DEF y
    <2>2. \A r \in Resources : /\ SameButBlocked(call.model.resource_state[r], y.resource_state[r])
                               /\ call.model.resource_state[r].blocked = y.resource_state[r].blocked
      BY <2>1 DEF ResultParts
    <2>3. /\ y \in Models /\ call.model.intent = y.intent /\ call.model.requires = y.requires
          /\ call.model.dirty = y.dirty
      BY <2>1 DEF ResultParts
    <2>4. call.model = y
      BY <1>3, <2>2, <2>3, SameModel
    <2> QED BY <2>4 DEF y
  <1>5. is_undefined(call.model) \subseteq Resources /\ dependants(call.model, call.new_undefined) \subseteq Resources
    BY DEF is_undefined, managed, dependants
  <1>6. StateType
    BY <1>1, <1>3, <1>4, <1>5 DEF StateType
  <1>7. HardBlockedStay
    BY <1>1, <1>3 DEF HardBlockedStay
  <1>8. EverBlocked = is_blocked(call.model) /\ call.new_undefined \cup out_blocked = call.new_undefined
    BY <1>1 DEF EverBlocked
  <1>9. InStage2
    BY <1>1, <1>3, <1>8 DEF InStage2
  <1>10. InVerifyBlocked /\ InBlocked /\ InStage4
    BY <1>1 DEF InVerifyBlocked, InBlocked, InStage4
  <1> QED BY <1>2, <1>6, <1>7, <1>9, <1>10 DEF LoopInvariant

\* The loops of update_transitive_state do what its specification in ModelState says, for any
\* models, in whatever order they take the nodes of their worklists, and although they trust
\* a cache and a set of definitely blocked nodes (ResultAsSpecified).
THEOREM TransitiveStateResultTheorem == Spec => []ResultAsSpecified
  <1>1. Init => LoopInvariant
    BY LoopInvariantInit
  <1>2. LoopInvariant /\ [Next]_vars => LoopInvariant'
    BY LoopInvariantStep
  <1>3. LoopInvariant => ResultAsSpecified
    BY LoopInvariantResult
  <1> QED BY <1>1, <1>2, <1>3, PTL DEF Spec

\* What stays blocked depends on an undefined resource: otherwise each such resource would
\* require another.
LEMMA BlockedIsJustified ==
    ASSUME LoopInvariant, CallConsistent(call), Acyclic(call.model.requires), stage = "done"
    PROVE  is_blocked(m) \subseteq DependsOnUndefined(m)
  <1>1. PICK x : x = call.model
    OBVIOUS
  <1>2. /\ CallType(call) /\ StateType /\ InStage4
        /\ x \in Models /\ call.verify_blocked \subseteq managed(x)
    BY <1>1 DEF LoopInvariant, CallType
  <1>3. /\ m.requires = x.requires
        /\ is_blocked(m) = EverBlocked \ out_unblocked
        /\ EverBlocked \subseteq managed(x) /\ managed(x) \subseteq Resources
    BY <1>1, <1>2, ModelNow
  <1>4. managed(m) = managed(x) /\ is_undefined(m) = is_undefined(x)
    <2>1. /\ ManagedBlocked(x) /\ out_blocked \in SUBSET managed(x) /\ out_unblocked \in SUBSET managed(x)
          /\ m = result_model(x, out_blocked, out_unblocked)
      BY <1>1, <1>2 DEF CallType, StateType
    <2>2. SameButBlockedModel(x, out_blocked, out_unblocked, m)
      BY <1>2, <2>1, ResultBlocked
    <2> QED BY <2>2 DEF SameButBlockedModel
  <1>5. /\ found \in verified_blocked(x, BeforeStage3, call.verify_blocked)
        /\ out_blocked = Stage2 \cup found \cup Reached
        /\ out_unblocked \subseteq Unblockable
        /\ \A r \in (BeforeStage4 \ is_undefined(x))
                      \cap (call.verify_unblocked \cup dependants(x, out_unblocked)) :
             x.requires[r] \cap BeforeStage4 \subseteq out_unblocked => r \in out_unblocked
    BY <1>1, <1>2 DEF InStage4
  <1>6. EverBlocked = BeforeStage4
    BY <1>5, BlockedInStage4
  <1>7. /\ DependsOnUndefined(m) \subseteq managed(m)
        /\ \A r \in managed(m) :
             r \in DependsOnUndefined(m) <=>
               r \in is_undefined(m) \/ m.requires[r] \cap DependsOnUndefined(m) # {}
    BY DependsOnUndefinedResult
  <1> DEFINE Bad == is_blocked(m) \ DependsOnUndefined(m)
  <1>8. ASSUME NEW r \in Bad
        PROVE  x.requires[r] \cap (BeforeStage4 \ out_unblocked) # {}
    <2> SUFFICES ASSUME x.requires[r] \cap BeforeStage4 \subseteq out_unblocked PROVE FALSE
      OBVIOUS
    <2>1. /\ r \in BeforeStage4 /\ r \notin out_unblocked /\ r \in managed(x)
          /\ r \notin is_undefined(x)
      BY <1>3, <1>4, <1>6, <1>7
    <2>2. r \notin call.verify_unblocked /\ r \notin dependants(x, out_unblocked)
      BY <1>5, <2>1
    <2>3. x.requires[r] \cap BeforeStage4 = {}
      BY <2>1, <2>2 DEF dependants
    <2>4. CASE r \in is_blocked(x)
      <3>1. x.requires[r] \cap is_blocked(x) # {}
        BY <1>1, <2>1, <2>2, <2>4 DEF CallConsistent
      <3> QED BY <1>1, <2>3, <3>1 DEF BeforeStage4, BeforeStage3, BlockedAfterStage2
    <2>5. CASE r \in Stage2
      <3>1. x.requires[r] \cap (call.new_undefined \cup Stage2) # {}
        BY <1>1, <2>5, PropagateUndefinedResult, PropagateUndefinedScope DEF Stage2
      <3>2. call.new_undefined \subseteq is_blocked(x)
        BY <1>1, <1>2 DEF CallType
      <3>3. is_blocked(x) \cup Stage2 \subseteq BeforeStage4
        BY <1>1 DEF BeforeStage4, BeforeStage3, BlockedAfterStage2, Stage2
      <3> QED BY <2>3, <3>1, <3>2, <3>3
    <2>6. CASE r \in found
      BY <1>5, <2>3, <2>6 DEF verified_blocked, BeforeStage4
    <2>7. BeforeStage4 = is_blocked(x) \cup Stage2 \cup found
      BY <1>1 DEF BeforeStage4, BeforeStage3, BlockedAfterStage2, Stage2
    <2> QED BY <2>1, <2>4, <2>5, <2>6, <2>7
  <1>9. ASSUME NEW r \in Bad
        PROVE  x.requires[r] \cap Bad # {}
    <2>1. PICK d \in x.requires[r] : d \in BeforeStage4 \ out_unblocked
      BY <1>8
    <2>2. d \in is_blocked(m)
      BY <1>3, <1>6, <2>1
    <2>3. r \in managed(m) /\ r \notin DependsOnUndefined(m)
      BY <1>3, <1>4
    <2>4. d \notin DependsOnUndefined(m)
      BY <1>3, <1>7, <2>1, <2>3
    <2> QED BY <2>1, <2>2, <2>4
  <1>10. Bad \in SUBSET Resources
    BY <1>3
  <1> HIDE DEF Bad
  <1>11. Bad = {}
    BY <1>1, <1>9, <1>10 DEF Acyclic
  <1> QED BY <1>11 DEF Bad

\* All that depends on an undefined resource stays blocked if no requires were added: what
\* is blocked is closed under dependants.
LEMMA DependentIsBlocked ==
    ASSUME LoopInvariant, CallConsistent(call), call.verify_blocked = {}, stage = "done"
    PROVE  DependsOnUndefined(m) \subseteq is_blocked(m)
  <1>1. PICK x : x = call.model
    OBVIOUS
  <1>2. CallType(call) /\ StateType /\ InStage4 /\ x \in Models
    BY <1>1 DEF LoopInvariant, CallType
  <1>3. /\ m.requires = x.requires /\ \A S : dependants(m, S) = dependants(x, S)
        /\ is_blocked(m) = EverBlocked \ out_unblocked
        /\ EverBlocked \subseteq managed(x) /\ managed(x) \subseteq Resources
    BY <1>1, <1>2, ModelNow
  <1>4. managed(m) = managed(x) /\ is_undefined(m) = is_undefined(x)
    <2>1. /\ ManagedBlocked(x) /\ out_blocked \in SUBSET managed(x) /\ out_unblocked \in SUBSET managed(x)
          /\ m = result_model(x, out_blocked, out_unblocked)
      BY <1>1, <1>2 DEF CallType, StateType
    <2>2. SameButBlockedModel(x, out_blocked, out_unblocked, m)
      BY <1>2, <2>1, ResultBlocked
    <2> QED BY <2>2 DEF SameButBlockedModel
  <1>5. /\ found \in verified_blocked(x, BeforeStage3, {})
        /\ out_blocked = Stage2 \cup found \cup Reached
        /\ out_unblocked \subseteq Unblockable
        /\ \A r \in out_unblocked : x.requires[r] \cap BeforeStage4 \subseteq out_unblocked
    BY <1>1, <1>2 DEF InStage4
  <1>6. found = {}
    BY <1>5 DEF verified_blocked
  <1>7. EverBlocked = BeforeStage4 /\ BeforeStage4 = is_blocked(x) \cup Stage2
    BY <1>1, <1>5, <1>6, BlockedInStage4 DEF BeforeStage4, BeforeStage3, BlockedAfterStage2, Stage2
  <1>8. out_unblocked \cap is_undefined(x) = {}
    BY <1>1, <1>5, PropagateUnblockedResult DEF Unblockable
  <1>9. /\ is_undefined(x) \subseteq is_blocked(x)
        /\ dependants(x, is_blocked(x) \ call.new_undefined) \subseteq is_blocked(x)
    BY <1>1 DEF CallConsistent
  <1>10. is_undefined(m) \subseteq is_blocked(m)
    BY <1>3, <1>4, <1>7, <1>8, <1>9
  <1>11. ASSUME NEW r \in dependants(m, is_blocked(m))
         PROVE  r \in is_blocked(m)
    <2>1. PICK d \in x.requires[r] : r \in managed(x) /\ d \in BeforeStage4 /\ d \notin out_unblocked
      BY <1>3, <1>7 DEF dependants
    <2>2. r \notin out_unblocked
      BY <1>5, <2>1
    <2>3. r \in is_blocked(x) \cup Stage2
      <3>1. CASE d \in is_blocked(x) /\ d \notin call.new_undefined
        BY <1>9, <2>1, <3>1 DEF dependants
      <3>2. CASE d \in call.new_undefined \cup Stage2
        <4>1. r \in managed(x) \ is_blocked(x) => r \in propagate_undefined(x, call.new_undefined)
          BY <1>1, <2>1, <3>2, PropagateUndefinedResult DEF Stage2
        <4> QED BY <1>1, <2>1, <4>1 DEF Stage2
      <3> QED BY <1>7, <2>1, <3>1, <3>2
    <2> QED BY <1>3, <1>7, <2>2, <2>3
  <1>12. is_blocked(m) \in SUBSET managed(m)
    BY DEF is_blocked
  <1> QED BY <1>10, <1>11, <1>12, DependsOnUndefinedResult

\* A call leaves nothing blocked that depends on no undefined resource, and if it adds no
\* requires nothing unblocked that does; unless requires have a cycle, which could keep
\* itself blocked (ConsistentResult).
THEOREM ConsistentResultTheorem ==
    ASSUME \A g \in Graphs : Acyclic(g)
    PROVE  Spec => []ConsistentResult
  <1> DEFINE Inv == LoopInvariant /\ CallConsistent(call) /\ Acyclic(call.model.requires)
  <1>1. Init => Inv
    BY LoopInvariantInit, InitCall, CallFacts
  <1>2. Inv /\ [Next]_vars => Inv'
    <2> SUFFICES ASSUME Inv, [Next]_vars PROVE Inv'
      OBVIOUS
    <2>1. LoopInvariant'
      BY LoopInvariantStep
    <2>2. call' = call
      BY DEF Next, PropagateUndefined, VerifyBlocked, PropagateBlocked, VerifyUnblocked, EndOfLoop, vars
    <2> QED BY <2>1, <2>2
  <1>3. Inv => ConsistentResult
    BY BlockedIsJustified, DependentIsBlocked DEF ConsistentResult
  <1> QED BY <1>1, <1>2, <1>3, PTL DEF Spec
=============================================================================
