--------------------- MODULE SchedulerPersistenceProofs ---------------------
(***************************************************************************)
(* What the database holds of the model while new versions, deploys,       *)
(* kills and restarts interleave, for any resources, agents and versions,  *)
(* batches of versions included.                                           *)
(***************************************************************************)
EXTENDS SchedulerPersistence, SchedulerProgressProofs, SequenceTheorems

-----------------------------------------------------------------------------
(* What a batch of versions changes *)

\* The resources that update_transitive_state blocks or unblocks are managed, or present
\* in the new version.
LEMMA BlockedScope ==
    ASSUME NEW n, NEW U, NEW A, NEW V, NEW out, StagesFound(n, U, A, V, out)
    PROVE  out.blocked \cup out.unblocked \subseteq managed(n) \cup A
  <1>1. PICK stage3 \in verified_blocked(n, BlockedAfterStage2(n, U), A) :
          LET B3 == BlockedAfterStage2(n, U) \cup stage3
          IN  /\ out.blocked = propagate_undefined(n, U) \cup stage3 \cup propagate_blocked(n, B3, stage3)
              /\ out.unblocked = propagate_unblocked(n, B3, V)
    BY Zenon DEF StagesFound
  <1>2. stage3 \subseteq A
    BY DEF verified_blocked
  <1>3. propagate_undefined(n, U) \subseteq managed(n)
    BY DEF propagate_undefined, LeastClosed
  <1>4. BlockedAfterStage2(n, U) \subseteq managed(n)
    BY <1>3 DEF BlockedAfterStage2, is_blocked
  <1> DEFINE B3 == BlockedAfterStage2(n, U) \cup stage3
  <1>5. propagate_blocked(n, B3, stage3) \subseteq B3 /\ propagate_unblocked(n, B3, V) \subseteq B3
    BY DEF propagate_blocked, propagate_unblocked, LeastClosed
  <1> QED BY <1>1, <1>2, <1>3, <1>4, <1>5

\* The columns of r that _new_version keeps up to date are the same in both models.
SameColumns(m1, m2, r) ==
    /\ r \in managed(m1) /\ m2.intent[r] = m1.intent[r]
    /\ r \in is_undefined(m2) <=> r \in is_undefined(m1)
    /\ db_value(m2.resource_state[r].blocked) = db_value(m1.resource_state[r].blocked)

\* The model m has the intents of the version v, and its undefined resources.
Describes(m, v) ==
    \A r \in Resources : /\ m.intent[r] = v.intent[r]
                         /\ r \in is_undefined(m) <=> r \in Present(v) /\ r \in v.undefined

\* Changing TEMPORARILY_BLOCKED to NOT_BLOCKED changes no column.
LEMMA ColumnsStay ==
    ASSUME NEW m1, NEW m2, NEW r \in Resources, m1.intent[r] # None, m2.intent[r] = m1.intent[r],
           m2.resource_state[r].compliance = m1.resource_state[r].compliance,
           \/ m2.resource_state[r].blocked = m1.resource_state[r].blocked
           \/ m1.resource_state[r].blocked = "TEMPORARILY_BLOCKED" /\ m2.resource_state[r].blocked = "NOT_BLOCKED"
    PROVE  SameColumns(m1, m2, r)
  BY DEF SameColumns, managed, is_undefined, db_value

(***************************************************************************)
(* After a batch that ends in v the model describes v, and what is not to  *)
(* be recorded has the columns that it had before.                         *)
(***************************************************************************)
VersionColumns(v, c, out, m) ==
    /\ Describes(m, v)
    /\ resources_to_record(c, out) \subseteq managed(m)
    /\ \A r \in managed(m) \ resources_to_record(c, out) : SameColumns(model, m, r)

\* process_version leaves nothing out of what is to be recorded, for one version and for a
\* batch.
LEMMA BatchColumns ==
    ASSUME TypeOK, NEW v \in Releases, NEW recreated \in SUBSET Present(v), NEW reverted,
           NEW c, c = intent_changes(model, v, recreated, reverted),
           NEW out \in updated_models(model, v, c, recreated)
    PROVE  VersionColumns(v, c, out, drop(out.model, c.deleted))
  <1>1. model \in Models /\ v \in ModelVersions /\ recreated \in SUBSET Resources
    BY ConstantsAssumption DEF TypeOK, Present
  <1>2. c \in IntentChanges
    BY <1>1, IntentChangesType
  <1>3. PICK o \in update_transitive_state(WithRequires(model, v, c), became_undefined(model, v, c),
                                           Added(model, v), became_defined(model, v, c) \cup Dropped(model, v)) :
          /\ out.model = reset_requires(o.model, recreated)
          /\ out.blocked = o.blocked /\ out.unblocked = o.unblocked
          /\ o.model \in Models /\ WithRequires(model, v, c) \in Models
    <2>1. PICK mm \in Models, vv \in ModelVersions, cc \in IntentChanges : mm = model /\ vv = v /\ cc = c
      BY <1>1, <1>2
    <2>2. out \in updated_models(mm, vv, cc, recreated)
      BY <2>1, Zenon
    <2>3. \E o \in update_transitive_state(WithRequires(mm, vv, cc), became_undefined(mm, vv, cc), Added(mm, vv),
                                            became_defined(mm, vv, cc) \cup Dropped(mm, vv)) :
             /\ out.model = reset_requires(o.model, recreated)
             /\ out.blocked = o.blocked /\ out.unblocked = o.unblocked
             /\ o.model \in Models /\ WithRequires(mm, vv, cc) \in Models
      BY <2>2, UpdatedModelsResult, Zenon
    <2> QED BY <2>1, <2>3, Zenon
  <1>4. PICK n \in Models : n = WithRequires(model, v, c)
    BY <1>3
  <1>5. PICK F \in SUBSET Resources : RequiresDone(model, v, c, n, F)
    BY <1>1, <1>2, <1>4, WithRequiresState
  <1>6. PICK A \in SUBSET Resources : A = Added(model, v) /\ A \subseteq Present(v)
    BY DEF Added, added_requires, Present
  <1>7. PICK U, V : /\ U = became_undefined(model, v, c)
                    /\ V = became_defined(model, v, c) \cup Dropped(model, v)
    OBVIOUS
  <1>8. o \in update_transitive_state(n, U, A, V)
    BY <1>3, <1>4, <1>6, <1>7
  <1>9. StagesFound(n, U, A, V, o) /\ TransitiveDone(n, o)
    BY <1>8, TransitiveStateResult
  <1>10. o.blocked \cup o.unblocked \subseteq managed(n) \cup Present(v)
    BY <1>6, <1>9, BlockedScope
  <1>11. PICK m \in Models : m = out.model
    BY <1>3, ResetRequiresType
  <1>12. /\ m.intent = n.intent
         /\ \A r \in Resources :
              /\ m.resource_state[r].compliance = n.resource_state[r].compliance
              /\ \/ m.resource_state[r].blocked = BlockedBy(n, o, r)
                 \/ /\ BlockedBy(n, o, r) = "TEMPORARILY_BLOCKED"
                    /\ m.resource_state[r].blocked = "NOT_BLOCKED"
    <2>1. PICK om \in Models : om = o.model
      BY <1>3
    <2>2. m = reset_requires(om, recreated)
      BY <1>3, <1>11, <2>1
    <2>3. /\ m.intent = om.intent
          /\ \A r \in Resources :
               /\ SameButBlocked(om.resource_state[r], m.resource_state[r])
               /\ \/ m.resource_state[r].blocked = om.resource_state[r].blocked
                  \/ /\ om.resource_state[r].blocked = "TEMPORARILY_BLOCKED"
                     /\ m.resource_state[r].blocked = "NOT_BLOCKED"
      BY <2>2, ResetRequiresState
    <2>4. /\ om.intent = n.intent
          /\ \A r \in Resources : /\ SameButBlocked(n.resource_state[r], om.resource_state[r])
                                  /\ om.resource_state[r].blocked = BlockedBy(n, o, r)
      BY <1>9, <2>1 DEF TransitiveDone
    <2> QED BY <2>3, <2>4 DEF SameButBlocked
  <1> DEFINE changed == c.new \cup c.updated
  <1>13. /\ c.deleted = managed(model) \ Present(v)
         /\ changed \subseteq Present(v)
         /\ Present(v) \ managed(model) \subseteq changed
         /\ \A r \in Present(v) \ changed :
              v.intent[r] = model.intent[r] /\ (r \in v.undefined <=> r \in is_undefined(model))
    BY DEF intent_changes, Present
  <1>14. \A r \in Resources :
            /\ n.intent[r] = IF r \in changed THEN v.intent[r] ELSE model.intent[r]
            /\ r \in changed => n.resource_state[r].compliance = IF r \in v.undefined THEN "UNDEFINED" ELSE "HAS_UPDATE"
            /\ r \notin changed =>
                 /\ n.resource_state[r].compliance = model.resource_state[r].compliance
                 /\ \/ n.resource_state[r].blocked = model.resource_state[r].blocked
                    \/ /\ model.resource_state[r].blocked = "TEMPORARILY_BLOCKED"
                       /\ n.resource_state[r].blocked = "NOT_BLOCKED"
    BY <1>5 DEF RequiresDone, SameButBlocked
  <1>15. PICK p \in Models : p = drop(m, c.deleted)
    BY DropType
  <1>16. \A r \in Resources :
            /\ p.intent[r] = IF r \in c.deleted THEN None ELSE m.intent[r]
            /\ r \notin c.deleted => p.resource_state[r] = m.resource_state[r]
    BY <1>15, DropType
  <1> HIDE DEF changed
  <1>17. ASSUME NEW r \in Resources PROVE p.intent[r] = v.intent[r]
    <2>1. CASE r \in c.deleted
      BY <1>13, <1>16, <2>1 DEF Present
    <2>2. CASE r \in changed
      BY <1>12, <1>13, <1>14, <1>16, <2>2
    <2>3. CASE r \notin c.deleted /\ r \notin changed /\ r \in Present(v)
      BY <1>12, <1>13, <1>14, <1>16, <2>3
    <2>4. CASE r \notin c.deleted /\ r \notin changed /\ r \notin Present(v)
      <3>1. v.intent[r] = None /\ model.intent[r] = None
        BY <1>13, <2>4 DEF managed, Present
      <3> QED BY <1>12, <1>14, <1>16, <2>4, <3>1
    <2> QED BY <2>1, <2>2, <2>3, <2>4
  <1>18. managed(p) = Present(v)
    BY <1>17 DEF managed, Present
  <1>19. \A r \in Present(v) :
            /\ r \in Resources /\ r \notin c.deleted
            /\ p.resource_state[r].compliance = n.resource_state[r].compliance
            /\ p.resource_state[r].blocked = m.resource_state[r].blocked
    BY <1>12, <1>13, <1>16 DEF Present
  <1>20. Describes(p, v)
    <2> SUFFICES ASSUME NEW r \in Resources
                 PROVE  r \in is_undefined(p) <=> r \in Present(v) /\ r \in v.undefined
      BY <1>17 DEF Describes
    <2>1. CASE r \notin Present(v)
      BY <1>18, <2>1 DEF is_undefined
    <2>2. CASE r \in changed /\ r \in Present(v)
      BY <1>14, <1>18, <1>19, <2>2 DEF is_undefined
    <2>3. CASE r \in Present(v) \ changed
      BY <1>13, <1>14, <1>18, <1>19, <2>3 DEF is_undefined
    <2> QED BY <2>1, <2>2, <2>3
  <1>21. resources_to_record(c, out) = (changed \cup o.blocked \cup o.unblocked) \ c.deleted
    BY <1>3 DEF resources_to_record, changed
  <1>22. resources_to_record(c, out) \subseteq managed(p)
    <2>1. \A r \in managed(n) : r \in Present(v) \/ r \in c.deleted
      BY <1>13, <1>14 DEF managed, Present
    <2> QED BY <1>10, <1>13, <1>18, <1>21, <2>1
  <1>23. ASSUME NEW r \in managed(p) \ resources_to_record(c, out) PROVE SameColumns(model, p, r)
    <2>1. r \in Present(v) /\ r \notin changed /\ r \notin o.blocked /\ r \notin o.unblocked
      BY <1>13, <1>18, <1>19, <1>21, <1>23
    <2>2. /\ BlockedBy(n, o, r) = n.resource_state[r].blocked
          /\ r \in Resources /\ r \in managed(model) /\ model.intent[r] # None
      BY <1>13, <2>1 DEF BlockedBy, managed
    <2>3. /\ p.intent[r] = model.intent[r]
          /\ p.resource_state[r].compliance = model.resource_state[r].compliance
          /\ \/ p.resource_state[r].blocked = model.resource_state[r].blocked
             \/ /\ model.resource_state[r].blocked = "TEMPORARILY_BLOCKED"
                /\ p.resource_state[r].blocked = "NOT_BLOCKED"
      BY <1>12, <1>13, <1>14, <1>17, <1>19, <2>1, <2>2
    <2> QED BY <2>2, <2>3, ColumnsStay
  <1>24. drop(out.model, c.deleted) = p
    BY <1>11, <1>15
  <1> QED BY <1>20, <1>22, <1>23, <1>24 DEF VersionColumns

-----------------------------------------------------------------------------
(* The database and the model *)

\* The state of the process and of its database is well typed.
PersistenceTypeOK ==
    /\ TypeOK
    /\ phase \in {"down", "starting", "read", "up"}
    /\ processed \in Releases \cup {None}
    /\ unprocessed \in Seq(Releases)
    /\ recording \in Recordings \cup {None}
    /\ rows \in [Resources -> Rows \cup {None}]
    /\ report \in [Agents -> ReportRecords]
    /\ crashes \in 0..MaxCrashes

ProcessedIntent(r) == IF processed = None THEN None ELSE processed.intent[r]

\* The resources of the versions that no transaction recorded.
fresh == {r \in Resources : \E i \in DOMAIN unprocessed : unprocessed[i].intent[r] # None}

HasRow(r) == rows[r] # None /\ ~rows[r].orphaned

(***************************************************************************)
(* At any time, a process or none, the rows describe the last version that *)
(* was recorded: the rows of its resources have their intents, and any     *)
(* other row is orphaned or belongs to a version that is yet to be         *)
(* recorded, whose resources have rows too.                                *)
(***************************************************************************)
DatabaseFollows ==
    \A r \in Resources :
        /\ ProcessedIntent(r) # None =>
             /\ HasRow(r) /\ rows[r].intent = processed.intent[r]
             /\ rows[r].undefined <=> r \in processed.undefined
        /\ HasRow(r) => ProcessedIntent(r) # None \/ r \in fresh
        /\ r \in fresh => rows[r] # None

ColumnsFollow(r) ==
    /\ HasRow(r)
    /\ rows[r].intent = model.intent[r]
    /\ rows[r].undefined <=> r \in is_undefined(model)
    /\ rows[r].blocked = db_value(model.resource_state[r].blocked)

\* The model in memory is the recorded one.
InSync ==
    \A r \in Resources : /\ model.intent[r] = ProcessedIntent(r)
                         /\ r \in managed(model) => ColumnsFollow(r)

\* The transaction that is to come will make it so.
WillRecord ==
    /\ phase \in {"read", "up"} /\ unprocessed # <<>>
    /\ Describes(model, Seqs!Last(unprocessed))
    /\ recording.changed \subseteq managed(model)
    /\ recording.deleted \cap managed(model) = {}
    /\ \A r \in managed(model) \ recording.changed : ColumnsFollow(r)
    /\ \A r \in Resources \ managed(model) : HasRow(r) => r \in recording.deleted

(***************************************************************************)
(* RowsFollowModel is inductive together with this: the database follows   *)
(* the versions that were recorded, a model that was restored or recorded  *)
(* is in sync with it, and a pending transaction writes all that differs.  *)
(***************************************************************************)
PersistenceInvariant ==
    /\ PersistenceTypeOK
    /\ DatabaseFollows
    /\ phase = "starting" \/ (phase \in {"read", "up"} /\ recording = None /\ unprocessed = <<>>) => InSync
    /\ recording # None => WillRecord

\* The columns that describe versions and the model are the same before and after a step.
RowsKept ==
    \A r \in Resources :
        /\ rows'[r] = None <=> rows[r] = None
        /\ rows[r] # None => /\ rows'[r].intent = rows[r].intent
                             /\ rows'[r].undefined = rows[r].undefined
                             /\ rows'[r].orphaned = rows[r].orphaned
                             /\ rows'[r].blocked = rows[r].blocked

\* Between versions the columns stay those of the model.
LEMMA ColumnsFollowStay ==
    ASSUME TypeOK, TypeOK', SameVersion, RowsKept, NEW r \in managed(model), ColumnsFollow(r)
    PROVE  ColumnsFollow(r)'
  <1>1. r \in Resources /\ managed(model') = managed(model)
    BY DEF SameVersion, managed
  <1>2. /\ model.resource_state[r].blocked \in BlockedStates
        /\ model'.resource_state[r].blocked \in BlockedStates
    BY <1>1 DEF TypeOK, Models, ResourceStates
  <1>3. model.resource_state[r].blocked = "BLOCKED" <=> model'.resource_state[r].blocked = "BLOCKED"
    BY <1>1 DEF SameVersion, is_blocked
  <1>4. db_value(model'.resource_state[r].blocked) = db_value(model.resource_state[r].blocked)
    BY <1>2, <1>3 DEF db_value, BlockedStates
  <1>5. is_undefined(model') = is_undefined(model) /\ model'.intent = model.intent
    BY DEF SameVersion
  <1> QED BY <1>1, <1>4, <1>5 DEF ColumnsFollow, HasRow, RowsKept

\* A step that leaves the versions and these columns alone keeps the invariant.
LEMMA VersionStays ==
    ASSUME PersistenceInvariant, PersistenceTypeOK', SameVersion, RowsKept,
           UNCHANGED <<processed, unprocessed, recording>>,
           phase' = phase \/ (phase' = "up" /\ phase = "read")
                          \/ (phase = "starting" /\ phase' = "read")
    PROVE  PersistenceInvariant'
  <1>0. TypeOK /\ TypeOK' /\ DatabaseFollows
    BY DEF PersistenceInvariant, PersistenceTypeOK
  <1>1. /\ \A r : ProcessedIntent(r)' = ProcessedIntent(r)
        /\ fresh' = fresh
    BY DEF ProcessedIntent, fresh
  <1>2. \A r \in Resources : HasRow(r)' <=> HasRow(r)
    BY DEF HasRow, RowsKept
  <1>3. /\ managed(model') = managed(model) /\ is_undefined(model') = is_undefined(model)
        /\ model'.intent = model.intent
    BY DEF SameVersion, managed
  <1>4. DatabaseFollows'
    BY <1>0, <1>1, <1>2 DEF DatabaseFollows, HasRow, RowsKept
  <1>5. ASSUME InSync PROVE InSync'
    BY <1>0, <1>1, <1>3, <1>5, ColumnsFollowStay DEF InSync, managed
  <1>6. ASSUME WillRecord PROVE WillRecord'
    <2>1. \A r \in managed(model') \ recording'.changed : ColumnsFollow(r)'
      BY <1>0, <1>3, <1>6, ColumnsFollowStay DEF WillRecord
    <2>2. Describes(model', Seqs!Last(unprocessed)')
      BY <1>3, <1>6 DEF WillRecord, Describes
    <2>3. phase' \in {"read", "up"}
      BY <1>6 DEF WillRecord
    <2> QED BY <1>2, <1>3, <1>6, <2>1, <2>2, <2>3 DEF WillRecord
  <1>7. phase = "starting" \/ (phase \in {"read", "up"} /\ recording = None /\ unprocessed = <<>>)
          => InSync
    BY DEF PersistenceInvariant
  <1>8. recording # None => WillRecord
    BY DEF PersistenceInvariant
  <1> QED BY <1>4, <1>5, <1>6, <1>7, <1>8 DEF PersistenceInvariant

-----------------------------------------------------------------------------
(* New versions *)

\* The last of a sequence of versions is one of them.
LEMMA LastOfBatch ==
    ASSUME NEW batch \in Seq(Releases), batch # <<>>
    PROVE  /\ Seqs!Last(batch) \in Releases
           /\ \A r : Seqs!Last(batch).intent[r] # None => \E i \in DOMAIN batch : batch[i].intent[r] # None
  <1>1. Len(batch) \in DOMAIN batch
    OBVIOUS
  <1> QED BY <1>1 DEF Seqs!Last

\* A batch of a single version.
LEMMA BatchOfOne ==
    ASSUME NEW v \in Releases
    PROVE  <<v>> \in Seq(Releases) /\ <<v>> # <<>> /\ Len(<<v>>) = 1 /\ Seqs!Last(<<v>>) = v
  <1>1. Len(<<v>>) = 1 /\ <<v>>[1] = v
    OBVIOUS
  <1>2. <<v>> \in Seq(Releases)
    OBVIOUS
  <1>3. <<v>> # <<>>
    OBVIOUS
  <1>4. Seqs!Last(<<v>>) = <<v>>[Len(<<v>>)]
    BY DEF Seqs!Last
  <1> QED BY <1>1, <1>2, <1>3, <1>4

\* What a single further version adds to a sequence of versions is the last one.
LEMMA OneMore ==
    ASSUME NEW batch \in Seq(Releases), NEW released \in Seq(Releases), Len(released) = 1,
           NEW i \in DOMAIN (batch \o released), i \notin DOMAIN batch
    PROVE  i = Len(batch \o released)
  <1>1. Len(batch) \in Nat /\ DOMAIN batch = 1..Len(batch)
    BY LenProperties
  <1>2. batch \o released \in Seq(Releases) /\ Len(batch \o released) = Len(batch) + 1
    BY ConcatProperties
  <1>3. DOMAIN (batch \o released) = 1..Len(batch \o released)
    BY <1>2, LenProperties
  <1> QED BY <1>1, <1>2, <1>3

\* A row that populate_for_version adds is one of the version's, and every resource of the
\* version has a row then.
LEMMA PopulatedRows ==
    ASSUME PersistenceTypeOK, NEW v \in Releases
    PROVE  /\ populate_for_version(v) \in [Resources -> Rows \cup {None}]
           /\ \A r \in Resources :
                /\ rows[r] # None => populate_for_version(v)[r] = rows[r]
                /\ rows[r] = None /\ v.intent[r] = None => populate_for_version(v)[r] = None
                /\ v.intent[r] # None => populate_for_version(v)[r] # None
  <1>1. v \in ModelVersions
    BY ConstantsAssumption
  <1>2. \A r : watched(r) \subseteq Resources
    BY ConstantsAssumption DEF watched
  <1>3. ASSUME NEW r \in Resources, rows[r] = None, v.intent[r] # None
        PROVE  populate_for_version(v)[r] \in Rows
    <2>1. v.intent[r] \in Hashes
      BY <1>1, <1>3 DEF ModelVersions
    <2>2. {d \in watched(r) : rows[d] # None /\ rows[d].deployed # None} \in SUBSET Resources
      BY <1>2
    <2>3. populate_for_version(v)[r] =
            [intent |-> v.intent[r], undefined |-> r \in v.undefined, orphaned |-> FALSE,
             blocked |-> IF r \in v.undefined THEN "BLOCKED" ELSE "NOT_BLOCKED",
             deployed |-> None, last_handler_run |-> "NEW", last_handler_run_compliant |-> None,
             behind |-> {d \in watched(r) : rows[d] # None /\ rows[d].deployed # None}]
      BY <1>3 DEF populate_for_version
    <2> QED BY <2>1, <2>2, <2>3 DEF Rows, HandlerResults
  <1>4. \A r \in Resources : ~(rows[r] = None /\ v.intent[r] # None) => populate_for_version(v)[r] = rows[r]
    BY DEF populate_for_version
  <1>5. rows \in [Resources -> Rows \cup {None}]
    BY DEF PersistenceTypeOK
  <1>6. ASSUME NEW r \in Resources PROVE populate_for_version(v)[r] \in Rows \cup {None}
    BY <1>3, <1>4, <1>5
  <1>7. populate_for_version(v) = [r \in Resources |-> populate_for_version(v)[r]]
    BY DEF populate_for_version
  <1>8. populate_for_version(v) \in [Resources -> Rows \cup {None}]
    BY <1>6, <1>7
  <1> QED BY <1>3, <1>4, <1>8, NoneIsNoRecord

\* A batch is applied as one version, and the transaction it leaves is well formed.
LEMMA AppliedBatch ==
    ASSUME TypeOK, NEW batch \in Seq(Releases), batch # <<>>, NEW first,
           version' \in 0..MaxVersions, apply_versions(batch, first)
    PROVE  /\ TypeOK'
           /\ recording' \in Recordings
           /\ Describes(model', Seqs!Last(batch))
           /\ recording'.changed \subseteq managed(model')
           /\ recording'.deleted = orphaned_by(batch, first)
           /\ \A r \in managed(model') \ recording'.changed : SameColumns(model, model', r)
  <1> DEFINE v == Seqs!Last(batch)
             recreated == recreated_by(batch)
             reverted == reverted_by(batch)
             c == intent_changes(model, v, recreated, reverted)
  <1>1. v \in Releases
    BY LastOfBatch
  <1>2. PICK out \in updated_models(model, v, c, recreated) :
          /\ process_version(v, recreated, reverted, out)
          /\ recording' = [changed |-> resources_to_record(c, out), deleted |-> orphaned_by(batch, first)]
    BY Zenon DEF apply_versions
  <1>3. ProcessVersions(v, recreated, reverted)
    BY <1>2 DEF ProcessVersions
  <1>4. recreated \in SUBSET Present(v)
    BY ManagedType DEF recreated_by, Present
  <1>5. recreated \in SUBSET Resources
    BY <1>4 DEF Present
  <1>6. model' = drop(out.model, c.deleted)
    BY <1>2, Zenon DEF process_version
  <1> HIDE DEF v, recreated, reverted
  <1>7. TypeOK'
    BY <1>1, <1>3, <1>5, NewVersionType
  <1>8. VersionColumns(v, c, out, model')
    <2>1. PICK cc : cc = c
      OBVIOUS
    <2>2. cc = intent_changes(model, v, recreated, reverted) /\ out \in updated_models(model, v, cc, recreated)
      BY <1>2, <2>1
    <2> HIDE DEF c
    <2>3. VersionColumns(v, cc, out, drop(out.model, cc.deleted))
      BY <1>1, <1>4, <2>2, BatchColumns
    <2> QED BY <1>6, <2>1, <2>3
  <1>9. recording' \in Recordings
    <2>1. resources_to_record(c, out) \subseteq managed(model') /\ managed(model') \subseteq Resources
      BY <1>8 DEF VersionColumns, managed
    <2>2. orphaned_by(batch, first) \subseteq Resources
      BY DEF orphaned_by
    <2> HIDE DEF c
    <2> QED BY <1>2, <2>1, <2>2 DEF Recordings
  <1> HIDE DEF c
  <1> QED BY <1>2, <1>7, <1>8, <1>9 DEF VersionColumns, v

\* A scheduler that is in sync with the database applies a batch of all that is not recorded,
\* or the last version if nothing was ever recorded, and so makes a pending transaction.
LEMMA ApplyStep ==
    ASSUME PersistenceTypeOK, DatabaseFollows, InSync,
           NEW batch \in Seq(Releases), batch # <<>>, NEW first,
           first = (processed = None) \/ first = (processed = None /\ unprocessed = <<>>),
           first \/ \A i \in DOMAIN unprocessed : \E j \in DOMAIN batch : batch[j] = unprocessed[i],
           NEW released \in Seq(Releases), unprocessed' = unprocessed \o released,
           unprocessed' # <<>>, Seqs!Last(unprocessed') = Seqs!Last(batch),
           IF released = <<>> THEN rows' = rows
           ELSE Len(released) = 1 /\ rows' = populate_for_version(Seqs!Last(unprocessed')),
           version' \in 0..MaxVersions, apply_versions(batch, first),
           phase' \in {"read", "up"}, UNCHANGED <<processed, report, crashes>>
    PROVE  PersistenceInvariant'
  <1> DEFINE v == Seqs!Last(batch)
  <1>1. /\ TypeOK' /\ recording' \in Recordings
        /\ Describes(model', v)
        /\ recording'.changed \subseteq managed(model')
        /\ recording'.deleted = orphaned_by(batch, first)
        /\ \A r \in managed(model') \ recording'.changed : SameColumns(model, model', r)
    BY AppliedBatch DEF PersistenceTypeOK
  <1>2. v \in Releases /\ unprocessed \in Seq(Releases) /\ unprocessed' \in Seq(Releases)
    BY LastOfBatch DEF PersistenceTypeOK
  <1>3. \A i \in DOMAIN unprocessed : i \in DOMAIN unprocessed' /\ unprocessed'[i] = unprocessed[i]
    BY <1>2
  <1>4. fresh \subseteq fresh'
    BY <1>3 DEF fresh
  <1>5. \A r \in Resources : v.intent[r] # None => r \in fresh'
    <2>1. \A r : v.intent[r] # None => \E i \in DOMAIN unprocessed' : unprocessed'[i].intent[r] # None
      <3>1. PICK s \in Seq(Releases) : s = unprocessed' /\ s # <<>> /\ Seqs!Last(s) = v
        BY <1>2
      <3> HIDE DEF v
      <3> QED BY <3>1, LastOfBatch
    <2> QED BY <2>1 DEF fresh
  <1>6. \A r \in fresh' \ fresh : v.intent[r] # None /\ released # <<>>
    <2> SUFFICES ASSUME NEW r \in fresh' \ fresh PROVE v.intent[r] # None /\ released # <<>>
      OBVIOUS
    <2>1. PICK i \in DOMAIN unprocessed' : unprocessed'[i].intent[r] # None
      BY DEF fresh
    <2>2. i \notin DOMAIN unprocessed
      BY <1>3, <2>1 DEF fresh
    <2>3. released # <<>>
      BY <1>2, <2>1, <2>2
    <2>4. i = Len(unprocessed')
      BY <1>2, <2>1, <2>2, <2>3, OneMore
    <2> QED BY <2>1, <2>3, <2>4 DEF Seqs!Last
  <1>7. /\ rows' \in [Resources -> Rows \cup {None}]
        /\ \A r \in Resources :
             /\ rows[r] # None => rows'[r] = rows[r]
             /\ rows[r] = None /\ v.intent[r] = None => rows'[r] = None
             /\ v.intent[r] # None => rows'[r] # None
    <2>1. CASE released # <<>>
      BY <1>2, <2>1, PopulatedRows
    <2>2. CASE released = <<>>
      <3>1. rows' = rows /\ rows \in [Resources -> Rows \cup {None}]
        BY <2>2 DEF PersistenceTypeOK
      <3>2. fresh' \subseteq fresh
        BY <1>6, <2>2
      <3>3. \A r \in Resources : v.intent[r] # None => rows[r] # None
        BY <1>5, <3>2 DEF DatabaseFollows
      <3> HIDE DEF v
      <3> QED BY <3>1, <3>3
    <2> QED BY <2>1, <2>2
  <1>8. PersistenceTypeOK'
    BY <1>1, <1>2, <1>7 DEF PersistenceTypeOK
  <1>9. \A r : ProcessedIntent(r)' = ProcessedIntent(r)
    BY DEF ProcessedIntent
  <1>10. DatabaseFollows'
    <2> SUFFICES ASSUME NEW r \in Resources
                 PROVE  /\ ProcessedIntent(r) # None =>
                             /\ HasRow(r)' /\ rows'[r].intent = processed.intent[r]
                             /\ rows'[r].undefined <=> r \in processed.undefined
                        /\ HasRow(r)' => ProcessedIntent(r) # None \/ r \in fresh'
                        /\ r \in fresh' => rows'[r] # None
      BY <1>9 DEF DatabaseFollows
    <2>1. ProcessedIntent(r) # None =>
             /\ HasRow(r)' /\ rows'[r].intent = processed.intent[r]
             /\ rows'[r].undefined <=> r \in processed.undefined
      BY <1>7 DEF DatabaseFollows, HasRow
    <2>2. HasRow(r)' => ProcessedIntent(r) # None \/ r \in fresh'
      BY <1>4, <1>5, <1>7 DEF DatabaseFollows, HasRow
    <2>3. r \in fresh' => rows'[r] # None
      BY <1>6, <1>7 DEF DatabaseFollows
    <2> QED BY <2>1, <2>2, <2>3
  <1>11. managed(model') = {r \in Resources : v.intent[r] # None}
    BY <1>1 DEF Describes, managed
  <1>12. recording'.deleted \cap managed(model') = {}
    BY <1>1, <1>11 DEF orphaned_by
  <1>13. ASSUME NEW r \in managed(model') \ recording'.changed PROVE ColumnsFollow(r)'
    <2>1. SameColumns(model, model', r) /\ r \in Resources
      BY <1>1, <1>11
    <2>2. ColumnsFollow(r)
      BY <2>1 DEF InSync, SameColumns
    <2>3. rows'[r] = rows[r]
      BY <1>7, <2>1, <2>2 DEF ColumnsFollow, HasRow
    <2> QED BY <2>1, <2>2, <2>3 DEF ColumnsFollow, HasRow, SameColumns
  <1>14. ASSUME NEW r \in Resources \ managed(model'), HasRow(r)' PROVE r \in recording'.deleted
    <2>1. v.intent[r] = None /\ r \in Resources
      BY <1>11
    <2>2. HasRow(r)
      BY <1>7, <1>14, <2>1 DEF HasRow
    <2>3. ProcessedIntent(r) # None => r \in managed(model)
      BY <2>1 DEF InSync, managed
    <2>4. first \/ r \in managed(model) \/ \E i \in DOMAIN batch : batch[i].intent[r] # None
      <3>1. CASE ProcessedIntent(r) # None
        BY <2>3, <3>1
      <3>2. CASE r \in fresh
        BY <3>2 DEF fresh
      <3> QED BY <2>1, <2>2, <3>1, <3>2 DEF DatabaseFollows
    <2> QED BY <1>1, <2>1, <2>4 DEF orphaned_by
  <1>15. WillRecord'
    BY <1>1, <1>12, <1>13, <1>14 DEF WillRecord
  <1>16. recording' # None
    BY <1>1, NoneIsNoRecord
  <1> QED BY <1>8, <1>10, <1>15, <1>16 DEF PersistenceInvariant

\* A version that is read while nothing is pending.
LEMMA ReadVersionStep ==
    ASSUME PersistenceInvariant, ~ReadAfterFailure, NEW v \in Releases, ReadVersion(v)
    PROVE  PersistenceInvariant'
  <1>1. PersistenceTypeOK /\ DatabaseFollows /\ InSync /\ unprocessed = <<>>
    BY DEF PersistenceInvariant, ReadVersion
  <1>2. version' \in 0..MaxVersions
    BY <1>1, ConstantsAssumption DEF PersistenceTypeOK, TypeOK, ReadVersion
  <1>3. PICK batch \in Seq(Releases) : /\ batch = <<v>> /\ batch # <<>> /\ Seqs!Last(batch) = v
                                       /\ Len(batch) = 1
    BY BatchOfOne
  <1>4. PICK first : first = (processed = None /\ unprocessed = <<>>)
    OBVIOUS
  <1>5. /\ apply_versions(batch, first) /\ phase' \in {"read", "up"}
        /\ UNCHANGED <<processed, report, crashes>> /\ rows' = populate_for_version(v)
        /\ unprocessed' = batch
    BY <1>1, <1>3, <1>4 DEF ReadVersion
  <1>6. unprocessed' = unprocessed \o batch
    BY <1>1, <1>5, ConcatEmptySeq
  <1>7. DOMAIN unprocessed = {}
    BY <1>1
  <1> QED BY <1>1, <1>2, <1>3, <1>4, <1>5, <1>6, <1>7, ApplyStep

\* The versions that a restarted scheduler finds.
LEMMA ReadUnprocessedStep ==
    ASSUME PersistenceInvariant, NEW released, released = <<>> \/ \E v \in Releases : released = <<v>>,
           ReadUnprocessed(released)
    PROVE  PersistenceInvariant'
  <1>1. PersistenceTypeOK /\ DatabaseFollows /\ InSync
    BY DEF PersistenceInvariant, ReadUnprocessed
  <1>2. released \in Seq(Releases) /\ (released # <<>> => Len(released) = 1) /\ Len(released) \in Nat
    <2>1. CASE released = <<>>
      BY <2>1
    <2>2. CASE \E v \in Releases : released = <<v>>
      BY <2>2, BatchOfOne
    <2> QED BY <2>1, <2>2
  <1>3. PICK all \in Seq(Releases) : /\ all = unprocessed \o released
                                     /\ all # <<>> /\ unprocessed' = all
    BY <1>1, <1>2, ConcatProperties DEF PersistenceTypeOK, ReadUnprocessed
  <1>4. PICK batch \in Seq(Releases) :
          /\ batch = (IF processed = None THEN <<Seqs!Last(all)>> ELSE all)
          /\ batch # <<>> /\ Seqs!Last(batch) = Seqs!Last(all)
    <2>1. Seqs!Last(all) \in Releases
      BY <1>3, LastOfBatch
    <2>2. PICK v \in Releases : v = Seqs!Last(all)
      BY <2>1
    <2> QED BY <1>3, <2>2, BatchOfOne
  <1>5. PICK first : first = (processed = None)
    OBVIOUS
  <1>6. /\ apply_versions(batch, first) /\ phase' \in {"read", "up"}
        /\ UNCHANGED <<processed, report, crashes>>
        /\ IF released = <<>> THEN rows' = rows ELSE rows' = populate_for_version(Seqs!Last(all))
        /\ version' = version + Len(released) /\ version' <= MaxVersions
    BY <1>3, <1>4, <1>5 DEF ReadUnprocessed
  <1>7. version' \in 0..MaxVersions
    BY <1>1, <1>2, <1>6, ConstantsAssumption DEF PersistenceTypeOK, TypeOK
  <1>8. first \/ \A i \in DOMAIN unprocessed : \E j \in DOMAIN batch : batch[j] = unprocessed[i]
    <2> SUFFICES ASSUME ~first, NEW i \in DOMAIN unprocessed
                 PROVE  \E j \in DOMAIN batch : batch[j] = unprocessed[i]
      OBVIOUS
    <2>1. batch = unprocessed \o released
      BY <1>3, <1>4, <1>5
    <2>2. unprocessed \in Seq(Releases)
      BY <1>1 DEF PersistenceTypeOK
    <2>3. /\ i \in 1..Len(unprocessed) /\ Len(unprocessed) \in Nat
          /\ Len(unprocessed \o released) = Len(unprocessed) + Len(released)
          /\ DOMAIN batch = 1..Len(batch)
      BY <1>2, <2>2, LenProperties, ConcatProperties
    <2>4. i \in 1..Len(unprocessed) + Len(released)
      BY <1>2, <2>3
    <2>5. (unprocessed \o released)[i] = unprocessed[i]
      BY <1>2, <2>2, <2>3, <2>4, ConcatProperties
    <2> QED BY <2>1, <2>3, <2>4, <2>5
  <1> QED BY <1>1, <1>2, <1>3, <1>4, <1>5, <1>6, <1>7, <1>8, ApplyStep

\* The rows R that the transaction writes.
RecordedAs(R, changed, deleted) ==
    /\ R \in [Resources -> Rows \cup {None}]
    /\ \A r \in changed :
         /\ R[r] # None /\ R[r].intent = model.intent[r] /\ ~R[r].orphaned
         /\ R[r].undefined <=> r \in is_undefined(model)
         /\ R[r].blocked = db_value(model.resource_state[r].blocked)
    /\ \A r \in deleted \cap Resources : r \notin changed => R[r] = None \/ R[r].orphaned
    /\ \A r \in Resources : r \notin changed \cup deleted => R[r] = rows[r]

\* The transaction writes the columns of what changed and orphans what was deleted; no other
\* row changes.
LEMMA RecordedRows ==
    ASSUME PersistenceTypeOK, NEW changed \in SUBSET Resources, NEW deleted,
           \A r \in changed : rows[r] # None /\ r \in managed(model)
    PROVE  RecordedAs(recorded_rows(changed, deleted), changed, deleted)
  <1>1. rows \in [Resources -> Rows \cup {None}] /\ model \in Models
    BY DEF PersistenceTypeOK, TypeOK
  <1>2. ASSUME NEW r \in changed
        PROVE  LET row == recorded_rows(changed, deleted)[r]
               IN  /\ row \in Rows /\ row.intent = model.intent[r] /\ ~row.orphaned
                   /\ row.undefined <=> r \in is_undefined(model)
                   /\ row.blocked = db_value(model.resource_state[r].blocked)
    <2>1. r \in Resources /\ rows[r] \in Rows
      BY <1>1
    <2>2. model.intent[r] \in Hashes
      BY <1>1, <2>1 DEF Models, managed
    <2>3. db_value(model.resource_state[r].blocked) \in {"BLOCKED", "NOT_BLOCKED"}
      BY <1>1, <2>1 DEF Models, ResourceStates, BlockedStates, db_value
    <2>4. recorded_rows(changed, deleted)[r] =
            [rows[r] EXCEPT !.intent = model.intent[r], !.orphaned = FALSE,
                            !.undefined = r \in is_undefined(model),
                            !.blocked = db_value(model.resource_state[r].blocked)]
      BY <2>1 DEF recorded_rows
    <2>5. (r \in is_undefined(model)) \in BOOLEAN
      OBVIOUS
    <2> QED BY <2>1, <2>2, <2>3, <2>4, <2>5 DEF Rows
  <1>3. ASSUME NEW r \in Resources, r \notin changed, r \in deleted, rows[r] # None
        PROVE  recorded_rows(changed, deleted)[r] \in Rows /\ recorded_rows(changed, deleted)[r].orphaned
    <2>1. rows[r] \in Rows
      BY <1>1, <1>3
    <2>2. recorded_rows(changed, deleted)[r] = [rows[r] EXCEPT !.orphaned = TRUE]
      BY <1>3 DEF recorded_rows
    <2> QED BY <2>1, <2>2 DEF Rows
  <1>4. \A r \in Resources : r \notin changed /\ (r \notin deleted \/ rows[r] = None)
          => recorded_rows(changed, deleted)[r] = rows[r]
    BY DEF recorded_rows
  <1>5. ASSUME NEW r \in Resources PROVE recorded_rows(changed, deleted)[r] \in Rows \cup {None}
    BY <1>1, <1>2, <1>3, <1>4
  <1>6. recorded_rows(changed, deleted) = [r \in Resources |-> recorded_rows(changed, deleted)[r]]
    BY DEF recorded_rows
  <1>7. recorded_rows(changed, deleted) \in [Resources -> Rows \cup {None}]
    BY <1>5, <1>6
  <1> QED BY <1>2, <1>3, <1>4, <1>7, NoneIsNoRecord DEF RecordedAs

\* The transaction brings the database in sync with the model.
LEMMA RecordStep ==
    ASSUME PersistenceInvariant, RecordVersion
    PROVE  PersistenceInvariant'
  <1> DEFINE v == Seqs!Last(unprocessed)
             changed == recording.changed
             deleted == recording.deleted
  <1>1. /\ PersistenceTypeOK /\ DatabaseFollows /\ WillRecord /\ unprocessed \in Seq(Releases)
        /\ recording \in Recordings /\ rows \in [Resources -> Rows \cup {None}]
    BY DEF PersistenceInvariant, PersistenceTypeOK, RecordVersion
  <1>2. /\ unprocessed # <<>> /\ phase \in {"read", "up"} /\ Describes(model, v)
        /\ changed \subseteq managed(model) /\ deleted \cap managed(model) = {}
        /\ \A r \in managed(model) \ changed : ColumnsFollow(r)
        /\ \A r \in Resources \ managed(model) : HasRow(r) => r \in deleted
    BY <1>1 DEF WillRecord
  <1>3. v \in Releases /\ \A r \in Resources : v.intent[r] # None => r \in fresh
    BY <1>1, <1>2, LastOfBatch DEF fresh
  <1>4. changed \in SUBSET Resources /\ \A r \in changed : rows[r] # None /\ r \in managed(model)
    BY <1>1, <1>2, <1>3 DEF Recordings, Describes, managed, DatabaseFollows
  <1>5. /\ rows' = recorded_rows(changed, deleted) /\ processed' = v
        /\ unprocessed' = <<>> /\ recording' = None /\ UNCHANGED <<vars, phase, report, crashes>>
    BY DEF RecordVersion
  <1>6. PICK C, E : C = changed /\ E = deleted
    OBVIOUS
  <1>7. PICK vv : vv = v
    OBVIOUS
  <1> HIDE DEF v, changed, deleted
  <1>8. /\ rows' \in [Resources -> Rows \cup {None}]
        /\ \A r \in C : /\ rows'[r] # None /\ rows'[r].intent = model.intent[r] /\ ~rows'[r].orphaned
                        /\ rows'[r].undefined <=> r \in is_undefined(model)
                        /\ rows'[r].blocked = db_value(model.resource_state[r].blocked)
        /\ \A r \in E \cap Resources : r \notin C => rows'[r] = None \/ rows'[r].orphaned
        /\ \A r \in Resources : r \notin C \cup E => rows'[r] = rows[r]
    <2>1. RecordedAs(recorded_rows(C, E), C, E)
      BY <1>1, <1>4, <1>6, RecordedRows
    <2>2. RecordedAs(rows', C, E)
      BY <1>5, <1>6, <2>1
    <2> QED BY <2>2 DEF RecordedAs
  <1>9. model' = model /\ TypeOK'
    <2>1. TypeOK
      BY <1>1 DEF PersistenceTypeOK
    <2> QED BY <1>5, <2>1 DEF vars, TypeOK
  <1>10. <<>> \in Seq(Releases)
    OBVIOUS
  <1>11. PersistenceTypeOK'
    BY <1>1, <1>3, <1>5, <1>8, <1>9, <1>10 DEF PersistenceTypeOK
  <1>12. ASSUME NEW r \in managed(model) PROVE ColumnsFollow(r)'
    <2>1. r \in Resources /\ r \notin E
      BY <1>2, <1>6 DEF managed
    <2>2. CASE r \in C
      BY <1>8, <1>9, <2>2 DEF ColumnsFollow, HasRow
    <2>3. CASE r \notin C
      BY <1>2, <1>6, <1>8, <1>9, <2>1, <2>3 DEF ColumnsFollow, HasRow
    <2> QED BY <2>2, <2>3
  <1>13. ASSUME NEW r \in Resources, HasRow(r)' PROVE r \in managed(model)
    <2> SUFFICES ASSUME r \notin managed(model) PROVE FALSE
      OBVIOUS
    <2>1. r \notin C /\ r \notin E
      BY <1>2, <1>6, <1>8, <1>13 DEF HasRow
    <2> QED BY <1>2, <1>6, <1>8, <1>13, <2>1 DEF HasRow
  <1>14. processed' # None /\ (\A r \in Resources : ProcessedIntent(r)' = vv.intent[r]) /\ processed' = vv
    BY <1>3, <1>5, <1>7, NoneIsNoRecord DEF ProcessedIntent
  <1>15. \A r \in Resources : /\ model.intent[r] = vv.intent[r]
                              /\ r \in managed(model) => (r \in is_undefined(model) <=> r \in vv.undefined)
    BY <1>2, <1>7 DEF Describes, managed, Present
  <1>16. InSync'
    BY <1>9, <1>12, <1>14, <1>15 DEF InSync
  <1>17. fresh' = {}
    BY <1>5 DEF fresh
  <1>18. DatabaseFollows'
    <2> SUFFICES ASSUME NEW r \in Resources
                 PROVE  /\ ProcessedIntent(r)' # None =>
                             /\ HasRow(r)' /\ rows'[r].intent = processed'.intent[r]
                             /\ rows'[r].undefined <=> r \in processed'.undefined
                        /\ HasRow(r)' => ProcessedIntent(r)' # None \/ r \in fresh'
                        /\ r \in fresh' => rows'[r] # None
      BY DEF DatabaseFollows
    <2>1. ProcessedIntent(r)' # None => r \in managed(model)
      BY <1>14, <1>15 DEF managed
    <2>2. r \in managed(model) => ProcessedIntent(r)' # None
      BY <1>14, <1>15 DEF managed
    <2>3. r \in managed(model) =>
             /\ HasRow(r)' /\ rows'[r].intent = processed'.intent[r]
             /\ rows'[r].undefined <=> r \in processed'.undefined
      BY <1>9, <1>12, <1>14, <1>15 DEF ColumnsFollow
    <2> QED BY <1>13, <1>17, <2>1, <2>2, <2>3
  <1> QED BY <1>5, <1>11, <1>16, <1>18 DEF PersistenceInvariant

\* If it fails, the versions stay to be read.
LEMMA RecordFailsStep ==
    ASSUME PersistenceInvariant, RecordVersionFails
    PROVE  PersistenceInvariant'
  <1>1. /\ PersistenceTypeOK /\ DatabaseFollows /\ unprocessed # <<>>
    BY DEF PersistenceInvariant, RecordVersionFails, WillRecord
  <1>2. /\ recording' = None /\ phase' = "up"
        /\ UNCHANGED <<vars, processed, unprocessed, rows, report, crashes>>
    BY DEF RecordVersionFails
  <1>3. PersistenceTypeOK'
    BY <1>1, <1>2 DEF PersistenceTypeOK, TypeOK, vars
  <1>4. DatabaseFollows'
    BY <1>1, <1>2 DEF DatabaseFollows, ProcessedIntent, HasRow, fresh
  <1> QED BY <1>1, <1>2, <1>3, <1>4 DEF PersistenceInvariant

-----------------------------------------------------------------------------
(* Deploys *)

\* What is compared with other deploys are resources.
LEMMA WatchedType == \A r : watched(r) \subseteq Resources
  BY ConstantsAssumption DEF watched

\* The write of a deploy leaves the columns of the model alone.
LEMMA DeployedRows ==
    ASSUME PersistenceTypeOK, NEW a \in Agents, runner[a].resource \in Resources,
           rows' = deployed_rows(a)
    PROVE  RowsKept /\ rows' \in [Resources -> Rows \cup {None}]
  <1> DEFINE d == runner[a].resource
             rep == report[a]
  <1>1. /\ rows \in [Resources -> Rows \cup {None}] /\ rep \in ReportRecords
        /\ runner[a].hash \in Hashes \cup {None} /\ d \in Resources
    BY DEF PersistenceTypeOK, TypeOK, Runners
  <1>2. /\ rep.since \subseteq Resources /\ rep.run \in HandlerResults \cup {None}
        /\ rep.compliant \in BOOLEAN \cup {None}
    BY <1>1 DEF ReportRecords
  <1> HIDE DEF rep
  <1>3. ASSUME NEW r \in Resources, rows[r] # None
        PROVE  /\ rows'[r] \in Rows
               /\ rows'[r].intent = rows[r].intent /\ rows'[r].undefined = rows[r].undefined
               /\ rows'[r].orphaned = rows[r].orphaned /\ rows'[r].blocked = rows[r].blocked
    <2>1. rows[r] \in Rows
      BY <1>1, <1>3
    <2>2. CASE r # d
      <3>1. PICK X : rows'[r] = [rows[r] EXCEPT !.behind = X \cap watched(r)]
        BY <1>3, <2>2 DEF deployed_rows
      <3>2. X \cap watched(r) \subseteq Resources
        BY WatchedType
      <3> QED BY <2>1, <3>1, <3>2 DEF Rows
    <2>3. CASE r = d
      <3>1. rows'[d] = [rows[d] EXCEPT !.deployed = runner[a].hash,
                                       !.behind = IF rep.success THEN rep.since ELSE rows[d].behind,
                                       !.last_handler_run = kept(rep.run, rows[d].last_handler_run),
                                       !.last_handler_run_compliant
                                          = kept(rep.compliant, rows[d].last_handler_run_compliant)]
        BY <1>1, <1>3, <2>3 DEF deployed_rows, rep
      <3>2. rows[d] \in Rows
        BY <2>1, <2>3
      <3>3. PICK X, Y, Z : /\ X = (IF rep.success THEN rep.since ELSE rows[d].behind)
                           /\ Y = kept(rep.run, rows[d].last_handler_run)
                           /\ Z = kept(rep.compliant, rows[d].last_handler_run_compliant)
        OBVIOUS
      <3>4. X \in SUBSET Resources
        BY <1>2, <3>2, <3>3 DEF Rows
      <3>5. Y \in HandlerResults /\ Z \in BOOLEAN \cup {None}
        BY <1>2, <3>2, <3>3 DEF Rows, kept
      <3>6. rows'[d] = [rows[d] EXCEPT !.deployed = runner[a].hash, !.behind = X,
                                       !.last_handler_run = Y, !.last_handler_run_compliant = Z]
        BY <3>1, <3>3
      <3> QED BY <1>1, <2>3, <3>2, <3>4, <3>5, <3>6 DEF Rows
    <2> QED BY <2>2, <2>3
  <1>4. \A r \in Resources : rows[r] = None => rows'[r] = None
    BY DEF deployed_rows
  <1>5. rows' = [r \in Resources |-> rows'[r]]
    BY DEF deployed_rows
  <1>6. \A r \in Resources : rows'[r] \in Rows \cup {None}
    BY <1>3, <1>4
  <1>7. rows' \in [Resources -> Rows \cup {None}]
    BY <1>5, <1>6
  <1> QED BY <1>3, <1>4, <1>7, NoneIsNoRecord DEF RowsKept

\* The reports that are not written yet stay reports.
LEMMA DeployedStampsType ==
    ASSUME PersistenceTypeOK, NEW a \in Agents, runner[a].resource \in Resources
    PROVE  deployed_stamps(a) \in [Agents -> ReportRecords]
  <1>1. ASSUME NEW b \in Agents PROVE deployed_stamps(a)[b] \in ReportRecords
    <2>1. report[b] \in ReportRecords /\ NoReport \in ReportRecords
      BY DEF PersistenceTypeOK, ReportRecords, NoReport
    <2>2. CASE b = a \/ runner[b].pc \notin {"deploying", "reporting"}
      BY <2>1, <2>2 DEF deployed_stamps
    <2>3. CASE ~(b = a \/ runner[b].pc \notin {"deploying", "reporting"})
      <3>1. PICK X, Y : /\ deployed_stamps(a)[b] = [report[b] EXCEPT
                                !.since = X \cap watched(runner[b].resource), !.superseded = Y]
                        /\ Y = report[b].superseded \/ Y = report[b].superseded \cup {runner[a].resource}
        BY <2>3 DEF deployed_stamps
      <3>2. X \cap watched(runner[b].resource) \in SUBSET Resources
        BY WatchedType
      <3>3. Y \in SUBSET Resources
        BY <2>1, <3>1 DEF ReportRecords
      <3> QED BY <2>1, <3>1, <3>2, <3>3 DEF ReportRecords
    <2> QED BY <2>2, <2>3
  <1>2. deployed_stamps(a) = [b \in Agents |-> deployed_stamps(a)[b]]
    BY DEF deployed_stamps
  <1> QED BY <1>1, <1>2

\* The steps of a deploy are steps of the scheduler that read no version.
LEMMA DeployStepIsOther ==
    ASSUME NEW a \in Agents, DeployStep(a)
    PROVE  OtherStep /\ UNCHANGED <<phase, processed, unprocessed, recording, crashes>>
  BY DEF DeployStep, Start, Done, Finish, OtherStep, RunnerStep

\* No step of a deploy changes a column of the model.
LEMMA DeployStepRows ==
    ASSUME PersistenceTypeOK, NEW a \in Agents, DeployStep(a)
    PROVE  /\ SameVersion /\ TypeOK' /\ RowsKept
           /\ rows' \in [Resources -> Rows \cup {None}] /\ report' \in [Agents -> ReportRecords]
  <1>1. PersistenceTypeOK /\ TypeOK
    BY DEF PersistenceTypeOK
  <1>2. OtherStep /\ UNCHANGED <<phase, processed, unprocessed, recording, crashes>>
    BY DeployStepIsOther
  <1>3. SameVersion
    BY <1>1, <1>2, OtherStepModel
  <1>4. TypeOK'
    BY <1>1, <1>2, TypeStep DEF SchedulerStep
  <1>5. rows \in [Resources -> Rows \cup {None}] /\ report \in [Agents -> ReportRecords]
    BY <1>1 DEF PersistenceTypeOK
  <1>6. NoReport \in ReportRecords
    BY DEF ReportRecords, NoReport
  <1>8. rows' = rows => RowsKept
    BY DEF RowsKept
  <1>7. RowsKept /\ rows' \in [Resources -> Rows \cup {None}] /\ report' \in [Agents -> ReportRecords]
    <2>1. CASE Start(a)
      <3>1. rows' = rows
        BY <2>1 DEF Start
      <3>2. \A b \in Agents : [report[b] EXCEPT !.newer = @ \cup {a}] \in ReportRecords
        BY <1>5 DEF ReportRecords
      <3>3. report' \in [Agents -> ReportRecords]
        BY <1>5, <1>6, <2>1, <3>2 DEF Start
      <3> QED BY <1>5, <1>8, <3>1, <3>3
    <2>2. ASSUME NEW result \in Reports, Done(a, result)
          PROVE  RowsKept /\ rows' \in [Resources -> Rows \cup {None}] /\ report' \in [Agents -> ReportRecords]
      <3> DEFINE r == runner[a].resource
                 stale == r \notin managed(model) \/ r \in deploying_unmanaged
      <3>1. rows' = rows
        BY <2>2 DEF Done
      <3>2. PICK S, R, C : /\ report' = [report EXCEPT ![a] =
                               [@ EXCEPT !.success = S, !.newer = {}, !.superseded = {}, !.run = R, !.compliant = C]]
                           /\ S = (result = "deployed")
                           /\ R = IF stale THEN None ELSE model'.resource_state[r].last_handler_run
                           /\ C = IF stale THEN None ELSE model'.resource_state[r].last_handler_run_compliant
        BY <2>2, Zenon DEF Done
      <3>3. R \in HandlerResults \cup {None} /\ C \in BOOLEAN \cup {None}
        <4>1. CASE stale
          BY <3>2, <4>1
        <4>2. CASE ~stale
          <5>1. model'.resource_state[r] \in ResourceStates
            BY <1>4, <4>2, ManagedType DEF TypeOK, Models
          <5> QED BY <3>2, <4>2, <5>1 DEF ResourceStates
        <4> QED BY <4>1, <4>2
      <3>4. S \in BOOLEAN
        BY <3>2
      <3>5. report[a] \in ReportRecords
        BY <1>5
      <3>6. [report[a] EXCEPT !.success = S, !.newer = {}, !.superseded = {}, !.run = R, !.compliant = C]
              \in ReportRecords
        BY <3>3, <3>4, <3>5 DEF ReportRecords
      <3>7. report' \in [Agents -> ReportRecords]
        BY <1>5, <3>2, <3>6
      <3> QED BY <1>5, <1>8, <3>1, <3>7
    <2>3. CASE Finish(a)
      <3>1. CASE runner[a].resource \in db_deploying \ db_deploying'
        <4>1. runner[a].resource \in Resources
          BY <1>1, <3>1 DEF TypeOK
        <4>2. rows' = deployed_rows(a) /\ report' = deployed_stamps(a)
          BY <2>3, <3>1 DEF Finish
        <4> QED BY <1>1, <4>1, <4>2, DeployedRows, DeployedStampsType
      <3>2. CASE ~(runner[a].resource \in db_deploying \ db_deploying')
        <4>1. rows' = rows /\ report' = [report EXCEPT ![a] = NoReport]
          BY <2>3, <3>2 DEF Finish
        <4> QED BY <1>5, <1>6, <1>8, <4>1
      <3> QED BY <3>1, <3>2
    <2> QED BY <2>1, <2>2, <2>3 DEF DeployStep
  <1> QED BY <1>3, <1>4, <1>7

\* Therefore it keeps the invariant.
LEMMA DeployStepStays ==
    ASSUME PersistenceInvariant, NEW a \in Agents, DeployStep(a)
    PROVE  PersistenceInvariant'
  <1>1. PersistenceTypeOK
    BY DEF PersistenceInvariant
  <1>2. UNCHANGED <<phase, processed, unprocessed, recording, crashes>>
    BY DeployStepIsOther
  <1>3. /\ SameVersion /\ TypeOK' /\ RowsKept
        /\ rows' \in [Resources -> Rows \cup {None}] /\ report' \in [Agents -> ReportRecords]
    BY <1>1, DeployStepRows
  <1>4. PersistenceTypeOK'
    BY <1>1, <1>2, <1>3 DEF PersistenceTypeOK
  <1> QED BY <1>2, <1>3, <1>4, VersionStays

\* Nor does any other step in memory.
LEMMA InMemoryStep ==
    ASSUME PersistenceInvariant, InMemory
    PROVE  PersistenceInvariant'
  <1>1. PersistenceTypeOK /\ TypeOK
    BY DEF PersistenceInvariant, PersistenceTypeOK
  <1>2. OtherStep
    BY ConstantsAssumption DEF InMemory, OtherStep, RunnerStep
  <1>3. UNCHANGED <<phase, processed, unprocessed, recording, rows, report, crashes>>
    BY DEF InMemory, db_vars
  <1>4. SameVersion /\ TypeOK'
    BY <1>1, <1>2, OtherStepModel, TypeStep DEF SchedulerStep
  <1>5. RowsKept
    BY <1>3 DEF RowsKept
  <1>6. PersistenceTypeOK'
    BY <1>1, <1>3, <1>4 DEF PersistenceTypeOK
  <1> QED BY <1>3, <1>4, <1>5, <1>6, VersionStays

-----------------------------------------------------------------------------
(* Crash and restart *)

\* A kill loses the model and leaves the database.
LEMMA CrashStep ==
    ASSUME PersistenceInvariant, Crash
    PROVE  PersistenceInvariant'
  <1>1. PersistenceTypeOK /\ TypeOK /\ DatabaseFollows
    BY DEF PersistenceInvariant, PersistenceTypeOK
  <1>2. /\ model' = EmptyModel /\ work' = EmptyWork /\ runner' = [a \in Agents |-> IdleRunner]
        /\ deploying_latest' = {} /\ deploying_unmanaged' = {} /\ timers' = {} /\ triggers' = {}
        /\ UNCHANGED <<db_deploying, version, processed, unprocessed, rows>>
        /\ phase' = "down" /\ recording' = None /\ report' = [a \in Agents |-> NoReport]
        /\ crashes' = crashes + 1 /\ crashes < MaxCrashes
        /\ device' \in [Resources -> Hashes \cup {None}]
    BY DEF Crash
  <1>3. EmptyModel \in Models /\ EmptyWork \in Works
    BY NoStateType DEF EmptyModel, EmptyWork, Models, Works, Edges, NoEdges
  <1>4. TypeOK'
    BY <1>1, <1>2, <1>3, IdleRunnerType DEF TypeOK
  <1>5. crashes' \in 0..MaxCrashes
    BY <1>1, <1>2, PersistenceAssumption DEF PersistenceTypeOK
  <1>6. NoReport \in ReportRecords
    BY DEF ReportRecords, NoReport
  <1>7. PersistenceTypeOK'
    BY <1>1, <1>2, <1>4, <1>5, <1>6 DEF PersistenceTypeOK
  <1>8. DatabaseFollows'
    BY <1>1, <1>2 DEF DatabaseFollows, ProcessedIntent, HasRow, fresh
  <1> QED BY <1>2, <1>7, <1>8 DEF PersistenceInvariant

\* The model that is restored is well formed and in sync with the database, and what may be
\* deployed and has an update, or was not deployed with success, is dirty.
Restored(m) ==
    /\ m \in Models
    /\ \A r \in Resources :
         /\ m.intent[r] = ProcessedIntent(r)
         /\ m.requires[r] = IF m.intent[r] # None THEN processed.requires[r] ELSE {}
         /\ m.intent[r] # None =>
              /\ m.resource_state[r].compliance = restored_compliance(rows[r])
              /\ m.resource_state[r].blocked = rows[r].blocked
              /\ m.resource_state[r].last_handler_run = rows[r].last_handler_run
              /\ m.resource_state[r].last_deployed = (rows[r].deployed # None)
              /\ rows[r].blocked = "NOT_BLOCKED" /\ is_dirty(m.resource_state[r]) => r \in m.dirty
         /\ r \in m.dirty => m.intent[r] # None /\ rows[r].blocked = "NOT_BLOCKED"

\* create_from_db restores the intent and the blocked state of each resource of the last
\* version that was processed: none of them lacks its row.
LEMMA RestoredModel ==
    ASSUME PersistenceTypeOK, DatabaseFollows, processed # None
    PROVE  Restored(create_from_db)
  <1> DEFINE known == {r \in Resources : processed.intent[r] # None /\ ~rows[r].orphaned}
             S(r) == IF r \notin known THEN NoState
                     ELSE [compliance |-> restored_compliance(rows[r]), blocked |-> rows[r].blocked,
                           last_handler_run |-> rows[r].last_handler_run,
                           last_deployed |-> rows[r].deployed # None,
                           last_handler_run_compliant |-> rows[r].last_handler_run_compliant]
             m == create_from_db
  <1>1. processed \in ModelVersions /\ rows \in [Resources -> Rows \cup {None}]
    BY ConstantsAssumption DEF PersistenceTypeOK
  <1>2. \A r \in Resources : processed.intent[r] # None => r \in known /\ rows[r] \in Rows
    BY <1>1 DEF DatabaseFollows, ProcessedIntent, HasRow
  <1>3. ASSUME NEW r \in Resources PROVE S(r) \in ResourceStates
    <2>1. CASE r \notin known
      BY <2>1, NoStateType
    <2>2. CASE r \in known
      <3>1. rows[r] \in Rows
        BY <1>2, <2>2
      <3>2. restored_compliance(rows[r]) \in ComplianceStates
        BY DEF restored_compliance, ComplianceStates
      <3>3. (rows[r].deployed # None) \in BOOLEAN
        OBVIOUS
      <3>4. S(r) = [compliance |-> restored_compliance(rows[r]), blocked |-> rows[r].blocked,
                    last_handler_run |-> rows[r].last_handler_run,
                    last_deployed |-> rows[r].deployed # None,
                    last_handler_run_compliant |-> rows[r].last_handler_run_compliant]
        BY <2>2
      <3>5. rows[r].blocked \in BlockedStates
        BY <3>1 DEF Rows, BlockedStates
      <3>6. rows[r].last_handler_run \in HandlerResults /\ rows[r].last_handler_run_compliant \in BOOLEAN \cup {None}
        BY <3>1 DEF Rows
      <3> HIDE DEF S, known
      <3> QED BY <3>2, <3>3, <3>4, <3>5, <3>6 DEF ResourceStates
    <2> QED BY <2>1, <2>2
  <1>4. /\ m.intent = [r \in Resources |-> IF r \in known THEN processed.intent[r] ELSE None]
        /\ m.requires = [r \in Resources |-> IF r \in known THEN processed.requires[r] ELSE {}]
        /\ m.resource_state = [r \in Resources |-> S(r)]
        /\ m.dirty \subseteq Resources
        /\ m = [intent |-> m.intent, requires |-> m.requires, resource_state |-> m.resource_state, dirty |-> m.dirty]
    BY Zenon DEF create_from_db
  <1>d. \A r \in Resources : r \in m.dirty <=> /\ r \in known
                                               /\ S(r).blocked = "NOT_BLOCKED"
                                               /\ is_dirty(S(r)) \/ missed_event(r)
    <2>1. m.dirty = {r \in known :
                 /\ [x \in Resources |-> S(x)][r].blocked = "NOT_BLOCKED"
                 /\ is_dirty([x \in Resources |-> S(x)][r]) \/ missed_event(r)}
      BY Zenon DEF create_from_db
    <2>2. \A r \in Resources : [x \in Resources |-> S(x)][r] = S(r)
      OBVIOUS
    <2> HIDE DEF S, m
    <2> QED BY <2>1, <2>2
  <1>5. m.intent \in [Resources -> Hashes \cup {None}]
    BY <1>1, <1>4 DEF ModelVersions
  <1>6. m.requires \in Edges
    BY <1>1, <1>4 DEF ModelVersions, Edges
  <1>7. m.resource_state \in [Resources -> ResourceStates]
    BY <1>3, <1>4
  <1>8. m \in Models
    BY <1>4, <1>5, <1>6, <1>7 DEF Models
  <1>9. ASSUME NEW r \in Resources
        PROVE  /\ m.intent[r] = ProcessedIntent(r)
               /\ m.requires[r] = IF m.intent[r] # None THEN processed.requires[r] ELSE {}
               /\ m.intent[r] # None =>
                    /\ m.resource_state[r].compliance = restored_compliance(rows[r])
                    /\ m.resource_state[r].blocked = rows[r].blocked
                    /\ m.resource_state[r].last_handler_run = rows[r].last_handler_run
                    /\ m.resource_state[r].last_deployed = (rows[r].deployed # None)
                    /\ rows[r].blocked = "NOT_BLOCKED" /\ is_dirty(m.resource_state[r]) => r \in m.dirty
               /\ r \in m.dirty => m.intent[r] # None /\ rows[r].blocked = "NOT_BLOCKED"
    <2>1. m.intent[r] = processed.intent[r]
      BY <1>2, <1>4
    <2>2. m.intent[r] # None <=> r \in known
      BY <1>2, <2>1
    <2>3. m.resource_state[r] = S(r)
      BY <1>4
    <2>4. m.requires[r] = IF r \in known THEN processed.requires[r] ELSE {}
      BY <1>4
    <2>5. r \in known => S(r) = [compliance |-> restored_compliance(rows[r]), blocked |-> rows[r].blocked,
                                 last_handler_run |-> rows[r].last_handler_run,
                                 last_deployed |-> rows[r].deployed # None,
                                 last_handler_run_compliant |-> rows[r].last_handler_run_compliant]
      OBVIOUS
    <2> HIDE DEF S, known
    <2>6. r \in m.dirty <=> /\ r \in known
                            /\ S(r).blocked = "NOT_BLOCKED"
                            /\ is_dirty(S(r)) \/ missed_event(r)
      BY <1>d
    <2>7. r \in known => /\ S(r).compliance = restored_compliance(rows[r])
                         /\ S(r).blocked = rows[r].blocked
                         /\ S(r).last_handler_run = rows[r].last_handler_run
                         /\ S(r).last_deployed = (rows[r].deployed # None)
      BY <2>5
    <2> QED BY <2>1, <2>2, <2>3, <2>4, <2>6, <2>7 DEF ProcessedIntent
  <1>10. Restored(m)
    BY <1>8, <1>9 DEF Restored
  <1> QED BY <1>10 DEF m

\* A restarted process has restored what the last recorded version has, if there is one.
LEMMA RestartRestores ==
    ASSUME PersistenceTypeOK, DatabaseFollows, Restart
    PROVE  Restored(model')
  <1>1. model' = IF processed = None THEN EmptyModel ELSE create_from_db
    BY DEF Restart
  <1>2. CASE processed = None
    <2>1. EmptyModel \in Models
      BY NoStateType DEF EmptyModel, Models, Edges, NoEdges
    <2>2. /\ \A r \in Resources : EmptyModel.intent[r] = None /\ EmptyModel.requires[r] = {}
          /\ EmptyModel.dirty = {}
      BY DEF EmptyModel, NoEdges
    <2>3. \A r : ProcessedIntent(r) = None
      BY <1>2 DEF ProcessedIntent
    <2>4. model' = EmptyModel
      BY <1>1, <1>2
    <2> QED BY <2>1, <2>2, <2>3, <2>4 DEF Restored
  <1>3. CASE processed # None
    BY <1>1, <1>3, RestoredModel
  <1> QED BY <1>2, <1>3

\* A restart, before the deploys and requests that follow it.
LEMMA RestartStep ==
    ASSUME PersistenceInvariant, Restart
    PROVE  PersistenceInvariant'
  <1>1. PersistenceTypeOK /\ TypeOK /\ DatabaseFollows /\ (recording # None => phase \in {"read", "up"})
    BY DEF PersistenceInvariant, PersistenceTypeOK, WillRecord
  <1>2. /\ phase = "down" /\ phase' = "starting" /\ db_deploying' = {}
        /\ model' = IF processed = None THEN EmptyModel ELSE create_from_db
        /\ UNCHANGED <<work, runner, deploying_latest, deploying_unmanaged, timers, triggers, device,
                       version, processed, unprocessed, recording, rows, report, crashes>>
    BY DEF Restart
  <1>3. Restored(model')
    BY <1>1, RestartRestores
  <1>4. TypeOK'
    BY <1>1, <1>2, <1>3 DEF TypeOK, Restored
  <1>5. PersistenceTypeOK'
    BY <1>1, <1>2, <1>4 DEF PersistenceTypeOK
  <1>6. DatabaseFollows'
    BY <1>1, <1>2 DEF DatabaseFollows, ProcessedIntent, HasRow, fresh
  <1>7. InSync'
    <2> SUFFICES ASSUME NEW r \in Resources
                 PROVE  /\ model'.intent[r] = ProcessedIntent(r)'
                        /\ r \in managed(model') => ColumnsFollow(r)'
      BY DEF InSync
    <2>1. model'.intent[r] = ProcessedIntent(r) /\ ProcessedIntent(r)' = ProcessedIntent(r)
      BY <1>2, <1>3 DEF Restored, ProcessedIntent
    <2>2. ASSUME r \in managed(model') PROVE ColumnsFollow(r)'
      <3>1. ProcessedIntent(r) # None /\ model'.intent[r] # None
        BY <2>1, <2>2 DEF managed
      <3>2. /\ HasRow(r) /\ rows[r].intent = model'.intent[r]
            /\ rows[r] \in Rows
        BY <1>1, <2>1, <3>1 DEF DatabaseFollows, ProcessedIntent, HasRow, PersistenceTypeOK
      <3>3. rows[r].undefined <=> r \in is_undefined(model')
        BY <1>3, <2>2, <3>1 DEF Restored, restored_compliance, is_undefined
      <3>4. rows[r].blocked = db_value(model'.resource_state[r].blocked)
        BY <1>3, <3>1, <3>2 DEF Restored, Rows, db_value
      <3> QED BY <1>2, <3>2, <3>3, <3>4 DEF ColumnsFollow, HasRow
    <2> QED BY <2>1, <2>2
  <1> QED BY <1>1, <1>2, <1>5, <1>6, <1>7 DEF PersistenceInvariant

\* A restarted scheduler that finds no version deploys what it restored.
LEMMA DeployAtStartStep ==
    ASSUME PersistenceInvariant, DeployAtStart
    PROVE  PersistenceInvariant'
  <1>1. PersistenceTypeOK /\ TypeOK
    BY DEF PersistenceInvariant, PersistenceTypeOK
  <1>2. /\ phase = "starting" /\ phase' = "read"
        /\ UNCHANGED <<processed, unprocessed, recording, rows, report, crashes>>
    BY DEF DeployAtStart
  <1>3. [OtherStep]_vars
    BY DEF DeployAtStart, OtherStep
  <1>4. SameVersion /\ TypeOK'
    <2>1. [SchedulerStep]_vars
      BY <1>3 DEF SchedulerStep
    <2> QED BY <1>1, <1>3, <2>1, OtherStepModel, TypeStep
  <1>5. RowsKept
    BY <1>2 DEF RowsKept
  <1>6. PersistenceTypeOK'
    BY <1>1, <1>2, <1>4 DEF PersistenceTypeOK
  <1> QED BY <1>2, <1>4, <1>5, <1>6, VersionStays

\* Setting the timers changes no column either.
LEMMA InitializeTimersStep ==
    ASSUME PersistenceInvariant, InitializeTimers
    PROVE  PersistenceInvariant'
  <1> DEFINE busy == scheduled(work) \cup in_progress
  <1>1. PersistenceTypeOK /\ TypeOK
    BY DEF PersistenceInvariant, PersistenceTypeOK
  <1>2. /\ phase = "read" /\ phase' = "up"
        /\ timers' = update_timers(timers \ busy, model, managed(model) \ busy)
        /\ UNCHANGED <<model, work, runner, deploying_latest, deploying_unmanaged, triggers, db_deploying,
                       device, version, processed, unprocessed, recording, rows, report, crashes>>
    BY DEF InitializeTimers
  <1> HIDE DEF busy
  <1>3. timers \ busy \in SUBSET Resources /\ managed(model) \ busy \in SUBSET Resources
    BY <1>1, ManagedType DEF TypeOK
  <1>4. timers' \in SUBSET Resources
    BY <1>2, <1>3, UpdateTimersType
  <1>5. TypeOK' /\ SameVersion
    BY <1>1, <1>2, <1>4 DEF TypeOK, SameVersion
  <1>6. RowsKept
    BY <1>2 DEF RowsKept
  <1>7. PersistenceTypeOK'
    BY <1>1, <1>2, <1>5 DEF PersistenceTypeOK
  <1> QED BY <1>2, <1>5, <1>6, <1>7, VersionStays

-----------------------------------------------------------------------------

\* The first scheduler starts on an empty environment, in sync with it.
LEMMA InitPersistence == PersistenceInit => PersistenceInvariant
  <1> SUFFICES ASSUME PersistenceInit PROVE PersistenceInvariant
    OBVIOUS
  <1>1. TypeOK
    BY InitCompliance DEF PersistenceInit, ComplianceInvariant
  <1>2. NoReport \in ReportRecords /\ <<>> \in Seq(Releases) /\ 0 \in 0..MaxCrashes
    BY PersistenceAssumption DEF ReportRecords, NoReport
  <1>3. PersistenceTypeOK
    BY <1>1, <1>2 DEF PersistenceInit, PersistenceTypeOK
  <1>4. \A r \in Resources : ~HasRow(r) /\ ProcessedIntent(r) = None /\ r \notin fresh /\ r \notin managed(model)
                             /\ model.intent[r] = None
    <2>1. /\ unprocessed = <<>> /\ rows = [r \in Resources |-> None] /\ processed = None
          /\ model.intent = [r \in Resources |-> None]
      BY DEF PersistenceInit, Init, EmptyModel
    <2>2. DOMAIN unprocessed = {}
      BY <2>1
    <2> QED BY <2>1, <2>2 DEF HasRow, ProcessedIntent, fresh, managed
  <1>5. DatabaseFollows /\ InSync
    BY <1>4 DEF DatabaseFollows, InSync
  <1> QED BY <1>3, <1>5 DEF PersistenceInvariant, PersistenceInit

\* Every step keeps the invariant, one case per action.
LEMMA PersistenceStep ==
    ASSUME PersistenceInvariant, ~ReadAfterFailure, [PersistenceNext]_all_vars
    PROVE  PersistenceInvariant'
  <1>1. CASE InMemory
    BY <1>1, InMemoryStep
  <1>2. CASE \E a \in Agents : DeployStep(a)
    BY <1>2, DeployStepStays
  <1>3. CASE \E v \in Releases : ReadVersion(v)
    BY <1>3, ReadVersionStep
  <1>4. CASE RecordVersion
    BY <1>4, RecordStep
  <1>5. CASE RecordVersionFails
    BY <1>5, RecordFailsStep
  <1>6. CASE Crash
    BY <1>6, CrashStep
  <1>7. CASE Restart
    BY <1>7, RestartStep
  <1>8. CASE \E released \in {<<>>} \cup {<<v>> : v \in Releases} : ReadUnprocessed(released)
    <2>1. PICK released : /\ released = <<>> \/ \E v \in Releases : released = <<v>>
                          /\ ReadUnprocessed(released)
      BY <1>8
    <2> QED BY <2>1, ReadUnprocessedStep
  <1>9. CASE DeployAtStart
    BY <1>9, DeployAtStartStep
  <1>10. CASE InitializeTimers
    BY <1>10, InitializeTimersStep
  <1>11. CASE UNCHANGED all_vars
    <2>1. PersistenceInvariant' <=> PersistenceInvariant
      BY <1>11 DEF all_vars, db_vars, vars, PersistenceInvariant, PersistenceTypeOK, TypeOK, DatabaseFollows,
                   InSync, WillRecord, ColumnsFollow, HasRow, ProcessedIntent, fresh
    <2> QED BY <2>1
  <1> QED BY <1>1, <1>2, <1>3, <1>4, <1>5, <1>6, <1>7, <1>8, <1>9, <1>10, <1>11
          DEF PersistenceNext, Initialize

(***************************************************************************)
(* While no transaction is pending or failed, the rows of the database     *)
(* hold the intents, the undefined and the blocked state of the model in   *)
(* memory, and of nothing else: whatever versions, deploys, failed writes, *)
(* kills and restarts interleave (the transaction at the end of            *)
(* _new_version, and create_from_db).  A scheduler that reads a version    *)
(* after a transaction failed is the exception: it does lose changes.      *)
(***************************************************************************)
THEOREM RowsFollowTheModel ==
    ASSUME ~ReadAfterFailure
    PROVE  PersistenceSpec => [](PersistenceInvariant /\ RowsFollowModel)
  <1>1. PersistenceInvariant => RowsFollowModel
    <2> SUFFICES ASSUME PersistenceInvariant, initialized, unprocessed = <<>>, NEW r \in Resources
                 PROVE  /\ r \in managed(model) <=> rows[r] # None /\ ~rows[r].orphaned
                        /\ r \in managed(model) =>
                             /\ rows[r].intent = model.intent[r]
                             /\ rows[r].undefined <=> r \in is_undefined(model)
                             /\ rows[r].blocked = db_value(model.resource_state[r].blocked)
      BY DEF RowsFollowModel
    <2>1. recording = None
      BY DEF PersistenceInvariant, WillRecord
    <2>2. InSync /\ DatabaseFollows
      BY <2>1 DEF PersistenceInvariant, initialized
    <2>3. r \notin fresh
      BY DEF fresh
    <2>4. HasRow(r) => r \in managed(model)
      BY <2>2, <2>3 DEF DatabaseFollows, InSync, managed
    <2> QED BY <2>2, <2>4 DEF InSync, ColumnsFollow, HasRow
  <1>2. PersistenceInvariant /\ [PersistenceNext]_all_vars => PersistenceInvariant'
    BY PersistenceStep
  <1> QED BY <1>1, <1>2, InitPersistence, PTL DEF PersistenceSpec

-----------------------------------------------------------------------------
(* Updates over a restart *)

\* A step in which no report raises, and in which a restarted scheduler finds no resource
\* that came back within the versions that it has to read.
PersistedStep ==
    /\ PersistenceNext
    /\ \A x \in Agents : runner'[x].pc # "raised"
    /\ phase = "starting" /\ phase' = "read" => unprocessed' = <<>> \/ recreated_by(unprocessed') = {}

\* The behaviours that consist of such steps.
PersistedSpec == PersistenceInit /\ [][PersistedStep]_all_vars

\* Nothing is left in memory of a process that was killed.
Asleep ==
    /\ work = EmptyWork
    /\ runner = [a \in Agents |-> IdleRunner]
    /\ deploying_latest = {} /\ deploying_unmanaged = {}

\* A row says that its resource is blocked if the recorded version makes it undeployable.
RowsBlocked ==
    \A r \in Resources : ProcessedIntent(r) # None =>
        (rows[r].blocked = "BLOCKED" <=> r \in Undeployable(processed))

(***************************************************************************)
(* RestartMissesNoUpdate is inductive together with this: what the         *)
(* scheduler keeps in memory holds while a process runs, and there is none *)
(* of it otherwise; what is blocked is so by the recorded version, in the  *)
(* database, and by the version that is to be recorded, in the model.      *)
(***************************************************************************)
RestartInvariant ==
    /\ PersistenceInvariant
    /\ phase = "down" => Asleep
    /\ phase # "down" => Foundation
    /\ RowsBlocked
    /\ recording # None => Represents(model, Seqs!Last(unprocessed))
    /\ RestartMissesNoUpdate

\* What is read back blocks the resources that the recorded version makes undeployable.
LEMMA RestoredBlocked ==
    ASSUME PersistenceTypeOK, DatabaseFollows, RowsBlocked, NEW m, Restored(m), processed # None
    PROVE  /\ Represents(m, processed)
           /\ is_blocked(m) = Undeployable(processed)
  <1>1. /\ managed(m) = Present(processed)
        /\ \A r \in Present(processed) :
             /\ ProcessedIntent(r) # None /\ r \in Resources
             /\ m.resource_state[r].compliance = restored_compliance(rows[r])
             /\ m.resource_state[r].blocked = rows[r].blocked
    BY DEF Restored, ProcessedIntent, managed, Present
  <1>2. \A r \in Present(processed) : rows[r].undefined <=> r \in processed.undefined
    BY <1>1 DEF DatabaseFollows
  <1>3. \A r : r \in is_undefined(m) <=> r \in Present(processed) /\ r \in processed.undefined
    BY <1>1, <1>2 DEF is_undefined, restored_compliance
  <1>4. Represents(m, processed)
    BY <1>3 DEF Represents, Restored, ProcessedIntent, Present
  <1>5. \A r \in Present(processed) : m.resource_state[r].blocked = "BLOCKED" <=> r \in Undeployable(processed)
    BY <1>1 DEF RowsBlocked
  <1>6. Undeployable(processed) \subseteq Present(processed)
    BY UndeployableClosed
  <1> QED BY <1>1, <1>4, <1>5, <1>6 DEF is_blocked

\* What is read back says what is known of each resource.
LEMMA RestoredKnown ==
    ASSUME PersistenceTypeOK, DatabaseFollows, NEW m, Restored(m), NEW r \in managed(m)
    PROVE  KnownState(m, r)
  <1>1. r \in Resources /\ m.intent[r] # None
    BY DEF managed
  <1>2. PICK row \in Rows : row = rows[r]
    BY <1>1 DEF Restored, DatabaseFollows, HasRow, PersistenceTypeOK
  <1>3. PICK s \in ResourceStates : s = m.resource_state[r]
    BY <1>1 DEF Restored, Models
  <1>4. /\ s.compliance = restored_compliance(row) /\ s.blocked = row.blocked
        /\ s.last_handler_run = row.last_handler_run
        /\ s.last_deployed = (row.deployed # None)
        /\ row.blocked = "NOT_BLOCKED" /\ is_dirty(s) => r \in m.dirty
    BY <1>1, <1>2, <1>3 DEF Restored
  <1>5. row.blocked \in {"BLOCKED", "NOT_BLOCKED"}
    BY <1>2 DEF Rows
  <1>6. s.compliance = "COMPLIANT" => s.last_handler_run # "NEW" /\ s.last_deployed
    BY <1>4 DEF restored_compliance
  <1>7. ~s.last_deployed => s.compliance \in {"HAS_UPDATE", "UNDEFINED"}
    BY <1>4 DEF restored_compliance
  <1>8. s.blocked # "BLOCKED" /\ s.compliance \in {"HAS_UPDATE", "NON_COMPLIANT"} => r \in m.dirty
    BY <1>4, <1>5 DEF is_dirty
  <1>9. s.blocked = "NOT_BLOCKED" => s.blocked # "BLOCKED"
    OBVIOUS
  <1> QED BY <1>3, <1>6, <1>7, <1>8, <1>9 DEF KnownState

\* A model that is restored is a foundation to start from.
LEMMA RestartFoundation ==
    ASSUME PersistenceInvariant, PersistenceInvariant', RowsBlocked, Asleep, Restart
    PROVE  Foundation'
  <1>1. PersistenceTypeOK /\ DatabaseFollows /\ TypeOK'
    BY DEF PersistenceInvariant, PersistenceTypeOK
  <1>2. PICK m : m = model' /\ Restored(m)
    BY <1>1, RestartRestores
  <1>3. /\ work' = EmptyWork /\ runner' = [a \in Agents |-> IdleRunner]
        /\ deploying_latest' = {} /\ deploying_unmanaged' = {}
    BY DEF Asleep, Restart
  <1>4. /\ \A x \in Agents : runner'[x].pc = "idle"
        /\ scheduled(work') = {}
    BY <1>3 DEF IdleRunner, EmptyWork, scheduled
  <1>5. PICK w \in Releases \cup {EmptyVersion} :
          /\ Represents(m, w) /\ is_blocked(m) = Undeployable(w)
    <2>1. CASE processed # None
      BY <1>1, <1>2, <2>1, RestoredBlocked DEF PersistenceTypeOK
    <2>2. CASE processed = None
      <3>1. \A r \in Resources : /\ m.intent[r] = None /\ m.requires[r] = {}
                                 /\ EmptyVersion.intent[r] = None
        BY <1>2, <2>2 DEF Restored, ProcessedIntent, EmptyVersion
      <3>2. managed(m) = {} /\ Present(EmptyVersion) = {}
        BY <3>1 DEF managed, Present
      <3>3. Represents(m, EmptyVersion)
        BY <3>1, <3>2 DEF Represents, is_undefined
      <3>4. is_blocked(m) = {} /\ Undeployable(EmptyVersion) = {}
        BY <3>2, UndeployableClosed DEF is_blocked
      <3> QED BY <3>3, <3>4
    <2> QED BY <2>1, <2>2
  <1>6. BlockedIsUndeployable'
    BY <1>2, <1>5 DEF BlockedIsUndeployable
  <1>7. is_undefined(m) \subseteq is_blocked(m)
    <2>1. is_undefined(m) \subseteq Present(w) \cap w.undefined
      BY <1>5 DEF Represents, is_undefined, managed
    <2> QED BY <1>5, <2>1, UndeployableClosed
  <1>8. m.dirty \cap is_blocked(m) = {}
    BY <1>2 DEF Restored, is_blocked, managed
  <1>9. BlockedInvariant'
    BY <1>2, <1>3, <1>4, <1>7, <1>8 DEF BlockedInvariant, BlockedNotScheduled
  <1>10. DeployingInvariant'
    BY <1>3, <1>4 DEF DeployingInvariant
  <1>11. \A r \in managed(m) : KnownState(m, r)
    BY <1>1, <1>2, RestoredKnown
  <1>12. DirtyInvariant'
    BY <1>2, <1>4, <1>11 DEF DirtyInvariant
  <1> QED BY <1>1, <1>6, <1>9, <1>10, <1>12 DEF Foundation

\* A batch that re-creates nothing is a new version like any other.
LEMMA AppliedPlain ==
    ASSUME OrderlyReleases, Foundation, NEW batch \in Seq(Releases), batch # <<>>, NEW first,
           version' \in 0..MaxVersions, recreated_by(batch) = {}, apply_versions(batch, first)
    PROVE  PlainVersionStep /\ Represents(model', Seqs!Last(batch))
  <1> DEFINE v == Seqs!Last(batch)
             reverted == reverted_by(batch)
             c == intent_changes(model, v, recreated_by(batch), reverted)
  <1>1. v \in Releases
    BY LastOfBatch
  <1>2. \E out \in updated_models(model, v, c, recreated_by(batch)) :
          process_version(v, recreated_by(batch), reverted, out)
    BY Zenon DEF apply_versions
  <1>3. ProcessVersions(v, recreated_by(batch), reverted)
    BY <1>2 DEF ProcessVersions
  <1>4. reverted \in SUBSET Resources
    BY ManagedType DEF reverted_by
  <1> HIDE DEF v, reverted
  <1>5. ProcessVersions(v, {}, reverted)
    BY <1>3
  <1>6. PlainVersionStep
    BY <1>1, <1>4, <1>5 DEF PlainVersionStep
  <1>7. TypeOK /\ ClosedReleases /\ Follows(model)
    BY FoundationFollows DEF Foundation, OrderlyReleases
  <1>8. Represents(model', v)
    BY <1>1, <1>4, <1>5, <1>7, NewVersionFollows
  <1> QED BY <1>6, <1>8 DEF v

\* So is what is blocked in the database, unless rows of what was recorded change.
LEMMA RowsBlockedStay ==
    ASSUME RowsBlocked, processed' = processed,
           \A r \in Resources : ProcessedIntent(r) # None => rows'[r].blocked = rows[r].blocked
    PROVE  RowsBlocked'
  <1>1. \A r : ProcessedIntent(r)' = ProcessedIntent(r)
    BY DEF ProcessedIntent
  <1>2. Undeployable(processed') = Undeployable(processed)
    OBVIOUS
  <1> QED BY <1>1, <1>2 DEF RowsBlocked

\* The versions a scheduler reads, with its model in sync, leave no update without a deploy.
LEMMA ReadMissesNoUpdate ==
    ASSUME ~DbMayFail, OrderlyReleases, RestartInvariant, PersistenceInvariant', Foundation,
           NEW batch \in Seq(Releases), batch # <<>>, NEW first,
           recreated_by(batch) = {}, apply_versions(batch, first),
           \A x \in Agents : runner'[x].pc # "raised",
           unprocessed' # <<>>, Seqs!Last(unprocessed') = Seqs!Last(batch),
           rows' = rows \/ rows' = populate_for_version(Seqs!Last(batch)),
           processed' = processed, phase' # "down"
    PROVE  RestartInvariant'
  <1>1. version' \in 0..MaxVersions
    BY DEF PersistenceInvariant, PersistenceTypeOK, TypeOK
  <1>2. PlainVersionStep /\ Represents(model', Seqs!Last(batch))
    BY <1>1, AppliedPlain
  <1>3. [ReportedStep]_vars
    BY <1>2 DEF ReportedStep, PlainStep
  <1>4. Foundation'
    BY <1>3, FoundationStep
  <1>5. UpdatesGetDeployed'
    BY <1>2, <1>4, NewVersionUpdates
  <1>6. PersistenceTypeOK /\ DatabaseFollows /\ RowsBlocked
    BY DEF RestartInvariant, PersistenceInvariant
  <1>7. PICK v \in Releases : v = Seqs!Last(batch)
    BY LastOfBatch
  <1>8. \A r \in Resources : rows[r] # None => rows'[r] = rows[r]
    BY <1>6, <1>7, PopulatedRows
  <1>9. RowsBlocked'
    BY <1>6, <1>8, RowsBlockedStay DEF DatabaseFollows, HasRow
  <1> QED BY <1>2, <1>4, <1>5, <1>9 DEF RestartInvariant, RestartMissesNoUpdate, initialized

\* A step in memory, and the transactions that leave what is blocked alone.
LEMMA PlainMissesNoUpdate ==
    ASSUME ~DbMayFail, OrderlyReleases, RestartInvariant, PersistenceInvariant', Foundation,
           [OtherStep]_vars, \A x \in Agents : runner'[x].pc # "raised",
           UNCHANGED <<processed, unprocessed>>, recording' \in {recording, None},
           RowsKept, phase' # "down",
           phase' \in {"read", "up"} => UpdatesGetDeployed \/ UpdatesGetDeployed'
    PROVE  RestartInvariant'
  <1>1. [ReportedStep]_vars
    BY DEF ReportedStep, PlainStep
  <1>2. Foundation'
    BY <1>1, FoundationStep
  <1>3. UpdatesGetDeployed => UpdatesGetDeployed'
    BY <1>1, <1>2, UpdatesStep
  <1>4. DatabaseFollows /\ RowsBlocked /\ TypeOK
    BY DEF RestartInvariant, PersistenceInvariant, PersistenceTypeOK
  <1>5. RowsBlocked'
    BY <1>4, RowsBlockedStay DEF RowsKept, DatabaseFollows, HasRow
  <1>6. SameVersion
    BY <1>4, OtherStepModel
  <1>7. recording # None => Represents(model', Seqs!Last(unprocessed))
    BY <1>6 DEF RestartInvariant, Represents, SameVersion
  <1> QED BY <1>2, <1>3, <1>5, <1>7 DEF RestartInvariant, RestartMissesNoUpdate, initialized

\* The deploy at the start of a process schedules every update that was restored.
LEMMA StartMissesNoUpdate ==
    ASSUME Foundation, DeployAtStart
    PROVE  UpdatesGetDeployed'
  <1>1. TypeOK /\ DirtyInvariant /\ DeployingInvariant
    BY DEF Foundation
  <1>2. Deploy(Resources) \/ (model.dirty = {} /\ UNCHANGED vars)
    BY DEF DeployAtStart
  <1>3. model' = model /\ runner' = runner /\ deploying_latest' = deploying_latest
    BY <1>2 DEF Deploy, vars
  <1>4. model.dirty \subseteq scheduled(work') \cup deploying_latest
    <2>1. CASE Deploy(Resources)
      <3>1. PICK S \in SUBSET Resources : S = model.dirty
        BY <1>1 DEF TypeOK, Models
      <3>2. model.dirty \cap Resources = S
        BY <3>1
      <3>3. work' = deploy_with_context(work, model.requires, DeployRequest(S, deploying_latest))
        BY <2>1, <3>2 DEF Deploy
      <3>4. S \subseteq scheduled(work') \cup deploying_latest'
        BY <1>1, <1>3, <3>3, RequestEffect
      <3> QED BY <1>3, <3>1, <3>4
    <2>2. CASE model.dirty = {}
      BY <2>2
    <2> QED BY <1>2, <2>1, <2>2
  <1>5. ASSUME NEW r \in managed(model') \ is_blocked(model'),
               model'.resource_state[r].compliance = "HAS_UPDATE"
        PROVE  r \in scheduled(work') \cup committed'
    <2>1. r \in managed(model) /\ r \in Resources /\ model.resource_state[r].blocked # "BLOCKED"
      BY <1>3, <1>5 DEF managed, is_blocked
    <2>2. r \in model.dirty
      BY <1>1, <1>3, <1>5, <2>1 DEF DirtyInvariant, KnownState
    <2>3. r \in deploying_latest => r \in committed'
      BY <1>1, <1>3, <2>1, ConstantsAssumption DEF DeployingInvariant, committed
    <2> QED BY <1>4, <2>2, <2>3
  <1> QED BY <1>5 DEF UpdatesGetDeployed

\* The transaction writes what the new version blocks.
LEMMA RecordMissesNoUpdate ==
    ASSUME ~DbMayFail, OrderlyReleases, RestartInvariant, PersistenceInvariant', RecordVersion
    PROVE  RestartInvariant'
  <1>1. /\ recording # None /\ UNCHANGED <<vars, phase>> /\ recording' = None
        /\ processed' = Seqs!Last(unprocessed) /\ unprocessed' = <<>>
    BY DEF RecordVersion
  <1>2. phase \in {"read", "up"}
    BY <1>1 DEF RestartInvariant, PersistenceInvariant, WillRecord
  <1>3. Foundation /\ UpdatesGetDeployed
    BY <1>2 DEF RestartInvariant, RestartMissesNoUpdate, initialized
  <1>4. Foundation'
    BY <1>1, <1>3, FoundationStep
  <1>5. UpdatesGetDeployed'
    BY <1>1, <1>3, <1>4, UpdatesStep
  <1>6. InSync' /\ processed' \in Releases \cup {None}
    BY <1>1, <1>2 DEF PersistenceInvariant, PersistenceTypeOK
  <1>7. PICK v, w : /\ v = processed' /\ Represents(model, v)
                    /\ Represents(model, w) /\ is_blocked(model) = Undeployable(w)
    BY <1>1, <1>3 DEF Foundation, BlockedIsUndeployable, RestartInvariant
  <1>8. is_blocked(model) = Undeployable(v)
    BY <1>7, UndeployableDepends
  <1>9. ASSUME NEW r \in Resources, ProcessedIntent(r)' # None
        PROVE  rows'[r].blocked = "BLOCKED" <=> r \in Undeployable(v)
    <2>1. model'.intent[r] # None /\ model' = model
      BY <1>1, <1>6, <1>9 DEF InSync, vars
    <2>2. r \in managed(model)
      BY <2>1 DEF managed
    <2>3. rows'[r].blocked = db_value(model.resource_state[r].blocked)
      BY <1>6, <2>1, <2>2 DEF InSync, ColumnsFollow
    <2>4. rows'[r].blocked = "BLOCKED" <=> r \in is_blocked(model)
      BY <2>2, <2>3 DEF db_value, is_blocked
    <2> QED BY <1>8, <2>4
  <1>10. RowsBlocked'
    BY <1>7, <1>9 DEF RowsBlocked
  <1> QED BY <1>1, <1>2, <1>4, <1>5, <1>10 DEF RestartInvariant, RestartMissesNoUpdate

\* A kill leaves nothing in memory.
LEMMA CrashMissesNoUpdate ==
    ASSUME RestartInvariant, PersistenceInvariant', Crash
    PROVE  RestartInvariant'
  <1>1. /\ phase' = "down" /\ recording' = None /\ processed' = processed /\ rows' = rows
        /\ Asleep'
    BY DEF Crash, Asleep
  <1>2. RowsBlocked'
    BY <1>1, RowsBlockedStay DEF RestartInvariant
  <1> QED BY <1>1, <1>2 DEF RestartInvariant, RestartMissesNoUpdate, initialized

\* A restart reads all of it back.
LEMMA RestartMisses ==
    ASSUME RestartInvariant, PersistenceInvariant', Restart
    PROVE  RestartInvariant'
  <1>1. /\ phase = "down" /\ phase' = "starting" /\ processed' = processed /\ rows' = rows
        /\ recording' = recording
    BY DEF Restart
  <1>2. recording = None /\ Asleep /\ PersistenceInvariant /\ RowsBlocked
    BY <1>1 DEF RestartInvariant, PersistenceInvariant, WillRecord
  <1>3. Foundation'
    BY <1>2, RestartFoundation
  <1>4. RowsBlocked'
    BY <1>1, <1>2, RowsBlockedStay
  <1> QED BY <1>1, <1>2, <1>3, <1>4 DEF RestartInvariant, RestartMissesNoUpdate, initialized

\* The timers have no part in it.
LEMMA TimersMissNoUpdate ==
    ASSUME RestartInvariant, PersistenceInvariant', InitializeTimers
    PROVE  RestartInvariant'
  <1>1. /\ phase = "read" /\ phase' = "up"
        /\ UNCHANGED <<model, work, runner, deploying_latest, deploying_unmanaged,
                       processed, unprocessed, recording, rows>>
    BY DEF InitializeTimers
  <1>2. Foundation /\ UpdatesGetDeployed
    BY <1>1 DEF RestartInvariant, RestartMissesNoUpdate, initialized
  <1>3. TypeOK'
    BY DEF PersistenceInvariant, PersistenceTypeOK
  <1>4. BlockedInvariant' /\ BlockedIsUndeployable'
    BY <1>1, <1>2 DEF Foundation, BlockedInvariant, BlockedNotScheduled, BlockedIsUndeployable
  <1>5. DeployingInvariant' /\ DirtyInvariant'
    BY <1>1, <1>2 DEF Foundation, DeployingInvariant, DirtyInvariant
  <1>6. UpdatesGetDeployed'
    BY <1>1, <1>2 DEF UpdatesGetDeployed, committed
  <1>7. RowsBlocked'
    BY <1>1, RowsBlockedStay DEF RestartInvariant
  <1>8. recording' # None => Represents(model', Seqs!Last(unprocessed'))
    BY <1>1 DEF RestartInvariant
  <1> QED BY <1>1, <1>2, <1>3, <1>4, <1>5, <1>6, <1>7, <1>8
          DEF RestartInvariant, Foundation, RestartMissesNoUpdate

\* A running scheduler that reads a version re-creates nothing.
LEMMA ReadVersionMisses ==
    ASSUME ~DbMayFail, OrderlyReleases, RestartInvariant, PersistenceInvariant',
           \A x \in Agents : runner'[x].pc # "raised", NEW v \in Releases, ReadVersion(v)
    PROVE  RestartInvariant'
  <1>1. PICK batch \in Seq(Releases) : /\ batch = <<v>> /\ batch # <<>> /\ Seqs!Last(batch) = v
                                       /\ Len(batch) = 1
    BY BatchOfOne
  <1>2. PICK first : first = (processed = None /\ unprocessed = <<>>)
    OBVIOUS
  <1>3. /\ apply_versions(batch, first) /\ rows' = populate_for_version(v)
        /\ unprocessed' = Append(unprocessed, v) /\ processed' = processed
        /\ phase \in {"read", "up"} /\ phase' = phase
    BY <1>1, <1>2 DEF ReadVersion
  <1>4. Foundation
    BY <1>3 DEF RestartInvariant
  <1>5. unprocessed \in Seq(Releases)
    BY DEF RestartInvariant, PersistenceInvariant, PersistenceTypeOK
  <1>6. unprocessed' # <<>> /\ Seqs!Last(unprocessed') = v
    <2>1. /\ Append(unprocessed, v) \in Seq(Releases)
          /\ Len(Append(unprocessed, v)) = Len(unprocessed) + 1 /\ Len(unprocessed) \in Nat
          /\ Append(unprocessed, v)[Len(unprocessed) + 1] = v
      BY <1>5
    <2>2. Append(unprocessed, v) # <<>>
      BY <2>1
    <2> QED BY <1>3, <2>1, <2>2 DEF Seqs!Last
  <1>7. recreated_by(batch) = {}
    <2>1. \A i \in DOMAIN batch : batch[i] = v
      BY <1>1
    <2>2. \A r \in managed(model) : r \in Resources
      BY ManagedType
    <2> QED BY <1>1, <2>1, <2>2 DEF recreated_by
  <1> QED BY <1>1, <1>3, <1>4, <1>6, <1>7, ReadMissesNoUpdate

\* One that was restarted reads all that was not recorded.
LEMMA ReadUnprocessedMisses ==
    ASSUME ~DbMayFail, OrderlyReleases, RestartInvariant, PersistenceInvariant',
           \A x \in Agents : runner'[x].pc # "raised",
           recreated_by(unprocessed') = {},
           NEW released, released = <<>> \/ \E v \in Releases : released = <<v>>,
           ReadUnprocessed(released)
    PROVE  RestartInvariant'
  <1>1. /\ unprocessed \in Seq(Releases) /\ PersistenceInvariant
        /\ Foundation
    BY DEF RestartInvariant, PersistenceInvariant, PersistenceTypeOK, ReadUnprocessed
  <1>2. released \in Seq(Releases)
    <2>1. CASE released = <<>>
      BY <2>1
    <2>2. CASE \E v \in Releases : released = <<v>>
      BY <2>2, BatchOfOne
    <2> QED BY <2>1, <2>2
  <1>3. PICK all \in Seq(Releases) : all = unprocessed \o released /\ all # <<>> /\ unprocessed' = all
    BY <1>1, <1>2, ConcatProperties DEF ReadUnprocessed
  <1>4. PICK batch \in Seq(Releases) :
          /\ batch = (IF processed = None THEN <<Seqs!Last(all)>> ELSE all)
          /\ batch # <<>> /\ Seqs!Last(batch) = Seqs!Last(all)
    <2>1. PICK v \in Releases : v = Seqs!Last(all)
      BY <1>3, LastOfBatch
    <2> QED BY <1>3, <2>1, BatchOfOne
  <1>5. PICK first : first = (processed = None)
    OBVIOUS
  <1>6. /\ apply_versions(batch, first) /\ processed' = processed /\ phase = "starting" /\ phase' = "read"
        /\ IF released = <<>> THEN rows' = rows ELSE rows' = populate_for_version(Seqs!Last(all))
    BY <1>3, <1>4, <1>5 DEF ReadUnprocessed
  <1>7. recreated_by(batch) = {}
    <2>1. CASE processed = None
      <3>1. InSync
        BY <1>1, <1>6 DEF PersistenceInvariant
      <3>2. managed(model) = {}
        BY <2>1, <3>1 DEF InSync, ProcessedIntent, managed
      <3> QED BY <3>2 DEF recreated_by
    <2>2. CASE processed # None
      BY <1>3, <1>4, <2>2
    <2> QED BY <2>1, <2>2
  <1> QED BY <1>1, <1>3, <1>4, <1>6, <1>7, ReadMissesNoUpdate

\* An empty environment has no update.
LEMMA InitRestart == PersistenceInit => RestartInvariant
  <1> SUFFICES ASSUME PersistenceInit PROVE RestartInvariant
    OBVIOUS
  <1>1. /\ Init /\ phase = "up" /\ processed = None /\ recording = None
    BY DEF PersistenceInit
  <1>2. PersistenceInvariant /\ Foundation
    BY <1>1, InitPersistence, InitFoundation
  <1>3. RowsBlocked
    BY <1>1 DEF RowsBlocked, ProcessedIntent
  <1>4. managed(model) = {}
    BY <1>1 DEF Init, EmptyModel, managed
  <1>5. UpdatesGetDeployed
    BY <1>4 DEF UpdatesGetDeployed
  <1> QED BY <1>1, <1>2, <1>3, <1>5 DEF RestartInvariant, RestartMissesNoUpdate

\* Every step of these behaviours keeps the invariant, one case per action.
LEMMA RestartInvariantStep ==
    ASSUME ~ReadAfterFailure, ~DbMayFail, OrderlyReleases, RestartInvariant, [PersistedStep]_all_vars
    PROVE  RestartInvariant'
  <1> DEFINE Quiet == \A x \in Agents : runner'[x].pc # "raised"
  <1>1. PersistenceInvariant /\ PersistenceInvariant'
    <2>1. [PersistenceNext]_all_vars /\ PersistenceInvariant
      BY DEF PersistedStep, RestartInvariant
    <2> QED BY <2>1, PersistenceStep
  <1>2. /\ phase # "down" => Foundation
        /\ phase \in {"read", "up"} => UpdatesGetDeployed
    BY DEF RestartInvariant, RestartMissesNoUpdate, initialized
  <1>3. rows' = rows => RowsKept
    BY DEF RowsKept
  <1>4. Quiet \/ UNCHANGED all_vars
    BY DEF PersistedStep
  <1>5. ASSUME Quiet, InMemory PROVE RestartInvariant'
    <2>1. OtherStep
      BY <1>5, ConstantsAssumption DEF InMemory, OtherStep, RunnerStep
    <2>2. phase # "down" /\ UNCHANGED <<phase, processed, unprocessed, recording, rows>>
      BY <1>5 DEF InMemory, db_vars
    <2> QED BY <1>1, <1>2, <1>3, <1>5, <2>1, <2>2, PlainMissesNoUpdate
  <1>6. ASSUME Quiet, NEW a \in Agents, DeployStep(a) PROVE RestartInvariant'
    <2>1. OtherStep /\ UNCHANGED <<phase, processed, unprocessed, recording>>
      BY <1>6, DeployStepIsOther
    <2>2. phase # "down"
      <3> SUFFICES ASSUME phase = "down" PROVE FALSE
        OBVIOUS
      <3>1. runner[a].pc = "idle"
        BY DEF RestartInvariant, Asleep, IdleRunner
      <3> QED BY <1>6, <3>1 DEF DeployStep, Start, Finish, Done, DeployStart, FinishDeploy,
                               DeployDoneUnmanaged, DeployDoneStale, DeployDoneLatest, DeployDoneRaises
    <2>3. RowsKept
      BY <1>1, <1>6, DeployStepRows DEF PersistenceInvariant
    <2> QED BY <1>1, <1>2, <1>6, <2>1, <2>2, <2>3, PlainMissesNoUpdate
  <1>7. CASE Quiet /\ \E v \in Releases : ReadVersion(v)
    BY <1>1, <1>7, ReadVersionMisses
  <1>8. CASE RecordVersion
    BY <1>1, <1>8, RecordMissesNoUpdate
  <1>9. CASE Quiet /\ RecordVersionFails
    <2>1. /\ UNCHANGED <<vars, processed, unprocessed, rows>> /\ recording # None /\ recording' = None
          /\ phase' = "up"
      BY <1>9 DEF RecordVersionFails
    <2>2. phase \in {"read", "up"}
      BY <1>1, <2>1 DEF PersistenceInvariant, WillRecord
    <2> QED BY <1>1, <1>2, <1>3, <1>9, <2>1, <2>2, PlainMissesNoUpdate
  <1>10. CASE Crash
    BY <1>1, <1>10, CrashMissesNoUpdate
  <1>11. CASE Restart
    BY <1>1, <1>11, RestartMisses
  <1>12. ASSUME Quiet, recreated_by(unprocessed') = {} \/ unprocessed' = <<>>,
                NEW released, released = <<>> \/ \E v \in Releases : released = <<v>>,
                ReadUnprocessed(released)
         PROVE  RestartInvariant'
    <2>1. unprocessed' # <<>>
      BY <1>12 DEF ReadUnprocessed
    <2> QED BY <1>1, <1>12, <2>1, ReadUnprocessedMisses
  <1>13. CASE Quiet /\ DeployAtStart
    <2>1. [OtherStep]_vars
      BY <1>13 DEF DeployAtStart, OtherStep
    <2>2. /\ phase = "starting" /\ phase' = "read"
          /\ UNCHANGED <<processed, unprocessed, recording, rows>>
      BY <1>13 DEF DeployAtStart
    <2>3. Foundation /\ UpdatesGetDeployed'
      BY <1>2, <1>13, <2>2, StartMissesNoUpdate
    <2> QED BY <1>1, <1>3, <1>13, <2>1, <2>2, <2>3, PlainMissesNoUpdate
  <1>14. CASE InitializeTimers
    BY <1>1, <1>14, TimersMissNoUpdate
  <1>15. CASE UNCHANGED all_vars
    <2>1. UNCHANGED <<model, work, runner, deploying_latest, deploying_unmanaged, timers, triggers,
                      db_deploying, device, version, phase, processed, unprocessed, recording, rows>>
      BY <1>15 DEF all_vars, vars, db_vars
    <2>2. Foundation' <=> Foundation
      BY <2>1 DEF Foundation, TypeOK, BlockedInvariant, BlockedNotScheduled, DeployingInvariant,
                  DirtyInvariant, BlockedIsUndeployable
    <2>3. UpdatesGetDeployed' <=> UpdatesGetDeployed
      BY <2>1 DEF UpdatesGetDeployed, committed
    <2>4. RowsBlocked'
      BY <2>1, RowsBlockedStay DEF RestartInvariant
    <2>5. Asleep' <=> Asleep
      BY <2>1 DEF Asleep
    <2>6. recording' # None => Represents(model', Seqs!Last(unprocessed'))
      BY <2>1 DEF RestartInvariant
    <2> QED BY <1>1, <1>2, <2>1, <2>2, <2>3, <2>4, <2>5, <2>6
            DEF RestartInvariant, RestartMissesNoUpdate, initialized
  <1>16. CASE PersistedStep
    <2>1. /\ Quiet /\ PersistenceNext
          /\ phase = "starting" /\ phase' = "read" => unprocessed' = <<>> \/ recreated_by(unprocessed') = {}
      BY <1>16 DEF PersistedStep
    <2>2. ASSUME NEW released \in {<<>>} \cup {<<v>> : v \in Releases}, ReadUnprocessed(released)
          PROVE  RestartInvariant'
      <3>1. phase = "starting" /\ phase' = "read"
        BY <2>2 DEF ReadUnprocessed
      <3>2. released = <<>> \/ \E v \in Releases : released = <<v>>
        OBVIOUS
      <3> QED BY <1>12, <2>1, <2>2, <3>1, <3>2
    <2> HIDE DEF Quiet
    <2> QED BY <1>5, <1>6, <1>7, <1>8, <1>9, <1>10, <1>11, <1>13, <1>14, <2>1, <2>2
            DEF PersistenceNext, Initialize
  <1> QED BY <1>15, <1>16

(***************************************************************************)
(* No update is missed over a restart: whatever versions, deploys, failed  *)
(* transactions, kills and restarts interleave, a scheduler that is        *)
(* initialised has scheduled each update that may be deployed, or a runner *)
(* is committed to it (_initialize: the versions that no transaction       *)
(* recorded are read, or all that was restored dirty is deployed).  It is  *)
(* about the behaviours in which no report raises and nothing comes back   *)
(* within the versions that a restarted scheduler reads at once.           *)
(***************************************************************************)
THEOREM RestartsMissNoUpdate ==
    ASSUME ~ReadAfterFailure, ~DbMayFail, OrderlyReleases
    PROVE  PersistedSpec => [](RestartInvariant /\ RestartMissesNoUpdate)
  <1>1. RestartInvariant /\ [PersistedStep]_all_vars => RestartInvariant'
    BY RestartInvariantStep
  <1>2. RestartInvariant => RestartMissesNoUpdate
    BY DEF RestartInvariant
  <1> QED BY <1>1, <1>2, InitRestart, PTL DEF PersistedSpec
=============================================================================
