------------------------ MODULE SchedulerPersistence ------------------------
(***************************************************************************)
(* The resource scheduler together with what it keeps in the database      *)
(* (deploy/persistence.py, ResourcePersistentState and Scheduler in        *)
(* data/__init__.py), a scheduler process that may be killed at any        *)
(* moment, and the next one, which restores the model state from the       *)
(* database (ModelState.create_from_db, ResourceScheduler._initialize).    *)
(*                                                                         *)
(* A new version is applied in memory first (process_version) and written  *)
(* in a transaction of its own later; so is the result of a deploy.  What  *)
(* runs in between sees a database that lags behind.                       *)
(*                                                                         *)
(* A version is released right before the scheduler reads it, or while no  *)
(* scheduler runs.  A graceful stop lets the running deploys finish and    *)
(* then loses the same state as a kill: it is a kill at a quiet moment.    *)
(***************************************************************************)
EXTENDS ResourceScheduler, Sequences

Seqs == INSTANCE SequencesExt

CONSTANTS
    MaxCrashes,         \* bound: number of times the process is killed
    ReadAfterFailure    \* may a scheduler read a version after the transaction of one failed?

ASSUME PersistenceAssumption == MaxCrashes \in Nat /\ ReadAfterFailure \in BOOLEAN

VARIABLES
    phase,          \* of the scheduler process: down, starting (restored), read, up
    processed,      \* the version last_processed_model_version names, or None
    unprocessed,    \* the versions released since, as far as a scheduler read them
    recording,      \* the transaction _new_version has yet to do, or None
    rows,           \* resource_persistent_state, a row or None per resource
    report,         \* per agent: what deploy_done holds until it is written
    crashes,        \* bound: number of kills so far
    unrecorded      \* history: the resources whose last deploy left no result in their row

db_vars == <<phase, processed, unprocessed, recording, rows, report, crashes, unrecorded>>
all_vars == <<vars, db_vars>>

\* intent: current_intent_attribute_hash; deployed: last_deployed_attribute_hash, set
\* together with last_handler_run_at and last_produced_events; behind: the resources
\* whose last_produced_events is later than the last_success of this one.
Rows == [intent : Hashes, undefined : BOOLEAN, orphaned : BOOLEAN,
         blocked : {"BLOCKED", "NOT_BLOCKED"}, deployed : Hashes \cup {None},
         last_handler_run : HandlerResults, last_handler_run_compliant : BOOLEAN \cup {None},
         behind : SUBSET Resources]

\* success: the report says deployed; run, compliant: of the state that is written,
\* None without one; the rest compares the time stamps of the deploy of each agent with
\* others.  since: the resources whose last_produced_events is after its start; newer:
\* the agents whose deploy started after it finished, superseded: the resources whose
\* last_success did.
ReportRecords == [success : BOOLEAN, run : HandlerResults \cup {None},
                  compliant : BOOLEAN \cup {None}, since : SUBSET Resources,
                  newer : SUBSET Agents, superseded : SUBSET Resources]

NoReport == [success |-> FALSE, run |-> None, compliant |-> None, since |-> {},
             newer |-> {}, superseded |-> {}]

Recordings == [changed : SUBSET Resources, deleted : SUBSET Resources]

ASSUME NoneIsNoRecord == None \notin Releases /\ None \notin Rows /\ None \notin Recordings

\* The first scheduler starts on an empty environment.
PersistenceInit ==
    /\ Init
    /\ phase = "up"
    /\ processed = None
    /\ unprocessed = <<>>
    /\ recording = None
    /\ rows = [r \in Resources |-> None]
    /\ report = [a \in Agents |-> NoReport]
    /\ crashes = 0
    /\ unrecorded = {}

-----------------------------------------------------------------------------
(* The rows of resource_persistent_state *)

\* Blocked.db_value.
db_value(blocked) == IF blocked = "TEMPORARILY_BLOCKED" THEN "NOT_BLOCKED" ELSE blocked

\* The resources whose last_produced_events create_from_db may compare for r.
watched(r) == IF r \in Receivers THEN Senders ELSE {}

\* populate_for_version, at release: a row for every resource that never had one.
populate_for_version(v) ==
    [r \in Resources |->
        IF rows[r] = None /\ v.intent[r] # None
        THEN [intent |-> v.intent[r], undefined |-> r \in v.undefined, orphaned |-> FALSE,
              blocked |-> IF r \in v.undefined THEN "BLOCKED" ELSE "NOT_BLOCKED",
              deployed |-> None, last_handler_run |-> "NEW", last_handler_run_compliant |-> None,
              behind |-> {d \in watched(r) : rows[d] # None /\ rows[d].deployed # None}]
        ELSE rows[r]]

\* update_resource_intent for the resources `changed', mark_as_orphan for `deleted'.
recorded_rows(changed, deleted) ==
    [r \in Resources |->
        IF r \in changed
        THEN [rows[r] EXCEPT !.intent = model.intent[r], !.orphaned = FALSE,
                             !.undefined = r \in is_undefined(model),
                             !.blocked = db_value(model.resource_state[r].blocked)]
        ELSE IF r \in deleted /\ rows[r] # None THEN [rows[r] EXCEPT !.orphaned = TRUE]
        ELSE rows[r]]

\* update_persistent_state leaves out the columns it is given no value for.
kept(value, old) == IF value = None THEN old ELSE value

\* send_deploy_done by the runner of agent a.  The last_success of a successful deploy is
\* its start.
deployed_rows(a) ==
    LET d == runner[a].resource
        rep == report[a]
        event(r) == IF r \in rep.superseded THEN rows[r].behind \ {d} ELSE rows[r].behind \cup {d}
    IN  [r \in Resources |->
            IF rows[r] = None THEN None
            ELSE IF r # d THEN [rows[r] EXCEPT !.behind = event(r) \cap watched(r)]
            ELSE [rows[d] EXCEPT
                    !.deployed = runner[a].hash,
                    !.behind = IF rep.success THEN rep.since ELSE @,
                    !.last_handler_run = kept(rep.run, @),
                    !.last_handler_run_compliant = kept(rep.compliant, @)]]

\* The time stamps the other running deploys are compared with, once that is written.
deployed_stamps(a) ==
    LET d == runner[a].resource
        since(b) == IF b \in report[a].newer THEN report[b].since \ {d} ELSE report[b].since \cup {d}
    IN  [b \in Agents |->
            IF b = a \/ runner[b].pc \notin {"deploying", "reporting"} THEN NoReport
            ELSE [report[b] EXCEPT
                    !.since = since(b) \cap watched(runner[b].resource),
                    !.superseded = IF report[a].success /\ a \in report[b].newer THEN @ \cup {d} ELSE @]]

-----------------------------------------------------------------------------
(* Restoring the state *)

\* Mutant: the intent that was deployed is not compared with the current one.
any_intent(row) ==
    IF row.undefined THEN "UNDEFINED"
    ELSE IF row.last_handler_run = "NEW" THEN "HAS_UPDATE"
    ELSE IF row.last_handler_run_compliant = TRUE THEN "COMPLIANT" ELSE "NON_COMPLIANT"

\* The compliance create_from_db reads from a row.
restored_compliance(row) ==
    IF row.undefined THEN "UNDEFINED"
    ELSE IF row.last_handler_run = "NEW" \/ row.deployed = None \/ row.intent # row.deployed
         THEN "HAS_UPDATE"
    ELSE IF row.last_handler_run_compliant = TRUE THEN "COMPLIANT" ELSE "NON_COMPLIANT"

\* Mutant: only what is dirty by itself is restored as dirty.
no_missed_event(r) == FALSE

\* A dependency produced an event after the last success of r.
missed_event(r) == processed.requires[r] \cap rows[r].behind # {}

\* ModelState.create_from_db: the last processed version, without its orphans.  A
\* resource that is not dirty by itself is if it missed an event.
create_from_db ==
    LET known == {r \in Resources : processed.intent[r] # None /\ ~rows[r].orphaned}
        state == [r \in Resources |->
                    IF r \notin known THEN NoState
                    ELSE [compliance |-> restored_compliance(rows[r]), blocked |-> rows[r].blocked,
                          last_handler_run |-> rows[r].last_handler_run,
                          last_deployed |-> rows[r].deployed # None,
                          last_handler_run_compliant |-> rows[r].last_handler_run_compliant]]
    IN  [intent |-> [r \in Resources |-> IF r \in known THEN processed.intent[r] ELSE None],
         requires |-> [r \in Resources |-> IF r \in known THEN processed.requires[r] ELSE {}],
         resource_state |-> state,
         dirty |-> {r \in known : /\ state[r].blocked = "NOT_BLOCKED"
                                  /\ is_dirty(state[r]) \/ missed_event(r)}]

-----------------------------------------------------------------------------
(* New versions *)

\* Mutant: resources that are unblocked or blocked by others are not written.
only_changed_intents(c, out) == (c.new \cup c.updated) \ c.deleted

\* The rows _new_version writes: every changed intent, and every blocked state that changed.
resources_to_record(c, out) ==
    (c.new \cup c.updated \cup out.blocked \cup out.unblocked) \ c.deleted

\* The changes that an earlier version of a batch makes to what is managed.
recreated_by(batch) ==
    {r \in managed(model) : \E i \in DOMAIN batch : batch[i].intent[r] = None}
        \ {r \in Resources : Seqs!Last(batch).intent[r] = None}

reverted_by(batch) ==
    {r \in managed(model) : \E i \in DOMAIN batch :
        \/ batch[i].intent[r] # model.intent[r]
        \/ (r \in batch[i].undefined) # (r \in is_undefined(model))} \ recreated_by(batch)

\* The resources a batch leaves behind, those that came and went within it included.  A
\* first version orphans whatever it lacks (mark_all_orphans).
orphaned_by(batch, first) ==
    {r \in Resources : /\ Seqs!Last(batch).intent[r] = None
                       /\ \/ first \/ r \in managed(model)
                          \/ \E i \in DOMAIN batch : batch[i].intent[r] # None}

\* _new_version for a batch of versions, up to its transaction.
apply_versions(batch, first) ==
    LET v == Seqs!Last(batch)
        recreated == recreated_by(batch)
        reverted == reverted_by(batch)
        c == intent_changes(model, v, recreated, reverted)
    IN  \E out \in updated_models(model, v, c, recreated) :
          /\ process_version(v, recreated, reverted, out)
          /\ recording' = [changed |-> resources_to_record(c, out),
                           deleted |-> orphaned_by(batch, first)]

\* A version is released and read_version takes it, under the intent lock.
ReadVersion(v) ==
    /\ phase \in {"read", "up"}
    /\ recording = None
    /\ ReadAfterFailure \/ unprocessed = <<>>
    /\ version < MaxVersions
    /\ version' = version + 1
    /\ apply_versions(<<v>>, processed = None /\ unprocessed = <<>>)
    /\ unprocessed' = Append(unprocessed, v)
    /\ rows' = populate_for_version(v)
    /\ UNCHANGED <<phase, processed, report, crashes, unrecorded>>

\* The transaction at the end of _new_version.
RecordVersion ==
    /\ recording # None
    /\ rows' = recorded_rows(recording.changed, recording.deleted)
    /\ processed' = Seqs!Last(unprocessed)
    /\ unprocessed' = <<>>
    /\ recording' = None
    /\ UNCHANGED <<vars, phase, report, crashes, unrecorded>>

\* It fails: read_version raises, and so does start if _initialize called it.  The agent
\* then stops the scheduler; here it may as well run on without timers, until a kill, which
\* allows more than the code does.  (Bound: not after the last kill.)
RecordVersionFails ==
    /\ recording # None
    /\ crashes < MaxCrashes
    /\ recording' = None
    /\ phase' = "up"
    /\ UNCHANGED <<vars, processed, unprocessed, rows, report, crashes, unrecorded>>

-----------------------------------------------------------------------------
(* Deploys *)

\* deploy_start: the deploy starts later than every report that is to be written.
Start(a) ==
    /\ DeployStart(a)
    /\ report' = [b \in Agents |->
                    IF b = a THEN NoReport
                    ELSE IF runner[b].pc = "reporting" /\ runner[b].resource \in watched(runner[a].resource)
                    THEN [report[b] EXCEPT !.newer = @ \cup {a}]
                    ELSE report[b]]
    /\ UNCHANGED <<phase, processed, unprocessed, recording, rows, crashes, unrecorded>>

\* deploy_done up to its write.  The state that will be written is a copy made here.
Done(a, result) ==
    /\ \/ DeployDoneUnmanaged(a, result) \/ DeployDoneStale(a, result)
       \/ DeployDoneLatest(a, result) \/ DeployDoneRaises(a, result)
    /\ report' = [report EXCEPT ![a] =
         LET r == runner[a].resource
             stale == r \notin managed(model) \/ r \in deploying_unmanaged
         IN  [@ EXCEPT !.success = result = "deployed", !.newer = {}, !.superseded = {},
                       !.run = IF stale THEN None ELSE model'.resource_state[r].last_handler_run,
                       !.compliant = IF stale THEN None
                                     ELSE model'.resource_state[r].last_handler_run_compliant]]
    /\ UNCHANGED <<phase, processed, unprocessed, recording, rows, crashes, unrecorded>>

\* The rest of deploy_done: the row is written in the transaction that ends is_deploying.
Finish(a) ==
    LET written == runner[a].resource \in db_deploying \ db_deploying'
    IN  /\ FinishDeploy(a)
        /\ rows' = IF written THEN deployed_rows(a) ELSE rows
        /\ report' = IF written THEN deployed_stamps(a) ELSE [report EXCEPT ![a] = NoReport]
        /\ unrecorded' = IF written THEN unrecorded \ {runner[a].resource}
                         ELSE unrecorded \cup {runner[a].resource}
        /\ UNCHANGED <<phase, processed, unprocessed, recording, crashes>>

-----------------------------------------------------------------------------
(* Crash and restart *)

\* The process is killed.  A handler that was running may have done nothing, its work,
\* or something in between.
Crash ==
    /\ crashes < MaxCrashes
    /\ phase # "down"
    /\ crashes' = crashes + 1
    /\ phase' = "down"
    /\ recording' = None
    /\ report' = [a \in Agents |-> NoReport]
    /\ LET killed == {a \in Agents : runner[a].pc = "deploying"}
           of(r) == CHOOSE a \in killed : runner[a].resource = r
       IN  device' \in {f \in [Resources -> Hashes \cup {None}] :
              \A r \in Resources :
                f[r] \in IF r \in {runner[a].resource : a \in killed}
                         THEN {device[r], runner[of(r)].hash, None} ELSE {device[r]}}
    /\ unrecorded' = unrecorded \cup
           {runner[a].resource : a \in {b \in Agents : runner[b].pc \in {"deploying", "reporting"}}}
    /\ model' = EmptyModel
    /\ work' = EmptyWork
    /\ runner' = [a \in Agents |-> IdleRunner]
    /\ deploying_latest' = {} /\ deploying_unmanaged' = {}
    /\ timers' = {} /\ triggers' = {}
    /\ UNCHANGED <<db_deploying, version, processed, unprocessed, rows>>

\* The next process: reset_resource_state, and the model state is restored.
Restart ==
    /\ phase = "down"
    /\ phase' = "starting"
    /\ db_deploying' = {}
    /\ model' = IF processed = None THEN EmptyModel ELSE create_from_db
    /\ UNCHANGED <<work, runner, deploying_latest, deploying_unmanaged, timers, triggers, device,
                   version, processed, unprocessed, recording, rows, report, crashes, unrecorded>>

\* read_version in _initialize finds the versions that no transaction recorded, and
\* those released meanwhile.  Without a restored state it reads the last one only.
ReadUnprocessed(released) ==
    LET all == unprocessed \o released
        batch == IF processed = None THEN <<Seqs!Last(all)>> ELSE all
    IN  /\ phase = "starting"
        /\ all # <<>>
        /\ version + Len(released) <= MaxVersions
        /\ version' = version + Len(released)
        /\ apply_versions(batch, processed = None)
        /\ rows' = IF released = <<>> THEN rows ELSE populate_for_version(Seqs!Last(all))
        /\ unprocessed' = all
        /\ phase' = "read"
        /\ UNCHANGED <<processed, report, crashes, unrecorded>>

\* Mutant: a restored state is left to the timers.
left_to_timers ==
    /\ phase = "starting"
    /\ unprocessed = <<>>
    /\ phase' = "read"
    /\ UNCHANGED <<vars, processed, unprocessed, recording, rows, report, crashes, unrecorded>>

\* It finds none: _initialize deploys what is not in a known good state.
DeployAtStart ==
    /\ phase = "starting"
    /\ unprocessed = <<>>
    /\ \/ Deploy(Resources)
       \/ model.dirty = {} /\ UNCHANGED vars
    /\ phase' = "read"
    /\ UNCHANGED <<processed, unprocessed, recording, rows, report, crashes, unrecorded>>

\* TimerManager.initialize, and through it reload_all_timers.
InitializeTimers ==
    /\ phase = "read"
    /\ recording = None
    /\ LET busy == scheduled(work) \cup in_progress
       IN  timers' = update_timers(timers \ busy, model, managed(model) \ busy)
    /\ phase' = "up"
    /\ UNCHANGED <<model, work, runner, deploying_latest, deploying_unmanaged, triggers, db_deploying,
                   device, version, processed, unprocessed, recording, rows, report, crashes, unrecorded>>

-----------------------------------------------------------------------------

\* The steps of a running scheduler that leave the database alone.
InMemory ==
    /\ phase # "down"
    /\ \/ \E S \in Scopes : Deploy(S) \/ Repair(S)
       \/ \E r \in Resources : TimerFires(r) \/ DeployResource(r)
       \/ \E a \in Agents : DeployStartStale(a) \/ DeployStartRaises(a)
       \/ \E a \in Agents, r \in Resources : QueueGet(a, r)
    /\ UNCHANGED db_vars

DeployStep(a) == Start(a) \/ Finish(a) \/ \E result \in Reports : Done(a, result)

Initialize ==
    \/ Restart
    \/ \E released \in {<<>>} \cup {<<v>> : v \in Releases} : ReadUnprocessed(released)
    \/ DeployAtStart \/ InitializeTimers

PersistenceNext ==
    \/ InMemory
    \/ \E a \in Agents : DeployStep(a)
    \/ \E v \in Releases : ReadVersion(v)
    \/ RecordVersion \/ RecordVersionFails
    \/ Crash \/ Initialize

PersistenceSpec == PersistenceInit /\ [][PersistenceNext]_all_vars

-----------------------------------------------------------------------------
(* Properties *)

\* The scheduler is initialised: what was not recorded is read.
initialized == phase \in {"read", "up"}

\* What will still be deployed, or is when somebody asks for a deploy.
planned == model.dirty \cup scheduled(work) \cup in_progress

\* Another intent is deployed, or none is and the database knows of none of this intent.
\* (A redeploy that fails or is killed right before a crash is lost.)
overdue(r) ==
    /\ device[r] # model.intent[r]
    /\ device[r] # None \/ rows[r].deployed # model.intent[r]

\* The last deploy left no result, and the deploy before it is recorded to have had the
\* present intent: the intent was taken back, or went back with the version that a restart
\* restores.  The scheduler compares with the recorded deploy.
taken_back(r) == r \in unrecorded /\ rows[r].deployed = model.intent[r]

(***************************************************************************)
(* Nothing is forgotten, neither between the in-memory change and its      *)
(* transaction nor over restarts: a resource that may be deployed and was  *)
(* not last deployed with its intent is dirty, scheduled or being deployed *)
(* ("safe to update outside of the lock", _new_version; "continue the      *)
(* deployment where we were", _initialize), unless a deploy that no row    *)
(* knows of came between two of that intent.                               *)
(***************************************************************************)
NothingForgotten ==
    initialized => \A r \in managed(model) \ planned :
        model.resource_state[r].blocked = "NOT_BLOCKED" /\ overdue(r) => taken_back(r)

(***************************************************************************)
(* An event that its listener has not been deployed after survives the     *)
(* scheduler: by the time stamps in the database, a listener that is       *)
(* behind a dependency is planned, or the dependency is and will send its  *)
(* event then (create_from_db against _send_events).                       *)
(***************************************************************************)
EventsSurvive ==
    initialized => \A r \in managed(model) :
        /\ model.resource_state[r].blocked = "NOT_BLOCKED"
        /\ r \notin planned
        => model.requires[r] \cap rows[r].behind \subseteq planned

(***************************************************************************)
(* While no transaction is pending or failed, the intent, undefined,       *)
(* orphaned and blocked columns are those of the model in memory, which    *)
(* both new versions and deploys change (comment at the end of             *)
(* _new_version).                                                          *)
(***************************************************************************)
RowsFollowModel ==
    initialized /\ unprocessed = <<>> => \A r \in Resources :
        /\ r \in managed(model) <=> rows[r] # None /\ ~rows[r].orphaned
        /\ r \in managed(model) =>
             /\ rows[r].intent = model.intent[r]
             /\ rows[r].undefined <=> r \in is_undefined(model)
             /\ rows[r].blocked = db_value(model.resource_state[r].blocked)

(***************************************************************************)
(* No update is missed over a restart (UpdatesGetDeployed).                *)
(***************************************************************************)
RestartMissesNoUpdate == initialized => UpdatesGetDeployed
=============================================================================
