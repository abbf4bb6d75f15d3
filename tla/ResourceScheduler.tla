------------------------- MODULE ResourceScheduler -------------------------
(***************************************************************************)
(* The resource scheduler of one environment (deploy/scheduler.py,         *)
(* deploy/tasks.py, deploy/timers.py) while it runs: it processes released *)
(* model versions, accepts deploy and repair requests, and its agents'     *)
(* task runners execute deploy tasks.                                      *)
(*                                                                         *)
(* Everything a handler does under _scheduler_lock is one step, and so is  *)
(* what it does between two awaits outside the lock.  A deploy is          *)
(* therefore four steps: the runner takes the task (queue_get), commits to *)
(* the latest intent (deploy_start), applies the handler's report          *)
(* (_update_scheduler_state_for_finished_deploy), writes it to the         *)
(* database and tells the scheduled work (the rest of deploy_done).        *)
(*                                                                         *)
(* Dry runs and fact refreshes do not touch any of this state.             *)
(***************************************************************************)
EXTENDS ScheduledWork, NewVersions

CONSTANTS
    Agents,             \* the agents, one task runner each
    AgentOf,            \* the agent of each resource
    Releases,           \* the model versions that may be released
    MaxVersions,        \* bound: number of times the scheduler reads new versions
    Scopes,             \* the agent and resource filters of deploy and repair requests
    Reports,            \* the states handlers report at the end of a deploy
    AllowBatches,       \* may several versions be processed at once?
    Senders,            \* resources with send_event set
    Receivers,          \* resources with receive_events set (the default)
    PeriodicRepair,     \* is a per-resource repair interval configured?
    PeriodicDeploy,     \* is a per-resource deploy interval configured?
    DbMayFail           \* may a database write fail?

\* What a deploy may report (dry is for dry runs), as deploy_done sees it: without the
\* entitlement for it, non_compliant has become failed by then.
HandlerResourceStates ==
    {"deployed", "non_compliant", "failed", "unavailable", "skipped", "skipped_for_dependency"}

ASSUME ConstantsAssumption ==
    /\ AgentOf \in [Resources -> Agents]
    /\ Releases \subseteq ModelVersions
    /\ MaxVersions \in Nat
    /\ Scopes \subseteq SUBSET Resources
    /\ Reports \subseteq HandlerResourceStates
    /\ {AllowBatches, PeriodicRepair, PeriodicDeploy, DbMayFail} \subseteq BOOLEAN
    /\ Senders \subseteq Resources /\ Receivers \subseteq Resources

VARIABLES
    model,                  \* _state
    work,                   \* _work
    runner,                 \* per agent: the deploy its task runner is executing
    deploying_latest,       \* _deploying_latest
    deploying_unmanaged,    \* _deploying_unmanaged
    timers,                 \* resources whose ResourceTimer is set
    triggers,               \* resources whose timer fired: deploy_resource is to run
    db_deploying,           \* resources with is_deploying set in the database
    device,                 \* external: the intent each resource was last deployed with
    version                 \* number of batches of versions processed

vars == <<model, work, runner, deploying_latest, deploying_unmanaged, timers, triggers,
          db_deploying, device, version>>

\* HandlerResult.from_handler_resource_state.
from_handler_resource_state(result) ==
    CASE result \in {"deployed", "non_compliant"} -> "SUCCESSFUL"
      [] result \in {"skipped", "skipped_for_dependency"} -> "SKIPPED"
      [] result \in {"failed", "unavailable"} -> "FAILED"

\* hash: of the intent the deploy committed to; orphaned: auxiliary, the resource
\* left the model (and maybe came back as a new one) since.
Runners == [pc : {"idle", "picked", "deploying", "reporting", "raised"},
            resource : Resources \cup {None}, hash : Hashes \cup {None}, orphaned : BOOLEAN]

IdleRunner == [pc |-> "idle", resource |-> None, hash |-> None, orphaned |-> FALSE]

TypeOK ==
    /\ model \in Models
    /\ work \in Works
    /\ runner \in [Agents -> Runners]
    /\ deploying_latest \subseteq Resources
    /\ deploying_unmanaged \subseteq Resources
    /\ timers \subseteq Resources
    /\ triggers \subseteq Resources
    /\ db_deploying \subseteq Resources
    /\ device \in [Resources -> Hashes \cup {None}]
    /\ version \in 0..MaxVersions

Init ==
    /\ model = EmptyModel
    /\ work = EmptyWork
    /\ runner = [a \in Agents |-> IdleRunner]
    /\ deploying_latest = {}
    /\ deploying_unmanaged = {}
    /\ timers = {}
    /\ triggers = {}
    /\ db_deploying = {}
    /\ device = [r \in Resources |-> None]
    /\ version = 0

\* The deploy tasks in progress, as the agent queues see it.
in_progress == {runner[a].resource : a \in {b \in Agents : runner[b].pc # "idle"}}

-----------------------------------------------------------------------------
(* TimerManager *)

\* Mutant: compliant resources are not repaired.
update_timers_of_dirty(t, m, S) ==
    LET enabled(r) == is_dirty(m.resource_state[r]) /\ m.resource_state[r].blocked = "NOT_BLOCKED"
    IN  (t \ S) \cup {r \in S : PeriodicRepair /\ enabled(r)}

\* The resources of S for which update_timer sets the timer (with repair_only: only
\* a repair interval does), and those for which it cancels it.  Time is left out: a
\* timer that is set may fire at any moment.
update_timers(t, m, S) ==
    LET repair_only(r) == \/ m.resource_state[r].blocked = "TEMPORARILY_BLOCKED"
                          \/ m.resource_state[r].compliance = "COMPLIANT"
        enabled(r) == /\ m.resource_state[r].blocked # "BLOCKED"
                      /\ PeriodicRepair \/ (PeriodicDeploy /\ ~repair_only(r))
        ignored(r) == /\ m.resource_state[r].blocked # "BLOCKED"
                      /\ PeriodicRepair \/ PeriodicDeploy
                      /\ ~m.resource_state[r].last_deployed
    IN  (t \ {r \in S : ~ignored(r)}) \cup {r \in S : ~ignored(r) /\ enabled(r)}

-----------------------------------------------------------------------------
(* Requests *)

\* deploy: the dirty resources among S, which stands for the agent and resource filters.
Deploy(S) ==
    LET to_deploy == model.dirty \cap S
    IN  /\ to_deploy # {}
        /\ timers' = timers \ to_deploy
        /\ work' = deploy_with_context(work, model.requires, DeployRequest(to_deploy, deploying_latest))
        /\ UNCHANGED <<model, runner, deploying_latest, deploying_unmanaged, triggers, db_deploying, device, version>>

\* repair: everything in S that is not BLOCKED becomes dirty and is deployed.
Repair(S) ==
    LET to_deploy == (managed(model) \ is_blocked(model)) \cap S
    IN  /\ to_deploy # {}
        /\ model' = [model EXCEPT !.dirty = @ \cup to_deploy]
        /\ timers' = timers \ to_deploy
        /\ work' = deploy_with_context(work, model.requires, DeployRequest(to_deploy, deploying_latest))
        /\ UNCHANGED <<runner, deploying_latest, deploying_unmanaged, triggers, db_deploying, device, version>>

\* ResourceTimer._activate: starts deploy_resource, which waits for the lock.
TimerFires(r) ==
    /\ r \in timers
    /\ timers' = timers \ {r}
    /\ triggers' = triggers \cup {r}
    /\ UNCHANGED <<model, work, runner, deploying_latest, deploying_unmanaged, db_deploying, device, version>>

DeployResource(r) ==
    /\ r \in triggers
    /\ triggers' = triggers \ {r}
    /\ IF r \in managed(model) \ is_blocked(model)
       THEN /\ timers' = timers \ {r}
            /\ work' = deploy_with_context(work, model.requires, DeployRequest({r}, deploying_latest))
       ELSE UNCHANGED <<timers, work>>
    /\ UNCHANGED <<model, runner, deploying_latest, deploying_unmanaged, db_deploying, device, version>>

-----------------------------------------------------------------------------
(* New versions *)

\* Mutant: the deploy of an intent that changed still counts as the latest one.
untrimmed_latest(changed, blocked) == deploying_latest \ blocked

\* The in-progress deploys that still are of the latest intent.
still_latest(changed, blocked) == deploying_latest \ (changed \cup blocked)

\* stop_timers and remove_timers.
remaining_timers(m, undefined, blocked, deleted) ==
    timers \ (m.dirty \cup undefined \cup blocked \cup deleted)

\* The resources that an earlier version of a batch may lack or change.
batch_resources(v) == {r \in managed(model) : AllowBatches /\ v.intent[r] # None}

\* _new_version, for a batch of versions that ends in v: what it does under the lock,
\* with `out' as the result of update_transitive_state.
process_version(v, recreated, reverted, out) ==
    LET c == intent_changes(model, v, recreated, reverted)
        undefined == became_undefined(model, v, c)
        m == out.model
        deploying == still_latest(c.deleted \cup c.new \cup c.updated, out.blocked)
    IN  /\ deploying_unmanaged' = deploying_unmanaged \cup (deploying_latest \cap (c.new \cup c.deleted))
        /\ deploying_latest' = deploying
        /\ timers' = update_timers(remaining_timers(m, undefined, out.blocked, c.deleted), m,
                                   (out.unblocked \cup dependants(m, recreated)) \ m.dirty)
        /\ work' = delete_resources(
                     deploy_with_context(work, m.requires,
                       [resources |-> m.dirty, deploying |-> deploying,
                        added_requires |-> added_requires(model, v),
                        dropped_requires |-> dropped_requires(model, v),
                        force_deploy |-> FALSE]),
                     c.deleted \cup undefined \cup out.blocked)
        /\ model' = drop(m, c.deleted)
        /\ runner' = [a \in Agents |->
                        IF runner[a].pc = "deploying" /\ runner[a].resource \in c.new \cup c.deleted
                        THEN [runner[a] EXCEPT !.orphaned = TRUE] ELSE runner[a]]
        /\ UNCHANGED <<triggers, db_deploying, device>>

ProcessVersions(v, recreated, reverted) ==
    \E out \in updated_models(model, v, intent_changes(model, v, recreated, reverted), recreated) :
        process_version(v, recreated, reverted, out)

NewVersion(v, recreated, reverted) ==
    /\ version < MaxVersions
    /\ version' = version + 1
    /\ ProcessVersions(v, recreated, reverted)

-----------------------------------------------------------------------------
(* Task runners: Deploy.execute *)

\* queue_get: the agent takes one of its queued tasks.
QueueGet(a, r) ==
    /\ runner[a].pc = "idle"
    /\ r \in work.agent_queues /\ AgentOf[r] = a
    /\ work' = queue_get(work, r)
    /\ runner' = [runner EXCEPT ![a] = [IdleRunner EXCEPT !.pc = "picked", !.resource = r]]
    /\ UNCHANGED <<model, deploying_latest, deploying_unmanaged, timers, triggers, db_deploying, device, version>>

\* ResourceState.to_handler_state can name a state.
has_handler_state(state) ==
    \/ state.compliance # "COMPLIANT" \/ state.blocked = "BLOCKED"
    \/ state.last_handler_run # "NEW"

\* deploy_start finds no intent to deploy: the task is dropped.
DeployStartStale(a) ==
    /\ runner[a].pc = "picked"
    /\ runner[a].resource \notin managed(model) \ is_blocked(model)
    /\ runner' = [runner EXCEPT ![a] = IdleRunner]
    /\ UNCHANGED <<model, work, deploying_latest, deploying_unmanaged, timers, triggers, db_deploying, device, version>>

DeployStart(a) ==
    LET r == runner[a].resource
    IN  /\ runner[a].pc = "picked"
        /\ r \in managed(model) \ is_blocked(model)
        /\ \A d \in model.requires[r] : has_handler_state(model.resource_state[d])
        /\ deploying_latest' = deploying_latest \cup {r}
        /\ runner' = [runner EXCEPT ![a].pc = "deploying", ![a].hash = model.intent[r]]
        /\ db_deploying' = db_deploying \cup {r}
        /\ UNCHANGED <<model, work, deploying_unmanaged, timers, triggers, device, version>>

\* deploy_start raises: a dependency has no handler state, or the write of the
\* in-progress state fails after the resource was added to deploying_latest.
DeployStartRaises(a) ==
    LET r == runner[a].resource
    IN  /\ runner[a].pc = "picked"
        /\ r \in managed(model) \ is_blocked(model)
        /\ IF \A d \in model.requires[r] : has_handler_state(model.resource_state[d])
           THEN DbMayFail /\ deploying_latest' = deploying_latest \cup {r}
           ELSE UNCHANGED deploying_latest
        /\ runner' = [runner EXCEPT ![a] = IdleRunner]
        /\ UNCHANGED <<model, work, deploying_unmanaged, timers, triggers, db_deploying, device, version>>

\* The listeners of the events of r, and of its recovery.
event_listeners(m, r) ==
    IF r \in Senders
    THEN {d \in dependants(m, {r}) \cap Receivers : m.resource_state[d].blocked = "NOT_BLOCKED"}
    ELSE {}

\* Mutant: a recovery is not reported.
no_recovery_listeners(m, r) == {}

recovery_listeners(m, r) ==
    {d \in dependants(m, {r}) : m.resource_state[d].blocked = "TEMPORARILY_BLOCKED"}

\* _send_events, from the model m and the in-progress deploys `deploying'.
send_events(m, deploying, r, stale_deploy, recovered_from_failure) ==
    LET events   == IF stale_deploy THEN {} ELSE event_listeners(m, r)
        recovery == IF recovered_from_failure THEN recovery_listeners(m, r) ELSE {}
        all_listeners == events \cup recovery
    IN  /\ model' = [m EXCEPT !.dirty = @ \cup recovery,
                              !.resource_state = [d \in Resources |->
                                 IF d \in recovery THEN [m.resource_state[d] EXCEPT !.blocked = "NOT_BLOCKED"]
                                 ELSE m.resource_state[d]]]
        /\ timers' = timers \ all_listeners
        /\ work' = IF all_listeners = {} THEN work
                   ELSE deploy_with_context(work, m.requires,
                          [DeployRequest(all_listeners, deploying) EXCEPT !.force_deploy = TRUE])

recovered(m, r, result) ==
    result = "deployed" /\ m.resource_state[r].last_handler_run_compliant = FALSE

\* Mutant: a changed intent does not make the deploy stale.
only_undefined_is_stale(m, r, hash) == r \in is_undefined(m)

\* The deploy of an intent that is not the latest one, or of an undefined resource.
is_stale(m, r, hash) == m.intent[r] # hash \/ r \in is_undefined(m)

\* Executor.execute: the handler brings the resource to the intent of the deploy, or
\* leaves it in a state the scheduler knows nothing about.
execute(a, result) ==
    device' = [device EXCEPT ![runner[a].resource] =
                  IF result = "deployed" THEN runner[a].hash ELSE None]

\* The report of a deploy whose resource left the model in the meantime.
DeployDoneUnmanaged(a, result) ==
    LET r == runner[a].resource
    IN  /\ runner[a].pc = "deploying"
        /\ r \notin managed(model) \/ r \in deploying_unmanaged
        /\ deploying_unmanaged' = deploying_unmanaged \ {r}
        /\ execute(a, result)
        /\ runner' = [runner EXCEPT ![a].pc = "reporting"]
        /\ UNCHANGED <<model, work, deploying_latest, timers, triggers, db_deploying, version>>

\* A stale deploy records the handler's result, and reports a recovery.
DeployDoneStale(a, result) ==
    LET r == runner[a].resource
        m == [model EXCEPT !.resource_state[r].last_handler_run = from_handler_resource_state(result),
                           !.resource_state[r].last_deployed = TRUE]
    IN  /\ runner[a].pc = "deploying"
        /\ r \in managed(model) \ deploying_unmanaged
        /\ is_stale(model, r, runner[a].hash)
        /\ send_events(m, deploying_latest, r, TRUE, recovered(model, r, result))
        /\ runner' = [runner EXCEPT ![a].pc = "reporting"]
        /\ execute(a, result)
        /\ UNCHANGED <<deploying_latest, deploying_unmanaged, triggers, db_deploying, version>>

\* The model once the latest intent of r is deployed with this result.
deployed_model(m, r, result) ==
    LET state   == m.resource_state[r]
        handler == from_handler_resource_state(result)
        skips   == /\ state.blocked # "BLOCKED"
                   /\ result = "skipped_for_dependency"
                   /\ should_skip_for_dependencies(m, r)
        blocked == IF skips THEN "TEMPORARILY_BLOCKED"
                   ELSE IF handler = "SUCCESSFUL" /\ state.blocked = "TEMPORARILY_BLOCKED"
                        THEN "NOT_BLOCKED" ELSE state.blocked
    IN  [m EXCEPT !.resource_state[r] =
                     [compliance |-> IF result = "deployed" THEN "COMPLIANT" ELSE "NON_COMPLIANT",
                      last_handler_run |-> handler, blocked |-> blocked, last_deployed |-> TRUE,
                      last_handler_run_compliant |-> result = "deployed"],
                  !.dirty = IF skips \/ handler = "SUCCESSFUL" THEN @ \ {r} ELSE @ \cup {r}]

DeployDoneLatest(a, result) ==
    LET r == runner[a].resource
    IN  /\ runner[a].pc = "deploying"
        /\ r \in managed(model) \ deploying_unmanaged
        /\ ~is_stale(model, r, runner[a].hash)
        /\ r \in deploying_latest
        /\ deploying_latest' = deploying_latest \ {r}
        /\ send_events(deployed_model(model, r, result), deploying_latest \ {r}, r, FALSE,
                       recovered(model, r, result))
        /\ runner' = [runner EXCEPT ![a].pc = "reporting"]
        /\ execute(a, result)
        /\ UNCHANGED <<deploying_unmanaged, triggers, db_deploying, version>>

\* The intent is the latest one but the resource is not in deploying_latest any more:
\* remove raises KeyError, after the compliance was assigned.
DeployDoneRaises(a, result) ==
    LET r == runner[a].resource
    IN  /\ runner[a].pc = "deploying"
        /\ r \in managed(model) \ deploying_unmanaged
        /\ ~is_stale(model, r, runner[a].hash)
        /\ r \notin deploying_latest
        /\ model' = [model EXCEPT !.resource_state[r].compliance =
                        IF result = "deployed" THEN "COMPLIANT" ELSE "NON_COMPLIANT"]
        /\ runner' = [runner EXCEPT ![a].pc = "raised"]
        /\ execute(a, result)
        /\ UNCHANGED <<work, deploying_latest, deploying_unmanaged, timers, triggers, db_deploying, version>>

\* send_deploy_done, unless an exception skips it or the write fails; then, always,
\* finished_deploy and the timer of the resource, and the task is done.
FinishDeploy(a) ==
    LET r == runner[a].resource
    IN  /\ runner[a].pc \in {"reporting", "raised"}
        /\ \/ runner[a].pc = "reporting" /\ db_deploying' = db_deploying \ {r}
           \/ (runner[a].pc = "raised" \/ DbMayFail) /\ UNCHANGED db_deploying
        /\ work' = finished_deploy(work, model.requires, r)
        /\ timers' = update_timers(timers, model, {r} \cap managed(model))
        /\ runner' = [runner EXCEPT ![a] = IdleRunner]
        /\ UNCHANGED <<model, deploying_latest, deploying_unmanaged, triggers, device, version>>

-----------------------------------------------------------------------------

\* One step of the task runner of agent a.
RunnerStep(a) ==
    \/ \E r \in Resources : QueueGet(a, r)
    \/ DeployStart(a) \/ DeployStartStale(a) \/ DeployStartRaises(a)
    \/ \E result \in Reports :
         \/ DeployDoneUnmanaged(a, result) \/ DeployDoneStale(a, result)
         \/ DeployDoneLatest(a, result) \/ DeployDoneRaises(a, result)
    \/ FinishDeploy(a)

Next ==
    \/ \E S \in Scopes : Deploy(S) \/ Repair(S)
    \/ \E r \in Resources : TimerFires(r) \/ DeployResource(r)
    \/ \E v \in Releases :
         \E recreated \in SUBSET batch_resources(v) :
           \E reverted \in SUBSET (batch_resources(v) \ recreated) :
             NewVersion(v, recreated, reverted)
    \/ \E a \in Agents : RunnerStep(a)

Spec == Init /\ [][Next]_vars

\* The behaviours in which no report of a deploy raises (see DeployDoneRaises).
ReportedSpec == Init /\ [][Next /\ \A x \in Agents : runner'[x].pc # "raised"]_vars

\* The event loop keeps running every task runner, and every handler terminates.
FairSpec == Spec /\ \A a \in Agents : WF_vars(RunnerStep(a))

-----------------------------------------------------------------------------
(* Properties *)

(***************************************************************************)
(* Requires are enforced within the scheduled work, whatever model         *)
(* versions, requests, events and finished deploys do to it                *)
(* (ScheduledWork, second invariant of its docstring), as far as the code  *)
(* keeps it: nothing is claimed of tasks that extend_blocked_on created    *)
(* for a resource that is deploying.                                       *)
(***************************************************************************)
OrderEnforced == RequiresOrder(work, model.requires, work.rescheduled)

(***************************************************************************)
(* Each deploy task exists at most once, and a waiting one has something   *)
(* left to wait for (_queue_if_ready): nothing is forgotten in _waiting.   *)
(***************************************************************************)
WorkConsistent == AtMostOnce(work) /\ WaitingIsBlocked(work)

(***************************************************************************)
(* No task waits in vain: everything a BlockedDeploy is blocked_on is a    *)
(* dependency of it that is scheduled or in progress, so that its          *)
(* finished_deploy will come.                                              *)
(***************************************************************************)
BlockersPending ==
    \A r \in work.waiting :
        work.blocked_on[r] \subseteq model.requires[r] \cap (scheduled(work) \cup in_progress)

\* The runners that will deploy, or are deploying, the latest intent of their resource.
committed ==
    {runner[x].resource : x \in {y \in Agents :
        \/ runner[y].pc = "picked"
        \/ /\ runner[y].pc = "deploying" /\ ~runner[y].orphaned
           /\ runner[y].hash = model.intent[runner[y].resource]}}

(***************************************************************************)
(* No update is missed: a resource that has one is scheduled, or a runner  *)
(* is committed to its latest intent (_new_version schedules all dirty     *)
(* resources except those whose latest intent is being deployed).          *)
(***************************************************************************)
UpdatesGetDeployed ==
    \A r \in managed(model) \ is_blocked(model) :
        model.resource_state[r].compliance = "HAS_UPDATE" => r \in scheduled(work) \cup committed

(***************************************************************************)
(* A blocked resource is neither dirty nor scheduled: all that can still   *)
(* start a deploy of it finds it gone from the work (_new_version deletes  *)
(* its task, update_transitive_state takes it off the dirty set).          *)
(***************************************************************************)
BlockedNotScheduled == is_blocked(model) \cap (model.dirty \cup scheduled(work)) = {}

(***************************************************************************)
(* _deploying_latest is what its comment says: the in-progress deploys for *)
(* the latest intent of a resource that may be deployed.                   *)
(***************************************************************************)
DeployingIsLatest ==
    \A r \in deploying_latest :
        /\ r \in managed(model) \ is_blocked(model)
        /\ runner[AgentOf[r]].pc = "deploying"
        /\ runner[AgentOf[r]].resource = r
        /\ runner[AgentOf[r]].hash = model.intent[r]

(***************************************************************************)
(* A resource skips for a dependency only while one of them is bad: the    *)
(* recovery of the last bad one, by whichever deploy, and the removal of   *)
(* its edge both end TEMPORARILY_BLOCKED.                                  *)
(***************************************************************************)
SkippedHasBadDependency ==
    \A r \in managed(model) :
        model.resource_state[r].blocked = "TEMPORARILY_BLOCKED" => should_skip_for_dependencies(model, r)

(***************************************************************************)
(* The dirty set holds every resource that a user's deploy request should  *)
(* deploy: not blocked, and its last deploy did not bring it to its        *)
(* desired state.  (A non-compliant but successful deploy is the one that  *)
(* is taken off.)                                                          *)
(***************************************************************************)
DirtyIsComplete ==
    \A r \in managed(model) :
        /\ model.resource_state[r].blocked = "NOT_BLOCKED"
        /\ is_dirty(model.resource_state[r])
        /\ model.resource_state[r].last_handler_run # "SUCCESSFUL"
        => r \in model.dirty

(***************************************************************************)
(* An event reaches every listener, also the one that is being deployed at *)
(* that moment: when a deploy of a sender is applied, each listener has a  *)
(* task that starts after it (force_deploy in _send_events).               *)
(***************************************************************************)
EventsNotLost ==
    [][\A x \in Agents, result \in Reports :
         DeployDoneLatest(x, result) =>
           event_listeners(model', runner[x].resource) \subseteq scheduled(work')]_vars

(***************************************************************************)
(* Over any sequence of versions in which none adds a require on what an   *)
(* earlier one left blocked, the incremental update of the blocked state   *)
(* blocks exactly the resources that depend on an undefined one            *)
(* (update_transitive_state; TransitiveState is about added requires).     *)
(***************************************************************************)
BlockedIsUndefined == is_blocked(model) = DependsOnUndefined(model)

(***************************************************************************)
(* With a repair interval, no resource that may be deployed drops out of   *)
(* the periodic repair: its timer is set or has just fired, or a deploy is *)
(* under way that will set the timer when it is done.  A deploy whose      *)
(* report raises leaves a resource that update_timer ignores, so this is   *)
(* claimed of behaviours without one.                                      *)
(***************************************************************************)
TimerCoverage ==
    PeriodicRepair => \A r \in managed(model) \ is_blocked(model) :
        r \in timers \cup triggers \cup scheduled(work) \cup in_progress

\* The resources that are reported to the user as compliant.
reported == {r \in managed(model) : model.resource_state[r].compliance = "COMPLIANT"}

(***************************************************************************)
(* A resource that is COMPLIANT was last deployed with its present intent, *)
(* however versions, stale deploys and re-creations interleaved            *)
(* (_update_scheduler_state_for_finished_deploy).                          *)
(***************************************************************************)
CompliantIsDeployed == \A r \in reported : device[r] = model.intent[r]

(***************************************************************************)
(* What makes CompliantIsDeployed inductive: a runner works for its own    *)
(* agent, what is being deployed while it is reported compliant is the     *)
(* reported intent, and a resource with an orphaned deploy on record is    *)
(* not reported compliant before that deploy is over.                      *)
(***************************************************************************)
ComplianceInvariant ==
    /\ TypeOK
    /\ \A x \in Agents : runner[x].pc # "idle" =>
         runner[x].resource \in Resources /\ AgentOf[runner[x].resource] = x
    /\ \A x \in Agents : runner[x].pc = "deploying" /\ runner[x].resource \in reported =>
         runner[x].hash = model.intent[runner[x].resource]
    /\ deploying_unmanaged \cap reported = {}
    /\ CompliantIsDeployed

Promise == INSTANCE DesiredState WITH desired <- model.intent, actual <- device

(***************************************************************************)
(* The scheduler implements DesiredState: a new version only withdraws     *)
(* compliance, and only a deploy of the desired intent establishes it.     *)
(***************************************************************************)
ImplementsDesiredState == Promise!Spec

(***************************************************************************)
(* Once no more versions are released and nobody asks for a deploy, all    *)
(* scheduled work is done: every runner is idle, no task waits for ever,   *)
(* and every update was tried.                                             *)
(***************************************************************************)
WorkDrains ==
    <>[][\A S \in Scopes : ~Deploy(S) /\ ~Repair(S)]_vars
    => <>[](/\ scheduled(work) = {} /\ in_progress = {}
            /\ \A r \in managed(model) \ is_blocked(model) :
                  model.resource_state[r].compliance # "HAS_UPDATE")
=============================================================================
