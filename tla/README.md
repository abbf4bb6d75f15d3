# A TLA+ model of the Inmanta orchestrator

The orchestrator compiles a model of the desired state of an infrastructure into
*resources*, releases *versions* of that model, and deploys every resource on its
agent, in the order of the *requires* relation, until what is deployed is what is
desired. This project models the parts of it that decide and that run concurrently: the
resource scheduler with its task runners and its persistent state (`deploy/`), the
executors that do the work (`agent/`), and the queue of the compiler
(`server/services/compilerservice.py`). It checks them with TLC on small instances and
proves most of the safety properties that TLC checks with TLAPS, for any instance.

Paths below are relative to `src/src/inmanta/`.

## 1. The system

| Part | State it keeps | Operations | Correct when |
|---|---|---|---|
| Scheduled work, `deploy/work.py` | `_waiting` (deploy tasks with the dependencies they are `blocked_on`), agent queues, tasks in progress | `deploy_with_context`, `delete_resource`, `finished_deploy`, `queue_get`, `task_done` | each task exists once; tasks run in requires order; no task waits for something that never comes |
| Model state, `deploy/state.py` | intent, requires, `ResourceState` (compliance, last handler run, blocked) of each resource, dirty set | `update_resource`, `update_requires`, `drop`, `update_transitive_state`, `create_from_db` | exactly the resources that depend on an undefined one are `BLOCKED`; whatever needs a deploy is dirty |
| Requires-provides mapping, `util/collections.py` | a relation, indexed both ways | set, delete | both directions agree |
| Resource scheduler, `deploy/scheduler.py` | the two above, `_deploying_latest`, `_deploying_unmanaged` | new versions, `deploy`, `repair`, `deploy_resource`, `deploy_start`, `deploy_done`, start, stop, suspend | a resource is reported compliant only if its present intent is deployed; no update, event or recovery is missed |
| Task runners, `deploy/scheduler.py`, `deploy/tasks.py`, `agent/agent_new.py`, `server/agentmanager.py` | one runner per agent: status, loop, notifications; `paused` in the database | start, stop, notify, join, pause, suspend, resume | one loop per agent; none works when it must not; each follows the database |
| Resource timers, `deploy/timers.py` | one timer per resource | set, cancel, fire | every resource that may be deployed is repaired periodically |
| Persistence, `deploy/persistence.py`, `data/__init__.py` | `resource_persistent_state`, `last_processed_model_version`, action logs | writes from the handlers above | the state after a restart is one the scheduler could have had |
| Compiler service, `server/services/compilerservice.py` | compile table, `_env_to_compile_task`, `_queue_count_cache`, marker on disk | request, merge, run, notify, recover, cancel | one compile per environment, no request lost, listeners told in order |
| Environment service, `server/services/environmentservice.py` | `halted` | halt, resume, clear | the compiler and the agents follow |
| Executors and their pools, `agent/forking_executor.py`, `agent/resourcepool.py` | executor processes, executors, three caches of them | get, create, close, clean up, join | what runs is tracked, work is not interrupted, limits are kept, a stop comes to an end |
| Sessions, other services, RPC, database layer | the database | request handlers | – |
| Compiler and DSL, modules, exporter, command line | the program under compilation, files | – | – |

How they interact. Server and scheduler are an asyncio process each; an executor process
is a child of the scheduler. In the scheduler, a new version is read under
`_intent_lock` and applied under `_scheduler_lock`; deploy and repair requests, timers
that fired, and the start and end of each deploy take `_scheduler_lock` too. The task
runners of different agents run concurrently and meet only in these critical sections.
A deploy therefore interleaves with anything between: taking its task, committing to an
intent, getting an executor and executing the handler (long), applying the report,
writing it to the database, and telling the scheduled work. What is hard is that at every
one of these points versions may have changed, deleted, re-created, blocked or unblocked
the resource, that a request may have scheduled it again, that a dependency may have
failed or recovered, that the runner may be paused or suspended, that the executor
process may die, that a database write may fail and that the scheduler may be killed. On
the server, compiles are picked under `_write_lock_env_to_compile_task`, but requests,
listeners, recovery, the environment's operations and the end of a run interleave at
every await. `PROJECT.json` lists these hazards with their lines.

## 2. The modules

| Module | Models | Kind |
|---|---|---|
| `RequiresProvides` | the mapping, and its deletion on both sides | operators |
| `ScheduledWork` | the class of that name; one operator per method, from a work value to a work value | operators |
| `ModelState` | the class of that name; `update_transitive_state` as the set of results that some order of its worklists gives | operators |
| `NewVersions` | `_get_intent_changes`, the first part of `_new_version`, and how the model state follows | operators |
| `ResourceScheduler` | the running scheduler: requests, timers, new versions, task runners | state machine, composes the four above |
| `SchedulerPersistence` | the rows of the database, the transactions that write them, kills and restarts | state machine, extends `ResourceScheduler` |
| `DesiredState` | what the scheduler promises to a user who looks at the reported compliance | abstract state machine |
| `TransitiveState` | `update_transitive_state` loop iteration by loop iteration, with its worklists and `known_blockers_cache` | state machine |
| `TaskRunners` | `TaskRunner` and who starts, stops, notifies and joins it | state machine |
| `ExecutorPools` | `MPManager`, `MPPool`, `MPProcess`, `MPExecutor` over `resourcepool.py`, and the processes at the other end | state machine |
| `CompilerService` | the compile queue of one environment, and the environment's operations | state machine |
| `MC...` | instances for TLC | – |
| `NewVersionsProofs` | lemmas about the operators of `ModelState` and `NewVersions` | proofs |
| `TransitiveStateProofs` | theorems about `TransitiveState` | proofs |
| `ResourceSchedulerProofs`, `SchedulerProgressProofs` | theorems about `ResourceScheduler`, the second module extends the first | proofs |
| `SchedulerPersistenceProofs` | theorems about `SchedulerPersistence`, extends `SchedulerProgressProofs` | proofs |
| `TaskRunnersProofs`, `ExecutorPoolsProofs`, `CompilerServiceProofs` | theorems about the module of that name | proofs |

### State and actions of `ResourceScheduler`

| Variable | In the code |
|---|---|
| `model` | `_state`: intents as attribute hashes, requires, resource states, dirty set |
| `work` | `_work`: `_waiting` and the agent queues (plus an auxiliary set, see below) |
| `runner` | per agent, the deploy its runner is executing: its step, resource and the hash it committed to |
| `deploying_latest`, `deploying_unmanaged` | `_deploying_latest`, `_deploying_unmanaged` |
| `timers`, `triggers` | resources with a timer set; `deploy_resource` calls that wait for the lock |
| `db_deploying` | `is_deploying` in the database |
| `device` | external: the intent each resource was last deployed with |
| `version` | number of batches processed, to bound the runs |

| Action | Code |
|---|---|
| `Deploy`, `Repair` | `deploy`, `repair`; the scope stands for the agent and resource filters |
| `TimerFires`, `DeployResource` | `ResourceTimer._activate`; `deploy_resource` once it has the lock |
| `NewVersion` | `_new_version` for a batch of versions: intents, requires, transitive state, in-progress sets, timers, tasks and deletions, in the code's order |
| `QueueGet` | the runner takes a task of its agent |
| `DeployStart`, `DeployStartStale`, `DeployStartRaises` | `deploy_start` and the three ways it ends |
| `DeployDoneUnmanaged`, `-Stale`, `-Latest`, `-Raises` | `_update_scheduler_state_for_finished_deploy`, one action per branch, event propagation included |
| `FinishDeploy` | the write of the result, which may fail, and the `finally` part of `deploy_done` |

Two auxiliary pieces of state are not in the code: `work.rescheduled`, the tasks that
`extend_blocked_on` created for a resource while it is deploying, and
`runner[a].orphaned`, whether the resource left the model since the deploy started.
Nothing but properties reads them.

Abstractions, and why they are safe here:

- An intent is its attribute hash: the scheduler compares hashes and nothing else of it.
- Priorities, request order and reasons are left out: any queued task of an agent may be
  taken next, which includes the order the priorities ask for.
- Time is left out: a timer that is set may fire at any moment.
- `_new_version` computes its differences before it takes `_scheduler_lock`, and is one
  action all the same: requires and the `UNDEFINED` compliance change under
  `_intent_lock` only, which it holds.
- A batch of versions is its last version, with the resources that an earlier version of
  it lacked (`recreated`) or had with another intent (`reverted`); this is all that
  `_get_intent_changes` remembers of the earlier ones.
- Reports are the handler states after `_enforce_compliance_reporting_entitlement`.
- Dry runs and fact refreshes touch none of this state.

### `SchedulerPersistence`

`rows` is `resource_persistent_state`, reduced to the columns that `create_from_db` reads;
`processed` is the version that `last_processed_model_version` names, and `unprocessed` the
versions after it. Time stamps are kept as what is compared of them: `rows[r].behind` is
the set of dependencies whose `last_produced_events` is later than the `last_success` of
`r`. The steps of `ResourceScheduler` that write become two: `ReadVersion` changes the
model in memory, `RecordVersion` is the transaction after it, and may fail; `Done` applies
a report, `Finish` writes it. Between any two steps `Crash` kills the process: what was
being deployed then has its old intent, the new one or an unknown one. `Restart`,
`ReadUnprocessed`, `DeployAtStart` and `InitializeTimers` are `start`. `unrecorded` is
history that only a property reads: the resources whose last deploy left no result in its
row.

### `TaskRunners`

Per agent: the status, how far the loop `_run` has come, the number of tasks and poison
pills in its queue, the notifications that wait for `_notify_lock` and what the holder of
it has read. `control` is where `Agent.start_working` or `stop_working` is, `removal`
where `remove_executor_venvs` is, `refresh` where each loop over all workers is; these loops iterate over
the dict of workers with an await per worker, so that a new worker makes them raise
(`RefreshRaises`, `StopRaises`, `StartRaises`), recorded in `raised`. What a task does is
left to `ResourceScheduler`.

### `ExecutorPools`

`s` holds all processes and executors that were created, the pools (`process_pool` by
blueprint, `pool` by executor id, `procs[p].pool` by agent) and `agent_map`, a set per
agent: what make_room needs besides, which member was used before which other, is
`last_used`. A get of an
executor is a `runner` that goes from lock to lock (`wantProcess`, `newProcess`,
`newExecutor`, `executing`); one that asks for a process while the process pool takes its
exclusive lock waits to be turned down (`refused`). A connection is a queue of commands in order; a process
that died is found by `ConnectionLost`, at any later moment. Idle times are left out: a
member that is not in use may be cleaned up at any time. The virtual environment of a
blueprint is ready or fails (`StartProcess`).

### `CompilerService`

One environment, since all state but the counter is per environment. `db` is the compile table, `tasks` the runs (`_run` at its awaits), `active` the entry
of the environment in `_env_to_compile_task`, `calls` and `holder` the callers of
`_process_next_compile_in_queue` before and under its lock, `notifying` the listeners that
still have to be told, `flow` the two flows that end in a check of the local state
(recovery and resumption), `operation` the one under `environment_state_operation_lock`.
`settings` is whether the environment has a `repo_url`, and its `server_compile` setting:
users change them at any time (`ChangeSettings`), a request is refused without the one and
the check of the local state left out without the other. A marker that is written may fail
(`WriteLastCompileMarker`). A server stops (`Stop`, then each run may be cancelled) or
crashes (`Restart`), and the next one may find the state directory of an earlier time.

The history variables are read by properties only: `delivered` (which listeners were told),
`cancelledLive` (a compile was cancelled on an environment that is not halted),
`recounted` (the requests that the last recount saw before they were announced), `skipped`
and `unwritten` (the last check of the local state was left out, the last marker was not
written).

## 3. Model checking

Passing runs:

| Run | Instance | Shows |
|---|---|---|
| `updates` | three resources on two agents, one agent with two of them; versions that update, delete and change the shape of requires; requests for deploys and repairs; fair runners | requires order (`OrderEnforced`), no task that waits in vain (`BlockersPending`), no missed update (`UpdatesGetDeployed`), exact in-progress bookkeeping (`DeployingIsLatest`), truthful compliance (`CompliantIsDeployed`); once requests stop, all work gets done (`WorkDrains`) |
| `events` | a chain that sends events, deploys that are non-compliant, skip and recover, a version that cuts the chain | skipping ends with the last bad dependency (`SkippedHasBadDependency`), the dirty set is complete (`DirtyIsComplete`), events reach listeners that are deploying (`EventsNotLost`) |
| `undefined` | three versions in which resources become undefined and defined again while they are queued, waiting, deploying or woken by a periodic deploy | exactly the dependants of undefined resources are blocked (`BlockedIsUndefined`), and no blocked resource is dirty or scheduled (`BlockedNotScheduled`) |
| `timers` | one agent, repair interval set, timers fire at any time, three versions that block, unblock and delete | no deployable resource drops out of the periodic repair (`TimerCoverage`) |
| `faults` | two resources, database writes that fail, batches that re-create and revert | the inductive `ComplianceInvariant`, types included, and the refinement of `DesiredState` |
| `transitive` | every call `_new_version` can make on three resources with acyclic requires, every order of the worklists | it ends (`Terminates`), with a result that the operator used in `ResourceScheduler` allows (`ResultAsSpecified`), and never with a resource blocked for no reason (`ConsistentResult`) |
| `recovery` | two resources, three versions, deploys that succeed or skip, events, failed transactions and two kills between any two steps | after a restart no resource is taken for compliant whose device is not, unless a deploy that no row knows of came between two of the same intent (`NothingForgotten`), no event is lost (`EventsSurvive`), rows and model agree once a handler is done (`RowsFollowModel`), no update is missed (`RestartMissesNoUpdate`) |
| `runners` | two agents, two starts of the scheduler, one change of the paused flag each, one removal of virtual environments, at most two tasks | one loop per runner (`NeverStartsTwice`), joins only of what was asked to stop (`JoinsOnlyStopped`), silence after a stop and during a removal (`StoppedIsQuiet`, `SuspendedIsQuiet`), the paused flag of the database is followed in the end (`FollowsDatabase`), no join of a runner that sleeps on its queue (`NobodyJoinsSleeper`) |
| `executors` | two agents, two blueprints, three executor ids of which two share a process, at most one executor per agent, a crash, a stop of the manager | what runs is known to its pools (`RunningIsTracked`), every process has a use or is on its way out (`ProcessIsUsed`), the cap (`CapRespected`), cleanups do not cut off work (`WorkIsNotInterrupted`), a joined manager left nothing behind (`JoinedMeansStopped`), no circular wait (`NoWaitCycle`) |
| `compiler` | one environment, with or without a repository and the permission to compile, two kinds of compiles, a request that comes on its own or within a transaction, recovery, and one of halt, resume, clear, changed settings, failed write of the marker, stop and crash; fair runs | one compile at a time (`OneCompilePerEnvironment`), blocking listeners before the next compile (`BlockersBeforeNextCompile`), handled only when all were told (`HandledIsDelivered`), merged requests get a result that covers them (`MergeLosesNothing`), the cached length of the queue (`QueueCountIsLength`), files of an earlier life are not used (`LocalStateIsCurrent`), every request is served (`RequestsAreServed`) |

Runs that TLC must find violated: `lost_intent` and `started_has_loop`, see section 4.

The bounds. Three resources are the least for a chain, a join and a bystander: every
operation looks one requires or provides step far, so that what it does to a chain of
three is what it does inside a longer one; `update_transitive_state`, which looks
farther, has an exhaustive run of its own. Two agents, one of them with two resources,
give both a deploy that overlaps others and a queue in which a task waits for its
runner. Two batches of versions (`MaxVersions`) put a change before, during and after a
deploy; where a property needs a third one (undefined and defined again, changed and
changed back, one version recorded before a kill and one after) the bound is three. Two
hashes are enough to change and to change back. Each run's reports are the ones that its
properties tell apart. In `recovery` two resources are an edge for events and for
skipping; two kills make a scheduler restart from rows that another one wrote after
its own restart, so that what is unrecorded at the first kill meets what is recorded
before the second; users' requests and periodic deploys, which write nothing, are left
to `updates` and `timers`: instances of this run with either of them (`Scopes = {Pair}`,
4.4 million states; `PeriodicDeploy = TRUE`, 2.1 million states) hold as well, and take
too long to be runs. In `runners` the second start meets runners of the first one, and a second task meets a
runner that is busy. In `executors` the cap of one forces every get to make room, which
is where closing and creating meet; two processes are needed for a pool that shuts one
down and starts another. In `compiler` one disruption is enough for each pair of a
disruption and a step of a compile. It has one request of a user per behaviour
(`MaxRequests = 1`), of one merge key on its own or of the other within a transaction; two
compiles meet, and merge, when recovery or a resumption requests one as well. What two
disruptions leave behind is among the initial states where it can be: an environment that
is halted, has no repository or may not compile, a database with a finished compile, and a
state directory without a marker.

`CHECK_DEADLOCK FALSE` is in every run, because each system may rightly come to rest:
with its versions, requests and faults used up a scheduler, a runner, a pool or a compile
queue has nothing left to do. That nobody waits for somebody who never comes is claimed
by properties instead: `BlockersPending`, `WorkDrains`, `NobodyJoinsSleeper`,
`NoWaitCycle`, `RequestsAreServed`, `Terminates`.

Fairness. `FairSpec` of `ResourceScheduler` assumes weak fairness of each task runner: the
event loop resumes each runner that can go on, and every handler terminates (the executor
reports in any case, a crash included). `WorkDrains` has as its premise that deploy and
repair requests end. `FairSpec` of `CompilerService` assumes that a coroutine that can go
on does so, that a compile ends, and that a server that stops is started again.
`TransitiveState` assumes that its loop keeps running. No fairness is assumed of
versions, requests, timers, halts, crashes or failures.

What the properties do not claim:

- `OrderEnforced` exempts the tasks in `work.rescheduled`.
- `BlockedIsUndefined` is checked for versions that leave requires alone, and
  `ConsistentResult` claims the full equality for calls without added requires.
- `UpdatesGetDeployed` is checked without undefined resources, and `TimerCoverage`
  without new resources under blocked ones.
- `TimerCoverage` is checked of behaviours in which no report raises (`ReportedSpec`): a
  resource that such a report leaves COMPLIANT has no recorded deploy, and `update_timer`
  ignores it. `DirtyIsComplete` and `UpdatesGetDeployed` fail after such a report as well;
  the runs that check them have too few versions for one, their theorems are about
  `ReportedSpec`.
- `BlockersPending` and `DeployingIsLatest` hold without database failures and without
  batches; `BlockersPending` is checked without undefined resources as well, since a
  `deploy_start` that raises never releases the tasks that wait for it. Truthful
  compliance needs none of these restrictions.
- `recovery` has `ReadAfterFailure = FALSE`: a scheduler whose transaction failed gets no
  further version before it is restarted (the other case is `lost_intent`).
- `NothingForgotten` exempts a resource whose last deploy left no result in its row, while
  the row says that the deploy before it had the present intent (`taken_back`): a version
  took the intent back that was being deployed, or a restart went back to the version
  that was recorded. The scheduler compares with the row and takes the resource for
  compliant (`deploy/scheduler.py:1218` in section 4).
- `FollowsDatabase`, `JoinsOnlyStopped` and `StoppedIsQuiet` claim nothing after a loop over
  all workers was cut short by a new worker (`raised`): the code does not go on there.
- The properties of `CompilerService` exempt a compile that was cancelled on an environment
  that is not halted (`cancelledLive`), which one disruption does not reach.
  `QueueCountIsLength` names the two differences that the code makes: a request that is
  committed and not yet announced is not counted, and one that a clear recounted before
  it was announced is counted twice from then on.
- `LocalStateIsCurrent` is about environments whose last check was made: the code leaves it out
  without a `repo_url` (`compilerservice.py:1061`, as
  `tests/server/test_compilerservice.py:2758` expects), and ignores its outcome
  if `server_compile` is off (`compilerservice.py:818`). It exempts, until the next start or
  resumption, a run that could not write its marker (`compilerservice.py:1032-1039`).

Each exemption is a behaviour of the code that section 4 describes.

## 4. Disagreements between the code and what it says of itself

Two have a run whose one property states what a comment or docstring says, and that TLC
violates:

- `lost_intent`: `_new_version` changes the model in memory and then writes the intents of
  that version in one transaction. If this fails nothing repeats it, and the next version
  advances `last_processed_model_version` past it. After a restart a resource is
  taken for compliant with an intent that its device never got.
- `started_has_loop`: `suspend_deployments` stops every runner, also one that an agent's
  pause had stopped; it becomes `STOPPING` with no loop to end. Unpausing the agent then
  finds `STOPPING`, sets `STARTED`, and starts no loop: the agent does not deploy.

Others that came up in modelling and have no run:

| Where | What happens |
|---|---|
| `deploy/work.py:521` | a task created for a resource while it deploys waits for the new blocker only, although other dependencies are scheduled; a waiting task of the same resource loses its blockers |
| `deploy/state.py:692` | a resource that is blocked by an added requires does not pass the block on to its own dependants |
| `deploy/scheduler.py:1467` | a dependency becomes undefined while a resource deploys, or its intent changes and changes back: the resource has left `_deploying_latest` but its report is not stale, `_deploying_latest.remove` raises and the result is not written; the database keeps showing "deploying". The resource is COMPLIANT with `last_handler_run` NEW, for which `to_handler_state` raises: once it is unblocked `deploy_start` of its dependants raises too, and drops their tasks |
| `deploy/state.py:453` | a resource that a batch deletes and creates again is dropped with the edges of its dependants, which nobody restores; a dependant that waits for it is never released |
| `deploy/state.py:673` | a new resource below a resource that the same version unblocks is first blocked, then unblocked, and loses its deploy task |
| `deploy/scheduler.py:1352` | a failed `send_in_progress` leaves the resource in `_deploying_latest`, and the dependants of its task waiting, as `finished_deploy` is not called |
| `deploy/scheduler.py:1177` | a deploy that is stale already when its resource is deleted or re-created is not recorded in `_deploying_unmanaged` |
| `deploy/scheduler.py:1185` | a version that deletes a resource together with its undefined dependency sets a timer for it after the timers of deleted resources were removed |
| `deploy/scheduler.py:1218` | a version takes back the intent that another one changed, while that one is being deployed, and the scheduler is killed: the resource is restored as compliant with the device of the version between. Before the kill the API reports it as compliant as well |
| `deploy/scheduler.py:354` | an agent that is paused while its runner sleeps on its queue still executes the next task that is queued |
| `server/services/environmentservice.py:523` | a clear reads `env.halted` before it takes the lock: when it is resumed in between, `cancel_compile` runs on a live environment |
| `server/services/compilerservice.py:1329` | the recount after a cancel or clear counts a request that is committed and not yet announced, and its announcement counts it again |
| `server/services/compilerservice.py:1032`, `:1038` | a marker that could not be written is found by the next recovery or resumption only: until then, the state directory of a quiet environment may have the marker of an older compile, or none. The same holds while an environment has no repository or may not compile: nobody looks again when that changes |
| `deploy/scheduler.py:474`, `:1296` | the loops of `stop` and of `refresh_all_agent_states_from_db` iterate over the dict of workers with an await per worker: when a new worker is added meanwhile they raise, and the workers behind are not stopped, or not told of the database |
| `agent/resourcepool.py:81` | "this will cause it to be evicted" does not hold when the connection is lost: shutting down the last executor of a process asks that process to close, which raises on the closed connection before the manager is told, so that the executor stays in the manager's caches |
| `agent/forking_executor.py:155` | a close sends its stop command from a task of its own: a new get may send its init before it, the process finds the old executor not stopped, the assertion fails and with it the get |

Smaller observations: a resource that is deleted and created again with its old hash is
restored as compliant, as `update_resource_intent` keeps the row's last run; a redeploy of
a compliant resource that a kill cuts off is not resumed. A `_run` that raises leaves its
environment on the map of active compiles until a restart. A graceful stop marks a
running compile as failed, a crash runs it again. The race between `process_pool.get` and
`process.get` that a FIXME in `forking_executor.py` names exists: an executor may be handed
out on a process that is closing, and a manager hands out executors of a process that has
died until it notices.

## 5. Proofs

TLAPS proves 38 theorems, for every value of the constants: any sets of resources,
agents, blueprints, merge keys and versions, any requires relation (cyclic ones included,
unless a theorem says otherwise), any reports, bounds and caps. The assumptions are those
that type the constants (`NoneAssumption`, `ConstantsAssumption`, `PoolsAssumption`,
`CompilerAssumption`, `RunnersAssumption`, `PersistenceAssumption`, `NoneIsNoRecord`), which TLC evaluates in the
runs. Each safety theorem has the form: an inductive invariant `Inv`, of which the
property is a part or a consequence, `Init => Inv` and `Inv /\ [Next]_vars => Inv'`.

### The scheduler: what it reports, and the order of its work (`ResourceSchedulerProofs`)

- `TypeCorrect`: `Spec => []TypeOK`. TLC checks `TypeOK` as a part of `ComplianceInvariant`
  in `faults`.
- `ComplianceIsInvariant`, `CompliantResourcesAreDeployed`: a resource that is
  `COMPLIANT` was last deployed with its present intent. That alone is not inductive: a
  deploy that is under way may be about to change the device behind the report. The
  invariant adds that a runner works for its own agent (so that there is one deploy of
  a resource at a time), that a deploy under way of a resource that is reported
  compliant is one of the reported intent, and that a resource with an orphaned deploy
  on record is not reported compliant. `QuietStep` disposes of the handlers that change neither
  intents nor compliance nor devices, `DoneStep` of the reports; a new version needs
  `NewVersionType`: all that follows `update_resource` in `_new_version` leaves
  compliance alone, so that whatever is compliant afterwards was so before and kept its
  intent. Only the comparison of hashes is needed for this, not `_deploying_latest`:
  that is why the disagreements of section 4 do not touch it.
- `SchedulerKeepsPromise`: `ResourceScheduler` implements `DesiredState`, with the same
  case analysis; `NewVersion` maps to `Release`, a report to `Deployed`, all else
  stutters.
- `ScheduledWorkInvariants`: tasks exist once, none waits on an empty set, and requires
  are enforced within the scheduled work, but for rescheduled tasks. The lemma that
  carries it is `DeployWithContextOrder`: the requires relation may change under
  `deploy_with_context` as long as the request describes the change (`DescribesChange`),
  which `UpdatedModelsType` shows of `_new_version`, re-created resources included.

### The scheduler: blocked, skipped and undefined resources, events (`ResourceSchedulerProofs`)

`RequiresDone` (`NewVersionsProofs`) describes the model after `update_requires`, resource
by resource; the lemmas after it say what `update_transitive_state` makes of that. Every
theorem about a new version starts from them.

- `BlockedStaysIdle` (`BlockedNotScheduled`): inductive with "no blocked resource is in
  `_deploying_latest`" (an event would schedule it again) and "what is undefined is
  blocked".
- `EventsReachListeners` (`EventsNotLost`): an action property, from `TypeOK` alone.
- `DeployingLatestIsLatest` (`DeployingIsLatest`): inductive with its counterpart for
  `_deploying_unmanaged`, and with the fact that a deploy is not orphaned before it
  starts. Assumes `~DbMayFail`: after a write that fails in `deploy_start` the set keeps a
  resource that no runner works on (section 4).
- `SkippingHasReason` (`SkippedHasBadDependency`): assumes `~AllowBatches` and
  `ClosedReleases`. The invariant adds that the model is that of some version (`Follows`),
  which is what makes its requires closed.
- `BlockedMeansUndeployable` (`BlockedIsUndefined`): the blocked resources are those
  that the version in force makes undeployable, a least fixed point over its requires
  (`BlockedIsUndeployable`). Assumes `AcyclicReleases` and `NoneRequiresUndeployable` as
  well; that the least fixed point is one, and the least, is proved here
  (`UndeployableClosed`), for `LeastClosed` is an intersection and needs no induction.

### The scheduler: nothing is forgotten (`SchedulerProgressProofs`)

These are about `ReportedSpec`, the behaviours in which no report raises: one that
raises assigns compliance and nothing else, after which all four are false in the code
(section 4).

- `DirtySetIsComplete` (`DirtyIsComplete`, `~AllowBatches`): `DirtyInvariant` says what
  the state of a resource tells of its last deploy, and that a deploy of another intent
  than the present one belongs to a resource that has an update.
- `NoUpdateIsMissed` (`UpdatesGetDeployed`), `TimersCoverAll` (`TimerCoverage`),
  `NoTaskWaitsInVain` (`BlockersPending`): each is inductive on top of `Foundation`, the
  conjunction of the invariants above. They assume `~AllowBatches`, `~DbMayFail` and
  `OrderlyReleases`. The lemmas under them are about steps (`ReportedStep`), in which a new
  version may also be a batch that re-creates nothing (`PlainVersionStep`): a restart needs
  them for the versions that it finds.

The hypotheses, and what justifies them:

| Hypothesis | Says | Because |
|---|---|---|
| `ClosedReleases` | a version requires only resources that it has | `server/services/orchestrationservice.py:613` refuses others |
| `AcyclicReleases` | requires have no cycle | `export.py:317` refuses one |
| `~AllowBatches`, `PersistedSpec` | versions are processed one by one, or re-create nothing | a restriction: a resource that a batch deletes and creates again loses the edges of its dependants (`deploy/state.py:453`, section 4) |
| `NoneRequiresUndeployable` | no version adds a require on a resource that another one leaves undeployable | a restriction: stage 3 of `update_transitive_state` may then leave a resource unblocked, or not pass a block on (`deploy/state.py:692`, section 4) |
| `~DbMayFail` | no database write fails | a restriction: a failed `send_in_progress` leaves its resource in `_deploying_latest` (`deploy/scheduler.py:1352`, section 4) |

The instances of `updates`, `events`, `undefined` and `timers` satisfy `ClosedReleases`,
`AcyclicReleases` and `NoneRequiresUndeployable`, and have neither batches nor failures.
Where a hypothesis is a restriction, section 4 has the behaviour of the code that makes
it necessary.

### `update_transitive_state`, iteration by iteration (`TransitiveStateProofs`)

- `TransitiveStateResultTheorem` (`ResultAsSpecified`): whatever order the four worklists
  are emptied in, the resources reported as blocked and unblocked and the model left behind
  are among those that the operator `update_transitive_state` allows, which is the one
  `ResourceScheduler` and every theorem about new versions use. So the atomic operator is
  no simplification of the loops. The operator is made of least fixed points
  (`propagate_undefined`, `propagate_blocked`, `propagate_unblocked`), the loops of
  worklists; `LoopInvariant` says of each stage what is missing: before a stage, nothing of
  its output exists; in it, what has been found is part of the fixed point, and the
  dependants of what has been found are found or on the worklist; after it, the two are
  equal. `HardBlockedStay` is the part that is not obvious: whatever
  `known_blockers_cache` and `hard_blocked` vouch for is blocked for good, because
  each of these resources requires a new undefined resource or another one of
  them that was blocked before it, so that nothing the last loop unblocks can be among them.
- `ConsistentResultTheorem` (`ConsistentResult`): a call that starts from a model whose
  blocked resources each depend on an undefined one leaves such a model behind, and if no
  resource gets new requires, also blocks everything that depends on an undefined resource.
  Assumes that the requires have no cycle: on a cycle two resources could each be the
  reason for the other to stay blocked. `export.py:317` refuses such versions.

### The database of the scheduler (`SchedulerPersistenceProofs`)

- `RowsFollowTheModel` (`RowsFollowModel`): while no transaction is pending or failed, the
  intent, undefined, orphaned and blocked columns are those of the model in memory, for any
  versions, batches and cyclic requires included, any number of kills, and any failures of
  the transaction. The invariant (`PersistenceInvariant`) speaks of the other times.
  `DatabaseFollows` holds also when no process runs: the rows describe the last version that
  was recorded, and what a later version released has its row. `InSync` says that a model
  which was restored or recorded describes that version too, so that `create_from_db` finds
  a row for each of its resources (`RestoredModel`). `WillRecord` says of a pending
  transaction that every column which differs from the model is in it, also after
  deploys changed the model in memory: they set and clear `TEMPORARILY_BLOCKED`
  only, which the database does not tell from `NOT_BLOCKED`
  (`VersionStays`). The lemma that carries it is `BatchColumns`: what `_new_version`
  collects for its transaction misses no resource whose columns change, which needs
  `BlockedScope` (nothing that is not managed is blocked or unblocked) and the case of a
  resource that a batch deletes and creates again. The only hypothesis is `~ReadAfterFailure`: a
  scheduler that reads a version after a transaction failed does lose the changes
  of the failed one (section 4).
- `RestartsMissNoUpdate` (`RestartMissesNoUpdate`): an initialised scheduler has scheduled
  each update, or a runner is committed to it, after any number of kills. It needs
  `RowsFollowTheModel`: what a restart reads must be as good as what was computed.
  `RestartInvariant` adds to `PersistenceInvariant` that nothing of a killed process is
  left in memory (`Asleep`), that otherwise `Foundation` holds, that a row of the
  recorded version is blocked exactly if that version makes its resource undeployable
  (`RowsBlocked`), and that the model represents the version which is to be recorded.
  The heart of it is `RestartFoundation`, which gives `Foundation` of a restored model:
  the compliance that `create_from_db` reads from hashes and results says what
  `DirtyInvariant` requires (`RestoredKnown`), and the blocked state is that of the version
  (`RestoredBlocked`). From there a restart either reads versions, which schedules what
  is dirty as any new version does (`ReadMissesNoUpdate`), or deploys it
  (`StartMissesNoUpdate`). Requests and deploys that come before that, when the
  model is restored and nothing was read yet, keep `Foundation`, while updates
  may be unscheduled. Assumes `~ReadAfterFailure`, `~DbMayFail` and
  `OrderlyReleases`, and is about `PersistedSpec`: no report raises, and no resource left
  and came back within the versions that a restarted scheduler reads at once, since it
  loses the edges of its dependants (`deploy/state.py:453`, section 4). Batches are
  not excluded otherwise. `recovery` checks the property without these two restrictions,
  within three versions and two kills; with a fourth version after such a batch TLC finds it
  violated, so the restriction is needed.

### The task runners (`TaskRunnersProofs`)

- `RunnersTypeCorrect`.
- `StartsOnce`, `JoinsAreAllowed`, `SleepersAreWoken`, `StopIsComplete`,
  `SuspensionIsComplete` (`NeverStartsTwice`, `JoinsOnlyStopped`, `NobodyJoinsSleeper`,
  `StoppedIsQuiet`, `SuspendedIsQuiet`): one inductive invariant, `QuietInv`. It
  says how far a stop or a suspension has come: the workers that its loop has passed
  are stopping, those it has joined are silent, and nobody starts one while the flags say
  so. That a runner which is not among the workers was never started closes the argument for
  workers that are added while a loop runs.
- `DatabaseIsFollowed` (`FollowsDatabase`): `FollowInv` says of each runner that does not
  follow the database who will make it: a notification that waits or that has not read
  the database yet, or a loop that has not come to it. `LoopInv` says that a loop over
  all workers waits for one notification at a time, which makes "not yet come to" stable.

### The executors (`ExecutorPoolsProofs`)

- `ObjectsAgree`: `Shape`, the types and what the objects of the manager, the pools, the
  waiting gets and the commands on their way know of each other.
- `PoolsKept`, and from it `WorkGoesOn` (`WorkIsNotInterrupted`), `RunningExecutorsTracked`
  (`RunningIsTracked`) and `ProcessesHaveUse` (`ProcessIsUsed`): none of the three is
  inductive, `Kept` is. It adds that an executor that is not closing is in its caches, that
  what runs in a process is tracked by the manager, that a process which is not closing is in the pool with an
  executor in it or about to be, and what a get that waits has in hand. Each step is one of five
  outcomes (`StepOutcome`): nothing begins (`Fades`), a get is handed what exists, it
  creates an executor, it starts a process, or an executor begins to run in its
  process; each outcome is shown to keep `Kept` once.
- `JoinLeavesNone` (`JoinedMeansStopped`): when the manager joins, nobody is getting an
  executor, so that nothing is created after its processes are gone.
- `CapHolds` (`CapRespected`): by cardinalities; an executor that is created or about to
  be created has taken the place of one that make_room closed.

### The compiler service (`CompilerServiceProofs`)

- `CompilerTypeCorrect`: types, and that a run that waits for the next compile has made one
  call for it (`CallsInv`).
- `NotificationsAreDelivered` (`HandledIsDelivered`).
- `OneCompileAtATime` (`OneCompilePerEnvironment`): `BusyInv` says that every live run
  is the entry of `_env_to_compile_task`, or the one that a clear has taken off it and waits for;
  in that time the environment is halted and no caller that saw it otherwise holds the lock.
- `BlockersComeFirst` (`BlockersBeforeNextCompile`): `DebtInv` names for each compile whose
  blocking listeners were not told who will tell them (recovery, the run, the next server),
  and says that there is none when a run begins.
- `MergedRequestsAreServed` (`MergeLosesNothing`): `MergeInv` says the same of the requests
  that a run has collected and not yet completed.
- `QueueIsCounted` (`QueueCountIsLength`): what waits is the queued compiles without the one
  that the run has taken (`Taken`), and the requests it is about to settle (`Settling`);
  `BusyInv` and `MergeInv` make each step change that set by exactly what the code adds to or
  subtracts from `_queue_count_cache`. Requests that are yet to be announced have
  their row or have lost it (`Announced`); when a clear recounts, nothing runs and nothing
  that is queued was started (`RecountInv`), so that the recount is the number of rows, and
  what it counts before its announcement is what is counted twice.

### Only model-checked

- Liveness (`WorkDrains`, `RequestsAreServed`, `Terminates`), out of the prover's reach;
  `NoWaitCycle`, which contains ENABLED.
- `LocalStateIsCurrent` of `CompilerService`: with more compiles than the run has, a
  compile that was cancelled on an environment that is not halted may leave a run behind that
  writes its state late, and we have no invariant that excludes exactly this.
- `NothingForgotten` of `SchedulerPersistence`: it says what is deployed on a device after
  deploys that were cut off, in terms of rows that several processes wrote; we have no
  inductive invariant for any number of kills.
- `EventsSurvive`, for the same reason: it relates the time stamps of what each process had
  deployed to several processes that were killed.

## 6. Not modelled, and the plan

Not modelled:

- The compiler and its language, module installation, exporter, command line: a
  sequential program over files, whose state is the program it compiles. This is most of
  the code by size.
- RPC and websocket transport, the agent manager's sessions and the supervision of the
  scheduler process, database schema and views, the services that only read and write
  rows in one transaction.
- Handlers and the resource API: user code, represented by the reports it leads to.
- The parsing of partial versions and resource sets in `_get_intent_changes`: the batch
  that results is modelled, not how it is found.
- Priorities within `AgentQueues`, dry runs, fact refreshes, report retention, the inside
  of `CompileRun`, virtual environments on disk, the in-process executor.
- Instants of timers: a timer fires at any moment, which covers every schedule but not the
  early return of `set_timer` on an unchanged instant (`deploy/timers.py:95`).
- `RESET_DEPLOY_PROGRESS_ON_START` (`deploy/scheduler.py:543`): with this setting a start
  does not restore the state and deploys everything, as the first start does.
- `environment.halted` in `should_runner_be_running`: the transaction that halts an
  environment pauses all of its agents, which `TaskRunners` models.
- Two concurrent removals of virtual environments, and a deletion of the environment
  (which is a halt and a clear under one lock).

The state machines that decide when resources are deployed, when compiles run, and what
survives a restart are modelled. What the plan has left:

1. Theorems about what is left of `SchedulerPersistence`, on top of `RestartsMissNoUpdate`:
   `EventsSurvive` and `NothingForgotten`.
2. A theorem about what is left of `CompilerService` (`LocalStateIsCurrent`).
3. `AgentQueues` with priorities and deleted items, refining the set of queued tasks of
   `ScheduledWork`.
4. `_get_intent_changes` over sequences of partial versions, shown to give the batches that
   `NewVersion` assumes.
