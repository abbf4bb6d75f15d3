---------------------------- MODULE TaskRunners ----------------------------
(***************************************************************************)
(* The workers of one scheduler: a TaskRunner per agent that executes the  *)
(* tasks in the agent's queue one by one, is started and stopped as the    *)
(* database says (paused or not), and goes down, woken up by a poison      *)
(* pill, when the scheduler stops or suspends deployments to remove the    *)
(* virtual environments of its executors.                                  *)
(*                                                                         *)
(* Everything runs on one asyncio loop: a step of the model is what the    *)
(* code does between two waits for the database, a lock, a queue or        *)
(* another task.  Which task is in a queue, and what it does, is the       *)
(* subject of ResourceScheduler; here it is counted.                       *)
(***************************************************************************)
EXTENDS Integers, Sequences, FiniteSets, Functions

CONSTANTS
    Agents,
    MaxPuts,        \* bound on the tasks that are queued
    MaxPauses,      \* bound on the changes of the agents' paused flag
    MaxStarts,      \* bound on the starts of the scheduler
    MaxRemovals     \* bound on the removals of the executors' environments

ASSUME RunnersAssumption == {MaxPuts, MaxPauses, MaxStarts, MaxRemovals} \subseteq Nat

VARIABLES
    paused,     \* data.Agent.paused in the database
    workers,    \* the keys of _workers, in the order of their creation
    runner,     \* the TaskRunner, and the queue, of each agent
    running,    \* ResourceScheduler._running
    suspended,  \* ResourceScheduler._deployment_suspended
    control,    \* Agent.start_working and stop_working, under _working_lock
    removal,    \* Agent.remove_executor_venvs
    refresh,    \* the loops of refresh_all_agent_states_from_db
    raised,     \* the operations that ended in an exception
    count       \* how often the bounded actions were taken

vars == <<paused, workers, runner, running, suspended, control, removal, refresh, raised, count>>

(* Who may run the loop over all workers: the end of a removal, set_state for  *)
(* all agents.                                                                 *)
Loops == {"resume", "all"}

(* status, task:    of the TaskRunner; task is how far its _run has come       *)
(* tasks, pills:    what is in the agent's queue                               *)
(* waiting, holder: the notifications that wait for _notify_lock, and the one  *)
(*                  that has it                                                *)
(* should:          what should_runner_be_running has read                     *)
NewRunner ==
    [status |-> "STOPPED", task |-> "none", tasks |-> 0, pills |-> 0,
     waiting |-> {}, holder |-> "none", should |-> "unread"]

AtRest == [pc |-> "idle", next |-> 0, size |-> 0]
Zero   == [puts |-> 0, pauses |-> 0, starts |-> 0, removals |-> 0]

Init ==
    /\ paused \in [Agents -> BOOLEAN]
    /\ workers = <<>> /\ runner = [a \in Agents |-> NewRunner]
    /\ running = FALSE /\ suspended = FALSE
    /\ control = [pc |-> "stopped", next |-> 0, size |-> 0]
    /\ removal = [pc |-> "idle", todo |-> {}]
    /\ refresh = [x \in Loops |-> AtRest]
    /\ raised = {} /\ count = Zero

Bounded(what, bound) == count[what] < bound /\ count' = [count EXCEPT ![what] = @ + 1]

Alive(a) == runner[a].task # "none"
Known(a) == a \in Range(workers)

-----------------------------------------------------------------------------
(* TaskRunner._run *)

(* The condition of the loop: without it the runner ends, and says so. *)
goes_on(r) == running /\ r.status = "STARTED"

Loop(r) == IF goes_on(r) THEN [r EXCEPT !.task = "waiting"]
           ELSE [r EXCEPT !.task = "none", !.status = "STOPPED"]

BeginRun(a) ==
    /\ runner[a].task = "created"
    /\ runner' = [runner EXCEPT ![a] = Loop(@)]
    /\ UNCHANGED <<paused, workers, running, suspended, control, removal, refresh, raised, count>>

(* queue_get: pills come first, and nothing is awaited while one is executed. *)
TakePill(a) ==
    /\ runner[a].task = "waiting" /\ runner[a].pills > 0
    /\ runner' = [runner EXCEPT ![a] = Loop([runner[a] EXCEPT !.pills = runner[a].pills - 1])]
    /\ UNCHANGED <<paused, workers, running, suspended, control, removal, refresh, raised, count>>

TakeTask(a) ==
    /\ runner[a].task = "waiting" /\ runner[a].pills = 0 /\ runner[a].tasks > 0
    /\ runner' = [runner EXCEPT ![a] = [runner[a] EXCEPT !.tasks = runner[a].tasks - 1, !.task = "executing"]]
    /\ UNCHANGED <<paused, workers, running, suspended, control, removal, refresh, raised, count>>

TaskDone(a) ==
    /\ runner[a].task = "executing"
    /\ runner' = [runner EXCEPT ![a] = Loop(@)]
    /\ UNCHANGED <<paused, workers, running, suspended, control, removal, refresh, raised, count>>

-----------------------------------------------------------------------------
(* Queues and agents *)

(* Requests are refused when the scheduler is not running.  What was under way *)
(* before it stopped is not: a timer, a request that waits for the scheduler's *)
(* lock, the events that a task sends when it is done.                         *)
MayPut == running \/ control.pc \in {"stopWorkers", "joining"} \/ \E a \in Agents : runner[a].task = "executing"

creates_agent(a) == ~Known(a)

(* queue_put_nowait: the first task of an agent creates its queue, and with it *)
(* its runner (_create_agent), which is notified in a task of its own.         *)
PutTask(a) ==
    /\ MayPut
    /\ Bounded("puts", MaxPuts)
    /\ workers' = IF creates_agent(a) THEN Append(workers, a) ELSE workers
    /\ runner' = [runner EXCEPT ![a] = [runner[a] EXCEPT !.tasks = runner[a].tasks + 1,
                                                 !.waiting = IF creates_agent(a) THEN @ \cup {"sync"} ELSE @]]
    /\ UNCHANGED <<paused, running, suspended, control, removal, refresh, raised>>

(* send_shutdown: one pill in every queue. *)
WithPills(rs) == [a \in Agents |-> IF Known(a) THEN [rs[a] EXCEPT !.pills = @ + 1] ELSE rs[a]]

-----------------------------------------------------------------------------
(* Pausing agents, and notifying their runners *)

(* _update_paused_status_agent: the database, and then a call to the scheduler. *)
SetPaused(a) ==
    /\ "rpc" \notin runner[a].waiting
    /\ Bounded("pauses", MaxPauses)
    /\ paused' = [paused EXCEPT ![a] = ~@]
    /\ runner' = [runner EXCEPT ![a].waiting = @ \cup {"rpc"}]
    /\ UNCHANGED <<workers, running, suspended, control, removal, refresh, raised>>

(* refresh_agent_state_from_db: an agent without a runner reads it later. *)
RefreshAgent(a) ==
    /\ "rpc" \in runner[a].waiting
    /\ runner' = [runner EXCEPT ![a].waiting = (@ \ {"rpc"}) \cup (IF Known(a) THEN {"call"} ELSE {})]
    /\ UNCHANGED <<paused, workers, running, suspended, control, removal, refresh, raised, count>>

SetAllPaused ==
    /\ refresh["all"] = AtRest
    /\ Bounded("pauses", MaxPauses)
    /\ paused' \in {[a \in Agents |-> p] : p \in BOOLEAN} \ {paused}
    /\ refresh' = [refresh EXCEPT !["all"].pc = "rpc"]
    /\ UNCHANGED <<workers, runner, running, suspended, control, removal, raised>>

\* Mutant: a runner that was asked to stop counts as stopped.
stops_at_once(r) == [r EXCEPT !.status = "STOPPED", !.waiting = @ \ {"sync"}]

(* _stop, under the lock: the runner's other notifications of its own are      *)
(* cancelled.                                                                  *)
_stop(r) == [r EXCEPT !.status = "STOPPING", !.waiting = @ \ {"sync"}]

\* Mutant: a runner that should not be running is left alone.
never_stops(r, should) ==
    IF r.status = "STOPPED" /\ should THEN [r EXCEPT !.status = "STARTED", !.task = "created"] ELSE r

(* The cases of notify. *)
notify(r, should) ==
    CASE r.status = "STARTED" /\ ~should -> _stop(r)
      [] r.status = "STOPPED" /\ should  -> [r EXCEPT !.status = "STARTED", !.task = "created"]
      [] r.status = "STOPPING" /\ should -> [r EXCEPT !.status = "STARTED"]
      [] OTHER -> r

(* A loop over all workers goes on when its notification is over. *)
NextWorker(who) ==
    refresh' = IF who \in Loops THEN [refresh EXCEPT ![who].pc = "loop"] ELSE refresh

\* Mutant: runners follow the database while deployments are suspended.
only_if_stopped == ~running

(* should_runner_be_running before it looks at the agent in the database.      *)
(* environment.halted is left out: the transaction that sets it pauses all     *)
(* agents, which are not unpaused before it is reset.                          *)
may_not_run == suspended \/ ~running

(* The notification has the lock. *)
BeginNotify(a, who) ==
    /\ who \in runner[a].waiting \ {"rpc"} /\ runner[a].holder = "none"
    /\ LET r == [runner[a] EXCEPT !.waiting = @ \ {who}]
       IN  \/ /\ may_not_run
              /\ runner' = [runner EXCEPT ![a] = notify(r, FALSE)]
              /\ NextWorker(who)
           \/ /\ ~may_not_run
              /\ runner' = [runner EXCEPT ![a] = [r EXCEPT !.holder = who]]
              /\ UNCHANGED refresh
    /\ UNCHANGED <<paused, workers, running, suspended, control, removal, raised, count>>

ReadPaused(a) ==
    /\ runner[a].holder # "none" /\ runner[a].should = "unread"
    /\ runner' = [runner EXCEPT ![a].should = IF paused[a] THEN "no" ELSE "yes"]
    /\ UNCHANGED <<paused, workers, running, suspended, control, removal, refresh, raised, count>>

EndNotify(a) ==
    /\ runner[a].holder # "none" /\ runner[a].should # "unread"
    /\ runner' = [runner EXCEPT ![a] = notify([runner[a] EXCEPT !.holder = "none", !.should = "unread"], runner[a].should = "yes")]
    /\ NextWorker(runner[a].holder)
    /\ UNCHANGED <<paused, workers, running, suspended, control, removal, raised, count>>

-----------------------------------------------------------------------------
(* refresh_all_agent_states_from_db iterates over the dict itself. *)

RefreshBegins(x) ==
    /\ refresh[x].pc = "rpc"
    /\ refresh' = [refresh EXCEPT ![x] = [pc |-> "loop", next |-> 1, size |-> Len(workers)]]
    /\ UNCHANGED <<paused, workers, runner, running, suspended, control, removal, raised, count>>

RefreshNext(x) ==
    /\ refresh[x].pc = "loop" /\ Len(workers) = refresh[x].size
    /\ LET i == refresh[x].next
       IN  IF i > Len(workers)
           THEN refresh' = [refresh EXCEPT ![x] = AtRest] /\ UNCHANGED runner
           ELSE /\ refresh' = [refresh EXCEPT ![x] = [refresh[x] EXCEPT !.pc = "notified", !.next = i + 1]]
                /\ runner' = [runner EXCEPT ![workers[i]].waiting = @ \cup {x}]
    /\ UNCHANGED <<paused, workers, running, suspended, control, removal, raised, count>>

(* "dictionary changed size during iteration" *)
RefreshRaises(x) ==
    /\ refresh[x].pc = "loop" /\ Len(workers) # refresh[x].size
    /\ refresh' = [refresh EXCEPT ![x] = AtRest]
    /\ raised' = raised \cup {"refresh"}
    /\ UNCHANGED <<paused, workers, runner, running, suspended, control, removal, count>>

-----------------------------------------------------------------------------
(* Suspending deployments, to remove the executors' environments *)

(* TaskRunner.join: raises when the runner is running, waits for its _run. *)
Joinable == \A i \in DOMAIN workers : runner[workers[i]].status # "STARTED"

Suspend ==
    /\ removal.pc = "idle" /\ refresh["resume"] = AtRest
    /\ Bounded("removals", MaxRemovals)
    /\ suspended' = TRUE
    /\ removal' = [pc |-> "stopping", todo |-> Range(workers)]
    /\ UNCHANGED <<paused, workers, runner, running, control, refresh, raised>>

SuspendWorker(a) ==
    /\ removal.pc = "stopping" /\ a \in removal.todo /\ runner[a].holder = "none"
    /\ runner' = [runner EXCEPT ![a] = IF Known(a) THEN _stop(@) ELSE @]
    /\ removal' = [removal EXCEPT !.todo = @ \ {a}]
    /\ UNCHANGED <<paused, workers, running, suspended, control, refresh, raised, count>>

(* resume_deployments, in any case *)
Resume ==
    /\ removal' = [pc |-> "idle", todo |-> {}]
    /\ suspended' = FALSE
    /\ refresh' = [refresh EXCEPT !["resume"].pc = "rpc"]

\* Mutant: nobody is woken up.
no_pills(rs) == rs

add_poison_pill_to_agent_queues(rs) == WithPills(rs)

SuspendAll ==
    /\ removal.pc = "stopping" /\ removal.todo = {}
    /\ runner' = add_poison_pill_to_agent_queues(runner)
    /\ IF Joinable
       THEN /\ removal' = [pc |-> "joining", todo |-> Range(workers)]
            /\ UNCHANGED <<suspended, refresh, raised>>
       ELSE raised' = raised \cup {"join"} /\ Resume
    /\ UNCHANGED <<paused, workers, running, control, count>>

\* Mutant: the removal does not wait for the tasks that are executing.
removes_at_once ==
    /\ removal.pc = "joining"
    /\ removal' = [pc |-> "removing", todo |-> {}]
    /\ UNCHANGED <<paused, workers, runner, running, suspended, control, refresh, raised, count>>

SuspendJoined ==
    /\ removal.pc = "joining" /\ \A a \in removal.todo : ~Alive(a)
    /\ removal' = [pc |-> "removing", todo |-> {}]
    /\ UNCHANGED <<paused, workers, runner, running, suspended, control, refresh, raised, count>>

RemoveVenvs ==
    /\ removal.pc = "removing"
    /\ Resume
    /\ UNCHANGED <<paused, workers, runner, running, control, raised, count>>

-----------------------------------------------------------------------------
(* Agent.start_working and stop_working *)

(* Notifications of runners that are stopped end at once: they are over when   *)
(* the scheduler comes back.                                                   *)
NotificationsOver == \A a \in Agents : runner[a].waiting \subseteq {"rpc"} /\ runner[a].holder = "none"

(* _reset: everything is cleared; it joins the workers of the previous run. *)
Start ==
    /\ control.pc = "stopped" /\ raised \cap {"stop", "join"} = {} /\ NotificationsOver
    /\ Bounded("starts", MaxStarts)
    /\ workers' = <<>>
    /\ runner' = [a \in Agents |-> [NewRunner EXCEPT !.waiting = runner[a].waiting]]
    /\ control' = [control EXCEPT !.pc = "starting"]
    /\ UNCHANGED <<paused, running, suspended, removal, refresh, raised>>

(* _reset after stop has raised: a worker that still runs cannot be joined. *)
StartRaises ==
    /\ control.pc = "stopped" /\ "stop" \in raised /\ "join" \notin raised /\ ~Joinable
    /\ Bounded("starts", MaxStarts)
    /\ raised' = raised \cup {"join"}
    /\ UNCHANGED <<paused, workers, runner, running, suspended, control, removal, refresh>>

(* _initialize has restored the state; or the database was not there. *)
Initialize ==
    /\ control.pc = "starting"
    /\ \/ running' = TRUE /\ control' = [control EXCEPT !.pc = "working"]
       \/ UNCHANGED running /\ control' = [control EXCEPT !.pc = "stopped"]
    /\ UNCHANGED <<paused, workers, runner, suspended, removal, refresh, raised, count>>

Stop ==
    /\ control.pc = "working"
    /\ running' = FALSE
    /\ control' = [pc |-> "stopWorkers", next |-> 1, size |-> Len(workers)]
    /\ UNCHANGED <<paused, workers, runner, suspended, removal, refresh, raised, count>>

(* stop, too, iterates over the dict itself. *)
StopWorker ==
    /\ control.pc = "stopWorkers" /\ Len(workers) = control.size /\ control.next <= control.size
    /\ LET a == workers[control.next]
       IN  runner[a].holder = "none" /\ runner' = [runner EXCEPT ![a] = _stop(@)]
    /\ control' = [control EXCEPT !.next = @ + 1]
    /\ UNCHANGED <<paused, workers, running, suspended, removal, refresh, raised, count>>

StopRaises ==
    /\ control.pc = "stopWorkers" /\ Len(workers) # control.size
    /\ control' = [control EXCEPT !.pc = "stopped"]
    /\ raised' = raised \cup {"stop"}
    /\ UNCHANGED <<paused, workers, runner, running, suspended, removal, refresh, count>>

StopAll ==
    /\ control.pc = "stopWorkers" /\ Len(workers) = control.size /\ control.next > control.size
    /\ runner' = add_poison_pill_to_agent_queues(runner)
    /\ control' = [control EXCEPT !.pc = IF Joinable THEN "joining" ELSE "stopped"]
    /\ raised' = IF Joinable THEN raised ELSE raised \cup {"join"}
    /\ UNCHANGED <<paused, workers, running, suspended, removal, refresh, count>>

\* Mutant: the scheduler counts as stopped while its runners go down.
joins_nobody ==
    /\ control.pc = "joining"
    /\ control' = [control EXCEPT !.pc = "stopped"]
    /\ UNCHANGED <<paused, workers, runner, running, suspended, removal, refresh, raised, count>>

Joined ==
    /\ control.pc = "joining" /\ \A a \in Agents : ~Alive(a)
    /\ control' = [control EXCEPT !.pc = "stopped"]
    /\ UNCHANGED <<paused, workers, runner, running, suspended, removal, refresh, raised, count>>

-----------------------------------------------------------------------------
RunnerStep(a) == BeginRun(a) \/ TakePill(a) \/ TakeTask(a) \/ TaskDone(a)

NotifyStep(a) ==
    \/ RefreshAgent(a) \/ ReadPaused(a) \/ EndNotify(a)
    \/ \E who \in {"sync", "call"} \cup Loops : BeginNotify(a, who)

RefreshStep(x) == RefreshBegins(x) \/ RefreshNext(x) \/ RefreshRaises(x)

RemovalStep == (\E a \in Agents : SuspendWorker(a)) \/ SuspendAll \/ SuspendJoined \/ RemoveVenvs

ControlStep == Initialize \/ StopWorker \/ StopRaises \/ StopAll \/ Joined

Next ==
    \/ \E a \in Agents : RunnerStep(a) \/ NotifyStep(a) \/ PutTask(a) \/ SetPaused(a)
    \/ \E x \in Loops : RefreshStep(x)
    \/ RemovalStep \/ ControlStep
    \/ SetAllPaused \/ Suspend \/ Start \/ StartRaises \/ Stop

Spec == Init /\ [][Next]_vars

-----------------------------------------------------------------------------
(* Properties *)

(* "Task Runner is trying to start twice, this should not happen": a runner    *)
(* that has confirmed its stop has no loop left, whatever paused, resumed or   *)
(* suspended it in the meantime.                                               *)
NeverStartsTwice == \A a \in Agents : runner[a].status = "STOPPED" => ~Alive(a)

(* "Joining worker that is not stopped": no notification undoes a stop before  *)
(* the join, unless stop itself was cut short.                                 *)
JoinsOnlyStopped == "join" \in raised => "stop" \in raised

(* When the scheduler has stopped, none of its runners is left: not one that   *)
(* was created, notified or resumed while the others were stopped.             *)
StoppedIsQuiet == (control.pc \in {"stopped", "starting"} /\ raised \cap {"stop", "join"} = {}) => \A a \in Agents : ~Alive(a)

(* "Suspend all agent operations": no task runs while environments are removed. *)
SuspendedIsQuiet == removal.pc = "removing" => \A a \in Agents : runner[a].task # "executing"

Quiescent ==
    /\ control.pc = "working" /\ removal.pc = "idle" /\ \A x \in Loops : refresh[x] = AtRest
    /\ \A a \in Agents : runner[a].waiting = {} /\ runner[a].holder = "none"

(* "The database is the authoritative entity": once all notifications are      *)
(* handled, the runners that count as running are those of the agents that     *)
(* are not paused, unless a loop over all of them was cut short.               *)
FollowsDatabase ==
    (Quiescent /\ raised = {}) => \A a \in Range(workers) : (runner[a].status = "STARTED") <=> ~paused[a]

(* "Wake them up to receive the stop": nobody waits for a runner that waits    *)
(* for a task, so that every stop and every suspension comes to an end.        *)
NobodyJoinsSleeper ==
    \A a \in Agents : (control.pc = "joining" \/ (removal.pc = "joining" /\ a \in removal.todo)) =>
        (runner[a].task = "waiting" => runner[a].pills + runner[a].tasks > 0)

(* "If the agent is not paused: It will make sure that the agent is running":  *)
(* a runner that counts as started has a loop that takes its tasks.            *)
StartedHasLoop == \A a \in Agents : runner[a].status = "STARTED" => Alive(a)

=============================================================================
