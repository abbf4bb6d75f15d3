--------------------------- MODULE ExecutorPools ---------------------------
(***************************************************************************)
(* The executor manager of one scheduler process: MPManager caches an      *)
(* executor per agent and blueprint, MPPool a child process per blueprint, *)
(* and each MPProcess the executors that run in it.  Executors are closed  *)
(* when they are idle, to make room, or when their process dies; a process *)
(* is closed when its last executor is gone, or with the pool.             *)
(*                                                                         *)
(* Everything runs on one asyncio loop: a step of the model is what the    *)
(* code does between two waits for the other process, for the operating    *)
(* system or for a lock.  The task runner of an agent executes one task at *)
(* a time, so that the lock of an executor id is contended by the cleanup  *)
(* only.  The other end of a connection handles messages in their order.   *)
(***************************************************************************)
EXTENDS Integers, Sequences, FiniteSets

CONSTANTS
    Agents, Blueprints,
    Ids,            \* the blueprints that the resources of each agent need
    Cap,            \* agent_executor_cap: max_executors_per_agent
    MaxProcesses,   \* bound on the child processes that are started
    MaxExecutors,   \* bound on the executors that are created
    MaxCrashes      \* bound on child processes that die by themselves

ASSUME PoolsAssumption ==
    /\ Ids \subseteq Agents \X Blueprints /\ Cap \in Nat \ {0}
    /\ {MaxProcesses, MaxExecutors, MaxCrashes} \subseteq Nat

VARIABLES
    s,          \* the pools, their members, and the child processes
    runner,     \* what the task runner of each agent is waiting for
    phase,      \* how far the executor manager's stop has come
    crashes

vars == <<s, runner, phase, crashes>>

Procs == 1..Len(s.procs)
Execs == 1..Len(s.execs)

Idle == [pc |-> "idle", bp |-> CHOOSE b \in Blueprints : TRUE, proc |-> 0, exec |-> 0]

(* procs:      all MPProcess objects; pool holds the executors in it, lost is  *)
(*             set when the connection is gone, os is the child process, busy  *)
(*             the executors whose work it waits for before it ends            *)
(* execs:      all MPExecutor objects; stop is the state of inner_close,       *)
(*             remote that of the InProcessExecutor at the other end           *)
(* process_pool, pool: MPPool.pool and MPManager.pool                          *)
(* agent_map:  MPManager.agent_map                                             *)
(* last_used:  how the executors compare in it: <<x, e>> when x was used last  *)
(*             before e was                                                    *)
Init ==
    /\ s = [procs |-> <<>>, execs |-> <<>>,
            process_pool |-> [b \in Blueprints |-> 0],
            pool |-> [i \in Ids |-> 0],
            agent_map |-> [a \in Agents |-> {}],
            last_used |-> {}]
    /\ runner = [a \in Agents |-> Idle]
    /\ phase = "running" /\ crashes = 0

NewProcess(b) == [bp |-> b, closing |-> FALSE, down |-> FALSE, os |-> "alive", lost |-> FALSE,
                  inbox |-> <<>>, busy |-> {}, pool |-> [a \in Agents |-> 0]]

NewExecutor(a, p, b) == [agent |-> a, bp |-> b, proc |-> p, closing |-> FALSE, down |-> FALSE,
                         stop |-> "no", remote |-> "none"]

Id(t, e)      == <<t.execs[e].agent, t.execs[e].bp>>
Running(t, e) == ~t.execs[e].closing /\ ~t.execs[e].down
InUse(e)      == \E a \in Agents : runner[a].pc = "executing" /\ runner[a].exec = e
Mapped(e)     == e \in s.agent_map[s.execs[e].agent]
(* The runners that hold the manager's lock of their executor id. *)
Getting(a)    == runner[a].pc \in {"wantProcess", "refused", "newProcess", "newExecutor"}

Command(cmd, e)    == [cmd |-> cmd, exec |-> e]
Send(t, p, cmd, e) == [t EXCEPT !.procs[p].inbox = Append(@, Command(cmd, e))]

-----------------------------------------------------------------------------
(* The end of members, and who is told *)

(* MPProcess.request_shutdown *)
close_process(proc) ==
    IF proc.closing THEN proc
    ELSE [proc EXCEPT !.closing = TRUE, !.inbox = Append(@, Command("stop", 0))]

(* MPExecutor.request_shutdown: inner_close is a task of its own. *)
close_executor(exec) ==
    IF exec.closing THEN exec
    ELSE [exec EXCEPT !.closing = TRUE, !.stop = "task"]

\* Mutant: an executor that went down takes its replacement off the pool.
registered_by_id(member, e) == TRUE

(* notify_member_shutdown leaves the replacement of a stale member alone. *)
is_registered(member, e) == member = e

Without(member, e) == IF is_registered(member, e) THEN 0 ELSE member

is_empty(proc) == \A a \in Agents : proc.pool[a] = 0

(* MPProcess.notify_member_shutdown *)
leave_process(proc, a, e) ==
    LET left == [proc EXCEPT !.pool[a] = Without(@, e)]
    IN  IF is_empty(left) THEN close_process(left) ELSE left

(* What is left of an executor that is in no pool any more. *)
AnId      == CHOOSE i \in Ids : TRUE
Forgotten == [NewExecutor(AnId[1], 0, AnId[2]) EXCEPT !.closing = TRUE, !.down = TRUE, !.stop = "done"]

\* Mutant: the manager forgets all executors of the agent with the one that is down.
forgets_agent(t, e) ==
    LET a == t.execs[e].agent
    IN  [t EXCEPT !.procs[t.execs[e].proc] = leave_process(@, a, e),
                  !.agent_map[a] = {},
                  !.last_used = {r \in @ : a # t.execs[r[1]].agent},
                  !.pool[Id(t, e)] = Without(@, e),
                  !.execs[e] = Forgotten]

(* PoolMember.set_shutdown of an executor: the process is told first, then the *)
(* manager, whose notify_member_shutdown takes it off the agent map as well.   *)
set_shutdown(t, e) ==
    LET a == t.execs[e].agent
    IN  [t EXCEPT !.procs[t.execs[e].proc] = leave_process(@, a, e),
                  !.agent_map[a] = @ \ {e},
                  !.last_used = {r \in @ : e \notin {r[1], r[2]}},
                  !.pool[Id(t, e)] = Without(@, e),
                  !.execs[e] = Forgotten]

(* MPPool.notify_member_shutdown, called by MPProcess.set_shutdown. *)
process_down(t, p) ==
    [t EXCEPT !.procs[p] = [@ EXCEPT !.closing = TRUE, !.down = TRUE, !.os = "dead", !.inbox = <<>>, !.busy = {}],
              !.process_pool[t.procs[p].bp] = Without(@, p)]

-----------------------------------------------------------------------------
(* MPManager.get, called by a task that needs an executor *)

Wait(a, b, pc, p, e) == runner' = [runner EXCEPT ![a] = [pc |-> pc, bp |-> b, proc |-> p, exec |-> e]]
Fail(a)              == runner' = [runner EXCEPT ![a] = Idle]

(* PoolMember.touch *)
Touch(t, a, e) ==
    [t EXCEPT !.last_used = {r \in @ : e \notin {r[1], r[2]}} \cup ((t.agent_map[a] \ {e}) \X {e})]

(* MPManager.create_member has got the executor from its process. *)
Register(t, a, e) == Touch([t EXCEPT !.agent_map[a] = @ \cup {e}], a, e)

\* Mutant: a pool that has stopped still hands out members.
always_accepts(phases) == TRUE

(* PoolManager.get: a pool that has stopped refuses.  The manager stops after  *)
(* the process pool.  When the latter takes its exclusive lock to stop, those  *)
(* who have asked for the lock of a blueprint still get it; those who come     *)
(* later wait until the pool has stopped.                                      *)
accepts(phases) == phase \in phases

Accepts    == accepts({"running", "stopping"})
PoolIsOpen == accepts({"running"})

GetExisting(a, b) ==
    /\ runner[a] = Idle /\ Accepts
    /\ LET e == s.pool[<<a, b>>]
       IN  /\ e # 0 /\ ~s.execs[e].closing
           /\ s' = Touch(s, a, e)
           /\ Wait(a, b, "executing", 0, e)
    /\ UNCHANGED <<phase, crashes>>

\* Mutant: the cap is checked after the fact.
over_cap(n) == n > Cap

no_room(n) == n >= Cap

(* pre_create_capacity_check closes the executor that was used longest ago. *)
make_room(a) ==
    LET executors == {e \in s.agent_map[a] : Running(s, e)}
    IN  \/ ~no_room(Cardinality(executors)) /\ s' = s
        \/ /\ no_room(Cardinality(executors))
           /\ \E oldest \in executors :
                 /\ \A e \in executors : <<e, oldest>> \notin s.last_used
                 /\ s' = [s EXCEPT !.execs[oldest] = close_executor(@)]

GetNew(a, b) ==
    /\ runner[a] = Idle /\ Accepts
    /\ LET e == s.pool[<<a, b>>] IN e # 0 => s.execs[e].closing
    /\ Len(s.execs) + Cardinality({x \in Agents : Getting(x)}) < MaxExecutors
    /\ make_room(a)
    /\ Wait(a, b, IF PoolIsOpen THEN "wantProcess" ELSE "refused", 0, 0)
    /\ UNCHANGED <<phase, crashes>>

(* The pool has stopped: PoolManagerNotRunning. *)
Refused(a) ==
    /\ runner[a].pc = "refused" /\ phase # "stopping"
    /\ Fail(a)
    /\ UNCHANGED <<s, phase, crashes>>

(* MPProcess.get: an executor that is still there, or a new one, for which     *)
(* the other end is asked to make one.                                         *)
get_executor(t, a, p) ==
    IF t.procs[p].lost THEN Fail(a) /\ s' = t
    ELSE LET e == t.procs[p].pool[a]
             b == t.procs[p].bp
             n == Len(t.execs) + 1
         IN  IF e # 0 /\ ~t.execs[e].closing
             THEN /\ s' = Register([t EXCEPT !.pool[<<a, b>>] = e], a, e)
                  /\ Wait(a, b, "executing", 0, e)
             ELSE /\ s' = Send([t EXCEPT !.execs = Append(@, NewExecutor(a, p, b))], p, "init", n)
                  /\ Wait(a, b, "newExecutor", p, n)

usable(p) == p # 0 /\ ~s.procs[p].closing

(* make_child_and_connect: the fork may fail. *)
StartProcess(a, b) ==
    \/ /\ Len(s.procs) < MaxProcesses
       /\ s' = [s EXCEPT !.procs = Append(@, NewProcess(b))]
       /\ Wait(a, b, "newProcess", Len(s.procs) + 1, 0)
    \/ Fail(a) /\ UNCHANGED s

(* MPPool.get, under the lock of the blueprint: the process that is there, or  *)
(* a new one.                                                                  *)
GetProcess(a) ==
    /\ runner[a].pc = "wantProcess" /\ Accepts
    /\ LET b == runner[a].bp
           p == s.process_pool[b]
       IN  /\ \A x \in Agents : runner[x].pc = "newProcess" => runner[x].bp # b
           /\ \/ usable(p) /\ get_executor(s, a, p)
              \/ ~usable(p) /\ StartProcess(a, b)
    /\ UNCHANGED <<phase, crashes>>

(* The child is connected and has loaded the code ... *)
ProcessReady(a) ==
    /\ runner[a].pc = "newProcess"
    /\ LET p == runner[a].proc
       IN  /\ s.procs[p].os = "alive"
           /\ get_executor([s EXCEPT !.process_pool[runner[a].bp] = p], a, p)
    /\ UNCHANGED <<phase, crashes>>

(* ... or could not, or died. *)
ProcessFails(a) ==
    /\ runner[a].pc = "newProcess"
    /\ LET p == runner[a].proc
       IN  /\ s.procs[p].os = "alive" \/ s.procs[p].lost
           /\ s' = [s EXCEPT !.procs[p] = close_process(@)]
    /\ Fail(a)
    /\ UNCHANGED <<phase, crashes>>

(* The task is done with the executor, or the connection is lost under it. *)
CallReturns(a) ==
    /\ runner[a].pc = "executing"
    /\ LET e == runner[a].exec
           p == s.execs[e].proc
       IN  \/ s.execs[e].down /\ UNCHANGED s
          \/ /\ ~s.execs[e].down /\ s.procs[p].os # "dead"
             /\ s' = [s EXCEPT !.procs[p].busy = @ \ {e}]
    /\ Fail(a)
    /\ UNCHANGED <<phase, crashes>>

InitFails(a) ==
    /\ runner[a].pc = "newExecutor" /\ s.procs[runner[a].proc].lost
    /\ s' = [s EXCEPT !.execs[runner[a].exec] = Forgotten]
    /\ Fail(a)
    /\ UNCHANGED <<phase, crashes>>

-----------------------------------------------------------------------------
(* The other end *)

Message(p) == Head(s.procs[p].inbox)
Received(p, cmd) == s.procs[p].os # "dead" /\ s.procs[p].inbox # <<>> /\ Message(p).cmd = cmd

(* ExecutorContext.init_for fails when the agent's old executor is not stopped. *)
StillRunning(p, a) == \E x \in Execs : s.execs[x].proc = p /\ s.execs[x].agent = a /\ s.execs[x].remote = "running"

(* The answer registers the executor with its process and the manager. *)
InitFor(p) ==
    /\ Received(p, "init")
    /\ LET e == Message(p).exec
           a == s.execs[e].agent
           t == [s EXCEPT !.procs[p].inbox = Tail(@)]
       IN  IF StillRunning(p, a)
           THEN s' = [t EXCEPT !.execs[e] = Forgotten] /\ Fail(a)
           ELSE /\ s' = Register([t EXCEPT !.procs[p].pool[a] = e, !.execs[e].remote = "running",
                                           !.pool[Id(s, e)] = e], a, e)
                /\ Wait(a, s.procs[p].bp, "executing", 0, e)
    /\ UNCHANGED <<phase, crashes>>

(* stop_for marks the executor as stopped and waits for the work in it. *)
StopFor(p) ==
    /\ Received(p, "stopfor")
    /\ s' = [s EXCEPT !.procs[p].inbox = Tail(@),
                      !.execs[Message(p).exec].remote = "stopped", !.execs[Message(p).exec].stop = "stopping"]
    /\ UNCHANGED <<runner, phase, crashes>>

StopReply(e) ==
    /\ e \in Execs /\ s.execs[e].stop = "stopping" /\ ~InUse(e)
    /\ s.procs[s.execs[e].proc].os # "dead"
    /\ s' = set_shutdown(s, e)
    /\ UNCHANGED <<runner, phase, crashes>>

(* The child stops its executors.  It waits for the work that is under way in  *)
(* those that were not stopping; the lock it waits for is granted in order.    *)
Stop(p) ==
    /\ Received(p, "stop")
    /\ LET running == {e \in Execs : s.execs[e].proc = p /\ s.execs[e].remote = "running"}
       IN  s' = [s EXCEPT !.procs[p].os = "ending", !.procs[p].inbox = Tail(@), !.procs[p].busy = {e \in running : InUse(e)},
                          !.execs = [e \in Execs |-> IF e \in running THEN [s.execs[e] EXCEPT !.remote = "stopped"]
                                                     ELSE s.execs[e]]]
    /\ UNCHANGED <<runner, phase, crashes>>

End(p) ==
    /\ s.procs[p].os = "ending" /\ s.procs[p].busy = {}
    /\ s' = [s EXCEPT !.procs[p].os = "dead"]
    /\ UNCHANGED <<runner, phase, crashes>>

Crash(p) ==
    /\ p \in Procs /\ s.procs[p].os # "dead" /\ crashes < MaxCrashes
    /\ crashes' = crashes + 1
    /\ s' = [s EXCEPT !.procs[p].os = "dead"]
    /\ UNCHANGED <<runner, phase>>

-----------------------------------------------------------------------------
(* Closing *)

(* inner_close sends the stop command, unless the connection is gone. *)
SendStop(e) ==
    /\ e \in Execs /\ s.execs[e].stop = "task"
    /\ LET p == s.execs[e].proc
       IN  s' = IF s.procs[p].lost THEN set_shutdown(s, e)
                ELSE Send([s EXCEPT !.execs[e].stop = "sent"], p, "stopfor", e)
    /\ UNCHANGED <<runner, phase, crashes>>

(* The connection is lost: the outstanding calls of inner_close fail, in any   *)
(* order, and their executors are down.  When this empties a process that is   *)
(* not closing yet, sending it the stop command raises ConnectionLost, and the *)
(* manager is not told of that executor.  Then MPProcess.connection_lost takes *)
(* down the other executors in the process.                                    *)
ConnectionLost(p) ==
    /\ p \in Procs /\ s.procs[p].os = "dead" /\ ~s.procs[p].lost
    /\ LET closing  == {e \in Execs : s.execs[e].proc = p /\ s.execs[e].stop \in {"sent", "stopping"}}
           children == {s.procs[p].pool[a] : a \in Agents} \ {0}
           emptied  == ~s.procs[p].closing /\ closing # {} /\ children \subseteq closing
           last     == IF children = {} THEN closing ELSE children
       IN  \E untold \in IF emptied THEN last ELSE {0} :
           LET told == (closing \cup children) \ {untold}
           IN  s' = [s EXCEPT
                 !.procs[p] = [@ EXCEPT !.closing = TRUE, !.lost = TRUE, !.inbox = <<>>, !.busy = {},
                                        !.pool = [a \in Agents |-> 0]],
                 !.agent_map = [a \in Agents |-> s.agent_map[a] \ told],
                 !.last_used = {r \in @ : r[1] \notin told /\ r[2] \notin told},
                 !.pool = [i \in Ids |-> IF s.pool[i] \in told THEN 0 ELSE s.pool[i]],
                 !.execs = [e \in Execs |->
                     IF e \in told THEN Forgotten
                     ELSE IF e = untold THEN [s.execs[e] EXCEPT !.closing = TRUE, !.down = TRUE,
                                                                !.stop = "done", !.remote = "none"]
                     ELSE s.execs[e]]]
    /\ UNCHANGED <<runner, phase, crashes>>

(* join_process has waited for the child: MPProcess.set_shutdown. *)
JoinProcess(p) ==
    /\ p \in Procs /\ s.procs[p].lost /\ ~s.procs[p].down
    /\ s' = process_down(s, p)
    /\ UNCHANGED <<runner, phase, crashes>>

\* Mutant: an executor that is working is idle once its time is over.
any_member(e) == TRUE

can_be_cleaned_up(e) == ~InUse(e)

(* cleanup_inactive_pool_members, which checks again under the lock of the id. *)
(* The sweep that is under way when the manager stops is waited for by join.   *)
CleanUp(e) ==
    /\ e \in Execs /\ phase # "joined"
    /\ s.pool[Id(s, e)] = e /\ Running(s, e) /\ can_be_cleaned_up(e)
    /\ ~(Getting(s.execs[e].agent) /\ runner[s.execs[e].agent].bp = s.execs[e].bp)
    /\ s' = [s EXCEPT !.execs[e] = close_executor(@)]
    /\ UNCHANGED <<runner, phase, crashes>>

(* stop_all_executors, while deployments are suspended (remove_executor_venvs). *)
StopAllExecutors ==
    /\ phase = "running" /\ \A a \in Agents : runner[a] = Idle
    /\ LET running == {e \in Execs : Running(s, e) /\ Mapped(e)}
       IN  /\ running # {}
           /\ s' = [s EXCEPT !.execs = [e \in Execs |-> IF e \in running THEN close_executor(s.execs[e])
                                                        ELSE s.execs[e]]]
    /\ UNCHANGED <<runner, phase, crashes>>

-----------------------------------------------------------------------------
(* MPManager.request_shutdown, join, and start when the session is back *)

RequestShutdown ==
    /\ phase = "running"
    /\ phase' = "stopping"
    /\ UNCHANGED <<s, runner, crashes>>

\* Mutant: the stop of the process pool waits for the tasks that wait for it.
waits_for_every_get == \A a \in Agents : ~Getting(a)

pool_is_free == \A a \in Agents : runner[a].pc \notin {"wantProcess", "newProcess"}

(* The process pool: exclusive lock, then all its processes are asked to stop. *)
StopPool ==
    /\ phase = "stopping" /\ pool_is_free
    /\ s' = [s EXCEPT !.procs = [p \in Procs |-> IF s.process_pool[s.procs[p].bp] = p
                                                  THEN close_process(s.procs[p]) ELSE s.procs[p]]]
    /\ phase' = "poolStopped"
    /\ UNCHANGED <<runner, crashes>>

(* The manager itself, when no get is under way. *)
StopManager ==
    /\ phase = "poolStopped" /\ \A a \in Agents : ~Getting(a)
    /\ phase' = "joining"
    /\ UNCHANGED <<s, runner, crashes>>

(* join waits for each process in the pool, and kills it after the grace time. *)
KillOnJoin(p) ==
    /\ phase = "joining" /\ p \in Procs /\ s.process_pool[s.procs[p].bp] = p
    /\ s' = process_down(s, p)
    /\ UNCHANGED <<runner, phase, crashes>>

Joined ==
    /\ phase = "joining" /\ \A b \in Blueprints : s.process_pool[b] = 0
    /\ phase' = "joined"
    /\ UNCHANGED <<s, runner, crashes>>

Start ==
    /\ phase = "joined"
    /\ phase' = "running"
    /\ UNCHANGED <<s, runner, crashes>>

-----------------------------------------------------------------------------
RunnerStep(a) ==
    \/ GetProcess(a) \/ Refused(a) \/ ProcessReady(a) \/ ProcessFails(a) \/ CallReturns(a) \/ InitFails(a)

ExecutorStep(e) == SendStop(e) \/ StopReply(e)

ProcessStep(p) ==
    /\ p \in Procs
    /\ InitFor(p) \/ StopFor(p) \/ Stop(p) \/ End(p) \/ ConnectionLost(p) \/ JoinProcess(p)

ManagerStep ==
    \/ StopPool \/ StopManager \/ Joined
    \/ \E p \in Procs : KillOnJoin(p)

(* What the system does by itself ... *)
Progress ==
    \/ \E a \in Agents : RunnerStep(a)
    \/ \E e \in Execs : ExecutorStep(e)
    \/ \E p \in Procs : ProcessStep(p)
    \/ ManagerStep

(* ... and what tasks, the clock, its callers and the children do to it. *)
Next ==
    \/ Progress
    \/ \E i \in Ids : GetExisting(i[1], i[2]) \/ GetNew(i[1], i[2])
    \/ \E e \in Execs : CleanUp(e)
    \/ \E p \in Procs : Crash(p)
    \/ StopAllExecutors \/ RequestShutdown \/ Start

Spec == Init /\ [][Next]_vars

-----------------------------------------------------------------------------
(* Properties *)

(* "The cache has fairly accurate membership tracking": an executor that runs  *)
(* is in all three caches, so that it is reused, counted against the cap and   *)
(* cleaned up, whatever was replaced, evicted or lost before it.               *)
RunningIsTracked ==
    \A e \in Execs : (Running(s, e) /\ s.execs[e].remote = "running") =>
        s.pool[Id(s, e)] = e /\ Mapped(e) /\ s.procs[s.execs[e].proc].pool[s.execs[e].agent] = e

Creating(p) == \E a \in Agents : runner[a].proc = p

(* "Closed processes if they are no longer in use", and one process per        *)
(* blueprint: a process that is not closing is the one in the pool, and hosts  *)
(* an executor or is about to.                                                 *)
ProcessIsUsed ==
    \A p \in Procs : ~s.procs[p].closing =>
        \/ Creating(p)
        \/ s.process_pool[s.procs[p].bp] = p /\ \E a \in Agents : s.procs[p].pool[a] # 0

(* The cap: "maximum number of concurrent executors to keep per agent".        *)
CapRespected ==
    \A a \in Agents : Cardinality({e \in Execs : s.execs[e].agent = a /\ Running(s, e)}) <= Cap

(* "Never invalidate executors that have work in flight": not by the idle      *)
(* cleanup, and not to make room.                                              *)
WorkIsNotInterrupted ==
    \A e \in Execs : InUse(e) => Running(s, e) \/ s.execs[e].down

(* When the manager has stopped and been joined, no child process is left,     *)
(* except those that were asked to stop and replaced before.                   *)
JoinedMeansStopped ==
    phase = "joined" => \A p \in Procs : s.procs[p].os = "alive" => s.procs[p].closing

(* "Don't make the parent wait, this prevents wait cycles": as long as a task  *)
(* waits for an executor, the manager for its pools or a process for its end,  *)
(* somebody in the system can move.                                            *)
Waiting ==
    \/ \E a \in Agents : runner[a] # Idle
    \/ phase \in {"stopping", "poolStopped", "joining"}
    \/ \E p \in Procs : s.procs[p].closing /\ ~s.procs[p].down

NoWaitCycle == Waiting => ENABLED Progress
=============================================================================
