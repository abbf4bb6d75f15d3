-------------------------- MODULE CompilerService --------------------------
(***************************************************************************)
(* The compile queue of one environment: requests, the run that serves     *)
(* them, the merging of similar requests, the notification of listeners,   *)
(* restarts of the server, and the environment operations that interfere   *)
(* (halt, resume, clear).                                                  *)
(*                                                                         *)
(* The service runs on one asyncio loop.  A step of the model is what the  *)
(* code does between two awaits that matter: a database statement, taking  *)
(* or releasing _write_lock_env_to_compile_task, the compiler process, a   *)
(* listener.  The compile reports in the database and the marker file      *)
(* survive a restart, everything else is in memory.                        *)
(***************************************************************************)
EXTENDS Integers, Sequences, FiniteSets, FiniteSetsExt

CONSTANTS
    Keys,           \* values of _compile_merge_key
    RecoveryKey,    \* the key of the compiles the service requests itself
    Kinds,          \* the requests of others: pairs of a key and force_update
    InTransaction,  \* the ones made inside a database transaction
    MaxRequests,    \* bound on the compiles requested by others
    MaxDisruptions  \* bound on stops, crashes, calls of halt, resume and clear, changes of the
                    \* settings and markers that cannot be written

ASSUME CompilerAssumption ==
    /\ RecoveryKey \in Keys /\ Kinds \cup InTransaction \subseteq Keys \X BOOLEAN
    /\ {MaxRequests, MaxDisruptions} \subseteq Nat

VARIABLES
    \* the database and the state directory
    db,             \* the compile table, in the order of "requested"
    halted,         \* environment.halted
    marker,         \* the compile named by the last-compile marker, 0 if none
    settings,       \* whether the environment has a repo_url, and its server_compile setting
    \* CompilerService
    ready,          \* fully_ready
    stopping,       \* is_stopping()
    tasks,          \* the _run tasks of this server process
    active,         \* the entry of _env_to_compile_task, 0 if none
    queueCount,     \* _queue_count_cache
    uncounted,      \* committed requests that still owe notify_compile_request_committed
    calls,          \* calls of _process_next_compile_in_queue that wait for the lock
    holder,         \* the call that holds the lock
    notifying,      \* notifications under way
    flow,           \* sub_recovery and resume_environment
    \* EnvironmentService
    operation,      \* the holder of environment_state_operation_lock
    clearRequest,   \* an environment_clear that waits for that lock
    \* bounds and history
    requests, disruptions,
    delivered,      \* pairs of a compile and a kind of listener that was told
    cancelledLive,  \* cancel_compile was called while the environment was not halted
    recounted,      \* requests the last recount saw before they were announced
    skipped,        \* the last check of the local state was left out or had to be ignored
    unwritten       \* the last attempt to write the marker failed

persistent == <<db, halted, marker, settings>>
service    == <<ready, stopping, tasks, active, queueCount, uncounted, calls, holder, notifying, flow>>
envService == <<operation, clearRequest>>
local      == <<skipped, unwritten>>
history    == <<delivered, cancelledLive, recounted, local>>
bounds     == <<requests, disruptions>>
vars       == <<persistent, service, envService, bounds, history>>

Compiles == 1..Len(db)
Tasks    == 1..Len(tasks)

Settings    == [repo_url : BOOLEAN, server_compile : BOOLEAN]

NoCall      == [kind |-> "none", id |-> 0]
Free        == [call |-> NoCall, next |-> 0, halted |-> FALSE]
NoOperation == [kind |-> "none", pc |-> "none", initial |-> FALSE, run |-> 0]
NoRequest   == [waiting |-> FALSE, initial |-> FALSE]
IdleFlow    == [pc |-> "idle", todo |-> {}, expected |-> 0, server_compile |-> FALSE]

Row(c)        == c \in Compiles /\ db[c].row = "row"
Incomplete    == {c \in Compiles : Row(c) /\ db[c].completed = 0}
Unhandled     == {c \in Compiles : Row(c) /\ db[c].completed # 0 /\ ~db[c].handled}
(* get_last_run: the compiles with the latest completion, none if nothing completed *)
LastRuns      == LET done == {c \in Compiles : Row(c) /\ db[c].completed # 0}
                 IN  {c \in done : \A d \in done : db[d].completed <= db[c].completed}
(* "a merged compile records the compile that actually ran as its substitute" *)
RanAs(c)      == IF db[c].substitute # 0 THEN db[c].substitute ELSE c
Ended(t)      == tasks[t].pc \in {"done", "cancelled", "raised"}

\* Mutant: nobody waits for the blocking listeners.
never_blocked(C) == FALSE

(* Some blocking listener of these compiles has not returned yet. *)
Blocked(C)    == \E n \in notifying : n.compile \in C /\ ~n.blocking
Group(t)      == {tasks[t].compile} \cup tasks[t].merged

Request(k, f, row) ==
    [row |-> row, key |-> k, force |-> f, started |-> FALSE, completed |-> 0,
     handled |-> FALSE, substitute |-> 0, used |-> {}, result |-> "none"]

(* An update statement of a row that was deleted changes nothing. *)
Updated(c, new) == IF Row(c) THEN [db EXCEPT ![c] = new] ELSE db

(* A row that is gone, and a task that is over. *)
NoRow         == Request(RecoveryKey, FALSE, "deleted")
Over(ts, t, pc) == [ts EXCEPT ![t] =
     [compile |-> 0, restarted |-> FALSE, merged |-> {}, pc |-> pc, cancelled |-> FALSE]]

NewTask(c) == [compile |-> c, restarted |-> Row(c) /\ db[c].started, merged |-> {},
               pc |-> "backoff", cancelled |-> FALSE]

(* The server starts on an empty database, or on one that holds a compile it  *)
(* ran before; the environment may be halted and the state directory gone.    *)
FinishedCompile ==
    [Request(RecoveryKey, FALSE, "row") EXCEPT !.started = TRUE, !.completed = 1, !.handled = TRUE,
                                               !.used = {1}, !.result = "compiled"]

Init ==
    /\ db \in {<<>>, <<FinishedCompile>>}
    /\ marker \in {0} \cup LastRuns /\ halted \in BOOLEAN /\ settings \in Settings
    /\ ready = FALSE /\ stopping = FALSE
    /\ tasks = <<>> /\ active = 0
    /\ queueCount = Cardinality(Incomplete) /\ uncounted = {}
    /\ calls = {} /\ holder = Free /\ notifying = {}
    /\ flow = [recover |-> [IdleFlow EXCEPT !.pc = "notifying"], resume |-> IdleFlow]
    /\ operation = NoOperation /\ clearRequest = NoRequest
    /\ requests = 0 /\ disruptions = 0
    /\ delivered = LastRuns \X {"blocking", "async"} /\ cancelledLive = FALSE
    /\ recounted = {} /\ skipped = FALSE /\ unwritten = FALSE

-----------------------------------------------------------------------------
(* Requests *)

(* request_recompile, which refuses unless the server may compile.  Outside a *)
(* transaction: insert and count under the count lock, then look at the queue. *)
InsertAndProcess(k, f) ==
    /\ db' = Append(db, Request(k, f, "row"))
    /\ queueCount' = queueCount + 1
    /\ calls' = calls \cup {[kind |-> "request", id |-> Len(db) + 1]}

RequestRecompile(kind) ==
    /\ requests < MaxRequests /\ ~stopping /\ settings.server_compile
    /\ requests' = requests + 1
    /\ InsertAndProcess(kind[1], kind[2])
    /\ UNCHANGED <<halted, marker, settings, ready, stopping, tasks, active, uncounted, holder, notifying, flow,
                   envService, disruptions, history>>

(* request_recompile with in_db_transaction: only the insert, not visible yet. *)
RequestInTransaction(kind) ==
    /\ requests < MaxRequests /\ ~stopping /\ settings.server_compile
    /\ requests' = requests + 1
    /\ db' = Append(db, Request(kind[1], kind[2], "uncommitted"))
    /\ UNCHANGED <<halted, marker, settings, service, envService, disruptions, history>>

CommitRequest(c) ==
    /\ c \in Compiles /\ db[c].row = "uncommitted"
    /\ db' = [db EXCEPT ![c].row = "row"]
    /\ uncounted' = uncounted \cup {c}
    /\ UNCHANGED <<halted, marker, settings, ready, stopping, tasks, active, queueCount, calls, holder, notifying,
                   flow, envService, bounds, history>>

(* Raises when the compile is gone, otherwise counts it and looks at the queue. *)
NotifyCompileRequestCommitted(c) ==
    /\ c \in uncounted
    /\ uncounted' = uncounted \ {c}
    /\ IF Row(c)
       THEN /\ queueCount' = queueCount + 1
            /\ calls' = calls \cup {[kind |-> "request", id |-> c]}
       ELSE UNCHANGED <<queueCount, calls>>
    /\ UNCHANGED <<persistent, ready, stopping, tasks, active, holder, notifying, flow,
                   envService, bounds, history>>

-----------------------------------------------------------------------------
(* _process_next_compile_in_queue *)

(* What the caller does once its call returned. *)
Return(call, tasksNow) ==
    /\ tasks' = IF call.kind = "finish" THEN Over(tasksNow, call.id, "done") ELSE tasksNow
    /\ flow' = IF call.kind \in {"recover", "resume"}
               THEN [flow EXCEPT ![call.kind].pc = "reading"] ELSE flow

(* The lock is acquired.  Before the service is ready, and while it stops, a   *)
(* finishing run is still taken off the map; otherwise the oldest incomplete   *)
(* compile is fetched, and its environment.                                    *)
AcquireAndFetch(call) ==
    /\ call \in calls /\ holder = Free
    /\ calls' = calls \ {call}
    /\ LET idle == ~ready \/ stopping \/ Incomplete = {}
       IN  IF idle
           THEN /\ active' = IF call.kind = "finish" THEN 0 ELSE active
                /\ Return(call, tasks)
                /\ UNCHANGED holder
           ELSE /\ holder' = [call |-> call, next |-> Min(Incomplete), halted |-> halted]
                /\ UNCHANGED <<active, tasks, flow>>
    /\ UNCHANGED <<persistent, ready, stopping, queueCount, uncounted, notifying,
                   envService, bounds, history>>

(* process_compile starts a run unless the environment was halted or another  *)
(* run is active; a finishing run is replaced, or taken off the map.          *)

\* Mutant: a run is started whether or not another one is active.
starts_anyway(finish) == ~holder.halted

\* Mutant: the run that finishes counts as active.
starts_when_idle(finish) == ~holder.halted /\ active = 0

starts(finish) == ~holder.halted /\ (finish \/ active = 0)

active_after(finish) ==
    CASE starts(finish) -> Len(tasks) + 1
      [] ~starts(finish) /\ finish -> 0
      [] OTHER -> active

StartOrLeave ==
    /\ holder.call # NoCall
    /\ LET finish == holder.call.kind = "finish"
       IN  /\ active' = active_after(finish)
           /\ Return(holder.call, IF starts(finish) THEN Append(tasks, NewTask(holder.next)) ELSE tasks)
    /\ holder' = Free
    /\ UNCHANGED <<persistent, ready, stopping, queueCount, uncounted, calls, notifying,
                   envService, bounds, history>>

-----------------------------------------------------------------------------
(* _run *)

At(t, pc) == t \in Tasks /\ tasks[t].pc = pc
GoTo(t, pc) == tasks' = [tasks EXCEPT ![t].pc = pc]

\* Mutant: everything that is queued is merged.
merge_everything(t) == {d \in Incomplete \ {tasks[t].compile} : db[d].started = tasks[t].restarted}

(* After the back-off, collect the queued compiles with the same merge key:   *)
(* the key includes "started" of the object fetched from the queue.  The run  *)
(* begins, perhaps by removing the project directory, and the marker with it   *)
(* (reinstall_project_and_venv, or another repo_url than the checkout has).    *)
MergeCandidates(t) ==
    LET c == tasks[t].compile
    IN  {d \in Incomplete \ {c} : db[d].key = db[c].key /\ db[d].started = tasks[t].restarted}

BeginRun(t) ==
    /\ At(t, "backoff")
    /\ LET c == tasks[t].compile
       IN  /\ db' = Updated(c, [db[c] EXCEPT !.started = TRUE, !.used = {c} \cup MergeCandidates(t)])
           /\ tasks' = [tasks EXCEPT ![t].merged = MergeCandidates(t), ![t].pc = "compiling"]
    /\ queueCount' = queueCount - 1
    /\ marker' \in {marker, 0}
    /\ UNCHANGED <<halted, settings, ready, stopping, active, uncounted, calls, holder, notifying,
                   flow, envService, bounds, history>>

Now == 1 + Max({0} \cup {db[c].completed : c \in Compiles})

(* CompileRun.run: the setup stages (checkout, and an update of the project   *)
(* when any of the merged requests asked for it), then the compiler; the      *)
(* report is completed.  A compile that fails takes the same way.             *)
RunCompiler(t) ==
    /\ At(t, "compiling")
    /\ LET c      == tasks[t].compile
           update == \E d \in Group(t) : db[d].force
       IN  db' = Updated(c, [db[c] EXCEPT !.completed = Now,
                                          !.result = CASE tasks[t].cancelled -> "failed"
                                                       [] ~tasks[t].cancelled /\ update -> "updated"
                                                       [] OTHER -> "compiled"])
    /\ GoTo(t, "completed")
    /\ UNCHANGED <<halted, marker, settings, ready, stopping, active, queueCount, uncounted, calls, holder,
                   notifying, flow, envService, bounds, history>>

(* No marker is written without a project directory, because the run failed or *)
(* was cancelled before it made one.  An OSError is logged: the old marker     *)
(* stays, or an empty file if the error comes after the open.                  *)
WriteLastCompileMarker(t) ==
    /\ At(t, "completed")
    /\ \/ marker' = tasks[t].compile /\ UNCHANGED disruptions
       \/ tasks[t].cancelled /\ UNCHANGED <<marker, disruptions>>
       \/ /\ disruptions < MaxDisruptions
          /\ disruptions' = disruptions + 1
          /\ marker' \in {marker, 0}
    /\ unwritten' = (marker' # tasks[t].compile)
    /\ GoTo(t, "merging")
    /\ UNCHANGED <<db, halted, settings, ready, stopping, active, queueCount, uncounted, calls, holder,
                   notifying, flow, envService, requests, delivered, cancelledLive, recounted, skipped>>

Merged(t, d) == Row(d) => db[d].substitute = tasks[t].compile

(* Each merge candidate is completed by a statement of its own, which refers  *)
(* to the compile that ran.  If that row is gone the statement is refused and *)
(* _run raises, with its entry still on the map.                              *)
CompleteMerged(t, d) ==
    /\ At(t, "merging") /\ d \in tasks[t].merged /\ ~Merged(t, d)
    /\ LET c == tasks[t].compile
       IN  IF Row(c)
           THEN /\ db' = Updated(d, [db[d] EXCEPT !.started = TRUE, !.completed = db[c].completed,
                                                  !.used = db[c].used, !.substitute = c])
                /\ UNCHANGED tasks
           ELSE tasks' = Over(tasks, t, "raised") /\ UNCHANGED db
    /\ UNCHANGED <<halted, marker, settings, ready, stopping, active, queueCount, uncounted, calls, holder,
                   notifying, flow, envService, bounds, history>>

\* Mutant: the merged requests stay in the count.
settles_none(t) == 0

settled(t) == Cardinality(tasks[t].merged)

(* When all are done: the count, and the listeners unless the server stops. *)
NotifyListeners(t) ==
    /\ At(t, "merging") /\ \A d \in tasks[t].merged : Merged(t, d)
    /\ queueCount' = queueCount - settled(t)
    /\ IF stopping
       THEN tasks' = Over(tasks, t, "done") /\ UNCHANGED notifying
       ELSE /\ GoTo(t, "notifying")
            /\ notifying' = notifying \cup
                   {[compile |-> c, blocking |-> FALSE] : c \in Group(t)}
    /\ UNCHANGED <<persistent, ready, stopping, active, uncounted, calls, holder,
                   flow, envService, bounds, history>>

(* The blocking listeners have returned: ask for the next compile. *)
FinishRun(t) ==
    /\ At(t, "notifying") /\ ~Blocked(Group(t))
    /\ GoTo(t, "finishing")
    /\ calls' = calls \cup {[kind |-> "finish", id |-> t]}
    /\ UNCHANGED <<persistent, ready, stopping, active, queueCount, uncounted, holder, notifying,
                   flow, envService, bounds, history>>

-----------------------------------------------------------------------------
(* _notify_listeners: the blocking listeners are awaited by the caller, the   *)
(* others in the background, and the compile is handled when both returned.   *)

DeliverBlocking(n) ==
    /\ n \in notifying /\ ~n.blocking
    /\ notifying' = (notifying \ {n}) \cup {[n EXCEPT !.blocking = TRUE]}
    /\ delivered' = delivered \cup {<<n.compile, "blocking">>}
    /\ UNCHANGED <<persistent, ready, stopping, tasks, active, queueCount, uncounted, calls, holder,
                   flow, envService, bounds, cancelledLive, recounted, local>>

\* Mutant: the background task does not wait for the blocking listeners.
handled_early(n) == TRUE

may_be_handled(n) == n.blocking

(* The background task: the other listeners, then the blocking ones, then     *)
(* "handled".                                                                 *)
MarkHandled(n) ==
    /\ n \in notifying /\ may_be_handled(n)
    /\ notifying' = notifying \ {n}
    /\ delivered' = delivered \cup {<<n.compile, "async">>}
    /\ db' = Updated(n.compile, [db[n.compile] EXCEPT !.handled = TRUE])
    /\ UNCHANGED <<halted, marker, settings, ready, stopping, tasks, active, queueCount, uncounted, calls, holder,
                   flow, envService, bounds, cancelledLive, recounted, local>>

-----------------------------------------------------------------------------
(* Recovery, and the check of the local project state *)

(* sub_recovery notifies the unhandled compiles one by one, oldest first. *)
RecoverNotify ==
    /\ flow.recover.pc = "notifying" /\ flow.recover.todo # {}
    /\ ~Blocked(Compiles)
    /\ LET c == Min(flow.recover.todo)
       IN  /\ notifying' = notifying \cup {[compile |-> c, blocking |-> FALSE]}
           /\ flow' = [flow EXCEPT !.recover.todo = @ \ {c}]
    /\ UNCHANGED <<persistent, ready, stopping, tasks, active, queueCount, uncounted, calls, holder,
                   envService, bounds, history>>

(* Then the service is ready and looks at the queue. *)
RecoverReady ==
    /\ flow.recover.pc = "notifying" /\ flow.recover.todo = {}
    /\ ~Blocked(Compiles)
    /\ ready' = TRUE
    /\ calls' = calls \cup {[kind |-> "recover", id |-> 0]}
    /\ flow' = [flow EXCEPT !.recover.pc = "processing"]
    /\ UNCHANGED <<persistent, stopping, tasks, active, queueCount, uncounted, holder, notifying,
                   envService, bounds, history>>

(* _recompile_environment_with_stale_local_state: which compile produced the  *)
(* latest result?  At start halted environments are left out, and one without *)
(* a repository always is: nothing could be restored from it.                 *)
ReadLastRun(w) ==
    /\ flow[w].pc = "reading"
    /\ LET later == w = "recover" /\ halted
       IN  /\ skipped' = IF later THEN skipped ELSE ~settings.repo_url
           /\ IF later \/ ~settings.repo_url \/ LastRuns = {}
              THEN flow' = [flow EXCEPT ![w] = IdleFlow]
              ELSE \E c \in LastRuns :
                     flow' = [flow EXCEPT ![w] = [IdleFlow EXCEPT !.pc = "comparing", !.expected = RanAs(c),
                                                                  !.server_compile = settings.server_compile]]
    /\ UNCHANGED <<persistent, ready, stopping, tasks, active, queueCount, uncounted, calls, holder,
                   notifying, envService, bounds, delivered, cancelledLive, recounted, unwritten>>

\* Mutant: any marker will do.
no_marker(expected) == marker = 0

is_stale(expected) == marker # expected

(* ... and is it the one the project directory comes from?  The request is     *)
(* refused like any other if the server may not compile.                      *)
CompareMarker(w) ==
    /\ flow[w].pc = "comparing"
    /\ flow' = [flow EXCEPT ![w] = IdleFlow]
    /\ IF is_stale(flow[w].expected) /\ flow[w].server_compile
       THEN InsertAndProcess(RecoveryKey, TRUE)
       ELSE UNCHANGED <<db, queueCount, calls>>
    /\ skipped' = IF is_stale(flow[w].expected) THEN ~flow[w].server_compile ELSE skipped
    /\ UNCHANGED <<halted, marker, settings, ready, stopping, tasks, active, uncounted, holder, notifying,
                   envService, bounds, delivered, cancelledLive, recounted, unwritten>>

-----------------------------------------------------------------------------
(* Environment operations, one at a time under environment_state_operation_lock *)

Halt ==
    /\ operation = NoOperation /\ disruptions < MaxDisruptions /\ ~stopping
    /\ disruptions' = disruptions + 1
    /\ halted' = TRUE
    /\ UNCHANGED <<db, marker, settings, service, envService, requests, history>>

(* environment_modify changes repo_url, environment_settings_set the setting;  *)
(* neither takes a lock.                                                      *)
ChangeSettings ==
    /\ disruptions < MaxDisruptions /\ ~stopping
    /\ disruptions' = disruptions + 1
    /\ \/ settings' = [settings EXCEPT !.repo_url = ~@]
       \/ settings' = [settings EXCEPT !.server_compile = ~@]
    /\ UNCHANGED <<db, halted, marker, service, envService, requests, history>>

(* _resume: nothing if the environment is not halted, otherwise unhalt it and *)
(* call the compiler's resume_environment.                                    *)
ResumeWith(op) ==
    IF halted
    THEN /\ halted' = FALSE
         /\ calls' = calls \cup {[kind |-> "resume", id |-> 0]}
         /\ flow' = [flow EXCEPT !.resume.pc = "processing"]
         /\ operation' = [op EXCEPT !.pc = "resuming"]
    ELSE /\ operation' = NoOperation
         /\ UNCHANGED <<halted, calls, flow>>

Resume ==
    /\ operation = NoOperation /\ disruptions < MaxDisruptions /\ ~stopping
    /\ disruptions' = disruptions + 1
    /\ ResumeWith([NoOperation EXCEPT !.kind = "resume"])
    /\ UNCHANGED <<db, marker, settings, ready, stopping, tasks, active, queueCount, uncounted, holder, notifying,
                   clearRequest, requests, history>>

EndResume ==
    /\ operation.pc = "resuming" /\ flow.resume = IdleFlow
    /\ operation' = NoOperation
    /\ UNCHANGED <<persistent, service, clearRequest, bounds, history>>

(* environment_clear is called with the environment as it was when the        *)
(* request came in, before the lock is taken.                                 *)
RequestClear ==
    /\ ~clearRequest.waiting /\ disruptions < MaxDisruptions /\ ~stopping
    /\ disruptions' = disruptions + 1
    /\ clearRequest' = [waiting |-> TRUE, initial |-> halted]
    /\ UNCHANGED <<persistent, service, operation, requests, history>>

EnterClear ==
    /\ clearRequest.waiting /\ operation = NoOperation
    /\ clearRequest' = NoRequest
    /\ operation' = [kind |-> "clear", pc |-> "cancel", initial |-> clearRequest.initial, run |-> 0]
    /\ halted' = (halted \/ ~clearRequest.initial)
    /\ UNCHANGED <<db, marker, settings, service, bounds, history>>

(* Task.cancel on a run: CompileRun.run swallows it and the run goes on as a  *)
(* failed compile; at any other await the run ends there, with the call and   *)
(* the notifications whose blocking listeners it waited for.                  *)
EndHere(t) ==
    /\ tasks' = IF Ended(t) THEN tasks ELSE Over(tasks, t, "cancelled")
    /\ calls' = calls \ {[kind |-> "finish", id |-> t]}
    /\ holder' = IF holder.call = [kind |-> "finish", id |-> t] THEN Free ELSE holder
    /\ notifying' = IF tasks[t].pc = "notifying"
                    THEN {n \in notifying : n.compile \notin Group(t) \/ n.blocking} ELSE notifying

CancelRun(t) ==
    \/ EndHere(t)
    \/ /\ tasks[t].pc = "compiling"
       /\ tasks' = [tasks EXCEPT ![t].cancelled = TRUE]
       /\ UNCHANGED <<calls, holder, notifying>>

(* cancel_compile takes the run off the map under the lock, cancels it and    *)
(* waits for it.                                                              *)
CancelCompile ==
    /\ operation.pc = "cancel" /\ holder = Free
    /\ cancelledLive' = (cancelledLive \/ ~halted)
    /\ active' = 0
    /\ operation' = [operation EXCEPT !.pc = "join", !.run = active]
    /\ IF active = 0 THEN UNCHANGED <<tasks, calls, holder, notifying>> ELSE CancelRun(active)
    /\ UNCHANGED <<persistent, ready, stopping, queueCount, uncounted, flow, clearRequest, bounds,
                   delivered, recounted, local>>

DeleteEnvironmentDir ==
    /\ operation.pc = "join"
    /\ operation.run # 0 => Ended(operation.run)
    /\ operation' = [operation EXCEPT !.pc = "rows"]
    /\ marker' = 0
    /\ UNCHANGED <<db, halted, settings, service, clearRequest, bounds, history>>

(* env.clear deletes the compiles ... *)
ClearRows ==
    /\ operation.pc = "rows"
    /\ db' = [c \in Compiles |-> IF Row(c) THEN NoRow ELSE db[c]]
    /\ operation' = [operation EXCEPT !.pc = "recount"]
    /\ UNCHANGED <<halted, marker, settings, service, clearRequest, bounds, history>>

(* ... and the listener counts what is queued, without the started compiles. *)
RecalculateQueueCount ==
    /\ operation.pc = "recount"
    /\ queueCount' = Cardinality({c \in Incomplete : ~db[c].started})
    /\ operation' = [operation EXCEPT !.pc = "cleared"]
    /\ recounted' = {c \in uncounted : Row(c)}
    /\ UNCHANGED <<persistent, ready, stopping, tasks, active, uncounted, calls, holder, notifying,
                   flow, clearRequest, bounds, delivered, cancelledLive, local>>

(* "Make sure to restore the environment to its initial state" *)
EndClear ==
    /\ operation.pc = "cleared"
    /\ IF operation.initial
       THEN operation' = NoOperation /\ UNCHANGED <<halted, calls, flow>>
       ELSE ResumeWith(operation)
    /\ UNCHANGED <<db, marker, settings, ready, stopping, tasks, active, queueCount, uncounted, holder, notifying,
                   clearRequest, bounds, history>>

-----------------------------------------------------------------------------
(* Stopping and restarting the server *)

(* prestop: no new runs.  TaskHandler.stop then cancels what still runs. *)
Stop ==
    /\ ~stopping /\ disruptions < MaxDisruptions
    /\ disruptions' = disruptions + 1
    /\ stopping' = TRUE
    /\ UNCHANGED <<persistent, ready, tasks, active, queueCount, uncounted, calls, holder, notifying,
                   flow, envService, requests, history>>

CancelOnStop(t) ==
    /\ stopping /\ t \in Tasks /\ ~Ended(t) /\ ~tasks[t].cancelled
    /\ CancelRun(t)
    /\ UNCHANGED <<persistent, ready, stopping, active, queueCount, uncounted, flow,
                   envService, bounds, history>>

(* The process ends, by a stop or a crash, and _recover runs in the next one. *)
(* Another server, or one whose state directory was wiped or restored, has no *)
(* marker or an older one.                                                    *)
Restart ==
    /\ \/ stopping /\ UNCHANGED disruptions
       \/ ~stopping /\ disruptions < MaxDisruptions /\ disruptions' = disruptions + 1
    /\ marker' \in {m \in 0..Len(db) : m <= marker}
    /\ db' = [c \in Compiles |-> IF db[c].row = "uncommitted" THEN NoRow ELSE db[c]]
    /\ ready' = FALSE /\ stopping' = FALSE
    /\ tasks' = <<>> /\ active' = 0
    /\ queueCount' = Cardinality(Incomplete) /\ uncounted' = {}
    /\ calls' = {} /\ holder' = Free /\ notifying' = {}
    /\ flow' = [recover |-> [IdleFlow EXCEPT !.pc = "notifying", !.todo = Unhandled], resume |-> IdleFlow]
    /\ operation' = NoOperation /\ clearRequest' = NoRequest
    /\ recounted' = {} /\ skipped' = FALSE /\ unwritten' = FALSE
    /\ UNCHANGED <<halted, settings, requests, delivered, cancelledLive>>

-----------------------------------------------------------------------------
RunStep(t) ==
    \/ BeginRun(t) \/ RunCompiler(t)
    \/ WriteLastCompileMarker(t) \/ NotifyListeners(t) \/ FinishRun(t)
    \/ \E d \in Compiles : CompleteMerged(t, d)

ServiceStep ==
    \/ \E t \in Tasks : RunStep(t)
    \/ \E call \in calls : AcquireAndFetch(call)
    \/ StartOrLeave
    \/ \E n \in notifying : DeliverBlocking(n) \/ MarkHandled(n)
    \/ RecoverNotify \/ RecoverReady
    \/ \E w \in {"recover", "resume"} : ReadLastRun(w) \/ CompareMarker(w)
    \/ \E c \in Compiles : NotifyCompileRequestCommitted(c)
    \/ EndResume \/ EnterClear \/ CancelCompile \/ DeleteEnvironmentDir \/ ClearRows \/ RecalculateQueueCount \/ EndClear

Next ==
    \/ ServiceStep
    \/ \E kind \in Kinds : RequestRecompile(kind)
    \/ \E kind \in InTransaction : RequestInTransaction(kind)
    \/ \E c \in Compiles : CommitRequest(c)
    \/ Halt \/ Resume \/ RequestClear \/ ChangeSettings
    \/ Stop \/ Restart
    \/ \E t \in Tasks : CancelOnStop(t)

Spec == Init /\ [][Next]_vars

(* The event loop keeps running, the compiler and the listeners return, and a *)
(* server that stops is started again.  Nobody has to request, halt or crash. *)
FairSpec == Spec /\ WF_vars(ServiceStep) /\ WF_vars(stopping /\ Restart)

-----------------------------------------------------------------------------
(* Properties *)

Live(t) == ~Ended(t) /\ tasks[t].pc # "backoff"

(* At most one compile of an environment is under way, whatever requests,      *)
(* restarts and environment operations come in between.  The comment in        *)
(* cancel_compile gives the condition: it is only called on halted             *)
(* environments.                                                               *)
OneCompilePerEnvironment ==
    ~cancelledLive => \A t, u \in Tasks : Live(t) /\ Live(u) => t = u

(* "If this listener is blocking, the next compile can only start after this   *)
(* coroutine is done", also when the compile ended in a server that is gone.   *)
BlockersBeforeNextCompile ==
    ~cancelledLive => \A t \in Tasks, c \in Unhandled :
        (tasks[t].pc = "compiling" /\ c # tasks[t].compile) => <<c, "blocking">> \in delivered

(* "Notifications are delivered at least once": handled is not set before      *)
(* every listener was told.                                                    *)
HandledIsDelivered ==
    \A c \in Compiles : db[c].handled => {<<c, "blocking">>, <<c, "async">>} \subseteq delivered

(* A merged request loses nothing: the compile that stands in for it has the   *)
(* same merge key, ran with its mergeable variables, and updated the project   *)
(* if the request asked for that.                                              *)
MergeLosesNothing ==
    ~cancelledLive => \A c \in Compiles : (Row(c) /\ db[c].substitute # 0) =>
        LET s == db[c].substitute
        IN  /\ db[s].key = db[c].key /\ db[s].completed = db[c].completed
            /\ c \in db[s].used
            /\ db[c].force => db[s].result \in {"updated", "failed"}

(* _queue_count_cache is the number of requests that wait: not started by this *)
(* server and not yet settled as merged.  A request whose transaction committed *)
(* is counted when it is announced; one that a clear recounted before that is  *)
(* counted twice from then on.                                                 *)
Waiting ==
    LET taken   == {tasks[t].compile : t \in {u \in Tasks : tasks[u].pc = "compiling"}}
        merging == UNION {tasks[t].merged : t \in {u \in Tasks : tasks[u].pc = "merging"}}
    IN  (Incomplete \ taken) \cup merging

CountedLate  == {c \in uncounted : Row(c)} \ recounted
CountedTwice == recounted \ uncounted

QueueCountIsLength ==
    (~stopping /\ ~cancelledLive /\ operation.pc \notin {"join", "rows", "recount"}) =>
        queueCount = Cardinality(Waiting) - Cardinality(CountedLate) + Cardinality(CountedTwice)

Quiet ==
    /\ ready /\ ~stopping /\ calls = {} /\ holder = Free /\ operation = NoOperation
    /\ flow = [recover |-> IdleFlow, resume |-> IdleFlow]
    /\ \A t \in Tasks : Ended(t)

(* Once recovery is over and the queue is empty, the project directory of an   *)
(* environment that is not halted is the one its latest compile ran in, also   *)
(* after a failover or when the server died between the report and the marker: *)
(* unless the last check found no repository, or no leave to compile, or the   *)
(* marker of the last run could not be written, which only the next start or   *)
(* resumption finds out.                                                       *)
LocalStateIsCurrent ==
    (Quiet /\ ~halted /\ Incomplete = {} /\ ~cancelledLive /\ ~skipped /\ ~unwritten) =>
        \A c \in LastRuns : marker = RanAs(c)

(* Every committed request is completed and its listeners are told, unless the *)
(* environment stays halted or is cleared, or a run raised.                    *)
Raised == \E t \in Tasks : tasks[t].pc = "raised"

RequestsAreServed ==
    (<>[]~halted) => <>[](Raised \/ \A c \in Compiles : Row(c) => db[c].handled)
=============================================================================
