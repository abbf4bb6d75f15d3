------------------------- MODULE TaskRunnersProofs -------------------------
(***************************************************************************)
(* The workers of a scheduler start once, stop when they are told to, and  *)
(* follow the database, for every set of agents and every number of tasks, *)
(* pauses, starts and removals.  The properties rest on four inductive     *)
(* invariants: what a runner may look like (RunnersInv), what suspending   *)
(* and stopping have achieved so far (QuietInv), and why a runner that     *)
(* does not follow the database yet will be notified (FollowInv), which    *)
(* relies on the order of the notifications (LoopInv).                     *)
(***************************************************************************)
EXTENDS TaskRunners, TLAPS

Waiters == {"sync", "call"} \cup Loops

Runners ==
    [status : {"STOPPED", "STARTED", "STOPPING"}, task : {"none", "created", "waiting", "executing"},
     tasks : Nat, pills : Nat, waiting : SUBSET ({"rpc"} \cup Waiters), holder : {"none"} \cup Waiters,
     should : {"unread", "yes", "no"}]

Refreshes == [pc : {"idle", "rpc", "loop", "notified"}, next : Nat, size : Nat]
Controls  == [pc : {"stopped", "starting", "working", "stopWorkers", "joining"}, next : Nat, size : Nat]
Removals  == [pc : {"idle", "stopping", "joining", "removing"}, todo : SUBSET Agents]

TypeOK ==
    /\ paused \in [Agents -> BOOLEAN]
    /\ workers \in Seq(Agents)
    /\ runner \in [Agents -> Runners]
    /\ running \in BOOLEAN /\ suspended \in BOOLEAN
    /\ control \in Controls
    /\ removal \in Removals
    /\ refresh \in [Loops -> Refreshes]
    /\ raised \in SUBSET {"refresh", "join", "stop"}

-----------------------------------------------------------------------------
(* What stopping and suspending achieve *)

\* The runner does not count as running, and no notification is about to change that.
Down(a) == runner[a].status # "STARTED" /\ runner[a].holder = "none"

\* An agent without a worker has never been started since the last reset.
UnknownIsNew ==
    \A a \in Agents : ~Known(a) =>
        runner[a].status = "STOPPED" /\ runner[a].holder = "none" /\ runner[a].waiting \subseteq {"rpc"}

\* running and suspended are where start, stop, suspend and resume have left them.
FlagsFollow == (running <=> control.pc = "working") /\ (suspended <=> removal.pc # "idle")

\* Suspending: the workers that were asked to stop stay down, those that are created later too;
\* the environments are removed when nobody is left.
Suspending ==
    \A a \in Agents : suspended =>
        /\ (a \notin removal.todo \/ removal.pc # "stopping") => Down(a)
        /\ (removal.pc = "joining" /\ a \notin removal.todo) => ~Alive(a)
        /\ removal.pc = "removing" => ~Alive(a)

\* Stopping: the workers the loop has passed stay down.
Stopping ==
    control.pc = "stopWorkers" =>
        /\ control.next >= 1
        /\ \A i \in DOMAIN workers : i < control.next => Down(workers[i])

Stopped ==
    /\ control.pc = "joining" => \A a \in Agents : Down(a)
    /\ (control.pc \in {"stopped", "starting"} /\ raised \cap {"stop", "join"} = {}) =>
          \A a \in Agents : Down(a) /\ ~Alive(a)
    /\ control.pc = "starting" => raised \cap {"stop", "join"} = {} /\ workers = <<>>

QuietInv ==
    /\ NeverStartsTwice /\ UnknownIsNew /\ FlagsFollow /\ Suspending /\ Stopping /\ Stopped
    /\ JoinsOnlyStopped /\ NobodyJoinsSleeper

-----------------------------------------------------------------------------
(* Why runners follow the database *)

Notified(a, x) == x \in runner[a].waiting \/ runner[a].holder = x

\* A loop over all workers waits for the one notification it has asked for.
OneNotification(x) ==
    \A a \in Agents : Notified(a, x) =>
        /\ refresh[x].pc = "notified"
        /\ ~(x \in runner[a].waiting /\ runner[a].holder = x)
        /\ \A b \in Agents \ {a} : ~Notified(b, x)

LoopInv ==
    /\ \A x \in Loops : /\ OneNotification(x)
                        /\ refresh[x].pc \in {"loop", "notified"} => refresh[x].next >= 1
    /\ removal.pc # "idle" => refresh["resume"] = AtRest

\* The loop has not come to the agent yet.
LoopComing(a, x) ==
    \/ refresh[x].pc = "rpc"
    \/ /\ refresh[x].pc \in {"loop", "notified"}
       /\ \E i \in DOMAIN workers : i >= refresh[x].next /\ workers[i] = a

\* The runner will be notified again, and will read the database then.
WillBeNotified(a) ==
    \/ suspended
    \/ runner[a].waiting \cap {"rpc", "call", "resume", "all"} # {}
    \/ \E x \in Loops : LoopComing(a, x)

\* What the notification that has the lock is going to decide, or what the last one decided.
Follows(a) ==
    IF runner[a].holder # "none" THEN runner[a].should = IF paused[a] THEN "no" ELSE "yes"
    ELSE (runner[a].status = "STARTED") <=> ~paused[a]

Accounted(a) ==
    \/ WillBeNotified(a) \/ Follows(a)
    \/ runner[a].holder # "none" /\ runner[a].should = "unread"
    \/ runner[a].holder = "none" /\ "sync" \in runner[a].waiting

FollowsOrNotified ==
    (raised = {} /\ control.pc = "working") => \A a \in Agents : Known(a) => Accounted(a)

ReadByHolder == \A a \in Agents : runner[a].holder = "none" => runner[a].should = "unread"

FollowInv == ReadByHolder /\ FollowsOrNotified

-----------------------------------------------------------------------------
(* Lemmas about the operators *)

\* What notify decides is what it was told; it starts a loop only for a runner that has
\* none, and gives up nothing but notifications of the runner's own.
LEMMA NotifyEffect ==
    ASSUME NEW r \in Runners, NEW should \in BOOLEAN
    PROVE  LET n == notify(r, should)
           IN  /\ n \in Runners
               /\ n.holder = r.holder /\ n.should = r.should /\ n.tasks = r.tasks /\ n.pills = r.pills
               /\ n.waiting \in {r.waiting, r.waiting \ {"sync"}}
               /\ (n.status = "STARTED") <=> should
               /\ n.status = "STOPPED" => r.status = "STOPPED"
               /\ n.task = r.task \/ (n.task = "created" /\ should)
  <1>1. CASE r.status = "STARTED" /\ ~should
    BY <1>1 DEF notify, _stop, Runners
  <1>2. CASE r.status = "STOPPED" /\ should
    BY <1>2 DEF notify, Runners
  <1>3. CASE r.status = "STOPPING" /\ should
    BY <1>3 DEF notify, Runners
  <1>4. CASE r.status = "STARTED" /\ should
    BY <1>4 DEF notify
  <1>5. CASE r.status # "STARTED" /\ ~should
    BY <1>5 DEF notify
  <1> QED BY <1>1, <1>2, <1>3, <1>4, <1>5 DEF Runners

\* The runner r was told s, and has become n.
Obeys(r, n, s) ==
    /\ n \in Runners
    /\ n.holder = r.holder /\ n.should = r.should /\ n.tasks = r.tasks /\ n.pills = r.pills
    /\ n.waiting \in {r.waiting, r.waiting \ {"sync"}}
    /\ (n.status = "STARTED") <=> (s = "yes")
    /\ n.status = "STOPPED" => r.status = "STOPPED"
    /\ n.task = r.task \/ (n.task = "created" /\ s = "yes")

\* The two ways notify is called.
LEMMA NotifyCalls ==
    ASSUME NEW r \in Runners
    PROVE  /\ LET n == notify(r, FALSE)
              IN  /\ n \in Runners
                  /\ n.holder = r.holder /\ n.should = r.should /\ n.tasks = r.tasks /\ n.pills = r.pills
                  /\ n.waiting \in {r.waiting, r.waiting \ {"sync"}}
                  /\ n.status # "STARTED" /\ n.task = r.task
                  /\ n.status = "STOPPED" => r.status = "STOPPED"
           /\ \A s : Obeys(r, notify(r, s = "yes"), s)
  <1>1. FALSE \in BOOLEAN /\ \A s : (s = "yes") \in BOOLEAN
    OBVIOUS
  <1>2. ASSUME NEW should \in BOOLEAN
        PROVE  LET n == notify(r, should)
               IN  /\ n \in Runners
                   /\ n.holder = r.holder /\ n.should = r.should /\ n.tasks = r.tasks /\ n.pills = r.pills
                   /\ n.waiting \in {r.waiting, r.waiting \ {"sync"}}
                   /\ (n.status = "STARTED") <=> should
                   /\ n.status = "STOPPED" => r.status = "STOPPED"
                   /\ n.task = r.task \/ (n.task = "created" /\ should)
    BY NotifyEffect
  <1>3. \A s : Obeys(r, notify(r, s = "yes"), s)
    BY <1>1, <1>2, Zenon DEF Obeys
  <1> QED BY <1>2, <1>3, Zenon

\* The loop of a runner goes on only while it should; when it ends it says so.
LEMMA LoopEffect ==
    ASSUME NEW r \in Runners
    PROVE  LET n == Loop(r)
           IN  /\ n \in Runners
               /\ n.holder = r.holder /\ n.should = r.should /\ n.waiting = r.waiting
               /\ n.tasks = r.tasks /\ n.pills = r.pills
               /\ n.status # "STARTED" => n.status = "STOPPED" /\ n.task = "none"
               /\ n.status = "STARTED" => r.status = "STARTED"
               /\ n.task = "waiting" => running /\ r.status = "STARTED"
               /\ (running /\ r.status = "STARTED") => n.status = "STARTED"
               /\ n.task # "executing"
  <1>1. CASE goes_on(r)
    BY <1>1 DEF Loop, goes_on, Runners
  <1>2. CASE ~goes_on(r)
    BY <1>2 DEF Loop, goes_on, Runners
  <1> QED BY <1>1, <1>2

\* A stop takes effect at once, as far as the status goes.
LEMMA StopEffect ==
    ASSUME NEW r \in Runners
    PROVE  LET n == _stop(r)
           IN  /\ n \in Runners
               /\ n.holder = r.holder /\ n.should = r.should /\ n.tasks = r.tasks /\ n.pills = r.pills
               /\ n.waiting = r.waiting \ {"sync"} /\ n.task = r.task /\ n.status = "STOPPING"
  BY DEF _stop, Runners

\* What putting and taking does to the counts of a queue.
LEMMA QueueEffect ==
    ASSUME NEW r \in Runners
    PROVE  /\ r.pills > 0 => [r EXCEPT !.pills = r.pills - 1] \in Runners
           /\ r.tasks > 0 => [r EXCEPT !.tasks = r.tasks - 1, !.task = "executing"] \in Runners
           /\ [r EXCEPT !.pills = r.pills + 1] \in Runners
           /\ \A W \in SUBSET ({"rpc"} \cup Waiters) :
                 [r EXCEPT !.tasks = r.tasks + 1, !.waiting = W] \in Runners
  <1>1. /\ r.pills \in Nat /\ r.tasks \in Nat
    BY DEF Runners
  <1>2. /\ r.pills > 0 => r.pills - 1 \in Nat
        /\ r.tasks > 0 => r.tasks - 1 \in Nat
        /\ r.pills + 1 \in Nat /\ r.tasks + 1 \in Nat
    BY <1>1
  <1> QED BY <1>2 DEF Runners

\* Nobody else's runner changes.
OnlyRunner(a) ==
    /\ runner' \in [Agents -> Runners]
    /\ \A b \in Agents \ {a} : runner'[b] = runner[b]

\* The steps of a runner's own loop: it changes its own state only, never what is to be
\* notified, and waits for tasks only while it should be running.
LEMMA RunnerStepEffect ==
    ASSUME TypeOK, NEW a \in Agents, RunnerStep(a)
    PROVE  /\ OnlyRunner(a)
           /\ UNCHANGED <<paused, workers, running, suspended, control, removal, refresh, raised>>
           /\ Alive(a)
           /\ runner'[a].holder = runner[a].holder /\ runner'[a].should = runner[a].should
           /\ runner'[a].waiting = runner[a].waiting
           /\ runner'[a].status = "STOPPED" => runner'[a].task = "none" \/ runner[a].status = "STOPPED"
           /\ runner'[a].status = "STARTED" => runner[a].status = "STARTED"
           /\ runner'[a].task = "waiting" => running /\ runner[a].status = "STARTED"
           /\ (running /\ runner[a].status = "STARTED") => runner'[a].status = "STARTED"
  <1> DEFINE r == runner[a]
  <1>1. r \in Runners /\ runner \in [Agents -> Runners]
    BY DEF TypeOK
  <1>2. CASE BeginRun(a)
    <2>1. runner' = [runner EXCEPT ![a] = Loop(r)]
      BY <1>2 DEF BeginRun
    <2>2. OnlyRunner(a) /\ runner'[a] = Loop(r)
      BY <1>1, <2>1, LoopEffect DEF OnlyRunner
    <2> QED BY <1>1, <1>2, <2>2, LoopEffect DEF BeginRun, Alive
  <1>3. CASE TakePill(a)
    <2> DEFINE p == [r EXCEPT !.pills = r.pills - 1]
    <2>1. runner' = [runner EXCEPT ![a] = Loop(p)] /\ r.pills > 0
      BY <1>3 DEF TakePill
    <2>2. p \in Runners
      BY <1>1, <2>1, QueueEffect
    <2>3. p.holder = r.holder /\ p.should = r.should /\ p.waiting = r.waiting /\ p.status = r.status
      BY <1>1 DEF Runners
    <2> HIDE DEF p
    <2>4. OnlyRunner(a) /\ runner'[a] = Loop(p)
      BY <1>1, <2>1, <2>2, LoopEffect DEF OnlyRunner
    <2> QED BY <1>3, <2>2, <2>3, <2>4, LoopEffect DEF TakePill, Alive
  <1>4. CASE TakeTask(a)
    <2> DEFINE n == [r EXCEPT !.tasks = r.tasks - 1, !.task = "executing"]
    <2>1. runner' = [runner EXCEPT ![a] = n] /\ r.tasks > 0
      BY <1>4 DEF TakeTask
    <2>2. n \in Runners
      BY <1>1, <2>1, QueueEffect
    <2>3. /\ n.holder = r.holder /\ n.should = r.should /\ n.waiting = r.waiting
          /\ n.status = r.status /\ n.task = "executing"
      BY <1>1 DEF Runners
    <2> HIDE DEF n
    <2>4. OnlyRunner(a) /\ runner'[a] = n
      BY <1>1, <2>1, <2>2 DEF OnlyRunner
    <2> QED BY <1>4, <2>3, <2>4 DEF TakeTask, Alive
  <1>5. CASE TaskDone(a)
    <2>1. runner' = [runner EXCEPT ![a] = Loop(r)]
      BY <1>5 DEF TaskDone
    <2>2. OnlyRunner(a) /\ runner'[a] = Loop(r)
      BY <1>1, <2>1, LoopEffect DEF OnlyRunner
    <2> QED BY <1>1, <1>5, <2>2, LoopEffect DEF TaskDone, Alive
  <1> QED BY <1>2, <1>3, <1>4, <1>5 DEF RunnerStep

\* A notification that has the lock takes a stop for granted when nobody may run, and
\* otherwise goes on to read the database.
LEMMA BeginNotifyEffect ==
    ASSUME TypeOK, NEW a \in Agents, NEW who \in Waiters, BeginNotify(a, who)
    PROVE  /\ OnlyRunner(a)
           /\ UNCHANGED <<paused, workers, running, suspended, control, removal, raised>>
           /\ runner[a].holder = "none" /\ who \in runner[a].waiting
           /\ runner'[a].waiting \in {runner[a].waiting \ {who}, runner[a].waiting \ {who, "sync"}}
           /\ runner'[a].should = runner[a].should
           /\ runner'[a].task = runner[a].task
           /\ runner'[a].pills = runner[a].pills /\ runner'[a].tasks = runner[a].tasks
           /\ runner'[a].status = "STOPPED" => runner[a].status = "STOPPED"
           /\ \/ may_not_run /\ Down(a)' /\ NextWorker(who)
              \/ /\ ~may_not_run /\ runner'[a].holder = who /\ runner'[a].status = runner[a].status
                 /\ UNCHANGED refresh
  <1> DEFINE r == [runner[a] EXCEPT !.waiting = runner[a].waiting \ {who}]
             h == [r EXCEPT !.holder = who]
  <1>1. runner[a] \in Runners /\ runner \in [Agents -> Runners]
    BY DEF TypeOK
  <1>2. /\ r \in Runners /\ r.holder = runner[a].holder /\ r.should = runner[a].should
        /\ r.waiting = runner[a].waiting \ {who} /\ r.status = runner[a].status /\ r.task = runner[a].task
        /\ r.pills = runner[a].pills /\ r.tasks = runner[a].tasks
    BY <1>1 DEF Runners
  <1>3. /\ h \in Runners /\ h.holder = who /\ h.should = r.should
        /\ h.waiting = r.waiting /\ h.status = r.status /\ h.task = r.task
        /\ h.pills = r.pills /\ h.tasks = r.tasks
    BY <1>2 DEF Runners
  <1>4. /\ runner[a].holder = "none" /\ who \in runner[a].waiting
        /\ UNCHANGED <<paused, workers, running, suspended, control, removal, raised>>
    BY DEF BeginNotify
  <1>5. CASE may_not_run
    <2> DEFINE n == notify(r, FALSE)
    <2>1. runner' = [runner EXCEPT ![a] = n] /\ NextWorker(who)
      BY <1>5 DEF BeginNotify
    <2> HIDE DEF r, h
    <2>2. /\ n \in Runners /\ n.holder = r.holder /\ n.should = r.should
          /\ n.tasks = r.tasks /\ n.pills = r.pills
          /\ n.waiting \in {r.waiting, r.waiting \ {"sync"}}
          /\ n.status # "STARTED" /\ n.task = r.task /\ (n.status = "STOPPED" => r.status = "STOPPED")
      BY <1>2, NotifyCalls, Zenon
    <2> HIDE DEF n
    <2>3. OnlyRunner(a) /\ runner'[a] = n
      BY <1>1, <2>1, <2>2 DEF OnlyRunner
    <2>4. runner'[a].waiting \in {runner[a].waiting \ {who}, runner[a].waiting \ {who, "sync"}}
      BY <1>2, <2>2, <2>3
    <2>5. Down(a)'
      BY <1>2, <1>4, <2>2, <2>3 DEF Down
    <2> QED BY <1>2, <1>4, <1>5, <2>1, <2>2, <2>3, <2>4, <2>5
  <1>6. CASE ~may_not_run
    <2>1. runner' = [runner EXCEPT ![a] = h] /\ UNCHANGED refresh
      BY <1>6 DEF BeginNotify
    <2> HIDE DEF r, h
    <2>2. OnlyRunner(a) /\ runner'[a] = h
      BY <1>1, <1>3, <2>1 DEF OnlyRunner
    <2> QED BY <1>2, <1>3, <1>4, <1>6, <2>1, <2>2
  <1> QED BY <1>5, <1>6

\* A notification ends by doing what the database said when it was read.
LEMMA EndNotifyEffect ==
    ASSUME TypeOK, NEW a \in Agents, EndNotify(a)
    PROVE  /\ OnlyRunner(a)
           /\ UNCHANGED <<paused, workers, running, suspended, control, removal, raised>>
           /\ runner[a].holder \in Waiters /\ runner[a].should # "unread"
           /\ NextWorker(runner[a].holder)
           /\ runner'[a].holder = "none" /\ runner'[a].should = "unread"
           /\ runner'[a].waiting \in {runner[a].waiting, runner[a].waiting \ {"sync"}}
           /\ (runner'[a].status = "STARTED") <=> (runner[a].should = "yes")
           /\ runner'[a].status = "STOPPED" => runner[a].status = "STOPPED" /\ runner'[a].task = runner[a].task
           /\ runner'[a].task \in {runner[a].task, "created"}
           /\ runner'[a].pills = runner[a].pills /\ runner'[a].tasks = runner[a].tasks
  <1> DEFINE r == [runner[a] EXCEPT !.holder = "none", !.should = "unread"]
             n == notify(r, runner[a].should = "yes")
  <1>1. runner[a] \in Runners /\ runner \in [Agents -> Runners]
    BY DEF TypeOK
  <1>2. /\ r \in Runners /\ r.holder = "none" /\ r.should = "unread"
        /\ r.waiting = runner[a].waiting /\ r.status = runner[a].status /\ r.task = runner[a].task
        /\ r.pills = runner[a].pills /\ r.tasks = runner[a].tasks
    BY <1>1 DEF Runners
  <1>3. /\ runner[a].holder \in Waiters /\ runner[a].should # "unread" /\ NextWorker(runner[a].holder)
        /\ UNCHANGED <<paused, workers, running, suspended, control, removal, raised>>
        /\ runner' = [runner EXCEPT ![a] = n]
    BY <1>1 DEF EndNotify, Runners
  <1> HIDE DEF r
  <1>4. Obeys(r, n, runner[a].should)
    BY <1>2, NotifyCalls, Zenon
  <1> HIDE DEF n
  <1>5. OnlyRunner(a) /\ runner'[a] = n
    BY <1>1, <1>3, <1>4 DEF OnlyRunner, Obeys
  <1> QED BY <1>2, <1>3, <1>4, <1>5 DEF Obeys

\* Its queue and its notifications aside, the runner does not change.
SameRun(a) ==
    /\ runner'[a].status = runner[a].status /\ runner'[a].task = runner[a].task
    /\ runner'[a].holder = runner[a].holder /\ runner'[a].should = runner[a].should

\* Asking for a notification, or handing one on, changes nothing else.
LEMMA WaitingEffect ==
    ASSUME TypeOK, NEW a \in Agents, NEW W \in SUBSET ({"rpc"} \cup Waiters),
           runner' = [runner EXCEPT ![a].waiting = W]
    PROVE  /\ OnlyRunner(a) /\ SameRun(a) /\ runner'[a].waiting = W
           /\ runner'[a].tasks = runner[a].tasks /\ runner'[a].pills = runner[a].pills
  <1> DEFINE n == [runner[a] EXCEPT !.waiting = W]
  <1>1. runner[a] \in Runners /\ runner \in [Agents -> Runners]
    BY DEF TypeOK
  <1>2. /\ n \in Runners /\ n.waiting = W /\ n.holder = runner[a].holder /\ n.should = runner[a].should
        /\ n.status = runner[a].status /\ n.task = runner[a].task
        /\ n.tasks = runner[a].tasks /\ n.pills = runner[a].pills
    BY <1>1 DEF Runners
  <1>3. runner' = [runner EXCEPT ![a] = n]
    OBVIOUS
  <1> HIDE DEF n
  <1> QED BY <1>1, <1>2, <1>3 DEF OnlyRunner, SameRun

\* A task that is queued creates the worker of an agent that has none.
LEMMA PutTaskEffect ==
    ASSUME TypeOK, NEW a \in Agents, PutTask(a)
    PROVE  /\ OnlyRunner(a) /\ SameRun(a)
           /\ UNCHANGED <<paused, running, suspended, control, removal, refresh, raised>>
           /\ runner'[a].pills = runner[a].pills /\ runner'[a].tasks = runner[a].tasks + 1
           /\ IF Known(a) THEN workers' = workers /\ runner'[a].waiting = runner[a].waiting
              ELSE workers' = Append(workers, a) /\ runner'[a].waiting = runner[a].waiting \cup {"sync"}
  <1> DEFINE W == IF Known(a) THEN runner[a].waiting ELSE runner[a].waiting \cup {"sync"}
             n == [runner[a] EXCEPT !.tasks = runner[a].tasks + 1, !.waiting = W]
  <1>1. runner[a] \in Runners /\ runner \in [Agents -> Runners]
    BY DEF TypeOK
  <1>2. W \in SUBSET ({"rpc"} \cup Waiters)
    BY <1>1 DEF Runners, Waiters
  <1>3. runner' = [runner EXCEPT ![a] = n]
    <2>1. (IF creates_agent(a) THEN runner[a].waiting \cup {"sync"} ELSE runner[a].waiting) = W
      BY DEF creates_agent
    <2>2. runner' = [runner EXCEPT ![a] =
                       [runner[a] EXCEPT !.tasks = runner[a].tasks + 1,
                                         !.waiting = IF creates_agent(a) THEN runner[a].waiting \cup {"sync"}
                                                     ELSE runner[a].waiting]]
      BY DEF PutTask
    <2> HIDE DEF W
    <2> QED BY <2>1, <2>2
  <1>4. /\ UNCHANGED <<paused, running, suspended, control, removal, refresh, raised>>
        /\ workers' = IF Known(a) THEN workers ELSE Append(workers, a)
    BY DEF PutTask, creates_agent
  <1>5. W = IF Known(a) THEN runner[a].waiting ELSE runner[a].waiting \cup {"sync"}
    OBVIOUS
  <1> HIDE DEF W
  <1>6. n \in Runners
    BY <1>1, <1>2, QueueEffect
  <1>7. /\ n.waiting = W /\ n.holder = runner[a].holder /\ n.should = runner[a].should
        /\ n.status = runner[a].status /\ n.task = runner[a].task
        /\ n.tasks = runner[a].tasks + 1 /\ n.pills = runner[a].pills
    BY <1>1 DEF Runners
  <1> HIDE DEF n
  <1> QED BY <1>1, <1>3, <1>4, <1>5, <1>6, <1>7 DEF OnlyRunner, SameRun

\* The poison pills reach the workers, and nobody else.
LEMMA PillsEffect ==
    ASSUME TypeOK, runner' = add_poison_pill_to_agent_queues(runner)
    PROVE  /\ runner' \in [Agents -> Runners]
           /\ \A a \in Agents : /\ SameRun(a) /\ runner'[a].waiting = runner[a].waiting
                                /\ runner'[a].tasks = runner[a].tasks
                                /\ Known(a) => runner'[a].pills > 0
  <1>1. runner \in [Agents -> Runners]
    BY DEF TypeOK
  <1>2. runner' = [a \in Agents |-> IF Known(a) THEN [runner[a] EXCEPT !.pills = runner[a].pills + 1]
                                    ELSE runner[a]]
    BY DEF add_poison_pill_to_agent_queues, WithPills
  <1>3. ASSUME NEW a \in Agents
        PROVE  /\ runner'[a] \in Runners
               /\ SameRun(a) /\ runner'[a].waiting = runner[a].waiting /\ runner'[a].tasks = runner[a].tasks
               /\ Known(a) => runner'[a].pills > 0
    <2> DEFINE n == [runner[a] EXCEPT !.pills = runner[a].pills + 1]
    <2>1. n \in Runners
      BY <1>1, QueueEffect
    <2>2. /\ n.waiting = runner[a].waiting /\ n.holder = runner[a].holder /\ n.should = runner[a].should
          /\ n.status = runner[a].status /\ n.task = runner[a].task
          /\ n.tasks = runner[a].tasks /\ n.pills = runner[a].pills + 1 /\ runner[a].pills \in Nat
      BY <1>1 DEF Runners
    <2>3. runner'[a] = IF Known(a) THEN n ELSE runner[a]
      BY <1>2
    <2> HIDE DEF n
    <2> QED BY <1>1, <2>1, <2>2, <2>3 DEF SameRun
  <1> QED BY <1>2, <1>3

\* A worker that is asked to stop, by stop or by suspend.
LEMMA StopRunnerEffect ==
    ASSUME TypeOK, NEW a \in Agents, runner[a].holder = "none",
           runner' = [runner EXCEPT ![a] = _stop(runner[a])]
    PROVE  /\ OnlyRunner(a) /\ Down(a)' /\ runner'[a].status # "STOPPED"
           /\ runner'[a].task = runner[a].task /\ runner'[a].waiting = runner[a].waiting \ {"sync"}
           /\ runner'[a].tasks = runner[a].tasks /\ runner'[a].pills = runner[a].pills
           /\ runner'[a].holder = runner[a].holder /\ runner'[a].should = runner[a].should
  <1>1. runner[a] \in Runners /\ runner \in [Agents -> Runners]
    BY DEF TypeOK
  <1>2. OnlyRunner(a) /\ runner'[a] = _stop(runner[a])
    BY <1>1, StopEffect DEF OnlyRunner
  <1> QED BY <1>1, <1>2, StopEffect DEF Down

\* start forgets what the runners of the previous run have come to.
LEMMA StartEffect ==
    ASSUME TypeOK, Start
    PROVE  /\ runner' \in [Agents -> Runners] /\ workers' = <<>>
           /\ control.pc = "stopped" /\ control' = [control EXCEPT !.pc = "starting"]
           /\ raised \cap {"stop", "join"} = {}
           /\ UNCHANGED <<paused, running, suspended, removal, refresh, raised>>
           /\ \A a \in Agents : /\ runner'[a].status = "STOPPED" /\ runner'[a].task = "none"
                                /\ runner'[a].holder = "none" /\ runner'[a].should = "unread"
                                /\ runner'[a].waiting = runner[a].waiting
                                /\ runner[a].waiting \subseteq {"rpc"} /\ runner[a].holder = "none"
  <1>1. runner' = [a \in Agents |-> [NewRunner EXCEPT !.waiting = runner[a].waiting]]
    BY DEF Start
  <1>2. ASSUME NEW a \in Agents
        PROVE  /\ runner'[a] \in Runners
               /\ runner'[a].status = "STOPPED" /\ runner'[a].task = "none"
               /\ runner'[a].holder = "none" /\ runner'[a].should = "unread"
               /\ runner'[a].waiting = runner[a].waiting
    BY <1>1 DEF TypeOK, Runners, NewRunner
  <1>3. \A a \in Agents : runner[a].waiting \subseteq {"rpc"} /\ runner[a].holder = "none"
    BY DEF Start, NotificationsOver
  <1>4. runner' \in [Agents -> Runners]
    BY <1>1, <1>2
  <1> QED BY <1>2, <1>3, <1>4 DEF Start

-----------------------------------------------------------------------------
(* Type correctness *)

\* The scheduler begins with a well-formed state.
LEMMA InitType == Init => TypeOK
  <1> SUFFICES ASSUME Init PROVE TypeOK
    OBVIOUS
  <1>1. NewRunner \in Runners
    BY DEF NewRunner, Runners
  <1>2. <<>> \in Seq(Agents)
    OBVIOUS
  <1> QED BY <1>1, <1>2 DEF Init, TypeOK, Loops, AtRest, Refreshes, Controls, Removals

\* Every step keeps the state well formed.
LEMMA NextType == TypeOK /\ [Next]_vars => TypeOK'
  <1> SUFFICES ASSUME TypeOK, [Next]_vars PROVE TypeOK'
    OBVIOUS
  <1>1. ASSUME NEW a \in Agents, RunnerStep(a) PROVE TypeOK'
    BY <1>1, RunnerStepEffect DEF TypeOK, OnlyRunner
  <1>2. ASSUME NEW a \in Agents, NEW who \in Waiters, NextWorker(who)
        PROVE  refresh' \in [Loops -> Refreshes]
    BY <1>2 DEF TypeOK, NextWorker, Refreshes
  <1>3. ASSUME NEW a \in Agents, NEW who \in Waiters, BeginNotify(a, who) PROVE TypeOK'
    <2>1. refresh' \in [Loops -> Refreshes]
      BY <1>2, <1>3, BeginNotifyEffect DEF TypeOK
    <2> QED BY <1>3, <2>1, BeginNotifyEffect DEF TypeOK, OnlyRunner
  <1>4. ASSUME NEW a \in Agents, EndNotify(a) PROVE TypeOK'
    <2>1. refresh' \in [Loops -> Refreshes]
      BY <1>2, <1>4, EndNotifyEffect DEF TypeOK
    <2> QED BY <1>4, <2>1, EndNotifyEffect DEF TypeOK, OnlyRunner
  <1>5. ASSUME NEW a \in Agents, RefreshAgent(a) PROVE TypeOK'
    <2>1. (runner[a].waiting \ {"rpc"}) \cup (IF Known(a) THEN {"call"} ELSE {}) \in SUBSET ({"rpc"} \cup Waiters)
      BY DEF TypeOK, Runners, Waiters
    <2>2. OnlyRunner(a)
      BY <1>5, <2>1, WaitingEffect DEF RefreshAgent
    <2> QED BY <1>5, <2>2 DEF RefreshAgent, TypeOK, OnlyRunner
  <1>6. ASSUME NEW a \in Agents, ReadPaused(a) PROVE TypeOK'
    <2>1. runner' \in [Agents -> Runners]
      <3> DEFINE n == [runner[a] EXCEPT !.should = IF paused[a] THEN "no" ELSE "yes"]
      <3>1. runner[a] \in Runners
        BY DEF TypeOK
      <3>2. n \in Runners
        BY <3>1 DEF Runners
      <3>3. runner' = [runner EXCEPT ![a] = n]
        BY <1>6 DEF ReadPaused
      <3> HIDE DEF n
      <3> QED BY <3>2, <3>3 DEF TypeOK
    <2> QED BY <1>6, <2>1 DEF ReadPaused, TypeOK
  <1>7. ASSUME NEW a \in Agents, PutTask(a) PROVE TypeOK'
    <2>1. Append(workers, a) \in Seq(Agents)
      BY DEF TypeOK
    <2>2. workers' \in Seq(Agents)
      BY <1>7, <2>1, PutTaskEffect DEF TypeOK
    <2> QED BY <1>7, <2>2, PutTaskEffect DEF TypeOK, OnlyRunner
  <1>8. ASSUME NEW a \in Agents, SetPaused(a) PROVE TypeOK'
    <2>1. runner[a].waiting \cup {"rpc"} \in SUBSET ({"rpc"} \cup Waiters)
      BY DEF TypeOK, Runners
    <2>2. OnlyRunner(a)
      BY <1>8, <2>1, WaitingEffect DEF SetPaused
    <2>3. paused' \in [Agents -> BOOLEAN]
      BY <1>8 DEF SetPaused, TypeOK
    <2> QED BY <1>8, <2>2, <2>3 DEF SetPaused, TypeOK, OnlyRunner
  <1>9. ASSUME NEW x \in Loops, RefreshBegins(x) PROVE TypeOK'
    BY <1>9 DEF RefreshBegins, TypeOK, Refreshes
  <1>10. ASSUME NEW x \in Loops, RefreshNext(x) PROVE TypeOK'
    <2>1. CASE refresh[x].next > Len(workers)
      <3>1. AtRest \in Refreshes
        BY DEF AtRest, Refreshes
      <3> QED BY <1>10, <2>1, <3>1 DEF RefreshNext, TypeOK
    <2>2. CASE ~(refresh[x].next > Len(workers))
      <3> DEFINE i == refresh[x].next
                 n == [refresh[x] EXCEPT !.pc = "notified", !.next = i + 1]
                 w == workers[i]
      <3>1. /\ refresh' = [refresh EXCEPT ![x] = n]
            /\ runner' = [runner EXCEPT ![w].waiting = runner[w].waiting \cup {x}]
            /\ UNCHANGED <<paused, workers, running, suspended, control, removal, raised, count>>
        BY <1>10, <2>2 DEF RefreshNext
      <3>2. n \in Refreshes
        <4>1. refresh[x] \in Refreshes
          BY DEF TypeOK
        <4>2. i + 1 \in Nat
          BY <4>1 DEF Refreshes
        <4> QED BY <4>1, <4>2 DEF Refreshes
      <3> HIDE DEF n, w
      <3>3. refresh' \in [Loops -> Refreshes]
        BY <3>1, <3>2 DEF TypeOK
      <3>4. ASSUME w \in Agents PROVE runner' \in [Agents -> Runners]
        <4>1. runner[w].waiting \cup {x} \in SUBSET ({"rpc"} \cup Waiters)
          BY <3>4 DEF TypeOK, Runners, Waiters
        <4> QED BY <3>1, <3>4, <4>1, WaitingEffect DEF OnlyRunner
      <3>5. ASSUME w \notin Agents PROVE runner' \in [Agents -> Runners]
        BY <3>1, <3>5 DEF TypeOK
      <3> QED BY <3>1, <3>3, <3>4, <3>5 DEF TypeOK
    <2> QED BY <2>1, <2>2
  <1>11. ASSUME NEW x \in Loops, RefreshRaises(x) PROVE TypeOK'
    BY <1>11 DEF RefreshRaises, TypeOK, AtRest, Refreshes
  <1>12. Range(workers) \subseteq Agents
    BY DEF TypeOK, Range
  <1>13. ASSUME Resume
         PROVE  /\ refresh' \in [Loops -> Refreshes]
                /\ removal' \in Removals
                /\ suspended' \in BOOLEAN
    BY <1>13 DEF Resume, TypeOK, Refreshes, Removals
  <1>14. ASSUME NEW a \in Agents, SuspendWorker(a) PROVE TypeOK'
    <2>1. runner' \in [Agents -> Runners]
      <3>1. CASE Known(a)
        BY <1>14, <3>1, StopRunnerEffect DEF SuspendWorker, OnlyRunner
      <3>2. CASE ~Known(a)
        BY <1>14, <3>2 DEF SuspendWorker, TypeOK
      <3> QED BY <3>1, <3>2
    <2> QED BY <1>14, <2>1 DEF SuspendWorker, TypeOK, Removals
  <1>15. CASE SuspendAll
    <2>1. runner' \in [Agents -> Runners]
      BY <1>15, PillsEffect DEF SuspendAll
    <2>2. CASE Joinable
      <3>1. [pc |-> "joining", todo |-> Range(workers)] \in Removals
        BY <1>12 DEF Removals
      <3> QED BY <1>15, <2>1, <2>2, <3>1 DEF SuspendAll, TypeOK
    <2>3. CASE ~Joinable
      BY <1>13, <1>15, <2>1, <2>3 DEF SuspendAll, TypeOK
    <2> QED BY <2>2, <2>3
  <1>16. CASE SuspendJoined
    BY <1>16 DEF SuspendJoined, TypeOK, Removals
  <1>17. CASE RemoveVenvs
    BY <1>13, <1>17 DEF RemoveVenvs, TypeOK
  <1>18. CASE Initialize
    BY <1>18 DEF Initialize, TypeOK, Controls
  <1>19. CASE StopWorker
    <2> DEFINE a == workers[control.next]
    <2>1. /\ runner[a].holder = "none" /\ runner' = [runner EXCEPT ![a] = _stop(runner[a])]
          /\ control' = [control EXCEPT !.next = control.next + 1]
          /\ UNCHANGED <<paused, workers, running, suspended, removal, refresh, raised, count>>
      BY <1>19 DEF StopWorker
    <2> HIDE DEF a
    <2>2. runner' \in [Agents -> Runners]
      <3>1. CASE a \in Agents
        BY <2>1, <3>1, StopRunnerEffect DEF OnlyRunner
      <3>2. CASE a \notin Agents
        BY <2>1, <3>2 DEF TypeOK
      <3> QED BY <3>1, <3>2
    <2> QED BY <2>1, <2>2 DEF TypeOK, Controls
  <1>20. CASE StopRaises
    BY <1>20 DEF StopRaises, TypeOK, Controls
  <1>21. CASE StopAll
    BY <1>21, PillsEffect DEF StopAll, TypeOK, Controls
  <1>22. CASE Joined
    BY <1>22 DEF Joined, TypeOK, Controls
  <1>23. CASE SetAllPaused
    <2>1. paused' \in [Agents -> BOOLEAN]
      <3>1. PICK p \in BOOLEAN : paused' = [a \in Agents |-> p]
        BY <1>23 DEF SetAllPaused
      <3> QED BY <3>1
    <2>2. refresh' \in [Loops -> Refreshes]
      BY <1>23 DEF SetAllPaused, TypeOK, Refreshes
    <2> QED BY <1>23, <2>1, <2>2 DEF SetAllPaused, TypeOK
  <1>24. CASE Suspend
    BY <1>12, <1>24 DEF Suspend, TypeOK, Removals
  <1>25. CASE Start
    <2>1. <<>> \in Seq(Agents)
      OBVIOUS
    <2> QED BY <1>25, <2>1, StartEffect DEF TypeOK, Controls
  <1>26. CASE StartRaises
    BY <1>26 DEF StartRaises, TypeOK
  <1>27. CASE Stop
    <2>1. [pc |-> "stopWorkers", next |-> 1, size |-> Len(workers)] \in Controls
      BY DEF TypeOK, Controls
    <2> QED BY <1>27, <2>1 DEF Stop, TypeOK
  <1>28. CASE UNCHANGED vars
    BY <1>28 DEF vars, TypeOK
  <1> QED BY <1>1, <1>3, <1>4, <1>5, <1>6, <1>7, <1>8, <1>9, <1>10, <1>11, <1>14, <1>15, <1>16, <1>17, <1>18,
             <1>19, <1>20, <1>21, <1>22, <1>23, <1>24, <1>25, <1>26, <1>27, <1>28
          DEF Next, NotifyStep, RefreshStep, RemovalStep, ControlStep, Waiters

-----------------------------------------------------------------------------
(* What stopping and suspending achieve is inductive *)

\* Nothing is left behind before the first start.
LEMMA InitQuiet == Init => QuietInv
  <1> SUFFICES ASSUME Init PROVE QuietInv
    OBVIOUS
  <1>1. /\ workers = <<>> /\ running = FALSE /\ suspended = FALSE /\ control.pc = "stopped"
        /\ removal.pc = "idle" /\ raised = {}
        /\ \A a \in Agents : /\ runner[a].status = "STOPPED" /\ runner[a].task = "none"
                             /\ runner[a].holder = "none" /\ runner[a].waiting = {}
    BY DEF Init, NewRunner
  <1> QED BY <1>1 DEF QuietInv, NeverStartsTwice, Alive, UnknownIsNew, FlagsFollow, Suspending, Stopping,
                      Stopped, Down, JoinsOnlyStopped, NobodyJoinsSleeper

\* The steps that change one runner and nothing that stop and suspend look at: they keep
\* what was achieved when they start no runner that is down while nobody may run.
LEMMA RunnerOnlyQuiet ==
    ASSUME TypeOK, QuietInv, NEW a \in Agents, OnlyRunner(a),
           UNCHANGED <<workers, running, suspended, control, removal, raised>>,
           runner'[a].status = "STOPPED" => runner'[a].task = "none",
           ~Known(a) => /\ runner'[a].status = "STOPPED" /\ runner'[a].holder = "none"
                        /\ runner'[a].waiting \subseteq {"rpc"},
           may_not_run /\ Down(a) => Down(a)' /\ (runner'[a].task # "none" => Alive(a)),
           runner'[a].task = "waiting" =>
              \/ runner[a].status = "STARTED"
              \/ runner[a].task = "waiting" /\ runner'[a].tasks = runner[a].tasks
                                            /\ runner'[a].pills = runner[a].pills
    PROVE  QuietInv'
  <1>1. \A b \in Agents : b # a => runner'[b] = runner[b]
    BY DEF OnlyRunner
  <1>2. \A b \in Agents : Known(b)' <=> Known(b)
    BY DEF Known
  <1>3. \A b \in Agents : may_not_run /\ Down(b) => Down(b)' /\ (Alive(b)' => Alive(b))
    BY <1>1 DEF Down, Alive
  <1>4. NeverStartsTwice'
    BY <1>1 DEF QuietInv, NeverStartsTwice, Alive
  <1>5. UnknownIsNew'
    BY <1>1, <1>2 DEF QuietInv, UnknownIsNew
  <1>6. FlagsFollow' /\ JoinsOnlyStopped'
    BY DEF QuietInv, FlagsFollow, JoinsOnlyStopped
  <1>7. Suspending'
    BY <1>3 DEF QuietInv, Suspending, may_not_run
  <1>8. Stopping'
    <2> SUFFICES ASSUME control.pc = "stopWorkers", NEW i \in DOMAIN workers, i < control.next
                 PROVE  Down(workers[i])'
      BY DEF QuietInv, Stopping
    <2>1. workers[i] \in Agents /\ Down(workers[i]) /\ may_not_run
      BY DEF TypeOK, QuietInv, Stopping, FlagsFollow, may_not_run
    <2> QED BY <1>3, <2>1 DEF Down
  <1>9. Stopped'
    BY <1>3 DEF QuietInv, Stopped, FlagsFollow, may_not_run
  <1>10. NobodyJoinsSleeper'
    <2>1. FlagsFollow /\ NobodyJoinsSleeper /\ Suspending /\ Stopped
      BY DEF QuietInv
    <2>2. control.pc = "joining" \/ (removal.pc = "joining" /\ a \in removal.todo) => runner[a].status # "STARTED"
      BY <2>1 DEF FlagsFollow, Suspending, Stopped, Down
    <2> QED BY <1>1, <2>1, <2>2 DEF NobodyJoinsSleeper
  <1> QED BY <1>4, <1>5, <1>6, <1>7, <1>8, <1>9, <1>10 DEF QuietInv

\* A runner's own steps: it may go down, never up.
LEMMA RunnerStepQuiet == ASSUME TypeOK, QuietInv, NEW a \in Agents, RunnerStep(a) PROVE QuietInv'
  <1>1. NeverStartsTwice /\ UnknownIsNew
    BY DEF QuietInv
  <1>2. Known(a)
    BY <1>1, RunnerStepEffect DEF NeverStartsTwice, UnknownIsNew, Alive
  <1>3. runner'[a].status = "STOPPED" => runner'[a].task = "none"
    BY <1>1, RunnerStepEffect DEF NeverStartsTwice, Alive
  <1>4. may_not_run /\ Down(a) => Down(a)' /\ (runner'[a].task # "none" => Alive(a))
    BY RunnerStepEffect DEF Down
  <1> QED BY <1>2, <1>3, <1>4, RunnerStepEffect, RunnerOnlyQuiet

\* notify and what leads to it: nobody is started while nobody may run.
LEMMA NotifyStepQuiet == ASSUME TypeOK, QuietInv, NEW a \in Agents, NotifyStep(a) PROVE QuietInv'
  <1>1. NeverStartsTwice /\ UnknownIsNew
    BY DEF QuietInv
  <1>2. ASSUME RefreshAgent(a) PROVE QuietInv'
    <2> DEFINE W == (runner[a].waiting \ {"rpc"}) \cup (IF Known(a) THEN {"call"} ELSE {})
    <2>1. W \in SUBSET ({"rpc"} \cup Waiters)
      BY DEF TypeOK, Runners, Waiters
    <2>2. runner' = [runner EXCEPT ![a].waiting = W]
      BY <1>2 DEF RefreshAgent
    <2>3. ~Known(a) => W \subseteq {"rpc"}
      BY <1>1 DEF UnknownIsNew
    <2> HIDE DEF W
    <2>4. OnlyRunner(a) /\ SameRun(a) /\ runner'[a].waiting = W
          /\ runner'[a].tasks = runner[a].tasks /\ runner'[a].pills = runner[a].pills
      BY <2>1, <2>2, WaitingEffect
    <2> QED BY <1>1, <1>2, <2>3, <2>4, RunnerOnlyQuiet
            DEF RefreshAgent, SameRun, NeverStartsTwice, UnknownIsNew, Alive, Down
  <1>3. ASSUME ReadPaused(a) PROVE QuietInv'
    <2> DEFINE n == [runner[a] EXCEPT !.should = IF paused[a] THEN "no" ELSE "yes"]
    <2>1. runner[a] \in Runners /\ runner \in [Agents -> Runners]
      BY DEF TypeOK
    <2>2. n \in Runners /\ n.holder = runner[a].holder /\ n.waiting = runner[a].waiting
          /\ n.status = runner[a].status /\ n.task = runner[a].task
          /\ n.tasks = runner[a].tasks /\ n.pills = runner[a].pills
      BY <2>1 DEF Runners
    <2>3. runner' = [runner EXCEPT ![a] = n]
      BY <1>3 DEF ReadPaused
    <2> HIDE DEF n
    <2>4. OnlyRunner(a) /\ runner'[a] = n
      BY <2>1, <2>2, <2>3 DEF OnlyRunner
    <2>5. Known(a)
      BY <1>1, <1>3 DEF ReadPaused, UnknownIsNew
    <2> QED BY <1>1, <1>3, <2>2, <2>4, <2>5, RunnerOnlyQuiet DEF ReadPaused, NeverStartsTwice, Alive, Down
  <1>4. ASSUME EndNotify(a) PROVE QuietInv'
    <2>1. Known(a) /\ ~Down(a)
      BY <1>1, <1>4 DEF EndNotify, UnknownIsNew, Down
    <2>2. runner'[a].status = "STOPPED" => runner'[a].task = "none"
      BY <1>1, <1>4, EndNotifyEffect DEF NeverStartsTwice, Alive
    <2> QED BY <1>4, <2>1, <2>2, EndNotifyEffect, RunnerOnlyQuiet
  <1>5. ASSUME NEW who \in Waiters, BeginNotify(a, who) PROVE QuietInv'
    <2>1. Known(a)
      BY <1>1, <1>5, BeginNotifyEffect DEF UnknownIsNew, Waiters, Loops
    <2>2. runner'[a].status = "STOPPED" => runner'[a].task = "none"
      BY <1>1, <1>5, BeginNotifyEffect DEF NeverStartsTwice, Alive
    <2>3. may_not_run /\ Down(a) => Down(a)' /\ (runner'[a].task # "none" => Alive(a))
      BY <1>5, BeginNotifyEffect DEF Alive
    <2>4. runner'[a].task = "waiting" =>
            runner[a].task = "waiting" /\ runner'[a].tasks = runner[a].tasks /\ runner'[a].pills = runner[a].pills
      BY <1>5, BeginNotifyEffect
    <2>5. OnlyRunner(a) /\ UNCHANGED <<workers, running, suspended, control, removal, raised>>
      BY <1>5, BeginNotifyEffect
    <2> QED BY <2>1, <2>2, <2>3, <2>4, <2>5, RunnerOnlyQuiet
  <1> QED BY <1>2, <1>3, <1>4, <1>5 DEF NotifyStep, Waiters

\* A worker is created while others go down: it has not been started, and will not be.
LEMMA PutTaskQuiet == ASSUME TypeOK, QuietInv, NEW a \in Agents, PutTask(a) PROVE QuietInv'
  <1>1. CASE Known(a)
    <2>1. workers' = workers /\ runner'[a].pills = runner[a].pills /\ runner'[a].tasks = runner[a].tasks + 1
      BY <1>1, PutTaskEffect
    <2>2. /\ \A b \in Agents : /\ runner'[b].status = runner[b].status /\ runner'[b].task = runner[b].task
                               /\ runner'[b].holder = runner[b].holder /\ runner'[b].waiting = runner[b].waiting
                               /\ runner'[b].pills = runner[b].pills
                               /\ runner[b].tasks \in Nat /\ runner[b].pills \in Nat
                               /\ runner'[b].tasks \in {runner[b].tasks, runner[b].tasks + 1}
          /\ UNCHANGED <<running, suspended, control, removal, raised>>
      BY <1>1, PutTaskEffect DEF OnlyRunner, SameRun, TypeOK, Runners
    <2>3. \A i \in DOMAIN workers : workers[i] \in Agents
      BY DEF TypeOK
    <2> QED BY <2>1, <2>2, <2>3 DEF QuietInv, NeverStartsTwice, Alive, UnknownIsNew, FlagsFollow, Suspending,
                               Stopping, Stopped, Down, JoinsOnlyStopped, NobodyJoinsSleeper, Known
  <1>2. CASE ~Known(a)
    <2>1. workers' = Append(workers, a)
      BY <1>2, PutTaskEffect
    <2>2. \A b \in Agents : Known(b)' <=> (Known(b) \/ b = a)
      BY <2>1 DEF Known, Range, TypeOK
    <2>3. /\ \A b \in Agents : /\ runner'[b].status = runner[b].status /\ runner'[b].task = runner[b].task
                               /\ runner'[b].holder = runner[b].holder
                               /\ runner'[b].pills = runner[b].pills
                               /\ b # a => runner'[b].waiting = runner[b].waiting
                               /\ runner[b].tasks \in Nat /\ runner[b].pills \in Nat
                               /\ runner'[b].tasks \in {runner[b].tasks, runner[b].tasks + 1}
          /\ UNCHANGED <<running, suspended, control, removal, raised>>
      BY <1>2, PutTaskEffect DEF OnlyRunner, SameRun, TypeOK, Runners
    <2>4. MayPut
      BY DEF PutTask
    <2>5. NeverStartsTwice' /\ UnknownIsNew' /\ FlagsFollow' /\ Suspending' /\ JoinsOnlyStopped' /\ NobodyJoinsSleeper'
      BY <2>2, <2>3 DEF QuietInv, NeverStartsTwice, Alive, UnknownIsNew, FlagsFollow, Suspending,
                        Down, JoinsOnlyStopped, NobodyJoinsSleeper
    <2>6. Stopping'
      <3> SUFFICES ASSUME control.pc = "stopWorkers", NEW i \in DOMAIN workers', i < control.next
                   PROVE  Down(workers[i])'
        BY <2>3 DEF QuietInv, Stopping
      <3>1. CASE i \in DOMAIN workers
        <4>1. workers'[i] = workers[i] /\ workers[i] \in Agents
          BY <2>1, <3>1 DEF TypeOK
        <4> QED BY <2>3, <3>1, <4>1 DEF QuietInv, Stopping, Down
      <3>2. CASE i \notin DOMAIN workers
        <4>1. workers'[i] = a
          BY <2>1, <3>2 DEF TypeOK
        <4> QED BY <1>2, <2>3, <4>1 DEF QuietInv, UnknownIsNew, Down
      <3> QED BY <3>1, <3>2
    <2>7. Stopped'
      <3>1. control.pc \in {"stopped", "starting"} => raised \cap {"stop", "join"} # {}
        BY <2>4 DEF QuietInv, Stopped, FlagsFollow, MayPut, Alive
      <3> QED BY <2>3, <3>1 DEF QuietInv, Stopped, Down
    <2> QED BY <2>5, <2>6, <2>7 DEF QuietInv
  <1> QED BY <1>1, <1>2

\* The steps of suspending and resuming.
LEMMA RemovalStepQuiet == ASSUME TypeOK, QuietInv, RemovalStep \/ Suspend PROVE QuietInv'
  <1> USE DEF QuietInv
  <1>1. ASSUME NEW a \in Agents, SuspendWorker(a) PROVE QuietInv'
    <2>1. /\ removal.pc = "stopping" /\ a \in removal.todo /\ runner[a].holder = "none"
          /\ removal' = [removal EXCEPT !.todo = @ \ {a}]
          /\ runner' = [runner EXCEPT ![a] = IF Known(a) THEN _stop(runner[a]) ELSE runner[a]]
          /\ UNCHANGED <<workers, running, suspended, control, raised>>
      BY <1>1 DEF SuspendWorker
    <2>2. removal'.pc = "stopping" /\ removal'.todo = removal.todo \ {a}
      BY <2>1 DEF TypeOK, Removals
    <2>3. OnlyRunner(a) /\ Down(a)'
      <3>1. CASE Known(a)
        BY <2>1, <3>1, StopRunnerEffect
      <3>2. CASE ~Known(a)
        BY <2>1, <3>2 DEF TypeOK, OnlyRunner, UnknownIsNew, Down
      <3> QED BY <3>1, <3>2
    <2>4. /\ ~Known(a) => runner'[a] = runner[a]
          /\ Known(a) => /\ runner'[a].status # "STOPPED" /\ runner'[a].task = runner[a].task
                         /\ runner'[a].tasks = runner[a].tasks /\ runner'[a].pills = runner[a].pills
      <3>1. CASE Known(a)
        BY <2>1, <3>1, StopRunnerEffect
      <3>2. CASE ~Known(a)
        BY <2>1, <3>2 DEF TypeOK
      <3> QED BY <3>1, <3>2
    <2>5. \A b \in Agents : b # a => runner'[b] = runner[b]
      BY <2>3 DEF OnlyRunner
    <2>6. \A b \in Agents : /\ Down(b) => Down(b)'
                            /\ Alive(b)' <=> Alive(b)
                            /\ runner'[b].task = runner[b].task
                            /\ runner'[b].tasks = runner[b].tasks /\ runner'[b].pills = runner[b].pills
      BY <2>3, <2>4, <2>5 DEF Down, Alive
    <2>7. NeverStartsTwice' /\ UnknownIsNew' /\ FlagsFollow' /\ JoinsOnlyStopped'
      BY <2>1, <2>2, <2>4, <2>5 DEF NeverStartsTwice, UnknownIsNew, Known, FlagsFollow, JoinsOnlyStopped, Alive
    <2>8. Suspending'
      BY <2>1, <2>2, <2>3, <2>6 DEF Suspending
    <2>9. Stopping'
      <3>1. \A i \in DOMAIN workers : workers[i] \in Agents
        BY DEF TypeOK
      <3> QED BY <2>1, <2>6, <3>1 DEF Stopping, Down
    <2>10. Stopped' /\ NobodyJoinsSleeper'
      BY <2>1, <2>2, <2>6 DEF Stopped, NobodyJoinsSleeper
    <2> QED BY <2>7, <2>8, <2>9, <2>10
  <1>2. CASE SuspendAll
    <2>1. removal.pc = "stopping" /\ removal.todo = {} /\ UNCHANGED <<workers, running, control>>
          /\ runner' = add_poison_pill_to_agent_queues(runner)
      BY <1>2 DEF SuspendAll
    <2>2. \A a \in Agents : Down(a)
      BY <2>1 DEF Suspending, FlagsFollow
    <2>3. Joinable
      BY <2>2 DEF Joinable, Down, TypeOK
    <2>4. removal' = [pc |-> "joining", todo |-> Range(workers)] /\ UNCHANGED <<suspended, raised>>
      BY <1>2, <2>3 DEF SuspendAll
    <2>5. \A a \in Agents : /\ SameRun(a) /\ runner'[a].waiting = runner[a].waiting
                            /\ runner'[a].tasks = runner[a].tasks /\ runner[a].tasks \in Nat
                            /\ Known(a) => runner'[a].pills > 0
                            /\ runner'[a].pills \in Nat
      BY <2>1, PillsEffect DEF TypeOK, Runners
    <2>6. \A a \in Agents : ~Known(a) => ~Alive(a)
      BY DEF UnknownIsNew, NeverStartsTwice
    <2>7. Suspending'
      BY <2>2, <2>4, <2>5, <2>6 DEF Suspending, SameRun, Down, Alive, Known
    <2>8. NobodyJoinsSleeper'
      BY <2>1, <2>4, <2>5, <2>6 DEF NobodyJoinsSleeper, SameRun, Known, Alive
    <2>9. Stopping'
      <3>1. \A i \in DOMAIN workers : workers[i] \in Agents
        BY DEF TypeOK
      <3> QED BY <2>1, <2>5, <3>1 DEF Stopping, SameRun, Down
    <2> QED BY <2>1, <2>4, <2>5, <2>7, <2>8, <2>9
            DEF NeverStartsTwice, Alive, UnknownIsNew, Known, FlagsFollow, Stopped, Down, JoinsOnlyStopped, SameRun
  <1>3. ASSUME UNCHANGED <<workers, runner, running, control, raised>>, FlagsFollow', Suspending',
               removal'.pc # "joining"
        PROVE  QuietInv'
    BY <1>3 DEF NeverStartsTwice, Alive, UnknownIsNew, Known, Stopping, Stopped, Down, JoinsOnlyStopped,
                NobodyJoinsSleeper
  <1>4. CASE SuspendJoined
    <2>1. /\ removal.pc = "joining" /\ removal'.pc = "removing" /\ \A a \in removal.todo : ~Alive(a)
          /\ UNCHANGED <<workers, runner, running, suspended, control, raised>>
      BY <1>4 DEF SuspendJoined
    <2> QED BY <1>3, <2>1 DEF FlagsFollow, Suspending, Down, Alive
  <1>5. CASE RemoveVenvs
    BY <1>3, <1>5 DEF RemoveVenvs, Resume, FlagsFollow, Suspending
  <1>6. CASE Suspend
    <2>1. /\ suspended' /\ removal'.pc = "stopping" /\ removal'.todo = Range(workers)
          /\ UNCHANGED <<workers, runner, running, control, raised>>
      BY <1>6 DEF Suspend
    <2> QED BY <1>3, <2>1 DEF FlagsFollow, Suspending, Down, UnknownIsNew, Known
  <1> QED BY <1>1, <1>2, <1>4, <1>5, <1>6 DEF RemovalStep

\* The steps of starting and stopping.
LEMMA ControlStepQuiet == ASSUME TypeOK, QuietInv, ControlStep \/ Start \/ StartRaises \/ Stop PROVE QuietInv'
  <1> USE DEF QuietInv
  <1>1. ASSUME UNCHANGED <<workers, runner, suspended, removal, raised>>, FlagsFollow', Stopping', Stopped',
               control'.pc # "joining"
        PROVE  QuietInv'
    BY <1>1 DEF NeverStartsTwice, Alive, UnknownIsNew, Known, Suspending, Down, JoinsOnlyStopped,
                NobodyJoinsSleeper
  <1>2. CASE Initialize
    <2>1. /\ control.pc = "starting" /\ UNCHANGED <<workers, runner, suspended, removal, raised>>
          /\ control'.pc \in {"working", "stopped"} /\ (running' <=> control'.pc = "working")
      BY <1>2 DEF Initialize, TypeOK, Controls, FlagsFollow
    <2> QED BY <1>1, <2>1 DEF FlagsFollow, Stopping, Stopped, Down, Alive
  <1>3. CASE StopWorker
    <2>0. /\ control.next \in DOMAIN workers /\ workers[control.next] \in Agents
          /\ control.next \in Nat /\ control.next >= 1
      BY <1>3 DEF StopWorker, TypeOK, Controls, Stopping
    <2> PICK a \in Agents : a = workers[control.next]
      BY <2>0
    <2>1. /\ control.pc = "stopWorkers" /\ runner[a].holder = "none"
          /\ runner' = [runner EXCEPT ![a] = _stop(runner[a])]
          /\ control'.pc = control.pc /\ control'.next = control.next + 1 /\ control.next \in Nat
          /\ UNCHANGED <<workers, running, suspended, removal, raised>>
      BY <1>3, <2>0 DEF StopWorker, TypeOK, Controls
    <2>2. Known(a) /\ \A i \in DOMAIN workers : workers[i] \in Agents /\ i \in Nat
      BY <2>0 DEF TypeOK, Known, Range
    <2>3. \A i \in DOMAIN workers : i < control'.next => i < control.next \/ workers[i] = a
      BY <2>1, <2>2
    <2>4. /\ OnlyRunner(a) /\ Down(a)' /\ runner'[a].status # "STOPPED"
          /\ runner'[a].task = runner[a].task
          /\ runner'[a].tasks = runner[a].tasks /\ runner'[a].pills = runner[a].pills
      BY <2>1, <2>2, StopRunnerEffect
    <2>5. \A b \in Agents : b # a => runner'[b] = runner[b]
      BY <2>4 DEF OnlyRunner
    <2>6. NeverStartsTwice' /\ UnknownIsNew' /\ FlagsFollow' /\ JoinsOnlyStopped'
      BY <2>1, <2>2, <2>4, <2>5 DEF NeverStartsTwice, UnknownIsNew, Known, FlagsFollow, JoinsOnlyStopped, Alive
    <2>7. \A b \in Agents : /\ Down(b) => Down(b)'
                            /\ runner'[b].task = runner[b].task
                            /\ runner'[b].tasks = runner[b].tasks /\ runner'[b].pills = runner[b].pills
      BY <2>4, <2>5 DEF Down
    <2>8. Suspending' /\ NobodyJoinsSleeper' /\ Stopped'
      BY <2>1, <2>7 DEF Suspending, NobodyJoinsSleeper, Stopped, Alive
    <2>9. Stopping'
      BY <2>0, <2>1, <2>2, <2>3, <2>4, <2>7 DEF Stopping, Down
    <2> QED BY <2>6, <2>8, <2>9
  <1>4. CASE StopRaises
    <2>1. control.pc = "stopWorkers" /\ control'.pc = "stopped" /\ raised' = raised \cup {"stop"}
          /\ UNCHANGED <<workers, runner, running, suspended, removal>>
      BY <1>4 DEF StopRaises, TypeOK, Controls
    <2> QED BY <2>1 DEF NeverStartsTwice, Alive, UnknownIsNew, Known, Suspending, Down, JoinsOnlyStopped,
                        NobodyJoinsSleeper, FlagsFollow, Stopping, Stopped
  <1>5. CASE StopAll
    <2>1. /\ control.pc = "stopWorkers" /\ Len(workers) = control.size /\ control.next > control.size
          /\ runner' = add_poison_pill_to_agent_queues(runner)
          /\ UNCHANGED <<workers, running, suspended, removal>>
      BY <1>5 DEF StopAll
    <2>2. \A a \in Agents : Down(a)
      <3>1. ASSUME NEW a \in Agents, Known(a) PROVE Down(a)
        <4>1. PICK i \in DOMAIN workers : workers[i] = a
          BY <3>1 DEF Known, Range
        <4>2. i < control.next
          BY <2>1, <4>1 DEF TypeOK, Controls
        <4> QED BY <2>1, <4>1, <4>2 DEF Stopping
      <3> QED BY <3>1 DEF UnknownIsNew, Down
    <2>3. Joinable
      BY <2>2 DEF Joinable, Down, TypeOK
    <2>4. control'.pc = "joining" /\ raised' = raised
      BY <1>5, <2>3 DEF StopAll, TypeOK, Controls
    <2>5. \A a \in Agents : /\ SameRun(a) /\ runner'[a].waiting = runner[a].waiting
                            /\ runner'[a].tasks = runner[a].tasks /\ runner[a].tasks \in Nat
                            /\ Known(a) => runner'[a].pills > 0
                            /\ runner'[a].pills \in Nat
      BY <2>1, PillsEffect DEF TypeOK, Runners
    <2>6. \A a \in Agents : ~Known(a) => ~Alive(a)
      BY DEF UnknownIsNew, NeverStartsTwice
    <2>7. NobodyJoinsSleeper'
      BY <2>5, <2>6 DEF NobodyJoinsSleeper, SameRun, Alive
    <2>8. Suspending' /\ Stopped' /\ Stopping'
      BY <2>1, <2>2, <2>4, <2>5 DEF Suspending, SameRun, Down, Alive, Stopped, Stopping
    <2> QED BY <2>1, <2>4, <2>5, <2>7, <2>8
            DEF NeverStartsTwice, Alive, UnknownIsNew, Known, FlagsFollow, JoinsOnlyStopped, SameRun
  <1>6. CASE Joined
    <2>1. /\ control.pc = "joining" /\ control'.pc = "stopped" /\ \A a \in Agents : ~Alive(a)
          /\ UNCHANGED <<workers, runner, running, suspended, removal, raised>>
      BY <1>6 DEF Joined, TypeOK, Controls
    <2> QED BY <1>1, <2>1 DEF FlagsFollow, Stopping, Stopped, Down, Alive
  <1>7. CASE Start
    <2>1. /\ control'.pc = "starting" /\ control.pc = "stopped" /\ workers' = <<>>
          /\ UNCHANGED <<running, suspended, removal, raised>> /\ raised \cap {"stop", "join"} = {}
      BY <1>7, StartEffect DEF TypeOK, Controls
    <2>2. \A a \in Agents : /\ runner'[a].status = "STOPPED" /\ runner'[a].task = "none"
                            /\ runner'[a].holder = "none" /\ runner'[a].waiting \subseteq {"rpc"}
      BY <1>7, StartEffect
    <2> QED BY <2>1, <2>2 DEF NeverStartsTwice, Alive, UnknownIsNew, FlagsFollow, Suspending, Stopping,
                      Stopped, Down, JoinsOnlyStopped, NobodyJoinsSleeper
  <1>8. CASE StartRaises
    <2>1. "stop" \in raised /\ raised' = raised \cup {"join"} /\ control.pc = "stopped"
          /\ UNCHANGED <<workers, runner, running, suspended, control, removal>>
      BY <1>8 DEF StartRaises
    <2> QED BY <2>1 DEF NeverStartsTwice, Alive, UnknownIsNew, Known, Suspending, Down, JoinsOnlyStopped,
                        NobodyJoinsSleeper, FlagsFollow, Stopping, Stopped
  <1>9. CASE Stop
    <2>1. /\ ~running' /\ control'.pc = "stopWorkers" /\ control'.next = 1
          /\ UNCHANGED <<workers, runner, suspended, removal, raised>>
      BY <1>9 DEF Stop
    <2>2. \A i \in DOMAIN workers : ~(i < 1)
      BY DEF TypeOK
    <2> QED BY <1>1, <2>1, <2>2 DEF FlagsFollow, Stopping, Stopped
  <1> QED BY <1>2, <1>3, <1>4, <1>5, <1>6, <1>7, <1>8, <1>9 DEF ControlStep

-----------------------------------------------------------------------------
(* The order of the notifications is inductive *)

\* No loop has begun.
LEMMA InitLoops == Init => LoopInv
  BY DEF Init, LoopInv, OneNotification, Notified, NewRunner, AtRest, Loops

\* Loops that are asked for nothing new stay in order.
LEMMA LoopsKept ==
    ASSUME TypeOK, LoopInv, NEW x \in Loops, refresh'[x] = refresh[x],
           \A a \in Agents : /\ x \in runner'[a].waiting => x \in runner[a].waiting
                             /\ runner'[a].holder = x => runner[a].holder = x
    PROVE  OneNotification(x)' /\ (refresh'[x].pc \in {"loop", "notified"} => refresh'[x].next >= 1)
  BY DEF LoopInv, OneNotification, Notified

\* A notification that is over lets its loop go on: nobody else had asked for it.
LEMMA LoopGoesOn ==
    ASSUME TypeOK, LoopInv, NEW a \in Agents, NEW who \in Waiters, NextWorker(who), Notified(a, who),
           \A b \in Agents \ {a} : runner'[b] = runner[b],
           runner'[a].waiting \subseteq runner[a].waiting, runner'[a].holder = "none",
           who \in Loops => who \notin runner'[a].waiting
    PROVE  /\ \A x \in Loops : OneNotification(x)' /\ (refresh'[x].pc \in {"loop", "notified"} => refresh'[x].next >= 1)
           /\ refresh["resume"] = AtRest => refresh'["resume"] = AtRest
  <1>1. ASSUME NEW x \in Loops, x # who
        PROVE  /\ OneNotification(x)' /\ (refresh'[x].pc \in {"loop", "notified"} => refresh'[x].next >= 1)
               /\ refresh'[x] = refresh[x]
    <2>1. refresh'[x] = refresh[x]
      BY <1>1 DEF NextWorker, TypeOK
    <2>2. \A b \in Agents : /\ x \in runner'[b].waiting => x \in runner[b].waiting
                            /\ runner'[b].holder = x => runner[b].holder = x
      BY DEF Loops
    <2> QED BY <2>1, <2>2, LoopsKept
  <1>2. ASSUME who \in Loops
        PROVE  OneNotification(who)' /\ (refresh'[who].pc \in {"loop", "notified"} => refresh'[who].next >= 1)
    <2>1. refresh[who].pc = "notified" /\ \A b \in Agents \ {a} : ~Notified(b, who)
      BY <1>2 DEF LoopInv, OneNotification
    <2>2. refresh'[who].next = refresh[who].next
      BY <1>2 DEF NextWorker, TypeOK, Refreshes
    <2>3. \A b \in Agents : ~Notified(b, who)'
      BY <1>2, <2>1 DEF Notified, Loops
    <2> QED BY <1>2, <2>1, <2>2, <2>3 DEF OneNotification, LoopInv
  <1>3. ASSUME refresh["resume"] = AtRest PROVE who # "resume"
    BY <1>3 DEF LoopInv, OneNotification, AtRest, Loops
  <1> QED BY <1>1, <1>2, <1>3 DEF Loops

\* Every step keeps the loops in order.
LEMMA NextLoops == TypeOK /\ LoopInv /\ [Next]_vars => LoopInv'
  <1> SUFFICES ASSUME TypeOK, LoopInv, [Next]_vars PROVE LoopInv'
    OBVIOUS
  <1>1. ASSUME UNCHANGED <<removal, refresh>>,
               \A x \in Loops : \A a \in Agents : /\ x \in runner'[a].waiting => x \in runner[a].waiting
                                                  /\ runner'[a].holder = x => runner[a].holder = x
        PROVE  LoopInv'
    <2>1. \A x \in Loops : OneNotification(x)' /\ (refresh'[x].pc \in {"loop", "notified"} => refresh'[x].next >= 1)
      BY <1>1, LoopsKept
    <2> QED BY <1>1, <2>1 DEF LoopInv
  <1>2. ASSUME NEW a \in Agents, RunnerStep(a) PROVE LoopInv'
    BY <1>1, <1>2, RunnerStepEffect DEF OnlyRunner
  <1>3. ASSUME NEW a \in Agents, NEW who \in Waiters, BeginNotify(a, who) PROVE LoopInv'
    <2>1. CASE may_not_run
      <3>1. NextWorker(who) /\ runner'[a].holder = "none" /\ UNCHANGED removal
        BY <1>3, <2>1, BeginNotifyEffect DEF Down
      <3>2. Notified(a, who) /\ \A b \in Agents \ {a} : runner'[b] = runner[b]
        BY <1>3, BeginNotifyEffect DEF Notified, OnlyRunner
      <3>3. runner'[a].waiting \subseteq runner[a].waiting /\ who \notin runner'[a].waiting
        BY <1>3, BeginNotifyEffect
      <3> QED BY <3>1, <3>2, <3>3, LoopGoesOn DEF LoopInv
    <2>2. CASE ~may_not_run
      <3>1. UNCHANGED <<refresh, removal>> /\ runner'[a].holder = who /\ runner[a].holder = "none"
            /\ who \in runner[a].waiting /\ \A b \in Agents \ {a} : runner'[b] = runner[b]
        BY <1>3, <2>2, BeginNotifyEffect DEF OnlyRunner
      <3>2. runner'[a].waiting \subseteq runner[a].waiting \ {who}
        BY <1>3, BeginNotifyEffect
      <3> QED BY <3>1, <3>2 DEF LoopInv, OneNotification, Notified, Loops
    <2> QED BY <2>1, <2>2
  <1>4. ASSUME NEW a \in Agents, EndNotify(a) PROVE LoopInv'
    <2> DEFINE who == runner[a].holder
    <2>1. who \in Waiters /\ NextWorker(who) /\ UNCHANGED removal /\ Notified(a, who)
          /\ runner'[a].holder = "none" /\ \A b \in Agents \ {a} : runner'[b] = runner[b]
      BY <1>4, EndNotifyEffect DEF Notified, OnlyRunner
    <2>2. runner'[a].waiting \subseteq runner[a].waiting
      BY <1>4, EndNotifyEffect
    <2>3. who \in Loops => who \notin runner'[a].waiting
      BY <2>1, <2>2 DEF LoopInv, OneNotification, Notified
    <2> QED BY <2>1, <2>2, <2>3, LoopGoesOn DEF LoopInv
  <1>5. ASSUME NEW a \in Agents, RefreshAgent(a) PROVE LoopInv'
    BY <1>1, <1>5 DEF RefreshAgent, TypeOK, Runners, Loops
  <1>6. ASSUME NEW a \in Agents, ReadPaused(a) PROVE LoopInv'
    BY <1>1, <1>6 DEF ReadPaused, TypeOK, Runners
  <1>7. ASSUME NEW a \in Agents, PutTask(a) PROVE LoopInv'
    <2>1. \A b \in Agents : runner'[b].waiting \subseteq runner[b].waiting \cup {"sync"}
                            /\ runner'[b].holder = runner[b].holder
      BY <1>7, PutTaskEffect DEF OnlyRunner, SameRun
    <2> QED BY <1>1, <1>7, <2>1, PutTaskEffect DEF Loops
  <1>8. ASSUME NEW a \in Agents, SetPaused(a) PROVE LoopInv'
    BY <1>1, <1>8 DEF SetPaused, TypeOK, Runners, Loops
  <1>9. ASSUME NEW x \in Loops, RefreshStep(x) PROVE LoopInv'
    <2>1. \A y \in Loops : y # x => refresh'[y] = refresh[y]
      BY <1>9 DEF RefreshStep, RefreshBegins, RefreshNext, RefreshRaises, TypeOK
    <2>2. refresh[x].pc \in {"rpc", "loop"} /\ UNCHANGED removal
      BY <1>9 DEF RefreshStep, RefreshBegins, RefreshNext, RefreshRaises
    <2>3. \A a \in Agents : ~Notified(a, x)
      BY <2>2 DEF LoopInv, OneNotification
    <2>4. removal.pc # "idle" => x # "resume"
      BY <2>2 DEF LoopInv, AtRest
    <2>5. ASSUME UNCHANGED runner, refresh'[x].pc # "notified",
                 refresh'[x].pc = "loop" => refresh'[x].next >= 1
          PROVE  LoopInv'
      <3>1. \A y \in Loops : y # x => OneNotification(y)' /\ (refresh'[y].pc \in {"loop", "notified"} => refresh'[y].next >= 1)
        BY <2>1, <2>5, LoopsKept
      <3>2. OneNotification(x)'
        BY <2>3, <2>5 DEF OneNotification, Notified
      <3> QED BY <2>1, <2>2, <2>4, <2>5, <3>1, <3>2 DEF LoopInv, Loops
    <2>6. CASE RefreshBegins(x)
      BY <2>5, <2>6 DEF RefreshBegins, TypeOK
    <2>7. CASE RefreshRaises(x)
      BY <2>5, <2>7 DEF RefreshRaises, TypeOK, AtRest
    <2>8. CASE RefreshNext(x) /\ refresh[x].next > Len(workers)
      BY <2>5, <2>8 DEF RefreshNext, TypeOK, AtRest
    <2>9. CASE RefreshNext(x) /\ ~(refresh[x].next > Len(workers))
      <3>1. refresh[x].next \in DOMAIN workers /\ refresh[x] \in Refreshes /\ refresh[x].next \in Nat
        BY <2>2, <2>9 DEF LoopInv, TypeOK, Refreshes, RefreshNext
      <3> PICK w \in Agents : w = workers[refresh[x].next]
        BY <3>1 DEF TypeOK
      <3>2. /\ runner' = [runner EXCEPT ![w].waiting = runner[w].waiting \cup {x}]
            /\ refresh' = [refresh EXCEPT ![x] = [refresh[x] EXCEPT !.pc = "notified", !.next = refresh[x].next + 1]]
        BY <2>9 DEF RefreshNext
      <3>3. refresh'[x].pc = "notified" /\ refresh'[x].next = refresh[x].next + 1
        BY <3>1, <3>2 DEF TypeOK, Refreshes
      <3>4. runner[w].waiting \cup {x} \in SUBSET ({"rpc"} \cup Waiters)
        BY DEF TypeOK, Runners, Waiters
      <3>5. OnlyRunner(w) /\ SameRun(w) /\ runner'[w].waiting = runner[w].waiting \cup {x}
        BY <3>2, <3>4, WaitingEffect
      <3>6. \A y \in Loops : y # x => OneNotification(y)' /\ (refresh'[y].pc \in {"loop", "notified"} => refresh'[y].next >= 1)
        <4>1. \A y \in Loops : y # x => \A a \in Agents :
                 /\ y \in runner'[a].waiting => y \in runner[a].waiting
                 /\ runner'[a].holder = y => runner[a].holder = y
          BY <3>5 DEF OnlyRunner, SameRun
        <4> QED BY <2>1, <4>1, LoopsKept
      <3>7. OneNotification(x)'
        <4>1. \A a \in Agents : runner'[a].holder # x /\ (a # w => x \notin runner'[a].waiting)
          BY <2>3, <3>5 DEF Notified, OnlyRunner, SameRun
        <4> QED BY <3>3, <4>1 DEF OneNotification, Notified
      <3> QED BY <2>1, <2>2, <2>4, <3>1, <3>3, <3>6, <3>7 DEF LoopInv, Loops
    <2> QED BY <1>9, <2>6, <2>7, <2>8, <2>9 DEF RefreshStep
  <1>10. ASSUME Resume, UNCHANGED <<workers>>,
                \A a \in Agents : /\ runner'[a].waiting \subseteq runner[a].waiting
                                  /\ runner'[a].holder = runner[a].holder,
                refresh["resume"] = AtRest
         PROVE  LoopInv'
    <2>1. refresh'["all"] = refresh["all"] /\ refresh'["resume"].pc = "rpc" /\ removal'.pc = "idle"
      BY <1>10 DEF Resume, TypeOK, Refreshes, Loops
    <2>2. OneNotification("resume")'
      BY <1>10, <2>1 DEF LoopInv, OneNotification, Notified, AtRest, Loops
    <2> QED BY <1>10, <2>1, <2>2, LoopsKept DEF LoopInv, Loops
  <1>11. CASE RemovalStep \/ Suspend
    <2>1. ASSUME NEW a \in Agents, SuspendWorker(a) PROVE LoopInv'
      <3>1. \A b \in Agents : runner'[b].waiting \subseteq runner[b].waiting /\ runner'[b].holder = runner[b].holder
        <4>1. CASE Known(a)
          BY <2>1, <4>1, StopRunnerEffect DEF SuspendWorker, OnlyRunner
        <4>2. CASE ~Known(a)
          BY <2>1, <4>2 DEF SuspendWorker, TypeOK
        <4> QED BY <4>1, <4>2
      <3>2. UNCHANGED refresh /\ removal.pc # "idle"
        BY <2>1 DEF SuspendWorker
      <3>3. \A x \in Loops : OneNotification(x)' /\ (refresh'[x].pc \in {"loop", "notified"} => refresh'[x].next >= 1)
        BY <3>1, <3>2, LoopsKept
      <3> QED BY <3>2, <3>3 DEF LoopInv
    <2>2. CASE SuspendAll
      <3>1. /\ removal.pc # "idle" /\ UNCHANGED workers
            /\ \A a \in Agents : runner'[a].waiting = runner[a].waiting /\ runner'[a].holder = runner[a].holder
        BY <2>2, PillsEffect DEF SuspendAll, SameRun
      <3>2. CASE Joinable
        <4>1. UNCHANGED refresh
          BY <2>2, <3>2 DEF SuspendAll
        <4> QED BY <3>1, <4>1, LoopsKept DEF LoopInv
      <3>3. CASE ~Joinable
        BY <1>10, <2>2, <3>1, <3>3 DEF SuspendAll, LoopInv
      <3> QED BY <3>2, <3>3
    <2>3. CASE SuspendJoined
      BY <2>3, LoopsKept DEF SuspendJoined, LoopInv
    <2>4. CASE RemoveVenvs
      BY <1>10, <2>4 DEF RemoveVenvs, LoopInv
    <2>5. CASE Suspend
      BY <2>5, LoopsKept DEF Suspend, LoopInv
    <2> QED BY <1>11, <2>1, <2>2, <2>3, <2>4, <2>5 DEF RemovalStep
  <1>12. CASE StopWorker
    <2>1. \A b \in Agents : runner'[b] = runner[b] \/ runner'[b] = _stop(runner[b])
      BY <1>12 DEF StopWorker, TypeOK
    <2>2. \A b \in Agents : runner'[b].waiting \subseteq runner[b].waiting /\ runner'[b].holder = runner[b].holder
      BY <2>1, StopEffect DEF TypeOK
    <2> QED BY <1>1, <1>12, <2>2 DEF StopWorker
  <1>13. CASE Initialize \/ StopRaises \/ Joined \/ StartRaises \/ Stop \/ UNCHANGED vars
    BY <1>1, <1>13 DEF Initialize, StopRaises, Joined, StartRaises, Stop, vars
  <1>14. CASE StopAll
    BY <1>1, <1>14, PillsEffect DEF StopAll, SameRun
  <1>15. CASE Start
    BY <1>1, <1>15, StartEffect DEF Start, Loops
  <1>16. CASE SetAllPaused
    <2>1. refresh["all"] = AtRest /\ UNCHANGED <<runner, removal>> /\ refresh'["resume"] = refresh["resume"]
          /\ refresh'["all"].pc = "rpc"
      BY <1>16 DEF SetAllPaused, TypeOK, Refreshes, Loops
    <2>2. OneNotification("all")'
      BY <2>1 DEF LoopInv, OneNotification, Notified, AtRest, Loops
    <2> QED BY <2>1, <2>2, LoopsKept DEF LoopInv, Loops
  <1> QED BY <1>2, <1>3, <1>4, <1>5, <1>6, <1>7, <1>8, <1>9, <1>11, <1>12, <1>13, <1>14, <1>15, <1>16
          DEF Next, NotifyStep, ControlStep, Waiters

\* Every step keeps what stopping and suspending have achieved.
LEMMA NextQuiet == TypeOK /\ LoopInv /\ QuietInv /\ [Next]_vars => QuietInv'
  <1> SUFFICES ASSUME TypeOK, LoopInv, QuietInv, [Next]_vars PROVE QuietInv'
    OBVIOUS
  <1>1. ASSUME UNCHANGED <<workers, runner, running, suspended, control, removal>>,
               raised' \in {raised, raised \cup {"refresh"}}
        PROVE  QuietInv'
    BY <1>1 DEF QuietInv, NeverStartsTwice, Alive, UnknownIsNew, Known, FlagsFollow, Suspending, Stopping,
                Stopped, Down, JoinsOnlyStopped, NobodyJoinsSleeper
  <1>2. ASSUME NEW a \in Agents, NEW W \in SUBSET ({"rpc"} \cup Waiters),
               runner' = [runner EXCEPT ![a].waiting = W], Known(a) \/ W \subseteq {"rpc"},
               UNCHANGED <<workers, running, suspended, control, removal, raised>>
        PROVE  QuietInv'
    <2>1. OnlyRunner(a) /\ SameRun(a) /\ runner'[a].waiting = W
          /\ runner'[a].tasks = runner[a].tasks /\ runner'[a].pills = runner[a].pills
      BY <1>2, WaitingEffect
    <2>2. NeverStartsTwice /\ UnknownIsNew
      BY DEF QuietInv
    <2> QED BY <1>2, <2>1, <2>2, RunnerOnlyQuiet DEF SameRun, NeverStartsTwice, UnknownIsNew, Alive, Down
  <1>3. ASSUME NEW a \in Agents, SetPaused(a) PROVE QuietInv'
    <2> DEFINE W == runner[a].waiting \cup {"rpc"}
    <2>1. W \in SUBSET ({"rpc"} \cup Waiters) /\ (Known(a) \/ W \subseteq {"rpc"})
      BY DEF TypeOK, Runners, QuietInv, UnknownIsNew
    <2>2. runner' = [runner EXCEPT ![a].waiting = W]
      BY <1>3 DEF SetPaused
    <2> HIDE DEF W
    <2> QED BY <1>2, <1>3, <2>1, <2>2 DEF SetPaused
  <1>4. ASSUME NEW x \in Loops, RefreshStep(x) PROVE QuietInv'
    <2>1. CASE RefreshBegins(x)
      BY <1>1, <2>1 DEF RefreshBegins
    <2>2. CASE RefreshRaises(x)
      BY <1>1, <2>2 DEF RefreshRaises
    <2>3. CASE RefreshNext(x) /\ refresh[x].next > Len(workers)
      BY <1>1, <2>3 DEF RefreshNext
    <2>4. CASE RefreshNext(x) /\ ~(refresh[x].next > Len(workers))
      <3>1. refresh[x].next \in DOMAIN workers
        BY <2>4 DEF LoopInv, TypeOK, Refreshes, RefreshNext
      <3> PICK w \in Agents : w = workers[refresh[x].next]
        BY <3>1 DEF TypeOK
      <3> DEFINE W == runner[w].waiting \cup {x}
      <3>2. W \in SUBSET ({"rpc"} \cup Waiters) /\ Known(w)
        BY <3>1 DEF TypeOK, Runners, Waiters, Known, Range
      <3>3. runner' = [runner EXCEPT ![w].waiting = W]
        BY <2>4 DEF RefreshNext
      <3> HIDE DEF W
      <3> QED BY <1>2, <2>4, <3>2, <3>3 DEF RefreshNext
    <2> QED BY <1>4, <2>1, <2>2, <2>3, <2>4 DEF RefreshStep
  <1>5. CASE SetAllPaused \/ UNCHANGED vars
    BY <1>1, <1>5 DEF SetAllPaused, vars
  <1> QED BY <1>3, <1>4, <1>5, RunnerStepQuiet, NotifyStepQuiet, PutTaskQuiet, RemovalStepQuiet, ControlStepQuiet
          DEF Next

\* The state of the workers is well formed.
THEOREM RunnersTypeCorrect == Spec => []TypeOK
  BY InitType, NextType, PTL DEF Spec

\* The invariants of stopping and suspending hold in every reachable state.
LEMMA QuietAlways == Spec => [](LoopInv /\ QuietInv)
  BY InitLoops, InitQuiet, NextLoops, NextQuiet, RunnersTypeCorrect, PTL DEF Spec

\* TaskRunner.notify never starts a loop beside one that still runs: a status that says
\* stopped means that _run has returned.
THEOREM StartsOnce == Spec => []NeverStartsTwice
  BY QuietAlways, PTL DEF QuietInv

\* A join never finds a runner that counts as running, unless stop was cut short before.
THEOREM JoinsAreAllowed == Spec => []JoinsOnlyStopped
  BY QuietAlways, PTL DEF QuietInv

\* Everyone who is joined has been woken up.
THEOREM SleepersAreWoken == Spec => []NobodyJoinsSleeper
  BY QuietAlways, PTL DEF QuietInv

\* A scheduler that has stopped has left no runner behind.
THEOREM StopIsComplete == Spec => []StoppedIsQuiet
  <1>1. QuietInv => StoppedIsQuiet
    BY DEF QuietInv, Stopped, StoppedIsQuiet
  <1> QED BY <1>1, QuietAlways, PTL

\* No task executes while the environments of the executors are removed.
THEOREM SuspensionIsComplete == Spec => []SuspendedIsQuiet
  <1>1. QuietInv => SuspendedIsQuiet
    BY DEF QuietInv, FlagsFollow, Suspending, SuspendedIsQuiet, Alive
  <1> QED BY <1>1, QuietAlways, PTL

-----------------------------------------------------------------------------
(* Runners follow the database, or will be notified *)

\* There is nobody to follow the database.
LEMMA InitFollow == Init => FollowInv
  BY DEF Init, FollowInv, ReadByHolder, FollowsOrNotified, NewRunner

\* An agent of which nothing changes but its queue stays accounted for, as long as its
\* loops still come.
LEMMA AccountedKept ==
    ASSUME NEW a, Accounted(a), paused'[a] = paused[a], suspended => suspended',
           SameRun(a), runner[a].waiting \subseteq runner'[a].waiting,
           \A x \in Loops : LoopComing(a, x) => LoopComing(a, x)' \/ WillBeNotified(a)'
    PROVE  Accounted(a)'
  BY DEF Accounted, WillBeNotified, Follows, SameRun, Loops

\* A loop that goes on still comes to those it has not come to.
LEMMA NextWorkerComes ==
    ASSUME TypeOK, LoopInv, NEW a \in Agents, NEW who \in Waiters, NextWorker(who), Notified(a, who),
           UNCHANGED workers, NEW b, NEW x \in Loops, LoopComing(b, x)
    PROVE  LoopComing(b, x)'
  <1>1. CASE x = who
    <2>1. refresh[x].pc = "notified"
      BY <1>1 DEF LoopInv, OneNotification
    <2>2. refresh'[x].pc = "loop" /\ refresh'[x].next = refresh[x].next
      BY <1>1 DEF NextWorker, TypeOK, Refreshes
    <2> QED BY <2>1, <2>2 DEF LoopComing
  <1>2. CASE x # who
    BY <1>2 DEF NextWorker, TypeOK, LoopComing
  <1> QED BY <1>1, <1>2

\* A notification that is used up has decided what the database said, or is about to.
LEMMA NotifyStepFollow ==
    ASSUME TypeOK, LoopInv, QuietInv, FollowInv, NEW a \in Agents, NotifyStep(a)
    PROVE  FollowInv'
  <1> USE DEF FollowInv
  <1>1. \A b \in Agents \ {a} : SameRun(b) /\ runner'[b].waiting = runner[b].waiting
    <2>1. CASE RefreshAgent(a)
      BY <2>1 DEF RefreshAgent, TypeOK, SameRun
    <2>2. CASE ReadPaused(a)
      BY <2>2 DEF ReadPaused, TypeOK, SameRun
    <2>3. CASE EndNotify(a)
      BY <2>3, EndNotifyEffect DEF OnlyRunner, SameRun
    <2>4. ASSUME NEW who \in Waiters, BeginNotify(a, who)
          PROVE  \A b \in Agents \ {a} : SameRun(b) /\ runner'[b].waiting = runner[b].waiting
      BY <2>4, BeginNotifyEffect DEF OnlyRunner, SameRun
    <2> QED BY <2>1, <2>2, <2>3, <2>4 DEF NotifyStep, Waiters
  <1>2. UNCHANGED <<paused, workers, running, suspended, control, raised>>
    BY DEF NotifyStep, RefreshAgent, ReadPaused, EndNotify, BeginNotify
  <1>3. \A b : \A x \in Loops : LoopComing(b, x) => LoopComing(b, x)'
    <2>1. CASE RefreshAgent(a) \/ ReadPaused(a)
      BY <1>2, <2>1 DEF RefreshAgent, ReadPaused, LoopComing
    <2>2. CASE EndNotify(a)
      BY <1>2, <2>2, EndNotifyEffect, NextWorkerComes DEF Notified
    <2>3. ASSUME NEW who \in Waiters, BeginNotify(a, who)
          PROVE  \A b : \A x \in Loops : LoopComing(b, x) => LoopComing(b, x)'
      <3>1. CASE may_not_run
        <4>1. NextWorker(who) /\ Notified(a, who)
          BY <2>3, <3>1, BeginNotifyEffect DEF Notified
        <4> QED BY <1>2, <4>1, NextWorkerComes
      <3>2. CASE ~may_not_run
        <4>1. UNCHANGED refresh
          BY <2>3, <3>2, BeginNotifyEffect
        <4> QED BY <1>2, <4>1 DEF LoopComing
      <3> QED BY <3>1, <3>2
    <2> QED BY <2>1, <2>2, <2>3 DEF NotifyStep, Waiters
  <1>4. \A b \in Agents \ {a} : Accounted(b) => Accounted(b)'
    BY <1>1, <1>2, <1>3, AccountedKept
  <1>5. (\E x \in Loops : LoopComing(a, x)) => Accounted(a)'
    BY <1>3 DEF Accounted, WillBeNotified
  <1>6. CASE RefreshAgent(a)
    <2> DEFINE W == (runner[a].waiting \ {"rpc"}) \cup (IF Known(a) THEN {"call"} ELSE {})
    <2>1. W \in SUBSET ({"rpc"} \cup Waiters) /\ runner' = [runner EXCEPT ![a].waiting = W]
      BY <1>6 DEF TypeOK, Runners, Waiters, RefreshAgent
    <2>2. Known(a) => "call" \in W
      OBVIOUS
    <2> HIDE DEF W
    <2>3. SameRun(a) /\ runner'[a].waiting = W
      BY <2>1, WaitingEffect
    <2>4. Known(a) => Accounted(a)'
      BY <2>2, <2>3 DEF Accounted, WillBeNotified
    <2>5. ReadByHolder'
      BY <1>1, <2>3 DEF ReadByHolder, SameRun
    <2> QED BY <1>2, <1>4, <2>4, <2>5 DEF FollowsOrNotified, Known
  <1>7. CASE ReadPaused(a)
    <2> DEFINE v == IF paused[a] THEN "no" ELSE "yes"
               n == [runner[a] EXCEPT !.should = v]
    <2>1. runner[a] \in Runners /\ runner' = [runner EXCEPT ![a] = n] /\ runner \in [Agents -> Runners]
      BY <1>7 DEF TypeOK, ReadPaused
    <2>2. n.holder = runner[a].holder /\ n.should = v
      BY <2>1 DEF Runners
    <2> HIDE DEF n
    <2>3. runner'[a].holder # "none" /\ runner'[a].should = v
      BY <1>7, <2>1, <2>2 DEF ReadPaused
    <2>4. Accounted(a)'
      BY <1>2, <2>3 DEF Accounted, Follows
    <2>5. ReadByHolder'
      BY <1>1, <2>3 DEF ReadByHolder, SameRun
    <2> QED BY <1>2, <1>4, <2>4, <2>5 DEF FollowsOrNotified, Known
  <1>8. CASE EndNotify(a)
    <2> DEFINE started == runner[a].should = "yes"
    <2>1. /\ runner'[a].holder = "none" /\ runner'[a].should = "unread"
          /\ runner'[a].status = "STARTED" <=> started
          /\ runner[a].waiting \cap {"rpc", "call", "resume", "all"} \subseteq runner'[a].waiting
          /\ runner[a].holder # "none" /\ runner[a].should # "unread"
      BY <1>8, EndNotifyEffect DEF Waiters, Loops
    <2>2. Accounted(a) => Accounted(a)'
      <3>1. WillBeNotified(a) => WillBeNotified(a)'
        BY <1>2, <1>3, <2>1 DEF WillBeNotified
      <3>2. Follows(a) => Follows(a)'
        BY <1>2, <2>1 DEF Follows
      <3> QED BY <2>1, <3>1, <3>2 DEF Accounted
    <2>3. ReadByHolder'
      BY <1>1, <2>1 DEF ReadByHolder, SameRun
    <2> QED BY <1>2, <1>4, <2>2, <2>3 DEF FollowsOrNotified, Known
  <1>9. ASSUME NEW who \in Waiters, BeginNotify(a, who) PROVE FollowInv'
    <2>1. runner[a].holder = "none" /\ runner'[a].should = "unread"
      BY <1>9, BeginNotifyEffect DEF ReadByHolder
    <2>2. CASE may_not_run
      <3>1. suspended \/ control.pc # "working"
        BY <2>2 DEF may_not_run, QuietInv, FlagsFollow
      <3>2. suspended => Accounted(a)'
        BY <1>2 DEF Accounted, WillBeNotified
      <3>3. ReadByHolder'
        BY <1>1, <2>1 DEF ReadByHolder, SameRun
      <3> QED BY <1>2, <1>4, <3>1, <3>2, <3>3 DEF FollowsOrNotified, Known
    <2>3. CASE ~may_not_run
      <3>1. runner'[a].holder # "none"
        BY <1>9, <2>3, BeginNotifyEffect DEF Waiters, Loops
      <3>2. Accounted(a)'
        BY <2>1, <3>1 DEF Accounted
      <3>3. ReadByHolder'
        BY <1>1, <3>1 DEF ReadByHolder, SameRun
      <3> QED BY <1>2, <1>4, <3>2, <3>3 DEF FollowsOrNotified, Known
    <2> QED BY <2>2, <2>3
  <1> QED BY <1>6, <1>7, <1>8, <1>9 DEF NotifyStep, Waiters

\* Every step leaves a runner that follows the database, or somebody who will notify it.
LEMMA NextFollow == TypeOK /\ LoopInv /\ QuietInv /\ FollowInv /\ [Next]_vars => FollowInv'
  <1> SUFFICES ASSUME TypeOK, LoopInv, QuietInv, FollowInv, [Next]_vars PROVE FollowInv'
    OBVIOUS
  <1> USE DEF FollowInv
  <1>1. ASSUME \A b \in Agents : runner'[b].holder = runner[b].holder /\ runner'[b].should = runner[b].should
        PROVE  ReadByHolder'
    BY <1>1 DEF ReadByHolder
  <1>2. ASSUME NEW a \in Agents, RunnerStep(a) PROVE FollowInv'
    <2>1. /\ \A b \in Agents : /\ runner'[b].holder = runner[b].holder /\ runner'[b].should = runner[b].should
                               /\ runner'[b].waiting = runner[b].waiting
                               /\ running => (runner'[b].status = "STARTED" <=> runner[b].status = "STARTED")
          /\ UNCHANGED <<paused, workers, running, suspended, control, refresh, raised>>
      BY <1>2, RunnerStepEffect DEF OnlyRunner
    <2>2. control.pc = "working" => running
      BY DEF QuietInv, FlagsFollow
    <2>3. \A b \in Agents : running /\ Accounted(b) => Accounted(b)'
      BY <2>1 DEF Accounted, WillBeNotified, Follows, LoopComing
    <2> QED BY <1>1, <2>1, <2>2, <2>3 DEF FollowsOrNotified, Known
  <1>3. ASSUME NEW a \in Agents, PutTask(a) PROVE FollowInv'
    <2>1. /\ \A b \in Agents : SameRun(b) /\ runner[b].waiting \subseteq runner'[b].waiting
          /\ UNCHANGED <<paused, suspended, control, refresh, raised>>
      BY <1>3, PutTaskEffect DEF OnlyRunner, SameRun
    <2>2. \A i \in DOMAIN workers : i \in DOMAIN workers' /\ workers'[i] = workers[i]
      BY <1>3, PutTaskEffect DEF TypeOK
    <2>3. \A b : \A x \in Loops : LoopComing(b, x) => LoopComing(b, x)'
      BY <2>1, <2>2 DEF LoopComing
    <2>4. \A b \in Agents : Accounted(b) => Accounted(b)'
      BY <2>1, <2>3, AccountedKept
    <2>5. \A b \in Agents : Known(b)' => Known(b) \/ (b = a /\ ~Known(a))
      BY <1>3, PutTaskEffect, SMTT(30) DEF Known, Range, TypeOK
    <2>6. ~Known(a) => Accounted(a)'
      <3>1. ~Known(a) => runner[a].holder = "none" /\ "sync" \in runner'[a].waiting
        BY <1>3, PutTaskEffect DEF QuietInv, UnknownIsNew
      <3> QED BY <2>1, <3>1 DEF Accounted, SameRun
    <2> QED BY <1>1, <2>1, <2>4, <2>5, <2>6 DEF FollowsOrNotified, SameRun
  <1>4. ASSUME NEW a \in Agents, SetPaused(a) PROVE FollowInv'
    <2>1. runner[a].waiting \cup {"rpc"} \in SUBSET ({"rpc"} \cup Waiters)
      BY DEF TypeOK, Runners
    <2>2. OnlyRunner(a) /\ SameRun(a) /\ runner'[a].waiting = runner[a].waiting \cup {"rpc"}
      BY <1>4, <2>1, WaitingEffect DEF SetPaused
    <2>3. /\ UNCHANGED <<workers, suspended, control, refresh, raised>>
          /\ \A b \in Agents : b # a => paused'[b] = paused[b]
      BY <1>4 DEF SetPaused, TypeOK
    <2>4. \A b \in Agents : SameRun(b) /\ runner[b].waiting \subseteq runner'[b].waiting
      BY <2>2 DEF OnlyRunner, SameRun
    <2>5. \A b : \A x \in Loops : LoopComing(b, x) => LoopComing(b, x)'
      BY <2>3 DEF LoopComing
    <2>6. \A b \in Agents : b # a /\ Accounted(b) => Accounted(b)'
      BY <2>3, <2>4, <2>5, AccountedKept
    <2>7. Accounted(a)'
      BY <2>2 DEF Accounted, WillBeNotified
    <2> QED BY <1>1, <2>3, <2>4, <2>6, <2>7 DEF FollowsOrNotified, Known, SameRun
  <1>5. ASSUME NEW x \in Loops, RefreshStep(x) PROVE FollowInv'
    <2>1. \A y \in Loops : y # x => refresh'[y] = refresh[y]
      BY <1>5 DEF RefreshStep, RefreshBegins, RefreshNext, RefreshRaises, TypeOK
    <2>2. UNCHANGED <<paused, workers, suspended, control>>
      BY <1>5 DEF RefreshStep, RefreshBegins, RefreshNext, RefreshRaises
    <2>3. \A b : \A y \in Loops : y # x /\ LoopComing(b, y) => LoopComing(b, y)'
      BY <2>1, <2>2 DEF LoopComing
    <2>4. CASE RefreshBegins(x)
      <3>1. UNCHANGED <<runner, raised>> /\ refresh'[x] = [pc |-> "loop", next |-> 1, size |-> Len(workers)]
        BY <2>4 DEF RefreshBegins, TypeOK
      <3>2. \A b \in Agents : Known(b) => Accounted(b)'
        BY <2>2, <3>1 DEF Known, Range, LoopComing, WillBeNotified, Accounted, TypeOK
      <3> QED BY <1>1, <2>2, <3>1, <3>2 DEF FollowsOrNotified, Known
    <2>5. CASE RefreshRaises(x)
      BY <1>1, <2>5 DEF RefreshRaises, FollowsOrNotified
    <2>6. CASE RefreshNext(x) /\ refresh[x].next > Len(workers)
      <3>1. UNCHANGED <<runner, raised>> /\ refresh[x].pc = "loop" /\ refresh[x].next \in Nat
        BY <2>6 DEF RefreshNext, TypeOK, Refreshes
      <3>2. \A b : ~LoopComing(b, x)
        BY <2>6, <3>1 DEF LoopComing, TypeOK
      <3>3. \A b \in Agents : Accounted(b) => Accounted(b)'
        BY <2>2, <2>3, <3>1, <3>2, AccountedKept DEF SameRun
      <3> QED BY <1>1, <2>2, <3>1, <3>3 DEF FollowsOrNotified, Known
    <2>7. CASE RefreshNext(x) /\ ~(refresh[x].next > Len(workers))
      <3>1. /\ refresh[x].next \in DOMAIN workers /\ refresh[x] \in Refreshes /\ refresh[x].next \in Nat
            /\ refresh[x].pc = "loop" /\ UNCHANGED raised
        BY <2>7 DEF LoopInv, TypeOK, Refreshes, RefreshNext
      <3> PICK w \in Agents : w = workers[refresh[x].next]
        BY <3>1 DEF TypeOK
      <3>2. /\ runner' = [runner EXCEPT ![w].waiting = runner[w].waiting \cup {x}]
            /\ refresh' = [refresh EXCEPT ![x] = [refresh[x] EXCEPT !.pc = "notified", !.next = refresh[x].next + 1]]
        BY <2>7 DEF RefreshNext
      <3>3. refresh'[x].pc = "notified" /\ refresh'[x].next = refresh[x].next + 1
        BY <3>1, <3>2 DEF TypeOK, Refreshes
      <3>4. runner[w].waiting \cup {x} \in SUBSET ({"rpc"} \cup Waiters)
        BY DEF TypeOK, Runners, Waiters
      <3>5. OnlyRunner(w) /\ SameRun(w) /\ runner'[w].waiting = runner[w].waiting \cup {x}
        BY <3>2, <3>4, WaitingEffect
      <3>6. \A b \in Agents : SameRun(b) /\ runner[b].waiting \subseteq runner'[b].waiting
        BY <3>5 DEF OnlyRunner, SameRun
      <3>7. Accounted(w)'
        BY <3>5 DEF Accounted, WillBeNotified, Loops
      <3>8. \A b \in Agents : b # w /\ LoopComing(b, x) => LoopComing(b, x)'
        BY <2>2, <3>1, <3>3 DEF LoopComing, TypeOK
      <3>9. \A b \in Agents : b # w /\ Accounted(b) => Accounted(b)'
        BY <2>2, <2>3, <3>6, <3>8, AccountedKept
      <3> QED BY <1>1, <2>2, <3>1, <3>6, <3>7, <3>9 DEF FollowsOrNotified, Known, SameRun
    <2> QED BY <1>5, <2>4, <2>5, <2>6, <2>7 DEF RefreshStep
  <1>6. ASSUME suspended', \A b \in Agents : runner'[b].holder = runner[b].holder /\ runner'[b].should = runner[b].should
        PROVE  FollowInv'
    BY <1>1, <1>6 DEF FollowsOrNotified, Accounted, WillBeNotified
  <1>7. ASSUME NEW x \in Loops, refresh'[x].pc = "rpc",
               \A b \in Agents : runner'[b].holder = runner[b].holder /\ runner'[b].should = runner[b].should
        PROVE  FollowInv'
    BY <1>1, <1>7 DEF FollowsOrNotified, Accounted, WillBeNotified, LoopComing
  <1>8. removal.pc # "idle" => suspended
    BY DEF QuietInv, FlagsFollow
  <1>9. CASE RemovalStep \/ Suspend
    <2>1. ASSUME NEW a \in Agents, SuspendWorker(a) PROVE FollowInv'
      <3>1. \A b \in Agents : runner'[b].holder = runner[b].holder /\ runner'[b].should = runner[b].should
        <4>1. CASE Known(a)
          BY <2>1, <4>1, StopRunnerEffect DEF SuspendWorker, OnlyRunner
        <4>2. CASE ~Known(a)
          BY <2>1, <4>2 DEF SuspendWorker, TypeOK
        <4> QED BY <4>1, <4>2
      <3> QED BY <1>6, <1>8, <2>1, <3>1 DEF SuspendWorker
    <2>2. CASE SuspendAll
      <3>1. \A b \in Agents : runner'[b].holder = runner[b].holder /\ runner'[b].should = runner[b].should
        BY <2>2, PillsEffect DEF SuspendAll, SameRun
      <3>2. CASE Joinable
        BY <1>6, <1>8, <2>2, <3>1, <3>2 DEF SuspendAll
      <3>3. CASE ~Joinable
        BY <1>1, <2>2, <3>1, <3>3 DEF SuspendAll, FollowsOrNotified
      <3> QED BY <3>2, <3>3
    <2>3. CASE SuspendJoined
      BY <1>6, <1>8, <2>3 DEF SuspendJoined
    <2>4. CASE RemoveVenvs
      <3>1. refresh'["resume"].pc = "rpc" /\ UNCHANGED runner
        BY <2>4 DEF RemoveVenvs, Resume, TypeOK, Refreshes, Loops
      <3> QED BY <1>7, <3>1 DEF Loops
    <2>5. CASE Suspend
      BY <1>6, <2>5 DEF Suspend
    <2> QED BY <1>9, <2>1, <2>2, <2>3, <2>4, <2>5 DEF RemovalStep
  <1>10. CASE SetAllPaused
    <2>1. refresh'["all"].pc = "rpc" /\ UNCHANGED runner
      BY <1>10 DEF SetAllPaused, TypeOK, Refreshes, Loops
    <2> QED BY <1>7, <2>1 DEF Loops
  <1>11. ASSUME control'.pc # "working",
                \A b \in Agents : runner'[b].holder = "none" => runner'[b].should = "unread"
         PROVE  FollowInv'
    BY <1>11 DEF FollowsOrNotified, ReadByHolder
  <1>12. CASE Initialize
    <2>1. \A b \in Agents : ~Known(b)'
      BY <1>12 DEF Initialize, QuietInv, Stopped, Known, Range
    <2> QED BY <1>1, <1>12, <2>1 DEF Initialize, FollowsOrNotified
  <1>13. CASE Start
    BY <1>11, <1>13, StartEffect DEF TypeOK, Controls
  <1>14. CASE StopWorker
    <2>1. \A b \in Agents : runner'[b] = runner[b] \/ runner'[b] = _stop(runner[b])
      BY <1>14 DEF StopWorker, TypeOK
    <2>2. \A b \in Agents : runner'[b].holder = runner[b].holder /\ runner'[b].should = runner[b].should
      BY <2>1, StopEffect DEF TypeOK
    <2> QED BY <1>11, <1>14, <2>2 DEF StopWorker, TypeOK, Controls, ReadByHolder
  <1>15. CASE StopAll
    <2>1. \A b \in Agents : runner'[b].holder = runner[b].holder /\ runner'[b].should = runner[b].should
      BY <1>15, PillsEffect DEF StopAll, SameRun
    <2> QED BY <1>11, <1>15, <2>1 DEF StopAll, TypeOK, Controls, ReadByHolder
  <1>16. CASE StopRaises \/ Joined \/ Stop \/ StartRaises
    BY <1>11, <1>16 DEF StopRaises, Joined, Stop, StartRaises, TypeOK, Controls, ReadByHolder
  <1>17. CASE UNCHANGED vars
    BY <1>17 DEF vars, ReadByHolder, FollowsOrNotified, Accounted, WillBeNotified, Follows, LoopComing, Known
  <1> QED BY <1>2, <1>3, <1>4, <1>5, <1>9, <1>10, <1>12, <1>13, <1>14, <1>15, <1>16, <1>17, NotifyStepFollow
          DEF Next, ControlStep

\* Once no notification is outstanding, the runners that count as running are those of the
\* agents that the database says are not paused: whatever a change of the database overtakes
\* or is overtaken by, somebody still comes to read it.
THEOREM DatabaseIsFollowed == Spec => []FollowsDatabase
  <1>1. TypeOK /\ FollowInv /\ LoopInv /\ QuietInv => FollowsDatabase
    <2> SUFFICES ASSUME TypeOK, FollowInv, QuietInv, Quiescent, raised = {}, NEW a \in Range(workers)
                 PROVE  (runner[a].status = "STARTED") <=> ~paused[a]
      BY DEF FollowsDatabase
    <2>1. a \in Agents /\ Known(a)
      BY DEF TypeOK, Range, Known
    <2>2. Accounted(a) /\ runner[a].waiting = {} /\ runner[a].holder = "none"
      BY <2>1 DEF FollowInv, FollowsOrNotified, Quiescent
    <2>3. ~WillBeNotified(a)
      BY <2>2 DEF Quiescent, WillBeNotified, LoopComing, AtRest, QuietInv, FlagsFollow
    <2> QED BY <2>2, <2>3 DEF Accounted, Follows
  <1> QED BY <1>1, InitFollow, NextFollow, QuietAlways, RunnersTypeCorrect, PTL DEF Spec
=============================================================================
