------------------------ MODULE ExecutorPoolsProofs ------------------------
(***************************************************************************)
(* What the executor pools keep to, for any number of agents, blueprints,  *)
(* processes, executors and crashes, and any cap: an executor that has     *)
(* work is not closed, the cap holds, running executors are tracked,       *)
(* processes are in use, and none is left once the manager was joined.     *)
(*                                                                         *)
(* The invariants are about two sides that the code keeps together without *)
(* a common lock: the objects of the manager and of the process pool, and  *)
(* the commands that are on their way to the processes.                    *)
(***************************************************************************)
EXTENDS ExecutorPools, TLAPS, SequenceTheorems, FiniteSetTheorems

Executors ==
    {r \in [agent : Agents, bp : Blueprints, proc : Nat, closing : BOOLEAN, down : BOOLEAN,
            stop : {"no", "task", "sent", "stopping", "done"},
            remote : {"none", "running", "stopped"}] : <<r.agent, r.bp>> \in Ids}

Commands == [cmd : {"init", "stopfor", "stop"}, exec : Nat]

Processes == [bp : Blueprints, closing : BOOLEAN, down : BOOLEAN, os : {"alive", "ending", "dead"},
              lost : BOOLEAN, inbox : Seq(Commands), busy : SUBSET Nat, pool : [Agents -> Nat]]

Pools == [procs : Seq(Processes), execs : Seq(Executors),
          process_pool : [Blueprints -> Nat], pool : [Ids -> Nat],
          agent_map : [Agents -> SUBSET Nat], last_used : SUBSET (Nat \X Nat)]

Waits == [pc : {"idle", "wantProcess", "refused", "newProcess", "newExecutor", "executing"},
          bp : Blueprints \cup {Idle.bp}, proc : Nat, exec : Nat]

TypeOK ==
    /\ s \in Pools
    /\ runner \in [Agents -> Waits]
    /\ phase \in {"running", "stopping", "poolStopped", "joining", "joined"}
    /\ crashes \in Nat

-----------------------------------------------------------------------------
(* Sequences of commands *)

Mail(q)     == {q[i] : i \in 1..Len(q)}
Distinct(q) == \A i, j \in 1..Len(q) : q[i] = q[j] => i = j

(* What is sent is in the mail, and in it once when it was not there before. *)
LEMMA MailAppend ==
    ASSUME NEW q \in Seq(Commands), NEW m \in Commands
    PROVE  /\ Append(q, m) \in Seq(Commands)
           /\ Mail(Append(q, m)) = Mail(q) \cup {m}
           /\ Distinct(q) /\ m \notin Mail(q) => Distinct(Append(q, m))
<1>1. /\ Append(q, m) \in Seq(Commands) /\ Len(Append(q, m)) = Len(q) + 1
      /\ \A i \in 1..Len(q) : Append(q, m)[i] = q[i]
      /\ Append(q, m)[Len(q) + 1] = m
  BY AppendProperties
<1>2. 1..(Len(q) + 1) = 1..Len(q) \cup {Len(q) + 1} /\ Len(q) \in Nat
  BY LenProperties
<1>3. Mail(Append(q, m)) = Mail(q) \cup {m}
  BY <1>1, <1>2 DEF Mail
<1>4. ASSUME Distinct(q), m \notin Mail(q) PROVE Distinct(Append(q, m))
  BY <1>1, <1>2, <1>4 DEF Mail, Distinct
<1> QED  BY <1>1, <1>3, <1>4

(* What is received is no longer in the mail. *)
LEMMA MailTail ==
    ASSUME NEW q \in Seq(Commands), q # <<>>, Distinct(q)
    PROVE  /\ Tail(q) \in Seq(Commands) /\ Head(q) \in Mail(q) /\ Head(q) \in Commands
           /\ Mail(Tail(q)) = Mail(q) \ {Head(q)}
           /\ Distinct(Tail(q))
<1>1. /\ Tail(q) \in Seq(Commands) /\ Head(q) = q[1] /\ Head(q) \in Commands
      /\ Len(q) \in Nat \ {0} /\ Len(Tail(q)) = Len(q) - 1
      /\ \A i \in 1..Len(Tail(q)) : Tail(q)[i] = q[i + 1]
  BY HeadTailProperties, EmptySeq, LenProperties, ElementOfSeq
<1>2. Head(q) \in Mail(q)
  BY <1>1 DEF Mail
<1>3. \A i \in 1..Len(Tail(q)) : i + 1 \in 1..Len(q) /\ i + 1 # 1
  BY <1>1
<1>4. \A j \in 1..Len(q) : j # 1 => j - 1 \in 1..Len(Tail(q)) /\ (j - 1) + 1 = j
  BY <1>1
<1>5. Mail(Tail(q)) \subseteq Mail(q) \ {Head(q)}
  <2>1. SUFFICES ASSUME NEW i \in 1..Len(Tail(q)) PROVE Tail(q)[i] \in Mail(q) \ {Head(q)}
    BY DEF Mail
  <2>2. i + 1 \in 1..Len(q) /\ 1 \in 1..Len(q) /\ i + 1 # 1 /\ Tail(q)[i] = q[i + 1]
    BY <1>1, <1>3
  <2> QED  BY <1>1, <2>2 DEF Mail, Distinct
<1>6. Mail(q) \ {Head(q)} \subseteq Mail(Tail(q))
  <2>1. SUFFICES ASSUME NEW j \in 1..Len(q), q[j] # Head(q) PROVE q[j] \in Mail(Tail(q))
    BY DEF Mail
  <2>2. j # 1
    BY <1>1, <2>1
  <2>3. j - 1 \in 1..Len(Tail(q)) /\ Tail(q)[j - 1] = q[j]
    BY <1>1, <1>4, <2>2
  <2> QED  BY <2>3 DEF Mail
<1>7. Distinct(Tail(q))
  <2>1. SUFFICES ASSUME NEW i \in 1..Len(Tail(q)), NEW j \in 1..Len(Tail(q)), Tail(q)[i] = Tail(q)[j]
                 PROVE  i = j
    BY DEF Distinct
  <2>2. q[i + 1] = q[j + 1] /\ i + 1 \in 1..Len(q) /\ j + 1 \in 1..Len(q)
    BY <1>1, <1>3, <2>1
  <2>3. i + 1 = j + 1
    BY <2>2 DEF Distinct
  <2> QED  BY <2>3, <1>1
<1> QED  BY <1>1, <1>2, <1>5, <1>6, <1>7
-----------------------------------------------------------------------------
(* The inductive invariant: what the objects say of each other *)

Pending(a, e)  == runner[a].pc = "newExecutor" /\ runner[a].exec = e
Starting(a, p) == runner[a].pc = "newProcess" /\ runner[a].proc = p

(* An executor that is down is closing; one that is not has its process, and  *)
(* is closing as soon as inner_close has begun.                                *)
ExecutorsKept ==
    \A e \in Execs :
        /\ s.execs[e].down => s.execs[e].closing /\ s.execs[e].stop = "done" /\ s.execs[e].remote = "none"
        /\ ~s.execs[e].down =>
             /\ s.execs[e].proc \in Procs /\ s.procs[s.execs[e].proc].bp = s.execs[e].bp
             /\ s.execs[e].stop # "done" /\ (s.execs[e].closing <=> s.execs[e].stop # "no")

(* Every cache holds what it is asked for. *)
PoolKept        == \A i \in Ids : s.pool[i] # 0 => s.pool[i] \in Execs /\ Id(s, s.pool[i]) = i
AgentMapKept    == \A a \in Agents : \A e \in s.agent_map[a] : e \in Execs /\ s.execs[e].agent = a
HostedBy(p, a)  == LET e == s.procs[p].pool[a]
                   IN  e # 0 => e \in Execs /\ s.execs[e].agent = a /\ s.execs[e].proc = p /\ ~s.execs[e].down
HostsKept       == \A p \in Procs, a \in Agents : HostedBy(p, a)
ProcessPoolKept == \A b \in Blueprints : s.process_pool[b] # 0 =>
                       s.process_pool[b] \in Procs /\ s.procs[s.process_pool[b]].bp = b

(* What a task runner has in hand in each of its waits. *)
Works(a) ==
    runner[a].pc = "executing" =>
        /\ runner[a].exec \in Execs
        /\ s.execs[runner[a].exec].agent = a \/ s.execs[runner[a].exec].down

StartsProcess(a) ==
    runner[a].pc = "newProcess" =>
        /\ runner[a].proc \in Procs /\ s.procs[runner[a].proc].bp = runner[a].bp
        /\ ~usable(s.process_pool[runner[a].bp])
        /\ \A x \in Agents : runner[x].pc = "newProcess" /\ runner[x].bp = runner[a].bp => x = a

Unregistered(e) ==
    /\ \A i \in Ids : s.pool[i] # e
    /\ \A a \in Agents : e \notin s.agent_map[a]
    /\ \A p \in Procs, a \in Agents : s.procs[p].pool[a] # e

StartsExecutor(a) ==
    runner[a].pc = "newExecutor" =>
        LET e == runner[a].exec
        IN  /\ e \in Execs /\ Running(s, e) /\ s.execs[e].remote = "none"
            /\ s.execs[e].agent = a /\ s.execs[e].bp = runner[a].bp /\ s.execs[e].proc = runner[a].proc
            /\ Unregistered(e)

RunnerKept(a) ==
    /\ Getting(a) => <<a, runner[a].bp>> \in Ids
    /\ runner[a].pc \in {"idle", "wantProcess", "refused", "executing"} => runner[a].proc = 0
    /\ Works(a) /\ StartsProcess(a) /\ StartsExecutor(a)

RunnersKept == \A a \in Agents : RunnerKept(a)

(* A command is on its way once, and finds what it was sent for. *)
Delivers(m, p) ==
    /\ m.cmd = "init" => \E a \in Agents : Pending(a, m.exec) /\ runner[a].proc = p
    /\ m.cmd = "stopfor" => m.exec \in Execs /\ s.execs[m.exec].proc = p /\ s.execs[m.exec].stop = "sent"
    /\ m.cmd = "stop" => m.exec = 0 /\ s.procs[p].closing

MailOf(p) ==
    /\ Distinct(s.procs[p].inbox)
    /\ \A m \in Mail(s.procs[p].inbox) : Delivers(m, p)
    /\ s.procs[p].lost => s.procs[p].closing /\ s.procs[p].inbox = <<>> /\ s.procs[p].os = "dead"
    /\ s.procs[p].down => s.procs[p].closing

MailKept == \A p \in Procs : MailOf(p)

Shape ==
    /\ TypeOK /\ ExecutorsKept
    /\ PoolKept /\ AgentMapKept /\ HostsKept /\ ProcessPoolKept
    /\ RunnersKept /\ MailKept

-----------------------------------------------------------------------------
(* What every step leaves as it is *)

(* No object goes away, an executor keeps its agent until it is down, and     *)
(* what is closing stays so.                                                   *)
ObjectsStay ==
    /\ Execs \subseteq Execs' /\ Procs \subseteq Procs'
    /\ \A e \in Execs : \/ s'.execs[e].down
                        \/ s'.execs[e].agent = s.execs[e].agent /\ ~s.execs[e].down
    /\ \A p \in Procs : /\ s'.procs[p].bp = s.procs[p].bp
                        /\ s.procs[p].closing => s'.procs[p].closing

(* Nobody but the runner that waits for it touches a new executor or process. *)
WaitStays(a) ==
    /\ runner'[a] = runner[a]
    /\ runner[a].pc = "newExecutor" =>
          s'.execs[runner[a].exec] = s.execs[runner[a].exec] /\ Unregistered(runner[a].exec)'
    /\ runner[a].pc = "newProcess" =>
          s'.process_pool[runner[a].bp] \in {s.process_pool[runner[a].bp], 0}

WaitChanges(a) == RunnerKept(a)' /\ runner'[a].pc # "newProcess"

-----------------------------------------------------------------------------
(* Steps in which no executor begins to run, and no process either *)

(* An executor goes down, or it stays in the caches it was in.  It is closed  *)
(* only when nobody works with it.                                             *)
ExecutorFades(e) ==
    LET old == s.execs[e]
        new == s'.execs[e]
    IN  \/ new.down /\ new.closing /\ new.remote = "none"
        \/ /\ new.agent = old.agent /\ new.bp = old.bp /\ new.proc = old.proc /\ ~old.down
           /\ old.closing => new.closing
           /\ new.closing => old.closing \/ ~InUse(e)
           /\ new.remote = "running" => old.remote = "running"
           /\ s.pool[Id(s, e)] = e => s'.pool[Id(s, e)] = e
           /\ e \in s.agent_map[old.agent] => e \in s'.agent_map[old.agent]
           /\ s.procs[old.proc].pool[old.agent] = e => s'.procs[old.proc].pool[old.agent] = e

(* A process is closing, or it stays in the pool and keeps an executor. *)
ProcessFades(p) ==
    \/ s'.procs[p].closing
    \/ /\ ~s.procs[p].closing /\ s'.procs[p].bp = s.procs[p].bp
       /\ is_empty(s'.procs[p]) => is_empty(s.procs[p])
       /\ s.process_pool[s.procs[p].bp] = p => s'.process_pool[s.procs[p].bp] = p

(* The executors of an agent that are counted against the cap. *)
RunningIn(a) == {e \in s.agent_map[a] : Running(s, e)}

(* A runner begins to ask for an executor that is not there, when there is     *)
(* room for it or room was made.                                               *)
Asks(a) ==
    /\ runner[a].pc = "idle" /\ runner'[a].pc \in {"wantProcess", "refused"} /\ runner'[a].proc = 0
    /\ phase \in {"running", "stopping"} /\ phase' = phase
    /\ LET e == s.pool[<<a, runner'[a].bp>>] IN e # 0 => s.execs[e].closing
    /\ ~no_room(Cardinality(RunningIn(a))) \/ \E e \in RunningIn(a) : ~Running(s', e)

(* A runner begins to ask for an executor, or is done with what it had. *)
RunnerFades(a) ==
    \/ runner'[a] = runner[a]
    \/ Asks(a)
    \/ /\ runner'[a].pc = "idle" /\ runner'[a].proc = 0
       /\ runner[a].pc = "newExecutor" =>
              /\ s'.execs[runner[a].exec].down
              /\ s'.procs[runner[a].proc].closing \/ ~is_empty(s'.procs[runner[a].proc])
       /\ runner[a].pc = "newProcess" => s'.procs[runner[a].proc].closing

Fades ==
    /\ Execs' = Execs /\ Procs' = Procs
    /\ \A e \in Execs : ExecutorFades(e)
    /\ \A p \in Procs : ProcessFades(p)
    /\ \A b \in Blueprints : s'.process_pool[b] \in {s.process_pool[b], 0}
    /\ \A a \in Agents : RunnerFades(a)

(* What is unchanged fades, in the end. *)
LEMMA UnchangedFades ==
    ASSUME Shape, s' = s, \A a \in Agents : RunnerFades(a)
    PROVE  Fades
<1>1. \A e \in Execs : ExecutorFades(e)
  BY DEF ExecutorFades, Shape, ExecutorsKept
<1>2. \A p \in Procs : ProcessFades(p)
  BY DEF ProcessFades
<1> QED  BY <1>1, <1>2 DEF Fades, Execs, Procs

(* Processes close, or end, and leave the pool. *)
LEMMA ProcessesFade ==
    ASSUME Shape, s'.execs = s.execs, s'.pool = s.pool, s'.agent_map = s.agent_map, Procs' = Procs,
           \A b \in Blueprints : \/ s'.process_pool[b] = s.process_pool[b]
                                 \/ s'.process_pool[b] = 0 /\ s'.procs[s.process_pool[b]].closing,
           \A p \in Procs : /\ s'.procs[p].bp = s.procs[p].bp /\ s'.procs[p].pool = s.procs[p].pool
                            /\ s.procs[p].closing => s'.procs[p].closing,
           \A a \in Agents : RunnerFades(a)
    PROVE  Fades
<1>1. \A e \in Execs : ExecutorFades(e)
  BY DEF ExecutorFades, Shape, ExecutorsKept
<1>2. ASSUME NEW p \in Procs PROVE ProcessFades(p)
  <2>1. s.procs[p].bp \in Blueprints
    <3>1. s.procs[p] \in Processes
      BY DEF Shape, TypeOK, Pools, Procs
    <3> QED  BY <3>1 DEF Processes
  <2>2. is_empty(s'.procs[p]) <=> is_empty(s.procs[p])
    BY DEF is_empty
  <2> QED  BY <2>1, <2>2 DEF ProcessFades
<1> QED  BY <1>1, <1>2 DEF Fades, Execs

(* Runners that nobody touches keep what they have in hand. *)
LEMMA RunnersStay ==
    ASSUME Shape, ObjectsStay, \A a \in Agents : WaitStays(a) \/ WaitChanges(a)
    PROVE  RunnersKept'
<1>1. SUFFICES ASSUME NEW a \in Agents, WaitStays(a) PROVE RunnerKept(a)'
  BY DEF RunnersKept, WaitChanges
<1>2. RunnerKept(a)
  BY DEF Shape, RunnersKept
<1>3. Getting(a)' = Getting(a) /\ runner'[a] = runner[a]
  BY <1>1 DEF Getting, WaitStays
<1>4. Works(a)'
  <2>1. SUFFICES ASSUME runner[a].pc = "executing" PROVE Works(a)'
    BY <1>3 DEF Works
  <2>2. Works(a)
    BY <1>2 DEF RunnerKept
  <2> QED  BY <1>3, <2>1, <2>2 DEF Works, ObjectsStay
<1>5. StartsProcess(a)'
  <2>1. SUFFICES ASSUME runner[a].pc = "newProcess" PROVE StartsProcess(a)'
    BY <1>3 DEF StartsProcess
  <2>2. StartsProcess(a)
    BY <1>2 DEF RunnerKept
  <2>3. \A x \in Agents : runner'[x].pc = "newProcess" => runner'[x] = runner[x]
    BY DEF WaitStays, WaitChanges
  <2>4. ~usable(s.process_pool[runner[a].bp])'
    <3>1. CASE s'.process_pool[runner[a].bp] = 0
      BY <1>3, <3>1 DEF usable
    <3>2. CASE s'.process_pool[runner[a].bp] = s.process_pool[runner[a].bp]
      <4>1. runner[a].bp \in Blueprints
        BY <1>2, <2>1, PoolsAssumption DEF RunnerKept, Getting
      <4>2. s.process_pool[runner[a].bp] # 0 => s.process_pool[runner[a].bp] \in Procs
        BY <4>1 DEF Shape, ProcessPoolKept
      <4> QED  BY <1>3, <2>1, <2>2, <3>2, <4>2 DEF usable, StartsProcess, ObjectsStay
    <3> QED  BY <1>1, <2>1, <3>1, <3>2 DEF WaitStays
  <2> QED  BY <1>3, <2>1, <2>2, <2>3, <2>4 DEF StartsProcess, ObjectsStay
<1>6. StartsExecutor(a)'
  <2>1. SUFFICES ASSUME runner[a].pc = "newExecutor" PROVE StartsExecutor(a)'
    BY <1>3 DEF StartsExecutor
  <2>2. StartsExecutor(a)
    BY <1>2 DEF RunnerKept
  <2> QED  BY <1>1, <1>3, <2>1, <2>2 DEF StartsExecutor, Running, ObjectsStay, WaitStays
<1> QED  BY <1>2, <1>3, <1>4, <1>5, <1>6 DEF RunnerKept

(* A command that stays on its way still finds what it was sent for.          *)
LEMMA MailStays ==
    ASSUME Shape, ObjectsStay, NEW p \in Procs, NEW m \in Mail(s.procs[p].inbox),
           m.cmd = "init" => \A a \in Agents : Pending(a, m.exec) => runner'[a] = runner[a],
           m.cmd = "stopfor" => s'.execs[m.exec] = s.execs[m.exec]
    PROVE  Delivers(m, p)'
<1>1. Delivers(m, p)
  BY DEF Shape, MailKept, MailOf
<1>2. m.cmd = "init" => \E a \in Agents : Pending(a, m.exec)' /\ runner'[a].proc = p
  BY <1>1 DEF Delivers, Pending
<1> QED  BY <1>1, <1>2 DEF Delivers, ObjectsStay

-----------------------------------------------------------------------------
(* Executors that start to close *)

(* A runner that only begins or ends a wait for the manager. *)
Waits0(a) ==
    \/ runner'[a] = runner[a]
    \/ /\ runner[a].pc \in {"idle", "refused", "executing"}
       /\ runner'[a].pc \in {"idle", "wantProcess", "refused"} /\ runner'[a].proc = 0
       /\ Getting(a)' => <<a, runner'[a].bp>> \in Ids

ClosesExecutors(S) ==
    s' = [s EXCEPT !.execs = [e \in Execs |-> IF e \in S THEN close_executor(s.execs[e]) ELSE s.execs[e]]]

ClosedExecutors(S) ==
    /\ s'.procs = s.procs /\ s'.pool = s.pool /\ s'.agent_map = s.agent_map /\ s'.process_pool = s.process_pool
    /\ Execs' = Execs /\ Procs' = Procs
    /\ \A e \in Execs :
          /\ s'.execs[e].agent = s.execs[e].agent /\ s'.execs[e].bp = s.execs[e].bp
          /\ s'.execs[e].proc = s.execs[e].proc /\ s'.execs[e].down = s.execs[e].down
          /\ s'.execs[e].remote = s.execs[e].remote
          /\ e \notin S => s'.execs[e] = s.execs[e]
          /\ e \in S => s'.execs[e].closing

(* Executors that are closed stay in the caches until they are down. *)
LEMMA ClosingKeepsShape ==
    ASSUME Shape, NEW S \in SUBSET Execs,
           \A e \in S : Running(s, e) /\ \A a \in Agents : ~Pending(a, e),
           ClosesExecutors(S), runner' \in [Agents -> Waits], \A a \in Agents : Waits0(a),
           phase' \in {"running", "stopping", "poolStopped", "joining", "joined"}, crashes' \in Nat
    PROVE  Shape' /\ ClosedExecutors(S)
<1> DEFINE E(e) == IF e \in S THEN close_executor(s.execs[e]) ELSE s.execs[e]
<1>1. /\ s \in Pools /\ s' \in Pools /\ s'.procs = s.procs /\ s'.pool = s.pool /\ s'.agent_map = s.agent_map
      /\ s'.process_pool = s.process_pool
      /\ Execs' = Execs /\ Procs' = Procs
      /\ \A e \in Execs : s'.execs[e] = E(e)
  <2>1. s \in Pools /\ s.execs \in Seq(Executors) /\ \A e \in Execs : s.execs[e] \in Executors
    BY DEF Shape, TypeOK, Pools, Execs
  <2>2. \A e \in Execs : E(e) \in Executors
    BY <2>1 DEF Executors, close_executor
  <2>3. s'.execs = [e \in Execs |-> E(e)]
    BY <2>1 DEF ClosesExecutors, Pools
  <2>4. s'.execs \in Seq(Executors) /\ Len(s'.execs) = Len(s.execs)
    BY <2>2, <2>3, IsASeq, LenProperties, <2>1 DEF Execs
  <2>5. s' = [s EXCEPT !.execs = s'.execs]
    BY <2>3, <2>1 DEF ClosesExecutors
  <2> QED  BY <2>1, <2>3, <2>4, <2>5 DEF Pools, Execs, Procs
<1>2. TypeOK'
  BY <1>1 DEF Shape, TypeOK
<1>3. \A e \in Execs :
        /\ s'.execs[e].agent = s.execs[e].agent /\ s'.execs[e].bp = s.execs[e].bp
        /\ s'.execs[e].proc = s.execs[e].proc /\ s'.execs[e].down = s.execs[e].down
        /\ s'.execs[e].remote = s.execs[e].remote
        /\ e \notin S => s'.execs[e] = s.execs[e]
        /\ e \in S => s'.execs[e].closing /\ s'.execs[e].stop = "task" /\ s.execs[e].stop = "no"
  <2>1. SUFFICES ASSUME NEW e \in Execs
                 PROVE  /\ E(e).agent = s.execs[e].agent /\ E(e).bp = s.execs[e].bp
                        /\ E(e).proc = s.execs[e].proc /\ E(e).down = s.execs[e].down
                        /\ E(e).remote = s.execs[e].remote
                        /\ e \notin S => E(e) = s.execs[e]
                        /\ e \in S => E(e).closing /\ E(e).stop = "task" /\ s.execs[e].stop = "no"
    BY <1>1
  <2>2. s.execs[e] \in Executors
    BY <1>1 DEF Pools, Execs
  <2>3. e \in S => ~s.execs[e].closing /\ ~s.execs[e].down /\ s.execs[e].stop = "no"
    BY <2>1 DEF Shape, ExecutorsKept, Running
  <2> QED  BY <2>2, <2>3 DEF Executors, close_executor
<1> HIDE DEF E
<1>4. ExecutorsKept'
  BY <1>1, <1>3 DEF Shape, ExecutorsKept
<1>5. PoolKept' /\ AgentMapKept' /\ HostsKept' /\ ProcessPoolKept'
  <2>1. PoolKept'
    BY <1>1, <1>3 DEF Shape, PoolKept, Id
  <2>2. AgentMapKept'
    BY <1>1, <1>3 DEF Shape, AgentMapKept
  <2>3. HostsKept'
    BY <1>1, <1>3 DEF Shape, HostsKept, HostedBy
  <2>4. ProcessPoolKept'
    BY <1>1 DEF Shape, ProcessPoolKept
  <2> QED  BY <2>1, <2>2, <2>3, <2>4
<1>6. ObjectsStay
  <2>1. \A e \in Execs : s.execs[e].agent = s'.execs[e].agent /\ s.execs[e].down = s'.execs[e].down
    BY <1>3
  <2> QED  BY <1>1, <2>1, <1>3 DEF ObjectsStay
<1>7. ASSUME NEW a \in Agents PROVE WaitStays(a) \/ WaitChanges(a)
  <2>1. CASE runner'[a] = runner[a]
    <3>1. ASSUME runner[a].pc = "newExecutor"
          PROVE  s'.execs[runner[a].exec] = s.execs[runner[a].exec] /\ Unregistered(runner[a].exec)'
      <4>1. StartsExecutor(a) /\ Pending(a, runner[a].exec)
        BY <3>1 DEF Shape, RunnersKept, RunnerKept, Pending
      <4>2. runner[a].exec \in Execs \ S /\ Unregistered(runner[a].exec)
        BY <3>1, <4>1 DEF StartsExecutor
      <4>3. s'.execs[runner[a].exec] = s.execs[runner[a].exec]
        BY <1>3, <4>2
      <4>4. Unregistered(runner[a].exec)'
        BY <1>1, <2>1, <4>2 DEF Unregistered
      <4> QED  BY <4>3, <4>4
    <3> QED  BY <1>1, <2>1, <3>1 DEF WaitStays
  <2>2. CASE runner'[a] # runner[a]
    BY <2>2 DEF Waits0, WaitChanges, RunnerKept, Works, StartsProcess, StartsExecutor
  <2> QED  BY <2>1, <2>2
<1>8. RunnersKept'
  BY <1>6, <1>7, RunnersStay
<1>9. MailKept'
  <2>1. SUFFICES ASSUME NEW p \in Procs, NEW m \in Mail(s.procs[p].inbox) PROVE Delivers(m, p)'
    BY <1>1 DEF Shape, MailKept, MailOf
  <2>2. m.cmd = "init" => \A a \in Agents : Pending(a, m.exec) => runner'[a] = runner[a]
    BY DEF Pending, Waits0
  <2>3. m.cmd = "stopfor" => s'.execs[m.exec] = s.execs[m.exec]
    <3>1. Delivers(m, p)
      BY DEF Shape, MailKept, MailOf
    <3> QED  BY <1>3, <3>1 DEF Delivers
  <2> QED  BY <1>6, <2>2, <2>3, MailStays
<1>10. Shape'
  BY <1>2, <1>4, <1>5, <1>8, <1>9 DEF Shape
<1>11. ClosedExecutors(S)
  BY <1>1, <1>3 DEF ClosedExecutors
<1> QED  BY <1>10, <1>11

-----------------------------------------------------------------------------
(* An executor is handed out *)

PhaseOK == /\ phase \in {"running", "stopping", "poolStopped", "joining", "joined"}
           /\ crashes \in Nat

(* Only the caches and the waits change. *)
LEMMA CachesKeepShape ==
    ASSUME Shape, s' \in Pools, s'.procs = s.procs, s'.execs = s.execs, PhaseOK',
           runner' \in [Agents -> Waits], PoolKept', AgentMapKept', ProcessPoolKept',
           \A a \in Agents : runner'[a] = runner[a] \/ (runner[a].pc # "newExecutor" /\ WaitChanges(a)),
           \A a \in Agents : WaitStays(a) \/ WaitChanges(a)
    PROVE  Shape'
<1>1. TypeOK' /\ Execs' = Execs /\ Procs' = Procs
  BY DEF TypeOK, PhaseOK, Execs, Procs
<1>2. ExecutorsKept' /\ HostsKept'
  BY <1>1, SMTT(30) DEF Shape, ExecutorsKept, HostsKept, HostedBy
<1>3. ObjectsStay
  BY <1>1 DEF ObjectsStay, Shape, ExecutorsKept
<1>4. RunnersKept'
  BY <1>3, RunnersStay
<1>5. MailKept'
  <2>1. SUFFICES ASSUME NEW p \in Procs, NEW m \in Mail(s.procs[p].inbox) PROVE Delivers(m, p)'
    BY <1>1 DEF Shape, MailKept, MailOf
  <2>2. \A a \in Agents : Pending(a, m.exec) => runner'[a] = runner[a]
    BY DEF Pending
  <2> QED  BY <1>3, <2>2, MailStays
<1> QED  BY <1>1, <1>2, <1>4, <1>5 DEF Shape

(* Registering an executor changes the agent map, and the order of use. *)
LEMMA RegisterKept ==
    ASSUME NEW t \in Pools, NEW a \in Agents, NEW e \in Nat
    PROVE  /\ Register(t, a, e) \in Pools
           /\ Register(t, a, e).procs = t.procs /\ Register(t, a, e).execs = t.execs
           /\ Register(t, a, e).pool = t.pool /\ Register(t, a, e).process_pool = t.process_pool
           /\ Register(t, a, e).agent_map = [t.agent_map EXCEPT ![a] = @ \cup {e}]
<1>1. PICK f \in [Agents -> SUBSET Nat] : f = [t.agent_map EXCEPT ![a] = @ \cup {e}]
  BY DEF Pools
<1>2. PICK u \in Pools : u = [t EXCEPT !.agent_map = f]
  BY <1>1 DEF Pools
<1>3. Register(t, a, e) = Touch(u, a, e)
  BY <1>1, <1>2 DEF Register
<1>4. /\ u.procs = t.procs /\ u.execs = t.execs /\ u.pool = t.pool /\ u.process_pool = t.process_pool
      /\ u.agent_map = f
  BY <1>2 DEF Pools
<1>5. PICK L \in SUBSET (Nat \X Nat) : Touch(u, a, e) = [u EXCEPT !.last_used = L]
  BY DEF Touch, Pools
<1>6. PICK v \in Pools : v = [u EXCEPT !.last_used = L]
  BY DEF Pools
<1>7. /\ v.procs = u.procs /\ v.execs = u.execs /\ v.pool = u.pool /\ v.process_pool = u.process_pool
      /\ v.agent_map = u.agent_map
  BY <1>6 DEF Pools
<1> QED  BY <1>1, <1>3, <1>4, <1>5, <1>6, <1>7

(* An executor that is in the pools is given to the task that asked for it.   *)
LEMMA HandingOutKeepsShape ==
    ASSUME Shape, NEW a \in Agents, NEW b \in Blueprints, <<a, b>> \in Ids, runner[a].pc # "newExecutor",
           NEW e \in Execs, Id(s, e) = <<a, b>>, ~s.execs[e].closing,
           NEW t \in Pools, t.procs = s.procs, t.execs = s.execs, t.agent_map = s.agent_map,
           t.pool = [s.pool EXCEPT ![<<a, b>>] = e],
           \A x \in Blueprints : \/ t.process_pool[x] = s.process_pool[x]
                                 \/ t.process_pool[x] \in Procs /\ s.procs[t.process_pool[x]].bp = x,
           \A x \in Agents \ {a} : runner[x].pc = "newProcess" =>
               t.process_pool[runner[x].bp] = s.process_pool[runner[x].bp],
           s' = Register(t, a, e), Wait(a, b, "executing", 0, e), PhaseOK'
    PROVE  Shape'
<1>1. s \in Pools /\ e \in Nat /\ s.execs[e].agent = a
  BY DEF Shape, TypeOK, Id, Execs
<1>2. s' \in Pools /\ s'.procs = s.procs /\ s'.execs = s.execs /\ s'.pool = [s.pool EXCEPT ![<<a, b>>] = e]
      /\ s'.process_pool = t.process_pool /\ s'.agent_map = [s.agent_map EXCEPT ![a] = @ \cup {e}]
  BY <1>1, RegisterKept
<1>3. /\ runner' \in [Agents -> Waits]
      /\ runner'[a] = [pc |-> "executing", bp |-> b, proc |-> 0, exec |-> e]
      /\ \A x \in Agents \ {a} : runner'[x] = runner[x]
  BY <1>1 DEF Wait, Shape, TypeOK, Waits
<1>4. Execs' = Execs /\ Procs' = Procs
  BY <1>2 DEF Execs, Procs
<1>5. PoolKept' /\ ProcessPoolKept' /\ AgentMapKept'
  <2>1. PoolKept'
    BY <1>1, <1>2, <1>4 DEF Shape, PoolKept, Id, Pools
  <2>2. ProcessPoolKept'
    BY <1>2, <1>4 DEF Shape, ProcessPoolKept
  <2>3. AgentMapKept'
    BY <1>1, <1>2, <1>4 DEF Shape, AgentMapKept, Pools
  <2> QED  BY <2>1, <2>2, <2>3
<1>6. WaitChanges(a)
  BY <1>1, <1>2, <1>3, <1>4 DEF WaitChanges, RunnerKept, Getting, Works, StartsProcess, StartsExecutor
<1>7. ASSUME NEW x \in Agents \ {a} PROVE WaitStays(x)
  <2>1. runner'[x] = runner[x]
    BY <1>3
  <2>2. ASSUME runner[x].pc = "newExecutor" PROVE Unregistered(runner[x].exec)'
    <3>1. StartsExecutor(x)
      BY DEF Shape, RunnersKept, RunnerKept
    <3>2. runner[x].exec # e /\ Unregistered(runner[x].exec)
      BY <1>1, <2>2, <3>1 DEF StartsExecutor
    <3>3. \A y \in Agents : runner[x].exec \notin s'.agent_map[y]
      BY <1>1, <1>2, <3>2 DEF Unregistered, Pools
    <3>4. \A i \in Ids : s'.pool[i] # runner[x].exec
      BY <1>1, <1>2, <3>2 DEF Unregistered, Pools
    <3> QED  BY <1>2, <1>4, <2>1, <3>2, <3>3, <3>4 DEF Unregistered
  <2> QED  BY <1>2, <2>1, <2>2 DEF WaitStays
<1> QED  BY <1>2, <1>3, <1>5, <1>6, <1>7, CachesKeepShape

(* GetExisting *)
LEMMA GetExistingKeepsShape ==
    ASSUME Shape, NEW a \in Agents, NEW b \in Blueprints, <<a, b>> \in Ids, GetExisting(a, b)
    PROVE  Shape'
<1> DEFINE e == s.pool[<<a, b>>]
<1>1. s \in Pools /\ e \in Execs /\ Id(s, e) = <<a, b>> /\ ~s.execs[e].closing
  BY DEF Shape, TypeOK, PoolKept, GetExisting
<1>2. s' = Touch(s, a, e) /\ Wait(a, b, "executing", 0, e) /\ PhaseOK' /\ runner[a].pc = "idle"
  BY DEF GetExisting, Idle, Shape, TypeOK, PhaseOK
<1>3. /\ s' \in Pools /\ s'.procs = s.procs /\ s'.execs = s.execs /\ s'.pool = s.pool
      /\ s'.process_pool = s.process_pool /\ s'.agent_map = s.agent_map
  BY <1>1, <1>2 DEF Touch, Pools, Execs
<1>4. /\ runner' \in [Agents -> Waits]
      /\ runner'[a] = [pc |-> "executing", bp |-> b, proc |-> 0, exec |-> e]
      /\ \A x \in Agents \ {a} : runner'[x] = runner[x]
  BY <1>1, <1>2 DEF Wait, Shape, TypeOK, Waits, Execs
<1>5. Execs' = Execs /\ Procs' = Procs
  BY <1>3 DEF Execs, Procs
<1>6. PoolKept' /\ ProcessPoolKept' /\ AgentMapKept'
  <2>1. PoolKept'
    BY <1>3, <1>5 DEF Shape, PoolKept, Id
  <2>2. ProcessPoolKept'
    BY <1>3, <1>5 DEF Shape, ProcessPoolKept
  <2>3. AgentMapKept'
    BY <1>3, <1>5 DEF Shape, AgentMapKept
  <2> QED  BY <2>1, <2>2, <2>3
<1>7. WaitChanges(a)
  <2>1. e \in Nat /\ s.execs[e].agent = a
    BY <1>1 DEF Id, Execs
  <2> QED  BY <1>1, <1>3, <1>4, <1>5, <2>1
      DEF WaitChanges, RunnerKept, Getting, Works, StartsProcess, StartsExecutor
<1>8. ASSUME NEW x \in Agents \ {a} PROVE WaitStays(x)
  <2>1. runner[x].pc = "newExecutor" => Unregistered(runner[x].exec)
    BY DEF Shape, RunnersKept, RunnerKept, StartsExecutor
  <2> QED  BY <1>3, <1>4, <1>5, <2>1 DEF WaitStays, Unregistered
<1> QED  BY <1>2, <1>3, <1>4, <1>6, <1>7, <1>8, CachesKeepShape

(* Sending a command appends it to what is on its way. *)
Sent(t, u, p, m) ==
    /\ u \in Pools
    /\ u.execs = t.execs /\ u.pool = t.pool /\ u.agent_map = t.agent_map /\ u.process_pool = t.process_pool
    /\ Len(u.procs) = Len(t.procs)
    /\ \A q \in 1..Len(t.procs) : q # p => u.procs[q] = t.procs[q]
    /\ u.procs[p] = [t.procs[p] EXCEPT !.inbox = Append(@, m)]

(* Send does what Sent says. *)
LEMMA SendKept ==
    ASSUME NEW t \in Pools, NEW p \in 1..Len(t.procs), NEW cmd \in {"init", "stopfor", "stop"}, NEW e \in Nat
    PROVE  Sent(t, Send(t, p, cmd, e), p, Command(cmd, e))
<1>1. t.procs[p] \in Processes /\ t.procs \in Seq(Processes)
  BY DEF Pools
<1>2. Command(cmd, e) \in Commands
  BY DEF Command, Commands
<1>3. Append(t.procs[p].inbox, Command(cmd, e)) \in Seq(Commands)
  BY <1>1, <1>2, MailAppend DEF Processes
<1>4. [t.procs[p] EXCEPT !.inbox = Append(@, Command(cmd, e))] \in Processes
  BY <1>1, <1>3 DEF Processes
<1> DEFINE P == [t.procs[p] EXCEPT !.inbox = Append(@, Command(cmd, e))]
           Q == [t.procs EXCEPT ![p] = P]
<1>5. /\ Q \in Seq(Processes) /\ Len(Q) = Len(t.procs) /\ Q[p] = P
      /\ \A q \in 1..Len(t.procs) : q # p => Q[q] = t.procs[q]
  <2> HIDE DEF P
  <2> QED  BY <1>1, <1>4, ExceptSeq DEF P
<1>6. Send(t, p, cmd, e) = [t EXCEPT !.procs = Q]
  BY DEF Send, Pools
<1> HIDE DEF P, Q
<1>7. Send(t, p, cmd, e) \in Pools
  BY <1>5, <1>6 DEF Pools
<1> QED  BY <1>5, <1>6, <1>7 DEF Pools, P, Sent

(* What all other steps leave of a process: a command may be added to its mail. *)
SameButMail(p) ==
    /\ s'.procs[p].bp = s.procs[p].bp /\ s'.procs[p].closing = s.procs[p].closing
    /\ s'.procs[p].pool = s.procs[p].pool /\ s'.procs[p].lost = s.procs[p].lost
    /\ s'.procs[p].os = s.procs[p].os /\ s'.procs[p].down = s.procs[p].down

(* MPProcess.get of an executor that is not there: a new one is awaited. *)
CreatesExecutor(a, p, b, n) ==
    /\ s' = Send([[s EXCEPT !.process_pool[b] = p] EXCEPT !.execs = Append(@, NewExecutor(a, p, b))], p, "init", n)
    /\ Wait(a, b, "newExecutor", p, n)

CreatedExecutor(a, p, b, n) ==
    /\ s' \in Pools /\ s'.pool = s.pool /\ s'.agent_map = s.agent_map
    /\ s'.process_pool = [s.process_pool EXCEPT ![b] = p]
    /\ Execs' = Execs \cup {n} /\ Procs' = Procs
    /\ \A e \in Execs : s'.execs[e] = s.execs[e]
    /\ s'.execs[n] = NewExecutor(a, p, b)
    /\ \A q \in Procs : SameButMail(q) /\ (q # p => s'.procs[q].inbox = s.procs[q].inbox)
    /\ s'.procs[p].inbox = Append(s.procs[p].inbox, Command("init", n))
    /\ runner' \in [Agents -> Waits]
    /\ runner'[a] = [pc |-> "newExecutor", bp |-> b, proc |-> p, exec |-> n]
    /\ \A x \in Agents \ {a} : runner'[x] = runner[x]

(* The executor gets the next number, and the command to make it is sent. *)
LEMMA NewExecutorEffect ==
    ASSUME Shape, NEW a \in Agents, NEW p \in Procs, NEW b \in Blueprints, <<a, b>> \in Ids,
           NEW n \in Nat, n = Len(s.execs) + 1, CreatesExecutor(a, p, b, n)
    PROVE  CreatedExecutor(a, p, b, n)
<1> DEFINE X == NewExecutor(a, p, b)
           t == [s EXCEPT !.process_pool[b] = p]
           u == [t EXCEPT !.execs = Append(@, X)]
<1>1. s \in Pools /\ s.execs \in Seq(Executors) /\ p \in Nat /\ runner \in [Agents -> Waits]
  BY DEF Shape, TypeOK, Pools, Procs
<1>2. X \in Executors
  BY <1>1 DEF NewExecutor, Executors
<1>3. s' = Send(u, p, "init", n) /\ Wait(a, b, "newExecutor", p, n)
  BY DEF CreatesExecutor
<1> HIDE DEF X
<1>4. /\ Append(s.execs, X) \in Seq(Executors) /\ Len(Append(s.execs, X)) = n
      /\ \A e \in Execs : Append(s.execs, X)[e] = s.execs[e]
      /\ Append(s.execs, X)[n] = X
  BY <1>1, <1>2, AppendProperties DEF Execs
<1>5. /\ t \in Pools /\ t.procs = s.procs /\ t.pool = s.pool /\ t.agent_map = s.agent_map
      /\ t.process_pool = [s.process_pool EXCEPT ![b] = p] /\ t.execs = s.execs
  BY <1>1 DEF Pools
<1> HIDE DEF t
<1>6. /\ u \in Pools /\ u.procs = s.procs /\ u.pool = s.pool /\ u.agent_map = s.agent_map
      /\ u.process_pool = [s.process_pool EXCEPT ![b] = p] /\ u.execs = Append(s.execs, X)
  BY <1>4, <1>5 DEF Pools
<1> HIDE DEF u
<1>7. /\ s' \in Pools /\ s'.execs = u.execs /\ s'.pool = u.pool /\ s'.agent_map = u.agent_map
      /\ s'.process_pool = u.process_pool /\ Len(s'.procs) = Len(u.procs)
      /\ \A q \in 1..Len(u.procs) : q # p => s'.procs[q] = u.procs[q]
      /\ s'.procs[p] = [u.procs[p] EXCEPT !.inbox = Append(@, Command("init", n))]
  <2>1. p \in 1..Len(u.procs)
    BY <1>6 DEF Procs
  <2>2. PICK v \in Pools : v = u
    BY <1>6
  <2>3. p \in 1..Len(v.procs) /\ s' = Send(v, p, "init", n)
    BY <1>3, <2>1, <2>2
  <2>4. Sent(v, s', p, Command("init", n))
    BY <2>3, SendKept
  <2> QED  BY <2>2, <2>4 DEF Sent
<1>8. Execs' = Execs \cup {n} /\ Procs' = Procs
  BY <1>1, <1>4, <1>6, <1>7 DEF Execs, Procs
<1>9. /\ runner' \in [Agents -> Waits]
      /\ runner'[a] = [pc |-> "newExecutor", bp |-> b, proc |-> p, exec |-> n]
      /\ \A x \in Agents \ {a} : runner'[x] = runner[x]
  BY <1>1, <1>3 DEF Wait, Waits
<1>10. SameButMail(p) /\ s'.procs[p].inbox = Append(s.procs[p].inbox, Command("init", n))
  <2>1. s.procs[p] \in Processes /\ s'.procs[p] = [s.procs[p] EXCEPT !.inbox = Append(@, Command("init", n))]
    BY <1>1, <1>6, <1>7 DEF Pools, Procs
  <2> QED  BY <2>1 DEF Processes, SameButMail
<1>11. \A q \in Procs : SameButMail(q) /\ (q # p => s'.procs[q].inbox = s.procs[q].inbox)
  BY <1>6, <1>7, <1>10, ZenonT(40) DEF SameButMail, Procs
<1>12. (\A e \in Execs : s'.execs[e] = s.execs[e]) /\ s'.execs[n] = X
  BY <1>4, <1>6, <1>7
<1> HIDE DEF CreatesExecutor
<1>13. X = NewExecutor(a, p, b)
  BY DEF X
<1>14. s' \in Pools /\ s'.pool = s.pool /\ s'.agent_map = s.agent_map
       /\ s'.process_pool = [s.process_pool EXCEPT ![b] = p]
  BY <1>6, <1>7
<1> QED  BY <1>8, <1>9, <1>10, <1>11, <1>12, <1>13, <1>14 DEF CreatedExecutor

(* Nobody else knows the new executor. *)
LEMMA NewExecutorKeepsShape ==
    ASSUME Shape, NEW a \in Agents, NEW p \in Procs, runner[a].pc \in {"wantProcess", "newProcess"},
           NEW b \in Blueprints, b = s.procs[p].bp, runner[a].bp = b, ~s.procs[p].lost,
           \A x \in Agents \ {a} : runner[x].pc = "newProcess" => runner[x].bp # b,
           NEW n \in Nat, n = Len(s.execs) + 1, CreatesExecutor(a, p, b, n), UNCHANGED <<phase, crashes>>
    PROVE  Shape'
<1>1. /\ s \in Pools /\ s.procs[p] \in Processes
      /\ n # 0 /\ n \notin Execs /\ p \in Nat \ {0} /\ runner \in [Agents -> Waits]
  BY DEF Shape, TypeOK, Pools, Execs, Procs
<1>2. <<a, b>> \in Ids
  BY DEF Shape, RunnersKept, RunnerKept, Getting
<1>3. PICK X \in Executors : X = NewExecutor(a, p, b)
  BY <1>1, <1>2 DEF NewExecutor, Executors
<1>4. X.agent = a /\ X.bp = b /\ X.proc = p /\ ~X.closing /\ ~X.down /\ X.stop = "no" /\ X.remote = "none"
  BY <1>3 DEF NewExecutor
<1> CreatedExecutor(a, p, b, n)
  BY <1>2, NewExecutorEffect
<1>5. s' \in Pools /\ s'.pool = s.pool /\ s'.agent_map = s.agent_map
  BY DEF CreatedExecutor
<1>6. \A x \in Blueprints : s'.process_pool[x] = IF x = b THEN p ELSE s.process_pool[x]
  <2>1. s'.process_pool = [s.process_pool EXCEPT ![b] = p]
    BY DEF CreatedExecutor
  <2> QED  BY <1>1, <2>1 DEF Pools
<1>7. /\ Execs' = Execs \cup {n} /\ Procs' = Procs
      /\ \A e \in Execs : s'.execs[e] = s.execs[e]
      /\ s'.execs[n] = X
  BY <1>3 DEF CreatedExecutor
<1>8. /\ \A q \in Procs : SameButMail(q) /\ (q # p => s'.procs[q].inbox = s.procs[q].inbox)
      /\ s'.procs[p].inbox = Append(s.procs[p].inbox, Command("init", n))
  BY DEF CreatedExecutor
<1>9. /\ runner' \in [Agents -> Waits]
      /\ runner'[a] = [pc |-> "newExecutor", bp |-> b, proc |-> p, exec |-> n]
      /\ \A x \in Agents \ {a} : runner'[x] = runner[x]
  BY DEF CreatedExecutor
<1>10. ObjectsStay
  BY <1>7, <1>8 DEF ObjectsStay, SameButMail, Shape, ExecutorsKept
<1>11. TypeOK'
  BY <1>5, <1>9 DEF Shape, TypeOK
<1>12. ExecutorsKept'
  <2>1. SUFFICES ASSUME NEW e \in Execs'
                 PROVE  /\ s'.execs[e].down => s'.execs[e].closing /\ s'.execs[e].stop = "done" /\ s'.execs[e].remote = "none"
                        /\ ~s'.execs[e].down =>
                             /\ s'.execs[e].proc \in Procs' /\ s'.procs[s'.execs[e].proc].bp = s'.execs[e].bp
                             /\ s'.execs[e].stop # "done" /\ (s'.execs[e].closing <=> s'.execs[e].stop # "no")
    BY DEF ExecutorsKept
  <2>2. CASE e = n
    BY <1>4, <1>7, <1>8, <2>2 DEF SameButMail
  <2>3. CASE e \in Execs
    <3>1. /\ s.execs[e].down => s.execs[e].closing /\ s.execs[e].stop = "done" /\ s.execs[e].remote = "none"
          /\ ~s.execs[e].down =>
               /\ s.execs[e].proc \in Procs /\ s.procs[s.execs[e].proc].bp = s.execs[e].bp
               /\ s.execs[e].stop # "done" /\ (s.execs[e].closing <=> s.execs[e].stop # "no")
      BY <2>3 DEF Shape, ExecutorsKept
    <3> QED  BY <1>7, <1>8, <2>3, <3>1 DEF SameButMail
  <2> QED  BY <1>7, <2>2, <2>3
<1>13. PoolKept' /\ AgentMapKept' /\ HostsKept' /\ ProcessPoolKept'
  <2>1. PoolKept'
    BY <1>5, <1>7 DEF Shape, PoolKept, Id
  <2>2. AgentMapKept'
    BY <1>5, <1>7 DEF Shape, AgentMapKept
  <2>3. HostsKept'
    <3>1. SUFFICES ASSUME NEW q \in Procs, NEW x \in Agents PROVE HostedBy(q, x)'
      BY <1>7 DEF HostsKept
    <3>2. HostedBy(q, x) /\ s'.procs[q].pool[x] = s.procs[q].pool[x]
      BY <1>8 DEF Shape, HostsKept, SameButMail
    <3> QED  BY <1>7, <3>2 DEF HostedBy
  <2>4. ProcessPoolKept'
    BY <1>6, <1>7, <1>8 DEF Shape, ProcessPoolKept, SameButMail
  <2> QED  BY <2>1, <2>2, <2>3, <2>4
<1>14. Unregistered(n)'
  <2>1. (\A i \in Ids : s'.pool[i] # n) /\ (\A x \in Agents : n \notin s'.agent_map[x])
    BY <1>1, <1>5 DEF Shape, PoolKept, AgentMapKept
  <2>2. \A q \in Procs, x \in Agents : s.procs[q].pool[x] # n
    BY <1>1 DEF Shape, HostsKept, HostedBy
  <2> QED  BY <1>7, <1>8, <2>1, <2>2 DEF Unregistered, SameButMail
<1>15. WaitChanges(a)
  <2>1. StartsExecutor(a)'
    BY <1>4, <1>7, <1>9, <1>14 DEF StartsExecutor, Running
  <2> QED  BY <1>2, <1>9, <2>1 DEF WaitChanges, RunnerKept, Getting, Works, StartsProcess
<1>16. ASSUME NEW x \in Agents \ {a} PROVE WaitStays(x)
  <2>1. runner'[x] = runner[x]
    BY <1>9
  <2>2. ASSUME runner[x].pc = "newExecutor"
        PROVE  s'.execs[runner[x].exec] = s.execs[runner[x].exec] /\ Unregistered(runner[x].exec)'
    <3>1. StartsExecutor(x)
      BY DEF Shape, RunnersKept, RunnerKept
    <3>2. runner[x].exec \in Execs /\ Unregistered(runner[x].exec)
      BY <2>2, <3>1 DEF StartsExecutor
    <3>3. Unregistered(runner[x].exec)'
      BY <1>5, <1>7, <1>8, <2>1, <3>2 DEF Unregistered, SameButMail
    <3> QED  BY <1>7, <3>2, <3>3
  <2>3. ASSUME runner[x].pc = "newProcess" PROVE s'.process_pool[runner[x].bp] = s.process_pool[runner[x].bp]
    <3>1. runner[x].bp \in Blueprints
      BY <2>3, PoolsAssumption DEF Shape, RunnersKept, RunnerKept, Getting
    <3> QED  BY <1>6, <2>3, <3>1
  <2> QED  BY <2>1, <2>2, <2>3 DEF WaitStays
<1>17. RunnersKept'
  BY <1>10, <1>15, <1>16, RunnersStay
<1>18. MailKept'
  <2>1. ASSUME NEW q \in Procs, NEW m \in Mail(s.procs[q].inbox) PROVE Delivers(m, q)' /\ m # Command("init", n)
    <3>1. Delivers(m, q)
      BY DEF Shape, MailKept, MailOf
    <3>2. m.cmd = "init" => m.exec \in Execs
      BY <3>1 DEF Delivers, Pending, Shape, RunnersKept, RunnerKept, StartsExecutor
    <3>3. m # Command("init", n)
      BY <1>1, <3>2 DEF Command
    <3>4. m.cmd = "init" => \A x \in Agents : Pending(x, m.exec) => runner'[x] = runner[x]
      BY <1>9 DEF Pending
    <3>5. m.cmd = "stopfor" => s'.execs[m.exec] = s.execs[m.exec]
      BY <1>7, <3>1 DEF Delivers
    <3> QED  BY <1>10, <3>3, <3>4, <3>5, MailStays
  <2>2. Delivers(Command("init", n), p)'
    BY <1>9 DEF Delivers, Command, Pending
  <2>3. s.procs[p].inbox \in Seq(Commands) /\ Command("init", n) \in Commands
    BY <1>1 DEF Processes, Command, Commands
  <2>4. Mail(s'.procs[p].inbox) = Mail(s.procs[p].inbox) \cup {Command("init", n)} /\ Distinct(s'.procs[p].inbox)
    <3>1. Distinct(s.procs[p].inbox)
      BY DEF Shape, MailKept, MailOf
    <3> QED  BY <1>8, <2>1, <2>3, <3>1, MailAppend
  <2>5. ASSUME NEW q \in Procs
        PROVE  MailOf(q)'
    <3>1. CASE q = p
      BY <1>8, <2>1, <2>2, <2>4, <3>1 DEF Shape, MailKept, MailOf, SameButMail
    <3>2. CASE q # p
      BY <1>8, <2>1, <3>2 DEF Shape, MailKept, MailOf, SameButMail
    <3> QED  BY <3>1, <3>2
  <2> QED  BY <1>7, <2>5 DEF MailKept
<1> QED  BY <1>11, <1>12, <1>13, <1>17, <1>18 DEF Shape

-----------------------------------------------------------------------------
(* Processes that close or end *)

StopCommand == Command("stop", 0)

(* A process gets no other command than the one to stop, and that as it closes. *)
MailShrinks(p) ==
    /\ Distinct(s'.procs[p].inbox)
    /\ Mail(s'.procs[p].inbox) \subseteq Mail(s.procs[p].inbox) \cup {StopCommand}
    /\ StopCommand \in Mail(s'.procs[p].inbox) => s'.procs[p].closing
    /\ s'.procs[p].lost => s'.procs[p].closing /\ s'.procs[p].inbox = <<>> /\ s'.procs[p].os = "dead"
    /\ s'.procs[p].down => s'.procs[p].closing

(* What is left in the mail still finds what it was sent for. *)
MailStaysGood(p) ==
    \A m \in Mail(s.procs[p].inbox) \cap Mail(s'.procs[p].inbox) :
        /\ m.cmd = "init" => \A a \in Agents : Pending(a, m.exec) => runner'[a] = runner[a]
        /\ m.cmd = "stopfor" => s'.execs[m.exec].stop = "sent" /\ s'.execs[m.exec].proc = s.execs[m.exec].proc

(* Mail that shrinks stays good. *)
LEMMA MailShrinksWell ==
    ASSUME Shape, ObjectsStay, NEW p \in Procs, MailShrinks(p), MailStaysGood(p)
    PROVE  MailOf(p)'
<1>1. ASSUME NEW m \in Mail(s'.procs[p].inbox) PROVE Delivers(m, p)'
  <2>1. CASE m = StopCommand
    BY <2>1 DEF MailShrinks, Delivers, StopCommand, Command
  <2>2. CASE m # StopCommand
    <3>1. m \in Mail(s.procs[p].inbox)
      BY <2>2 DEF MailShrinks
    <3>2. Delivers(m, p)
      BY <3>1 DEF Shape, MailKept, MailOf
    <3>3. m.cmd = "init" => \E a \in Agents : Pending(a, m.exec)' /\ runner'[a].proc = p
      BY <3>1, <3>2 DEF Delivers, Pending, MailStaysGood
    <3>4. m.cmd = "stopfor" => m.exec \in Execs' /\ s'.execs[m.exec].proc = p /\ s'.execs[m.exec].stop = "sent"
      BY <3>1, <3>2 DEF Delivers, MailStaysGood, ObjectsStay
    <3>5. m.cmd = "stop" => m.exec = 0 /\ s'.procs[p].closing
      BY <3>2 DEF Delivers, ObjectsStay
    <3> QED  BY <3>3, <3>4, <3>5 DEF Delivers
  <2> QED  BY <2>1, <2>2
<1> QED  BY <1>1 DEF MailOf, MailShrinks

(* Only processes change, and which of them are in the pool. *)
LEMMA ProcessesKeepShape ==
    ASSUME Shape, s' \in Pools, s'.execs = s.execs, s'.pool = s.pool, s'.agent_map = s.agent_map, Procs' = Procs,
           \A b \in Blueprints : s'.process_pool[b] \in {s.process_pool[b], 0},
           \A p \in Procs : /\ s'.procs[p].bp = s.procs[p].bp /\ s'.procs[p].pool = s.procs[p].pool
                            /\ s.procs[p].closing => s'.procs[p].closing
                            /\ MailShrinks(p),
           runner' \in [Agents -> Waits], PhaseOK',
           \A a \in Agents : runner'[a] = runner[a] \/ (runner[a].pc # "newExecutor" /\ WaitChanges(a))
    PROVE  Shape'
<1>1. TypeOK' /\ Execs' = Execs
  BY DEF TypeOK, PhaseOK, Execs
<1>2. ExecutorsKept' /\ PoolKept' /\ AgentMapKept' /\ HostsKept'
  <2>1. ExecutorsKept'
    BY <1>1 DEF Shape, ExecutorsKept
  <2>2. PoolKept' /\ AgentMapKept'
    BY <1>1 DEF Shape, PoolKept, AgentMapKept, Id
  <2>3. HostsKept'
    BY <1>1 DEF Shape, HostsKept, HostedBy
  <2> QED  BY <2>1, <2>2, <2>3
<1>3. ProcessPoolKept'
  BY DEF Shape, ProcessPoolKept
<1>4. ObjectsStay
  BY <1>1 DEF ObjectsStay, Shape, ExecutorsKept
<1>5. ASSUME NEW a \in Agents, runner'[a] = runner[a] PROVE WaitStays(a)
  <2>1. ASSUME runner[a].pc = "newExecutor" PROVE Unregistered(runner[a].exec)'
    <3>1. Unregistered(runner[a].exec)
      BY <2>1 DEF Shape, RunnersKept, RunnerKept, StartsExecutor
    <3> QED  BY <1>5, <3>1 DEF Unregistered
  <2>2. runner[a].pc = "newProcess" => runner[a].bp \in Blueprints
    BY PoolsAssumption DEF Shape, RunnersKept, RunnerKept, Getting
  <2> QED  BY <1>5, <2>1, <2>2 DEF WaitStays
<1>6. RunnersKept'
  BY <1>4, <1>5, RunnersStay
<1>7. ASSUME NEW p \in Procs PROVE MailOf(p)'
  <2>1. MailStaysGood(p)
    <3>1. SUFFICES ASSUME NEW m \in Mail(s.procs[p].inbox)
                   PROVE  /\ m.cmd = "init" => \A a \in Agents : Pending(a, m.exec) => runner'[a] = runner[a]
                          /\ m.cmd = "stopfor" => s.execs[m.exec].stop = "sent"
      BY DEF MailStaysGood
    <3>2. Delivers(m, p)
      BY DEF Shape, MailKept, MailOf
    <3> QED  BY <3>2 DEF Delivers, Pending
  <2> QED  BY <1>4, <2>1, MailShrinksWell
<1> QED  BY <1>1, <1>2, <1>3, <1>6, <1>7 DEF Shape, MailKept

(* MPProcess.request_shutdown sends one stop command, when it was not closing. *)
Closed(proc, left) ==
    /\ left \in Processes /\ left.closing
    /\ left.bp = proc.bp /\ left.pool = proc.pool /\ left.lost = proc.lost /\ left.os = proc.os /\ left.down = proc.down
    /\ Distinct(left.inbox) /\ Mail(left.inbox) \subseteq Mail(proc.inbox) \cup {StopCommand}
    /\ proc.closing => left = proc

(* close_process does what Closed says. *)
LEMMA CloseProcessKept ==
    ASSUME NEW proc \in Processes, Distinct(proc.inbox), StopCommand \in Mail(proc.inbox) => proc.closing
    PROVE  Closed(proc, close_process(proc))
<1>1. CASE proc.closing
  BY <1>1 DEF close_process, Closed
<1>2. CASE ~proc.closing
  <2>1. StopCommand \in Commands /\ proc.inbox \in Seq(Commands)
    BY DEF StopCommand, Command, Commands, Processes
  <2>2. PICK q \in Seq(Commands) : q = Append(proc.inbox, StopCommand)
    BY <2>1, MailAppend
  <2>3. Distinct(q) /\ Mail(q) = Mail(proc.inbox) \cup {StopCommand}
    BY <1>2, <2>1, <2>2, MailAppend
  <2>4. close_process(proc) = [proc EXCEPT !.closing = TRUE, !.inbox = q]
    BY <1>2, <2>2 DEF close_process, StopCommand
  <2> QED  BY <1>2, <2>3, <2>4 DEF Closed, Processes
<1> QED  BY <1>1, <1>2

(* A process in the model can be closed. *)
LEMMA CloseProcessOf ==
    ASSUME Shape, NEW p \in Procs
    PROVE  s.procs[p] \in Processes /\ Closed(s.procs[p], close_process(s.procs[p]))
<1>1. s.procs[p] \in Processes
  BY DEF Shape, TypeOK, Pools, Procs
<1>2. Distinct(s.procs[p].inbox) /\ (StopCommand \in Mail(s.procs[p].inbox) => s.procs[p].closing)
  BY DEF Shape, MailKept, MailOf, Delivers, StopCommand, Command
<1> QED  BY <1>1, <1>2, CloseProcessKept

(* What closing does to the mail. *)
LEMMA ClosedShrinks ==
    ASSUME Shape, NEW p \in Procs, Closed(s.procs[p], s'.procs[p]) \/ s'.procs[p] = s.procs[p]
    PROVE  /\ s'.procs[p].bp = s.procs[p].bp /\ s'.procs[p].pool = s.procs[p].pool
           /\ s.procs[p].closing => s'.procs[p].closing
           /\ MailShrinks(p)
<1>1. MailOf(p)
  BY DEF Shape, MailKept
<1>2. StopCommand \in Mail(s.procs[p].inbox) => s.procs[p].closing
  BY <1>1 DEF MailOf, Delivers, StopCommand, Command
<1>3. CASE Closed(s.procs[p], s'.procs[p])
  BY <1>1, <1>3 DEF Closed, MailShrinks, MailOf
<1>4. CASE s'.procs[p] = s.procs[p]
  BY <1>1, <1>2, <1>4 DEF MailShrinks, MailOf
<1> QED  BY <1>3, <1>4

(* Some processes are asked to stop. *)
ClosesProcesses(S) ==
    s' = [s EXCEPT !.procs = [p \in Procs |-> IF p \in S THEN close_process(s.procs[p]) ELSE s.procs[p]]]

(* The processes in S are closed, and nothing else changes. *)
LEMMA ClosesProcessesEffect ==
    ASSUME Shape, NEW S \in SUBSET Procs, ClosesProcesses(S)
    PROVE  /\ s' \in Pools /\ s'.execs = s.execs /\ s'.pool = s.pool /\ s'.agent_map = s.agent_map
           /\ s'.process_pool = s.process_pool /\ Procs' = Procs
           /\ \A p \in Procs : /\ p \in S => Closed(s.procs[p], s'.procs[p])
                               /\ p \notin S => s'.procs[p] = s.procs[p]
<1> DEFINE Q == [p \in Procs |-> IF p \in S THEN close_process(s.procs[p]) ELSE s.procs[p]]
<1>1. s \in Pools /\ Len(s.procs) \in Nat /\ Procs = 1..Len(s.procs)
  BY DEF Shape, TypeOK, Pools, Procs
<1>2. \A p \in Procs : s.procs[p] \in Processes /\ close_process(s.procs[p]) \in Processes
                       /\ Closed(s.procs[p], close_process(s.procs[p]))
  BY CloseProcessOf DEF Closed
<1>3. \A p \in Procs : Q[p] \in Processes /\ (p \in S => Closed(s.procs[p], Q[p])) /\ (p \notin S => Q[p] = s.procs[p])
  BY <1>2
<1>4. s' = [s EXCEPT !.procs = Q]
  BY DEF ClosesProcesses
<1>5. Q \in [1..Len(s.procs) -> Processes]
  BY <1>1, <1>3
<1> HIDE DEF Q
<1>6. Q \in Seq(Processes) /\ Len(Q) = Len(s.procs)
  BY <1>1, <1>5, IsASeq, LenProperties
<1> QED  BY <1>1, <1>3, <1>4, <1>6 DEF Pools, Procs

(* Closing processes is no matter to the executors in them. *)
LEMMA ClosingProcessesKeepsShape ==
    ASSUME Shape, NEW S \in SUBSET Procs, ClosesProcesses(S), PhaseOK', runner' \in [Agents -> Waits],
           \A a \in Agents : runner'[a] = runner[a] \/ (runner[a].pc # "newExecutor" /\ WaitChanges(a))
    PROVE  Shape'
<1>1. /\ s' \in Pools /\ s'.execs = s.execs /\ s'.pool = s.pool /\ s'.agent_map = s.agent_map
      /\ s'.process_pool = s.process_pool /\ Procs' = Procs
      /\ \A p \in Procs : Closed(s.procs[p], s'.procs[p]) \/ s'.procs[p] = s.procs[p]
  BY ClosesProcessesEffect
<1>2. ASSUME NEW p \in Procs
      PROVE  /\ s'.procs[p].bp = s.procs[p].bp /\ s'.procs[p].pool = s.procs[p].pool
             /\ s.procs[p].closing => s'.procs[p].closing
             /\ MailShrinks(p)
  BY <1>1, ClosedShrinks
<1> QED  BY <1>1, <1>2, ProcessesKeepShape

(* A runner that gives up waits for nothing. *)
LEMMA FailEffect ==
    ASSUME Shape, NEW a \in Agents, Fail(a)
    PROVE  /\ runner' \in [Agents -> Waits] /\ runner'[a] = Idle /\ WaitChanges(a)
           /\ \A x \in Agents : x # a => runner'[x] = runner[x]
<1>1. runner \in [Agents -> Waits] /\ Idle \in Waits
  BY DEF Shape, TypeOK, Waits, Idle
<1>2. runner' = [runner EXCEPT ![a] = Idle]
  BY DEF Fail
<1>3. runner' \in [Agents -> Waits] /\ runner'[a] = Idle /\ \A x \in Agents : x # a => runner'[x] = runner[x]
  BY <1>1, <1>2
<1>4. WaitChanges(a)
  BY <1>3 DEF WaitChanges, RunnerKept, Getting, Works, StartsProcess, StartsExecutor, Idle
<1> QED  BY <1>3, <1>4

(* Several processes are closed. *)
LEMMA ClosingProcessesFades ==
    ASSUME Shape, NEW S \in SUBSET Procs, ClosesProcesses(S), \A a \in Agents : RunnerFades(a)
    PROVE  Fades
<1>1. /\ s'.execs = s.execs /\ s'.pool = s.pool /\ s'.agent_map = s.agent_map
      /\ s'.process_pool = s.process_pool /\ Procs' = Procs
      /\ \A p \in Procs : Closed(s.procs[p], s'.procs[p]) \/ s'.procs[p] = s.procs[p]
  BY ClosesProcessesEffect
<1>2. \A p \in Procs : /\ s'.procs[p].bp = s.procs[p].bp /\ s'.procs[p].pool = s.procs[p].pool
                       /\ s.procs[p].closing => s'.procs[p].closing
  BY <1>1 DEF Closed
<1> QED  BY <1>1, <1>2, ProcessesFade

(* A process that could not be used is closed. *)
LEMMA ProcessFailsKeepsShape ==
    ASSUME Shape, NEW a \in Agents, ProcessFails(a) PROVE Shape' /\ Fades
<1>1. /\ runner[a].pc = "newProcess" /\ Fail(a) /\ PhaseOK'
      /\ s' = [s EXCEPT !.procs[runner[a].proc] = close_process(@)]
  BY DEF ProcessFails, Shape, TypeOK, PhaseOK
<1>2. PICK p \in Procs : p = runner[a].proc
  BY <1>1 DEF Shape, RunnersKept, RunnerKept, StartsProcess
<1>3. ClosesProcesses({p})
  <2>1. s.procs \in Seq(Processes) /\ s \in Pools
    BY DEF Shape, TypeOK, Pools
  <2>2. [s.procs EXCEPT ![p] = close_process(s.procs[p])]
          = [q \in Procs |-> IF q \in {p} THEN close_process(s.procs[q]) ELSE s.procs[q]]
    BY <2>1 DEF Procs
  <2> QED  BY <1>1, <1>2, <2>1, <2>2 DEF ClosesProcesses, Pools
<1>4. /\ runner' \in [Agents -> Waits] /\ WaitChanges(a) /\ runner'[a] = Idle
      /\ \A x \in Agents : x # a => runner'[x] = runner[x]
  BY <1>1, FailEffect
<1>5. s'.procs[p].closing
  <2>1. Closed(s.procs[p], s'.procs[p])
    BY <1>3, ClosesProcessesEffect
  <2> QED  BY <2>1 DEF Closed
<1>6. \A x \in Agents : RunnerFades(x)
  BY <1>1, <1>2, <1>4, <1>5 DEF RunnerFades, Idle
<1>7. Shape'
  BY <1>1, <1>3, <1>4, ClosingProcessesKeepsShape
<1> QED  BY <1>3, <1>6, <1>7, ClosingProcessesFades

(* The processes in the pool are closed when the pool stops. *)
LEMMA StopPoolKeepsShape ==
    ASSUME Shape, StopPool PROVE Shape' /\ Fades
<1> DEFINE S == {p \in Procs : s.process_pool[s.procs[p].bp] = p}
<1>1. /\ s' = [s EXCEPT !.procs = [p \in Procs |-> IF s.process_pool[s.procs[p].bp] = p
                                                  THEN close_process(s.procs[p]) ELSE s.procs[p]]]
      /\ phase' = "poolStopped" /\ UNCHANGED <<runner, crashes>>
  BY DEF StopPool
<1>2. ClosesProcesses(S)
  BY <1>1 DEF ClosesProcesses
<1>3. PhaseOK' /\ runner' \in [Agents -> Waits] /\ runner' = runner
  BY <1>1 DEF Shape, TypeOK, PhaseOK
<1>4. \A a \in Agents : RunnerFades(a)
  BY <1>3 DEF RunnerFades
<1> QED  BY <1>2, <1>3, <1>4, ClosingProcessesKeepsShape, ClosingProcessesFades

(* One process changes, and nothing else of the pools but its place in the pool. *)
ChangesProcess(p, P) ==
    /\ s' \in Pools /\ s'.execs = s.execs /\ s'.pool = s.pool /\ s'.agent_map = s.agent_map
    /\ Procs' = Procs /\ s'.procs[p] = P
    /\ \A q \in Procs : q # p => s'.procs[q] = s.procs[q]

(* The process p is replaced by P. *)
LEMMA OneProcess ==
    ASSUME Shape, NEW p \in Procs, NEW P \in Processes, s' = [s EXCEPT !.procs[p] = P]
    PROVE  ChangesProcess(p, P) /\ s'.process_pool = s.process_pool
<1>1. s \in Pools /\ s.procs \in Seq(Processes) /\ p \in 1..Len(s.procs)
  BY DEF Shape, TypeOK, Pools, Procs
<1>2. PICK Q \in Seq(Processes) : Q = [s.procs EXCEPT ![p] = P]
  BY <1>1, ExceptSeq
<1>3. Len(Q) = Len(s.procs) /\ Q[p] = P /\ \A q \in 1..Len(s.procs) : q # p => Q[q] = s.procs[q]
  BY <1>1, <1>2, ExceptSeq
<1>4. s' = [s EXCEPT !.procs = Q]
  BY <1>2
<1> QED  BY <1>1, <1>3, <1>4 DEF ChangesProcess, Pools, Procs

(* A process that only ends, or closes, is no matter to the executors in it. *)
LEMMA OneProcessKeepsShape ==
    ASSUME Shape, NEW p \in Procs, NEW P \in Processes, ChangesProcess(p, P),
           \A b \in Blueprints : s'.process_pool[b] \in {s.process_pool[b], 0},
           P.bp = s.procs[p].bp, P.pool = s.procs[p].pool, s.procs[p].closing => P.closing,
           P.inbox = s.procs[p].inbox \/ P.inbox = <<>>,
           P.lost => s.procs[p].lost, s.procs[p].lost => P.os = "dead", P.down => P.closing,
           runner' \in [Agents -> Waits], PhaseOK',
           \A a \in Agents : runner'[a] = runner[a] \/ (runner[a].pc # "newExecutor" /\ WaitChanges(a))
    PROVE  Shape'
<1>1. /\ s' \in Pools /\ s'.execs = s.execs /\ s'.pool = s.pool /\ s'.agent_map = s.agent_map
      /\ Procs' = Procs /\ s'.procs[p] = P
      /\ \A q \in Procs : q # p => s'.procs[q] = s.procs[q]
  BY DEF ChangesProcess
<1>2. ASSUME NEW q \in Procs
      PROVE  /\ s'.procs[q].bp = s.procs[q].bp /\ s'.procs[q].pool = s.procs[q].pool
             /\ s.procs[q].closing => s'.procs[q].closing
             /\ MailShrinks(q)
  <2>1. CASE q # p
    BY <1>1, <2>1, ClosedShrinks
  <2>2. CASE q = p
    <3>1. MailOf(p) /\ (StopCommand \in Mail(s.procs[p].inbox) => s.procs[p].closing)
      BY DEF Shape, MailKept, MailOf, Delivers, StopCommand, Command
    <3>2. Distinct(P.inbox) /\ Mail(P.inbox) \subseteq Mail(s.procs[p].inbox)
      <4>1. CASE P.inbox = <<>>
        <5>1. Mail(P.inbox) = {} /\ Distinct(P.inbox)
          BY <4>1 DEF Mail, Distinct
        <5> QED  BY <5>1
      <4>2. CASE P.inbox = s.procs[p].inbox
        BY <3>1, <4>2 DEF MailOf
      <4> QED  BY <4>1, <4>2
    <3>3. s.procs[p].lost => s.procs[p].closing /\ s.procs[p].inbox = <<>>
      BY <3>1 DEF MailOf
    <3> QED  BY <1>1, <2>2, <3>1, <3>2, <3>3 DEF MailShrinks
  <2> QED  BY <2>1, <2>2
<1> QED  BY <1>1, <1>2, ProcessesKeepShape

(* One process changes, and leaves the pool only when it closes. *)
LEMMA OneProcessFades ==
    ASSUME Shape, NEW p \in Procs, NEW P \in Processes, ChangesProcess(p, P),
           \A b \in Blueprints : \/ s'.process_pool[b] = s.process_pool[b]
                                 \/ s'.process_pool[b] = 0 /\ s.process_pool[b] = p /\ P.closing,
           P.bp = s.procs[p].bp, P.pool = s.procs[p].pool, s.procs[p].closing => P.closing,
           \A a \in Agents : RunnerFades(a)
    PROVE  Fades
<1>1. /\ s'.execs = s.execs /\ s'.pool = s.pool /\ s'.agent_map = s.agent_map
      /\ Procs' = Procs /\ s'.procs[p] = P
      /\ \A q \in Procs : q # p => s'.procs[q] = s.procs[q]
  BY DEF ChangesProcess
<1>2. \A q \in Procs : /\ s'.procs[q].bp = s.procs[q].bp /\ s'.procs[q].pool = s.procs[q].pool
                       /\ s.procs[q].closing => s'.procs[q].closing
  BY <1>1
<1> QED  BY <1>1, <1>2, ProcessesFade

(* A task is done with its executor, and with it the call to the process. *)
LEMMA CallReturnsKeepsShape ==
    ASSUME Shape, NEW a \in Agents, CallReturns(a) PROVE Shape' /\ Fades
<1>1. runner[a].pc = "executing" /\ Fail(a) /\ PhaseOK'
  BY DEF CallReturns, Shape, TypeOK, PhaseOK
<1>2. /\ runner' \in [Agents -> Waits] /\ WaitChanges(a) /\ runner'[a] = Idle
      /\ \A x \in Agents : x # a => runner'[x] = runner[x]
  BY <1>1, FailEffect
<1>3. \A x \in Agents : RunnerFades(x)
  BY <1>1, <1>2 DEF RunnerFades, Idle
<1>4. CASE s.execs[runner[a].exec].down /\ UNCHANGED s
  <2>1. s' \in Pools /\ PoolKept' /\ AgentMapKept' /\ ProcessPoolKept'
    BY <1>4 DEF Shape, TypeOK, PoolKept, AgentMapKept, ProcessPoolKept, Id, Execs, Procs
  <2>2. ASSUME NEW x \in Agents, runner'[x] = runner[x] PROVE WaitStays(x)
    <3>1. runner[x].pc = "newExecutor" => Unregistered(runner[x].exec)
      BY DEF Shape, RunnersKept, RunnerKept, StartsExecutor
    <3> QED  BY <1>4, <2>2, <3>1 DEF WaitStays, Unregistered, Procs
  <2>3. Shape'
    BY <1>1, <1>2, <1>4, <2>1, <2>2, CachesKeepShape
  <2> QED  BY <1>4, <1>3, <2>3, UnchangedFades
<1>5. CASE ~s.execs[runner[a].exec].down
             /\ s' = [s EXCEPT !.procs[s.execs[runner[a].exec].proc].busy = @ \ {runner[a].exec}]
  <2>1. PICK p \in Procs : p = s.execs[runner[a].exec].proc
    BY <1>1, <1>5 DEF Shape, RunnersKept, RunnerKept, Works, ExecutorsKept
  <2>2. s.procs[p] \in Processes
    BY DEF Shape, TypeOK, Pools, Procs
  <2>3. PICK P \in Processes : P = [s.procs[p] EXCEPT !.busy = @ \ {runner[a].exec}]
    BY <2>2 DEF Processes
  <2>4. s' = [s EXCEPT !.procs[p] = P]
    BY <1>5, <2>1, <2>3
  <2>5. /\ P.bp = s.procs[p].bp /\ P.pool = s.procs[p].pool /\ P.closing = s.procs[p].closing
        /\ P.inbox = s.procs[p].inbox /\ P.lost = s.procs[p].lost /\ P.os = s.procs[p].os /\ P.down = s.procs[p].down
    BY <2>2, <2>3 DEF Processes
  <2>6. (s.procs[p].lost => s.procs[p].os = "dead") /\ (s.procs[p].down => s.procs[p].closing)
    BY DEF Shape, MailKept, MailOf
  <2>7. ChangesProcess(p, P) /\ s'.process_pool = s.process_pool
    BY <2>4, OneProcess
  <2>8. Shape'
    BY <1>1, <1>2, <2>5, <2>6, <2>7, OneProcessKeepsShape
  <2>9. Fades
    BY <1>3, <2>5, <2>7, OneProcessFades
  <2> QED  BY <2>8, <2>9
<1> QED  BY <1>4, <1>5 DEF CallReturns

(* The child ends, with or without being told to. *)
EndsChild(p) == s' = [s EXCEPT !.procs[p].os = "dead"]

(* The end of the child alone changes no object. *)
LEMMA EndsChildKeepsShape ==
    ASSUME Shape, NEW p \in Procs, EndsChild(p), runner' = runner, PhaseOK' PROVE Shape' /\ Fades
<1> DEFINE P == [s.procs[p] EXCEPT !.os = "dead"]
<1>1. s.procs[p] \in Processes
  BY DEF Shape, TypeOK, Pools, Procs
<1>2. P \in Processes /\ s' = [s EXCEPT !.procs[p] = P]
  BY <1>1 DEF Processes, EndsChild
<1>3. /\ P.bp = s.procs[p].bp /\ P.pool = s.procs[p].pool /\ P.closing = s.procs[p].closing
      /\ P.inbox = s.procs[p].inbox /\ P.lost = s.procs[p].lost /\ P.os = "dead" /\ P.down = s.procs[p].down
  BY <1>1 DEF Processes
<1>4. s.procs[p].down => s.procs[p].closing
  BY DEF Shape, MailKept, MailOf
<1> HIDE DEF P
<1>5. ChangesProcess(p, P) /\ s'.process_pool = s.process_pool
  BY <1>2, OneProcess
<1>6. runner' \in [Agents -> Waits]
  BY DEF Shape, TypeOK
<1>7. \A a \in Agents : RunnerFades(a)
  BY DEF RunnerFades
<1>8. Shape'
  BY <1>2, <1>3, <1>4, <1>5, <1>6, OneProcessKeepsShape
<1>9. Fades
  BY <1>2, <1>3, <1>5, <1>7, OneProcessFades
<1> QED  BY <1>8, <1>9

(* MPProcess.set_shutdown *)
DownProcess(p) ==
    [s.procs[p] EXCEPT !.closing = TRUE, !.down = TRUE, !.os = "dead", !.inbox = <<>>, !.busy = {}]

(* The process is down, and in the pool no more. *)
LEMMA ProcessDownEffect ==
    ASSUME Shape, NEW p \in Procs, s' = process_down(s, p)
    PROVE  /\ DownProcess(p) \in Processes /\ ChangesProcess(p, DownProcess(p))
           /\ \A b \in Blueprints : s'.process_pool[b] = IF s.process_pool[b] = p THEN 0 ELSE s.process_pool[b]
<1>1. s \in Pools /\ s.procs[p] \in Processes /\ s.procs[p].bp \in Blueprints /\ 0 \in Nat
  <2>1. s \in Pools /\ s.procs[p] \in Processes
    BY DEF Shape, TypeOK, Pools, Procs
  <2> QED  BY <2>1 DEF Processes
<1>2. PICK P \in Processes : P = DownProcess(p)
  <2>1. <<>> \in Seq(Commands)
    BY EmptySeq
  <2> QED  BY <1>1, <2>1 DEF Processes, DownProcess
<1>3. PICK b \in Blueprints : b = s.procs[p].bp
  BY <1>1
<1>4. PICK f \in [Blueprints -> Nat] : f = [s.process_pool EXCEPT ![b] = Without(@, p)]
  BY <1>1 DEF Pools, Without
<1>5. \A x \in Blueprints : f[x] = IF s.process_pool[x] = p THEN 0 ELSE s.process_pool[x]
  <2>1. \A x \in Blueprints : s.process_pool[x] = p => x = b
    BY <1>3 DEF Shape, ProcessPoolKept, Procs
  <2>2. f[b] = IF s.process_pool[b] = p THEN 0 ELSE s.process_pool[b]
    BY <1>1, <1>4 DEF Pools, Without, is_registered
  <2> QED  BY <1>1, <1>4, <2>1, <2>2 DEF Pools
<1>6. s' = [s EXCEPT !.procs[p] = P, !.process_pool = f]
  BY <1>2, <1>3, <1>4 DEF process_down, DownProcess
<1>7. s.procs \in Seq(Processes) /\ p \in 1..Len(s.procs)
  BY <1>1 DEF Pools, Procs
<1>8. PICK Q \in Seq(Processes) : Q = [s.procs EXCEPT ![p] = P]
  BY <1>7, ExceptSeq
<1>9. Len(Q) = Len(s.procs) /\ Q[p] = P /\ \A q \in 1..Len(s.procs) : q # p => Q[q] = s.procs[q]
  BY <1>7, <1>8, ExceptSeq
<1>10. s' = [s EXCEPT !.procs = Q, !.process_pool = f]
  BY <1>6, <1>8
<1>11. ChangesProcess(p, P) /\ s'.process_pool = f
  BY <1>1, <1>9, <1>10 DEF ChangesProcess, Pools, Procs
<1> QED  BY <1>2, <1>5, <1>11

(* A process goes down on its own. *)
LEMMA ProcessDownKeepsShape ==
    ASSUME Shape, NEW p \in Procs, s' = process_down(s, p), runner' = runner, PhaseOK' PROVE Shape' /\ Fades
<1>1. /\ DownProcess(p) \in Processes /\ ChangesProcess(p, DownProcess(p))
      /\ \A b \in Blueprints : s'.process_pool[b] = s.process_pool[b] \/ (s'.process_pool[b] = 0 /\ s.process_pool[b] = p)
  BY ProcessDownEffect
<1>2. s.procs[p] \in Processes
  BY DEF Shape, TypeOK, Pools, Procs
<1>3. PICK P \in Processes : P = DownProcess(p)
  BY <1>1
<1>4. /\ P.bp = s.procs[p].bp /\ P.pool = s.procs[p].pool /\ P.closing
      /\ P.inbox = <<>> /\ P.lost = s.procs[p].lost /\ P.os = "dead"
  BY <1>2, <1>3 DEF Processes, DownProcess
<1>5. runner' \in [Agents -> Waits]
  BY DEF Shape, TypeOK
<1>6. \A a \in Agents : RunnerFades(a)
  BY DEF RunnerFades
<1>7. Shape'
  BY <1>1, <1>3, <1>4, <1>5, OneProcessKeepsShape
<1>8. Fades
  BY <1>1, <1>3, <1>4, <1>6, OneProcessFades
<1> QED  BY <1>7, <1>8

-----------------------------------------------------------------------------
(* Executors that go down *)

(* They leave the pools, or they stay there under their own name.             *)
TakesDown(gone) ==
    /\ s' \in Pools /\ Execs' = Execs /\ Procs' = Procs /\ s'.process_pool = s.process_pool
    /\ \A e \in Execs \ gone : s'.execs[e] = s.execs[e]
    /\ \A e \in gone : /\ s'.execs[e].closing /\ s'.execs[e].down
                       /\ s'.execs[e].stop = "done" /\ s'.execs[e].remote = "none"
    /\ \A i \in Ids : \/ s'.pool[i] = 0 /\ s.pool[i] \in gone
                      \/ s'.pool[i] = s.pool[i] /\ (s.pool[i] \in gone => Id(s', s.pool[i]) = i)
    /\ \A a \in Agents : /\ s'.agent_map[a] \subseteq s.agent_map[a]
                         /\ s.agent_map[a] \ gone \subseteq s'.agent_map[a]
                         /\ \A e \in s'.agent_map[a] \cap gone : s'.execs[e].agent = a
    /\ \A p \in Procs : /\ s'.procs[p].bp = s.procs[p].bp
                        /\ s.procs[p].closing => s'.procs[p].closing
                        /\ \A a \in Agents : s'.procs[p].pool[a] =
                              IF s.procs[p].pool[a] \in gone THEN 0 ELSE s.procs[p].pool[a]

(* Processes they leave are closing, or hold others. *)
LEMMA TakesDownFades ==
    ASSUME Shape, NEW gone \in SUBSET Execs, TakesDown(gone),
           \A p \in Procs : s'.procs[p].closing \/ ~is_empty(s'.procs[p]) \/ s'.procs[p].pool = s.procs[p].pool,
           \A a \in Agents : RunnerFades(a)
    PROVE  Fades
<1>1. ASSUME NEW e \in Execs PROVE ExecutorFades(e)
  <2>1. CASE e \in gone
    BY <2>1 DEF TakesDown, ExecutorFades
  <2>2. CASE e \notin gone
    <3>1. s'.execs[e] = s.execs[e] /\ s.execs[e] \in Executors
      BY <2>2 DEF TakesDown, Shape, TypeOK, Pools, Execs
    <3>2. CASE s.execs[e].down
      BY <3>1, <3>2 DEF ExecutorFades, Shape, ExecutorsKept
    <3>3. CASE ~s.execs[e].down
      <4>1. Id(s, e) \in Ids /\ s.execs[e].agent \in Agents /\ s.execs[e].proc \in Procs
        BY <3>1, <3>3 DEF Executors, Id, Shape, ExecutorsKept
      <4>2. s.pool[Id(s, e)] = e => s'.pool[Id(s, e)] = e
        BY <2>2, <4>1 DEF TakesDown
      <4>3. e \in s.agent_map[s.execs[e].agent] => e \in s'.agent_map[s.execs[e].agent]
        BY <2>2, <4>1 DEF TakesDown
      <4>4. s.procs[s.execs[e].proc].pool[s.execs[e].agent] = e => s'.procs[s.execs[e].proc].pool[s.execs[e].agent] = e
        BY <2>2, <4>1, SMTT(30) DEF TakesDown
      <4> QED  BY <3>1, <3>3, <4>2, <4>3, <4>4 DEF ExecutorFades
    <3> QED  BY <3>2, <3>3
  <2> QED  BY <2>1, <2>2
<1>2. ASSUME NEW p \in Procs PROVE ProcessFades(p)
  <2>1. s'.process_pool = s.process_pool /\ s'.procs[p].bp = s.procs[p].bp /\ (s.procs[p].closing => s'.procs[p].closing)
    BY DEF TakesDown
  <2> QED  BY <2>1 DEF ProcessFades, is_empty
<1> QED  BY <1>1, <1>2 DEF Fades, TakesDown

(* The other members of the pools do not notice. *)
LEMMA TakesDownKeepsShape ==
    ASSUME Shape, NEW gone \in SUBSET Execs, TakesDown(gone),
           runner' \in [Agents -> Waits], PhaseOK',
           \A a \in Agents : \/ WaitChanges(a)
                             \/ runner'[a] = runner[a] /\ (runner[a].pc = "newExecutor" => runner[a].exec \notin gone),
           \A p \in Procs : MailShrinks(p) /\ MailStaysGood(p)
    PROVE  Shape'
<1>1. /\ s' \in Pools /\ Execs' = Execs /\ Procs' = Procs /\ s'.process_pool = s.process_pool
      /\ \A e \in Execs \ gone : s'.execs[e] = s.execs[e]
      /\ \A e \in gone : s'.execs[e].closing /\ s'.execs[e].down /\ s'.execs[e].stop = "done" /\ s'.execs[e].remote = "none"
  BY DEF TakesDown
<1>2. \A p \in Procs : s'.procs[p].bp = s.procs[p].bp /\ (s.procs[p].closing => s'.procs[p].closing)
  BY DEF TakesDown
<1>3. 0 \notin Execs
  BY DEF Execs
<1>4. TypeOK'
  BY <1>1 DEF TypeOK, PhaseOK
<1>5. ObjectsStay
  BY <1>1, <1>2 DEF ObjectsStay, Shape, ExecutorsKept
<1>6. ExecutorsKept'
  <2>1. SUFFICES ASSUME NEW e \in Execs
                 PROVE  /\ s'.execs[e].down => s'.execs[e].closing /\ s'.execs[e].stop = "done" /\ s'.execs[e].remote = "none"
                        /\ ~s'.execs[e].down =>
                             /\ s'.execs[e].proc \in Procs /\ s'.procs[s'.execs[e].proc].bp = s'.execs[e].bp
                             /\ s'.execs[e].stop # "done" /\ (s'.execs[e].closing <=> s'.execs[e].stop # "no")
    BY <1>1 DEF ExecutorsKept
  <2>2. CASE e \in gone
    BY <1>1, <2>2
  <2>3. CASE e \notin gone
    <3>1. /\ s.execs[e].down => s.execs[e].closing /\ s.execs[e].stop = "done" /\ s.execs[e].remote = "none"
          /\ ~s.execs[e].down =>
               /\ s.execs[e].proc \in Procs /\ s.procs[s.execs[e].proc].bp = s.execs[e].bp
               /\ s.execs[e].stop # "done" /\ (s.execs[e].closing <=> s.execs[e].stop # "no")
      BY DEF Shape, ExecutorsKept
    <3> QED  BY <1>1, <1>2, <2>3, <3>1
  <2> QED  BY <2>2, <2>3
<1>7. PoolKept'
  <2>1. SUFFICES ASSUME NEW i \in Ids, s'.pool[i] # 0 PROVE s'.pool[i] \in Execs /\ Id(s', s'.pool[i]) = i
    BY <1>1 DEF PoolKept, Id
  <2>2. s'.pool[i] = s.pool[i] /\ (s.pool[i] \in gone => Id(s', s.pool[i]) = i)
    BY <2>1 DEF TakesDown
  <2>3. s.pool[i] \in Execs /\ Id(s, s.pool[i]) = i
    BY <2>1, <2>2 DEF Shape, PoolKept
  <2>4. s.pool[i] \notin gone => Id(s', s.pool[i]) = i
    BY <1>1, <2>3 DEF Id
  <2> QED  BY <2>2, <2>3, <2>4
<1>8. AgentMapKept'
  <2>1. SUFFICES ASSUME NEW a \in Agents, NEW e \in s'.agent_map[a] PROVE e \in Execs /\ s'.execs[e].agent = a
    BY <1>1 DEF AgentMapKept
  <2>2. e \in s.agent_map[a] /\ (e \in gone => s'.execs[e].agent = a)
    BY DEF TakesDown
  <2>3. e \in Execs /\ s.execs[e].agent = a
    BY <2>2 DEF Shape, AgentMapKept
  <2> QED  BY <1>1, <2>2, <2>3
<1>9. HostsKept'
  <2>1. SUFFICES ASSUME NEW p \in Procs, NEW a \in Agents PROVE HostedBy(p, a)'
    BY <1>1 DEF HostsKept
  <2>2. s'.procs[p].pool[a] = IF s.procs[p].pool[a] \in gone THEN 0 ELSE s.procs[p].pool[a]
    BY DEF TakesDown
  <2>3. HostedBy(p, a)
    BY DEF Shape, HostsKept
  <2> QED  BY <1>1, <2>2, <2>3, SMTT(30) DEF HostedBy
<1>10. ProcessPoolKept'
  BY <1>1, <1>2 DEF Shape, ProcessPoolKept
<1>11. ASSUME NEW a \in Agents, runner'[a] = runner[a], runner[a].pc = "newExecutor" => runner[a].exec \notin gone
       PROVE  WaitStays(a)
  <2>1. ASSUME runner[a].pc = "newExecutor"
        PROVE  s'.execs[runner[a].exec] = s.execs[runner[a].exec] /\ Unregistered(runner[a].exec)'
    <3>1. PICK e \in Execs \ gone : e = runner[a].exec
      BY <1>11, <2>1 DEF Shape, RunnersKept, RunnerKept, StartsExecutor
    <3>2. Unregistered(e) /\ e # 0
      BY <1>3, <2>1, <3>1 DEF Shape, RunnersKept, RunnerKept, StartsExecutor
    <3>3. \A i \in Ids : s'.pool[i] # e
      BY <3>2 DEF Unregistered, TakesDown
    <3>4. \A x \in Agents : e \notin s'.agent_map[x]
      BY <3>2 DEF Unregistered, TakesDown
    <3>5. \A p \in Procs, x \in Agents : s'.procs[p].pool[x] # e
      BY <3>2 DEF Unregistered, TakesDown
    <3>6. s'.execs[e] = s.execs[e] /\ Unregistered(e)'
      BY <1>1, <3>3, <3>4, <3>5 DEF Unregistered
    <3> QED  BY <1>11, <3>1, <3>6
  <2> QED  BY <1>1, <1>11, <2>1 DEF WaitStays
<1>12. RunnersKept'
  BY <1>5, <1>11, RunnersStay
<1>13. MailKept'
  BY <1>1, <1>5, MailShrinksWell DEF MailKept
<1> QED  BY <1>4, <1>6, <1>7, <1>8, <1>9, <1>10, <1>12, <1>13 DEF Shape

(* PoolMember.set_shutdown of one executor *)
Left(p, a, e, proc) ==
    /\ proc.bp = s.procs[p].bp /\ proc.lost = s.procs[p].lost /\ proc.os = s.procs[p].os /\ proc.down = s.procs[p].down
    /\ s.procs[p].closing => proc.closing
    /\ Distinct(proc.inbox) /\ Mail(proc.inbox) \subseteq Mail(s.procs[p].inbox) \cup {StopCommand}
    /\ StopCommand \in Mail(proc.inbox) => proc.closing
    /\ s.procs[p].closing => proc.inbox = s.procs[p].inbox
    /\ proc.pool = [s.procs[p].pool EXCEPT ![a] = Without(@, e)]
    /\ proc.closing \/ ~is_empty(proc)

(* leave_process closes a process that is left empty. *)
LEMMA LeaveProcessKept ==
    ASSUME Shape, NEW p \in Procs, NEW a \in Agents, NEW e \in Execs,
           NEW proc, proc = leave_process(s.procs[p], a, e)
    PROVE  proc \in Processes /\ Left(p, a, e, proc)
<1>1. s.procs[p] \in Processes
  BY DEF Shape, TypeOK, Pools, Procs
<1>2. PICK f \in [Agents -> Nat] : f = [s.procs[p].pool EXCEPT ![a] = Without(@, e)]
  BY <1>1 DEF Processes, Without
<1>3. PICK left \in Processes : left = [s.procs[p] EXCEPT !.pool = f]
  BY <1>1 DEF Processes
<1>4. proc = IF is_empty(left) THEN close_process(left) ELSE left
  BY <1>2, <1>3 DEF leave_process
<1>5. /\ left.bp = s.procs[p].bp /\ left.lost = s.procs[p].lost /\ left.os = s.procs[p].os /\ left.down = s.procs[p].down
      /\ left.closing = s.procs[p].closing /\ left.inbox = s.procs[p].inbox /\ left.pool = f
  BY <1>1, <1>3 DEF Processes
<1>6. Distinct(left.inbox) /\ (StopCommand \in Mail(left.inbox) => left.closing)
  BY <1>5 DEF Shape, MailKept, MailOf, Delivers, StopCommand, Command
<1>7. Closed(left, close_process(left))
  BY <1>6, CloseProcessKept
<1>8. CASE is_empty(left)
  BY <1>2, <1>4, <1>5, <1>6, <1>7, <1>8 DEF Closed, Left
<1>9. CASE ~is_empty(left)
  BY <1>2, <1>4, <1>5, <1>6, <1>9 DEF Left
<1> QED  BY <1>8, <1>9

(* The executor is in no cache any more; the rest of its process stays. *)
LEMMA SetShutdownEffect ==
    ASSUME Shape, NEW e \in Execs, ~s.execs[e].down, s.execs[e].stop # "sent", s' = set_shutdown(s, e),
           \A a \in Agents : Pending(a, e) => FALSE, runner' = runner
    PROVE  /\ TakesDown({e}) /\ \A p \in Procs : MailShrinks(p) /\ MailStaysGood(p)
           /\ \A p \in Procs : s'.procs[p].closing \/ ~is_empty(s'.procs[p]) \/ s'.procs[p] = s.procs[p]
<1>1. /\ s \in Pools /\ s.execs[e] \in Executors /\ e \in Nat \ {0}
      /\ s.procs \in Seq(Processes) /\ s.execs \in Seq(Executors)
  BY DEF Shape, TypeOK, Pools, Execs
<1>2. PICK a \in Agents : a = s.execs[e].agent
  BY <1>1 DEF Executors
<1>3. PICK p \in Procs : p = s.execs[e].proc
  BY DEF Shape, ExecutorsKept
<1>4. PICK i \in Ids : i = Id(s, e)
  BY <1>1 DEF Executors, Id
<1>5. PICK proc \in Processes : proc = leave_process(s.procs[p], a, e)
  BY LeaveProcessKept
<1>6. PICK X \in Executors : X = Forgotten
  <2>1. AnId \in Ids
    BY <1>4 DEF AnId
  <2>2. PICK x \in Agents, b \in Blueprints : AnId = <<x, b>>
    BY <2>1, PoolsAssumption
  <2>3. Forgotten = [[agent |-> x, bp |-> b, proc |-> 0, closing |-> FALSE, down |-> FALSE, stop |-> "no", remote |-> "none"]
                       EXCEPT !.closing = TRUE, !.down = TRUE, !.stop = "done"]
    BY <2>2 DEF Forgotten, NewExecutor
  <2> QED  BY <2>1, <2>2, <2>3 DEF Executors
<1>7. X.closing /\ X.down /\ X.stop = "done" /\ X.remote = "none"
  BY <1>6 DEF Forgotten, NewExecutor
<1>8. PICK f \in [Ids -> Nat] : f = [s.pool EXCEPT ![i] = Without(@, e)]
  BY <1>1 DEF Pools, Without
<1>9. PICK g \in [Agents -> SUBSET Nat] : g = [s.agent_map EXCEPT ![a] = @ \ {e}]
  BY <1>1 DEF Pools
<1>10. PICK Q \in Seq(Processes) : Q = [s.procs EXCEPT ![p] = proc]
  BY <1>1, ExceptSeq DEF Procs
<1>11. Len(Q) = Len(s.procs) /\ Q[p] = proc /\ \A q \in Procs : q # p => Q[q] = s.procs[q]
  BY <1>1, <1>10, ExceptSeq DEF Procs
<1>12. PICK E \in Seq(Executors) : E = [s.execs EXCEPT ![e] = X]
  BY <1>1, ExceptSeq DEF Execs
<1>13. Len(E) = Len(s.execs) /\ E[e] = X /\ \A x \in Execs : x # e => E[x] = s.execs[x]
  BY <1>1, <1>12, ExceptSeq DEF Execs
<1>14. PICK r \in SUBSET (Nat \X Nat) : r = {y \in s.last_used : e \notin {y[1], y[2]}}
  BY <1>1 DEF Pools
<1>15. s' = [s EXCEPT !.procs = Q, !.agent_map = g, !.last_used = r, !.pool = f, !.execs = E]
  BY <1>2, <1>3, <1>4, <1>5, <1>6, <1>8, <1>9, <1>10, <1>12, <1>14, SMTT(30) DEF set_shutdown
<1>16. s' \in Pools /\ s'.procs = Q /\ s'.agent_map = g /\ s'.pool = f /\ s'.execs = E /\ s'.process_pool = s.process_pool
  BY <1>1, <1>15 DEF Pools
<1>17. Execs' = Execs /\ Procs' = Procs
  BY <1>11, <1>13, <1>16 DEF Execs, Procs
<1>18. \A j \in Ids : s'.pool[j] = IF s.pool[j] = e THEN 0 ELSE s.pool[j]
  <2>1. \A j \in Ids : s.pool[j] = e => j = i
    BY <1>1, <1>4 DEF Shape, PoolKept
  <2>2. f[i] = IF s.pool[i] = e THEN 0 ELSE s.pool[i]
    BY <1>1, <1>8 DEF Pools, Without, is_registered
  <2> QED  BY <1>1, <1>8, <1>16, <2>1, <2>2 DEF Pools
<1>19. \A x \in Agents : s'.agent_map[x] = s.agent_map[x] \ {e}
  <2>1. \A x \in Agents : e \in s.agent_map[x] => x = a
    BY <1>2 DEF Shape, AgentMapKept
  <2> QED  BY <1>1, <1>9, <1>16, <2>1 DEF Pools
<1>20. \A x \in Agents : s'.procs[p].pool[x] = IF s.procs[p].pool[x] = e THEN 0 ELSE s.procs[p].pool[x]
  <2>1. proc.pool = [s.procs[p].pool EXCEPT ![a] = Without(@, e)]
    BY <1>5, LeaveProcessKept DEF Left
  <2>2. s.procs[p].pool \in [Agents -> Nat]
    <3>1. s.procs[p] \in Processes
      BY <1>1 DEF Procs
    <3> QED  BY <3>1 DEF Processes
  <2>3. \A x \in Agents : s.procs[p].pool[x] = e => x = a
    <3>1. \A x \in Agents : HostedBy(p, x)
      BY DEF Shape, HostsKept
    <3>2. e # 0 /\ s.execs[e].agent = a
      BY <1>2 DEF Execs
    <3> QED  BY <3>1, <3>2, Zenon DEF HostedBy
  <2>4. proc.pool[a] = IF s.procs[p].pool[a] = e THEN 0 ELSE s.procs[p].pool[a]
    BY <2>1, <2>2 DEF Without, is_registered
  <2> QED  BY <1>11, <1>16, <2>1, <2>2, <2>3, <2>4
<1>21. \A q \in Procs, x \in Agents : q # p => s.procs[q].pool[x] # e
  BY <1>1, <1>3 DEF Shape, HostsKept, HostedBy
<1>22. /\ proc.bp = s.procs[p].bp /\ proc.lost = s.procs[p].lost /\ proc.os = s.procs[p].os /\ proc.down = s.procs[p].down
       /\ s.procs[p].closing => proc.closing
       /\ Distinct(proc.inbox) /\ Mail(proc.inbox) \subseteq Mail(s.procs[p].inbox) \cup {StopCommand}
       /\ StopCommand \in Mail(proc.inbox) => proc.closing
       /\ s.procs[p].closing => proc.inbox = s.procs[p].inbox
       /\ proc.closing \/ ~is_empty(proc)
  <2>1. Left(p, a, e, proc)
    BY <1>5, LeaveProcessKept
  <2> QED  BY <2>1 DEF Left
<1>23. TakesDown({e})
  <2>1. \A q \in Procs : /\ s'.procs[q].bp = s.procs[q].bp
                         /\ s.procs[q].closing => s'.procs[q].closing
                         /\ \A x \in Agents : s'.procs[q].pool[x] =
                               IF s.procs[q].pool[x] \in {e} THEN 0 ELSE s.procs[q].pool[x]
    BY <1>11, <1>16, <1>20, <1>21, <1>22
  <2>2. \A x \in Execs \ {e} : s'.execs[x] = s.execs[x]
    BY <1>13, <1>16
  <2>3. s'.execs[e].closing /\ s'.execs[e].down /\ s'.execs[e].stop = "done" /\ s'.execs[e].remote = "none"
    BY <1>7, <1>13, <1>16
  <2> QED  BY <1>16, <1>17, <1>18, <1>19, <2>1, <2>2, <2>3 DEF TakesDown
<1>24. ASSUME NEW q \in Procs PROVE MailShrinks(q)
  <2>1. MailOf(q) /\ (StopCommand \in Mail(s.procs[q].inbox) => s.procs[q].closing)
    BY DEF Shape, MailKept, MailOf, Delivers, StopCommand, Command
  <2>2. CASE q = p
    BY <1>11, <1>16, <1>22, <2>1, <2>2 DEF MailShrinks, MailOf
  <2>3. CASE q # p
    BY <1>11, <1>16, <2>1, <2>3 DEF MailShrinks, MailOf
  <2> QED  BY <2>2, <2>3
<1>25. ASSUME NEW q \in Procs PROVE MailStaysGood(q)
  <2>1. SUFFICES ASSUME NEW m \in Mail(s.procs[q].inbox), m.cmd = "stopfor"
                 PROVE  s'.execs[m.exec].stop = "sent" /\ s'.execs[m.exec].proc = s.execs[m.exec].proc
    BY DEF MailStaysGood
  <2>2. m.exec \in Execs /\ s.execs[m.exec].stop = "sent"
    BY <2>1 DEF Shape, MailKept, MailOf, Delivers
  <2> QED  BY <1>13, <1>16, <2>2
<1>26. \A q \in Procs : s'.procs[q].closing \/ ~is_empty(s'.procs[q]) \/ s'.procs[q] = s.procs[q]
  BY <1>11, <1>16, <1>22
<1> QED  BY <1>23, <1>24, <1>25, <1>26

(* An executor that is closing is not a new one. *)
LEMMA ClosingIsNotPending ==
    ASSUME Shape, NEW a \in Agents, Pending(a, runner[a].exec)
    PROVE  LET e == runner[a].exec
           IN  e \in Execs /\ ~s.execs[e].closing /\ ~s.execs[e].down /\ s.execs[e].stop = "no" /\ s.execs[e].remote = "none"
<1>1. StartsExecutor(a) /\ runner[a].pc = "newExecutor"
  BY DEF Shape, RunnersKept, RunnerKept, Pending
<1>2. runner[a].exec \in Execs /\ Running(s, runner[a].exec) /\ s.execs[runner[a].exec].remote = "none"
  BY <1>1 DEF StartsExecutor
<1> QED  BY <1>2 DEF Running, Shape, ExecutorsKept

(* The executor has stopped, and is down. *)
LEMMA StopReplyKeepsShape ==
    ASSUME Shape, NEW e \in Execs, s.execs[e].stop \in {"task", "stopping"}, s' = set_shutdown(s, e),
           UNCHANGED <<runner, phase, crashes>>
    PROVE  Shape' /\ Fades
<1>1. ~s.execs[e].down /\ s.execs[e].stop # "sent"
  BY DEF Shape, ExecutorsKept
<1>2. \A a \in Agents : Pending(a, e) => FALSE
  BY ClosingIsNotPending DEF Pending
<1>3. /\ TakesDown({e}) /\ \A p \in Procs : MailShrinks(p) /\ MailStaysGood(p)
      /\ \A p \in Procs : s'.procs[p].closing \/ ~is_empty(s'.procs[p]) \/ s'.procs[p] = s.procs[p]
  BY <1>1, <1>2, SetShutdownEffect
<1>4. runner' \in [Agents -> Waits] /\ PhaseOK' /\ \A a \in Agents : RunnerFades(a)
  BY DEF Shape, TypeOK, PhaseOK, RunnerFades
<1>5. Shape'
  BY <1>2, <1>3, <1>4, TakesDownKeepsShape DEF Pending
<1>6. Fades
  BY <1>3, <1>4, TakesDownFades
<1> QED  BY <1>5, <1>6

(* The stop of executors goes on: no cache changes, and nobody is down yet.   *)
LEMMA StoppingKeepsShape ==
    ASSUME Shape, s' \in Pools, s'.pool = s.pool, s'.agent_map = s.agent_map, s'.process_pool = s.process_pool,
           Execs' = Execs, Procs' = Procs,
           \A e \in Execs : \/ s'.execs[e] = s.execs[e]
                            \/ /\ s'.execs[e].agent = s.execs[e].agent /\ s'.execs[e].bp = s.execs[e].bp
                               /\ s'.execs[e].proc = s.execs[e].proc /\ s'.execs[e].closing = s.execs[e].closing
                               /\ ~s.execs[e].down /\ ~s'.execs[e].down
                               /\ s'.execs[e].stop # "done" /\ (s'.execs[e].closing <=> s'.execs[e].stop # "no")
                               /\ s'.execs[e].remote = "running" => s.execs[e].remote = "running"
                               /\ \A a \in Agents : ~Pending(a, e),
           \A p \in Procs : /\ s'.procs[p].bp = s.procs[p].bp /\ s'.procs[p].pool = s.procs[p].pool
                            /\ s.procs[p].closing => s'.procs[p].closing
                            /\ MailOf(p)',
           UNCHANGED <<runner, phase, crashes>>
    PROVE  Shape' /\ Fades
<1>1. TypeOK'
  BY DEF Shape, TypeOK
<1>2. \A e \in Execs : /\ s'.execs[e].agent = s.execs[e].agent /\ s'.execs[e].bp = s.execs[e].bp
                       /\ s'.execs[e].proc = s.execs[e].proc /\ (s'.execs[e].down <=> s.execs[e].down)
  OBVIOUS
<1>3. ExecutorsKept'
  <2>1. SUFFICES ASSUME NEW e \in Execs
                 PROVE  /\ s'.execs[e].down => s'.execs[e].closing /\ s'.execs[e].stop = "done" /\ s'.execs[e].remote = "none"
                        /\ ~s'.execs[e].down =>
                             /\ s'.execs[e].proc \in Procs /\ s'.procs[s'.execs[e].proc].bp = s'.execs[e].bp
                             /\ s'.execs[e].stop # "done" /\ (s'.execs[e].closing <=> s'.execs[e].stop # "no")
    BY DEF ExecutorsKept
  <2>2. /\ s.execs[e].down => s.execs[e].closing /\ s.execs[e].stop = "done" /\ s.execs[e].remote = "none"
        /\ ~s.execs[e].down =>
             /\ s.execs[e].proc \in Procs /\ s.procs[s.execs[e].proc].bp = s.execs[e].bp
             /\ s.execs[e].stop # "done" /\ (s.execs[e].closing <=> s.execs[e].stop # "no")
    BY DEF Shape, ExecutorsKept
  <2>3. CASE s'.execs[e] = s.execs[e]
    BY <2>2, <2>3
  <2>4. CASE s'.execs[e] # s.execs[e]
    BY <1>2, <2>2, <2>4
  <2> QED  BY <2>3, <2>4
<1>4. PoolKept' /\ AgentMapKept' /\ ProcessPoolKept'
  <2>1. PoolKept'
    BY <1>2 DEF Shape, PoolKept, Id
  <2>2. AgentMapKept'
    BY <1>2 DEF Shape, AgentMapKept
  <2>3. ProcessPoolKept'
    BY DEF Shape, ProcessPoolKept
  <2> QED  BY <2>1, <2>2, <2>3
<1>5. HostsKept'
  <2>1. SUFFICES ASSUME NEW p \in Procs, NEW a \in Agents PROVE HostedBy(p, a)'
    BY DEF HostsKept
  <2>2. HostedBy(p, a) /\ s'.procs[p].pool = s.procs[p].pool
    BY DEF Shape, HostsKept
  <2> QED  BY <1>2, <2>2 DEF HostedBy
<1>6. ObjectsStay
  BY <1>2 DEF ObjectsStay
<1>7. ASSUME NEW a \in Agents PROVE WaitStays(a)
  <2>1. ASSUME runner[a].pc = "newExecutor"
        PROVE  s'.execs[runner[a].exec] = s.execs[runner[a].exec] /\ Unregistered(runner[a].exec)'
    <3>1. Pending(a, runner[a].exec) /\ runner[a].exec \in Execs /\ Unregistered(runner[a].exec)
      BY <2>1 DEF Pending, Shape, RunnersKept, RunnerKept, StartsExecutor
    <3>2. s'.execs[runner[a].exec] = s.execs[runner[a].exec]
      BY <3>1
    <3>3. Unregistered(runner[a].exec)'
      BY <3>1 DEF Unregistered
    <3> QED  BY <3>2, <3>3
  <2> QED  BY <2>1 DEF WaitStays
<1>8. RunnersKept'
  BY <1>6, <1>7, RunnersStay
<1>9. Shape'
  BY <1>1, <1>3, <1>4, <1>5, <1>8 DEF Shape, MailKept
<1>10. ASSUME NEW e \in Execs PROVE ExecutorFades(e)
  <2>1. CASE s.execs[e].down
    <3>1. s'.execs[e] = s.execs[e]
      BY <2>1
    <3> QED  BY <2>1, <3>1 DEF ExecutorFades, Shape, ExecutorsKept
  <2>2. CASE ~s.execs[e].down
    <3>1. /\ s'.execs[e].agent = s.execs[e].agent /\ s'.execs[e].bp = s.execs[e].bp
          /\ s'.execs[e].proc = s.execs[e].proc /\ s'.execs[e].closing = s.execs[e].closing
          /\ s'.execs[e].remote = "running" => s.execs[e].remote = "running"
      OBVIOUS
    <3>2. s.execs[e].proc \in Procs
      BY <2>2 DEF Shape, ExecutorsKept
    <3> QED  BY <2>2, <3>1, <3>2 DEF ExecutorFades
  <2> QED  BY <2>1, <2>2
<1>11. \A p \in Procs : ProcessFades(p)
  BY DEF ProcessFades, is_empty
<1>12. Fades
  BY <1>10, <1>11 DEF Fades, RunnerFades
<1> QED  BY <1>9, <1>12

-----------------------------------------------------------------------------
(* Commands are received *)

(* One process and the executors change, and nothing else of the pools. *)
ChangesMembers(p, P, E) ==
    /\ s' \in Pools /\ s'.execs = E /\ s'.pool = s.pool /\ s'.agent_map = s.agent_map
    /\ s'.process_pool = s.process_pool
    /\ Execs' = Execs /\ Procs' = Procs /\ s'.procs[p] = P
    /\ \A q \in Procs : q # p => s'.procs[q] = s.procs[q]

(* A process and the executors are replaced by others of their types. *)
LEMMA MembersChange ==
    ASSUME Shape, NEW p \in Procs, NEW P \in Processes, NEW E \in Seq(Executors), Len(E) = Len(s.execs),
           s' = [s EXCEPT !.procs[p] = P, !.execs = E]
    PROVE  ChangesMembers(p, P, E)
<1>1. s \in Pools /\ s.procs \in Seq(Processes) /\ p \in 1..Len(s.procs)
  BY DEF Shape, TypeOK, Pools, Procs
<1>2. PICK Q \in Seq(Processes) : Q = [s.procs EXCEPT ![p] = P]
  BY <1>1, ExceptSeq
<1>3. Len(Q) = Len(s.procs) /\ Q[p] = P /\ \A q \in 1..Len(s.procs) : q # p => Q[q] = s.procs[q]
  BY <1>1, <1>2, ExceptSeq
<1>4. s' = [s EXCEPT !.procs = Q, !.execs = E]
  BY <1>2
<1>5. s' \in Pools /\ s'.procs = Q /\ s'.execs = E /\ s'.pool = s.pool /\ s'.agent_map = s.agent_map
      /\ s'.process_pool = s.process_pool
  BY <1>1, <1>4 DEF Pools
<1> QED  BY <1>1, <1>3, <1>5 DEF ChangesMembers, Execs, Procs

(* The command that is received was there once, and the others stay. *)
Receives(p) ==
    LET q == s.procs[p].inbox
    IN  /\ Tail(q) \in Seq(Commands) /\ Message(p) \in Mail(q) /\ Message(p) \in Commands
        /\ Mail(Tail(q)) = Mail(q) \ {Message(p)} /\ Distinct(Tail(q))
        /\ Delivers(Message(p), p) /\ ~s.procs[p].lost

(* A process that receives a command finds what the command was sent for. *)
LEMMA ReceivedMail ==
    ASSUME Shape, NEW p \in Procs, NEW cmd, Received(p, cmd)
    PROVE  Receives(p) /\ Message(p).cmd = cmd /\ s.procs[p].os # "dead"
<1>1. s.procs[p].inbox # <<>> /\ Message(p).cmd = cmd /\ s.procs[p].os # "dead"
  BY DEF Received
<1>2. s.procs[p].inbox \in Seq(Commands)
  <2>1. s.procs[p] \in Processes
    BY DEF Shape, TypeOK, Pools, Procs
  <2> QED  BY <2>1 DEF Processes
<1>3. MailOf(p)
  BY DEF Shape, MailKept
<1>4. /\ Tail(s.procs[p].inbox) \in Seq(Commands) /\ Message(p) \in Mail(s.procs[p].inbox) /\ Message(p) \in Commands
      /\ Mail(Tail(s.procs[p].inbox)) = Mail(s.procs[p].inbox) \ {Message(p)} /\ Distinct(Tail(s.procs[p].inbox))
  BY <1>1, <1>2, <1>3, MailTail DEF MailOf, Message
<1>5. Delivers(Message(p), p) /\ ~s.procs[p].lost
  BY <1>1, <1>3, <1>4 DEF MailOf
<1> QED  BY <1>1, <1>4, <1>5 DEF Receives

(* The executor with the number e is replaced. *)
ReplacesExecutor(E, e, X) ==
    /\ E \in Seq(Executors) /\ Len(E) = Len(s.execs) /\ E[e] = X
    /\ \A x \in Execs : x # e => E[x] = s.execs[x]

(* An executor can be replaced by one of its type. *)
LEMMA ExecutorReplaced ==
    ASSUME Shape, NEW e \in Execs, NEW X \in Executors
    PROVE  ReplacesExecutor([s.execs EXCEPT ![e] = X], e, X)
<1>1. s.execs \in Seq(Executors) /\ e \in 1..Len(s.execs)
  BY DEF Shape, TypeOK, Pools, Execs
<1>2. PICK E : E = [s.execs EXCEPT ![e] = X]
  OBVIOUS
<1>3. E \in Seq(Executors) /\ Len(E) = Len(s.execs) /\ E[e] = X /\ \A x \in 1..Len(s.execs) : x # e => E[x] = s.execs[x]
  BY <1>1, <1>2, ExceptSeq
<1> QED  BY <1>2, <1>3 DEF ReplacesExecutor, Execs

(* inner_close sends its command: nothing of the executor is there any more   *)
(* but its stop.                                                               *)
LEMMA SendStopKeepsShape ==
    ASSUME Shape, NEW e \in Execs, SendStop(e)
    PROVE  Shape' /\ Fades
<1>1. s.execs[e].stop = "task" /\ UNCHANGED <<runner, phase, crashes>>
  BY DEF SendStop
<1>2. CASE s' = set_shutdown(s, e)
  BY <1>1, <1>2, StopReplyKeepsShape
<1>3. CASE ~s.procs[s.execs[e].proc].lost
           /\ s' = Send([s EXCEPT !.execs[e].stop = "sent"], s.execs[e].proc, "stopfor", e)
  <2>1. /\ s \in Pools /\ s.execs[e] \in Executors /\ e \in Nat
        /\ ~s.execs[e].down /\ s.execs[e].closing
    BY <1>1 DEF Shape, TypeOK, Pools, Execs, ExecutorsKept
  <2>2. PICK p \in Procs : p = s.execs[e].proc
    BY <2>1 DEF Shape, ExecutorsKept
  <2>3. s.procs[p] \in Processes /\ s.procs[p].inbox \in Seq(Commands)
    <3>1. s.procs[p] \in Processes
      BY <2>1 DEF Pools, Procs
    <3> QED  BY <3>1 DEF Processes
  <2>4. PICK m \in Commands : m = Command("stopfor", e)
    BY <2>1 DEF Command, Commands
  <2>5. PICK X \in Executors : X = [s.execs[e] EXCEPT !.stop = "sent"]
    BY <2>1 DEF Executors
  <2>6. /\ X.agent = s.execs[e].agent /\ X.bp = s.execs[e].bp /\ X.proc = s.execs[e].proc
        /\ X.closing = s.execs[e].closing /\ X.down = s.execs[e].down /\ X.stop = "sent"
        /\ X.remote = s.execs[e].remote
    BY <2>1, <2>5 DEF Executors
  <2>7. PICK E \in Seq(Executors) : E = [s.execs EXCEPT ![e] = X] /\ ReplacesExecutor(E, e, X)
    <3>1. ReplacesExecutor([s.execs EXCEPT ![e] = X], e, X)
      BY ExecutorReplaced
    <3>2. [s.execs EXCEPT ![e] = X] \in Seq(Executors)
      BY <3>1 DEF ReplacesExecutor
    <3> QED  BY <3>1, <3>2
  <2>8. PICK q \in Seq(Commands) : q = Append(s.procs[p].inbox, m)
    BY <2>3, <2>4, MailAppend
  <2>9. PICK P \in Processes : P = [s.procs[p] EXCEPT !.inbox = q]
    BY <2>3 DEF Processes
  <2>10. s' = [s EXCEPT !.procs[p] = P, !.execs = E]
    BY <1>3, <2>1, <2>2, <2>4, <2>5, <2>7, <2>8, <2>9 DEF Send, Pools
  <2>11. ChangesMembers(p, P, E)
    BY <2>7, <2>10, MembersChange DEF ReplacesExecutor
  <2>12. /\ P.bp = s.procs[p].bp /\ P.pool = s.procs[p].pool /\ P.closing = s.procs[p].closing /\ P.inbox = q
         /\ P.lost = s.procs[p].lost /\ P.os = s.procs[p].os /\ P.down = s.procs[p].down
    BY <2>3, <2>9 DEF Processes
  <2>13. /\ s' \in Pools /\ s'.pool = s.pool /\ s'.agent_map = s.agent_map /\ s'.process_pool = s.process_pool
         /\ Execs' = Execs /\ Procs' = Procs /\ s'.procs[p] = P
         /\ \A x \in Procs : x # p => s'.procs[x] = s.procs[x]
         /\ s'.execs[e] = X /\ \A x \in Execs : x # e => s'.execs[x] = s.execs[x]
    BY <2>7, <2>11 DEF ChangesMembers, ReplacesExecutor
  <2>14. ObjectsStay
    BY <2>1, <2>6, <2>12, <2>13 DEF ObjectsStay, Shape, ExecutorsKept
  <2>15. ASSUME NEW x \in Procs, NEW c \in Mail(s.procs[x].inbox) PROVE Delivers(c, x)' /\ c # m
    <3>1. Delivers(c, x)
      BY DEF Shape, MailKept, MailOf
    <3>2. c.cmd = "stopfor" => c.exec # e
      BY <1>1, <3>1 DEF Delivers
    <3>3. c.cmd = "stopfor" => s'.execs[c.exec] = s.execs[c.exec]
      BY <2>13, <3>1, <3>2 DEF Delivers
    <3>4. c.cmd = "init" => \A a \in Agents : Pending(a, c.exec) => runner'[a] = runner[a]
      BY <1>1
    <3> QED  BY <2>4, <2>14, <3>2, <3>3, <3>4, MailStays DEF Command
  <2>16. Delivers(m, p)'
    BY <2>2, <2>4, <2>6, <2>13 DEF Delivers, Command
  <2>17. ASSUME NEW x \in Procs PROVE MailOf(x)'
    <3>1. MailOf(x)
      BY DEF Shape, MailKept
    <3>2. CASE x # p
      BY <2>13, <2>15, <3>1, <3>2 DEF MailOf
    <3>3. CASE x = p
      <4>1. Mail(q) = Mail(s.procs[p].inbox) \cup {m} /\ Distinct(q)
        BY <2>3, <2>4, <2>8, <2>15, <3>1, <3>3, MailAppend DEF MailOf
      <4>2. \A c \in Mail(q) : Delivers(c, p)'
        BY <2>15, <2>16, <3>3, <4>1
      <4>3. s'.procs[p].inbox = q /\ ~s'.procs[p].lost /\ (s'.procs[p].down => s'.procs[p].closing)
        BY <1>3, <2>2, <2>12, <2>13, <3>1, <3>3 DEF MailOf
      <4> QED  BY <3>3, <4>1, <4>2, <4>3 DEF MailOf
    <3> QED  BY <3>2, <3>3
  <2>18. \A a \in Agents : ~Pending(a, e)
    BY <2>1, ClosingIsNotPending DEF Pending
  <2> QED  BY <1>1, <2>1, <2>6, <2>12, <2>13, <2>17, <2>18, StoppingKeepsShape, ZenonT(40)
<1> QED  BY <1>2, <1>3 DEF SendStop

(* ExecutorCommand stop_for: the stop of the executor is under way. *)
LEMMA StopForKeepsShape ==
    ASSUME Shape, NEW p \in Procs, StopFor(p)
    PROVE  Shape' /\ Fades
<1>1. Received(p, "stopfor") /\ UNCHANGED <<runner, phase, crashes>>
  BY DEF StopFor
<1>2. Receives(p) /\ Message(p).cmd = "stopfor"
  BY <1>1, ReceivedMail
<1>3. PICK m \in Commands : m = Message(p)
  BY <1>2 DEF Receives
<1>4. PICK e \in Execs : e = m.exec /\ s.execs[e].proc = p /\ s.execs[e].stop = "sent"
  BY <1>2, <1>3 DEF Receives, Delivers
<1>5. s \in Pools /\ s.execs[e] \in Executors /\ s.procs[p] \in Processes
  BY DEF Shape, TypeOK, Pools, Execs, Procs
<1>6. ~s.execs[e].down /\ s.execs[e].closing
  BY <1>4 DEF Shape, ExecutorsKept
<1>7. PICK X \in Executors : X = [s.execs[e] EXCEPT !.remote = "stopped", !.stop = "stopping"]
  BY <1>5 DEF Executors
<1>8. /\ X.agent = s.execs[e].agent /\ X.bp = s.execs[e].bp /\ X.proc = s.execs[e].proc
      /\ X.closing = s.execs[e].closing /\ X.down = s.execs[e].down /\ X.stop = "stopping"
      /\ X.remote = "stopped"
  BY <1>5, <1>7 DEF Executors
<1>9. PICK E \in Seq(Executors) : E = [s.execs EXCEPT ![e] = X] /\ ReplacesExecutor(E, e, X)
  <2>1. ReplacesExecutor([s.execs EXCEPT ![e] = X], e, X)
    BY ExecutorReplaced
  <2>2. [s.execs EXCEPT ![e] = X] \in Seq(Executors)
    BY <2>1 DEF ReplacesExecutor
  <2> QED  BY <2>1, <2>2
<1>10. PICK q \in Seq(Commands) : q = Tail(s.procs[p].inbox)
  BY <1>2 DEF Receives
<1>11. PICK P \in Processes : P = [s.procs[p] EXCEPT !.inbox = q]
  BY <1>5 DEF Processes
<1>12. /\ P.bp = s.procs[p].bp /\ P.pool = s.procs[p].pool /\ P.closing = s.procs[p].closing /\ P.inbox = q
       /\ P.lost = s.procs[p].lost /\ P.os = s.procs[p].os /\ P.down = s.procs[p].down
  BY <1>5, <1>11 DEF Processes
<1>13. s' = [s EXCEPT !.procs[p] = P, !.execs = E]
  <2>1. s' = [s EXCEPT !.procs[p].inbox = Tail(@), !.execs[e].remote = "stopped", !.execs[e].stop = "stopping"]
    BY <1>3, <1>4 DEF StopFor
  <2>2. [s.execs EXCEPT ![e].remote = "stopped", ![e].stop = "stopping"] = [s.execs EXCEPT ![e] = X]
    <3>1. s.execs \in [Execs -> Executors]
      BY <1>5, ElementOfSeq, LenProperties DEF Pools, Execs
    <3> QED  BY <1>7, <3>1
  <2>3. [s.procs EXCEPT ![p].inbox = Tail(@)] = [s.procs EXCEPT ![p] = P]
    BY <1>10, <1>11
  <2> QED  BY <1>5, <1>9, <2>1, <2>2, <2>3 DEF Pools
<1>14. ChangesMembers(p, P, E)
  BY <1>9, <1>13, MembersChange DEF ReplacesExecutor
<1>15. /\ s' \in Pools /\ s'.pool = s.pool /\ s'.agent_map = s.agent_map /\ s'.process_pool = s.process_pool
       /\ Execs' = Execs /\ Procs' = Procs /\ s'.procs[p] = P
       /\ \A x \in Procs : x # p => s'.procs[x] = s.procs[x]
       /\ s'.execs[e] = X /\ \A x \in Execs : x # e => s'.execs[x] = s.execs[x]
  BY <1>9, <1>14 DEF ChangesMembers, ReplacesExecutor
<1>16. ObjectsStay
  BY <1>6, <1>8, <1>12, <1>15 DEF ObjectsStay, Shape, ExecutorsKept
<1>17. Mail(q) = Mail(s.procs[p].inbox) \ {m} /\ Distinct(q) /\ m \in Mail(s.procs[p].inbox)
  BY <1>2, <1>3, <1>10 DEF Receives
<1>18. ASSUME NEW x \in Procs, NEW c \in Mail(s.procs[x].inbox), x = p => c # m PROVE Delivers(c, x)'
  <2>1. Delivers(c, x)
    BY DEF Shape, MailKept, MailOf
  <2>2. c.cmd = "stopfor" => c.exec # e
    <3>1. c \in Commands
      <4>1. s.procs[x] \in Processes
        BY <1>5 DEF Pools, Procs
      <4>2. s.procs[x].inbox \in Seq(Commands)
        BY <4>1 DEF Processes
      <4> QED  BY <4>2, ElementOfSeq DEF Mail
    <3>2. c.cmd = "stopfor" /\ c.exec = e => c = m
      BY <1>2, <1>3, <1>4, <3>1 DEF Commands
    <3> QED  BY <1>4, <1>18, <2>1, <3>2 DEF Delivers
  <2>3. c.cmd = "stopfor" => s'.execs[c.exec] = s.execs[c.exec]
    BY <1>15, <2>1, <2>2 DEF Delivers
  <2>4. c.cmd = "init" => \A a \in Agents : Pending(a, c.exec) => runner'[a] = runner[a]
    BY <1>1
  <2> QED  BY <1>16, <2>3, <2>4, MailStays
<1>19. ASSUME NEW x \in Procs PROVE MailOf(x)'
  <2>1. MailOf(x)
    BY DEF Shape, MailKept
  <2>2. CASE x # p
    BY <1>15, <1>18, <2>1, <2>2 DEF MailOf
  <2>3. CASE x = p
    <3>1. \A c \in Mail(q) : Delivers(c, p)'
      BY <1>17, <1>18
    <3>2. s'.procs[p].inbox = q /\ ~s'.procs[p].lost /\ (s'.procs[p].down => s'.procs[p].closing)
      BY <1>2, <1>12, <1>15, <2>1, <2>3 DEF MailOf, Receives
    <3> QED  BY <1>17, <2>3, <3>1, <3>2 DEF MailOf
  <2> QED  BY <2>2, <2>3
<1>20. \A a \in Agents : ~Pending(a, e)
  BY <1>6, ClosingIsNotPending DEF Pending
<1> QED  BY <1>1, <1>6, <1>8, <1>12, <1>15, <1>19, <1>20, StoppingKeepsShape

(* The child stops its executors. *)
LEMMA StopKeepsShape ==
    ASSUME Shape, NEW p \in Procs, Stop(p)
    PROVE  Shape' /\ Fades
<1> DEFINE running == {e \in Execs : s.execs[e].proc = p /\ s.execs[e].remote = "running"}
           X(e) == IF e \in running THEN [s.execs[e] EXCEPT !.remote = "stopped"] ELSE s.execs[e]
           F == [e \in Execs |-> X(e)]
           B == {e \in running : InUse(e)}
<1>1. /\ Received(p, "stop") /\ UNCHANGED <<runner, phase, crashes>>
      /\ s' = [s EXCEPT !.procs[p].os = "ending", !.procs[p].inbox = Tail(@), !.procs[p].busy = B, !.execs = F]
  BY DEF Stop
<1>2. Receives(p) /\ Message(p).cmd = "stop"
  BY <1>1, ReceivedMail
<1>3. s \in Pools /\ s.procs[p] \in Processes /\ B \in SUBSET Nat
      /\ s.execs \in Seq(Executors) /\ \A e \in Execs : s.execs[e] \in Executors
  BY DEF Shape, TypeOK, Pools, Execs, Procs
<1>4. \A e \in Execs : /\ X(e) \in Executors
                       /\ X(e).agent = s.execs[e].agent /\ X(e).bp = s.execs[e].bp /\ X(e).proc = s.execs[e].proc
                       /\ X(e).closing = s.execs[e].closing /\ X(e).down = s.execs[e].down /\ X(e).stop = s.execs[e].stop
                       /\ e \notin running => X(e) = s.execs[e]
                       /\ e \in running => X(e).remote = "stopped"
  BY <1>3 DEF Executors
<1>5. \A e \in running : ~s.execs[e].down /\ \A a \in Agents : ~Pending(a, e)
  BY ClosingIsNotPending DEF Shape, ExecutorsKept, Pending
<1>6. F \in [1..Len(s.execs) -> Executors] /\ (\A e \in Execs : F[e] = X(e)) /\ Len(s.execs) \in Nat
  BY <1>3, <1>4, LenProperties DEF Execs
<1> HIDE DEF X, B
<1>7. PICK q \in Seq(Commands) : q = Tail(s.procs[p].inbox)
  BY <1>2 DEF Receives
<1>8. PICK P \in Processes : P = [s.procs[p] EXCEPT !.os = "ending", !.inbox = q, !.busy = B]
  BY <1>3 DEF Processes
<1>9. /\ P.bp = s.procs[p].bp /\ P.pool = s.procs[p].pool /\ P.closing = s.procs[p].closing /\ P.inbox = q
      /\ P.lost = s.procs[p].lost /\ P.os = "ending" /\ P.down = s.procs[p].down
  BY <1>3, <1>8 DEF Processes
<1> HIDE DEF F
<1>10. s' = [s EXCEPT !.procs[p] = P, !.execs = F]
  <2>1. [s.procs EXCEPT ![p].os = "ending", ![p].inbox = Tail(@), ![p].busy = B] = [s.procs EXCEPT ![p] = P]
    <3>1. s.procs \in [Procs -> Processes]
      BY <1>3, ElementOfSeq, LenProperties DEF Pools, Procs
    <3> QED  BY <1>7, <1>8, <3>1 DEF Processes
  <2> QED  BY <1>1, <1>3, <2>1 DEF Pools
<1>11. F \in Seq(Executors) /\ Len(F) = Len(s.execs)
  BY <1>6, IsASeq, LenProperties
<1>12. ChangesMembers(p, P, F)
  BY <1>10, <1>11, MembersChange
<1>13. /\ s' \in Pools /\ s'.pool = s.pool /\ s'.agent_map = s.agent_map /\ s'.process_pool = s.process_pool
       /\ Execs' = Execs /\ Procs' = Procs /\ s'.procs[p] = P
       /\ \A x \in Procs : x # p => s'.procs[x] = s.procs[x]
       /\ \A e \in Execs : s'.execs[e] = X(e)
  BY <1>6, <1>12 DEF ChangesMembers
<1>14. ObjectsStay
  BY <1>4, <1>9, <1>13 DEF ObjectsStay, Shape, ExecutorsKept
<1>15. Mail(q) \subseteq Mail(s.procs[p].inbox) /\ Distinct(q) /\ ~s.procs[p].lost /\ s.procs[p].closing
  BY <1>2, <1>7 DEF Receives, Delivers
<1>16. ASSUME NEW x \in Procs PROVE MailOf(x)'
  <2>1. MailShrinks(x)
    <3>1. MailOf(x) /\ (StopCommand \in Mail(s.procs[x].inbox) => s.procs[x].closing)
      BY DEF Shape, MailKept, MailOf, Delivers, StopCommand, Command
    <3>2. CASE x # p
      BY <1>13, <3>1, <3>2 DEF MailShrinks, MailOf
    <3>3. CASE x = p
      BY <1>9, <1>13, <1>15, <3>1, <3>3 DEF MailShrinks, MailOf
    <3> QED  BY <3>2, <3>3
  <2>2. MailStaysGood(x)
    <3>1. SUFFICES ASSUME NEW m \in Mail(s.procs[x].inbox), m.cmd = "stopfor"
                   PROVE  s'.execs[m.exec].stop = "sent" /\ s'.execs[m.exec].proc = s.execs[m.exec].proc
      BY <1>1 DEF MailStaysGood
    <3>2. m.exec \in Execs /\ s.execs[m.exec].stop = "sent"
      BY <3>1 DEF Shape, MailKept, MailOf, Delivers
    <3> QED  BY <1>4, <1>13, <3>2
  <2> QED  BY <1>14, <2>1, <2>2, MailShrinksWell
<1>17. ASSUME NEW e \in Execs
       PROVE  \/ s'.execs[e] = s.execs[e]
              \/ /\ s'.execs[e].agent = s.execs[e].agent /\ s'.execs[e].bp = s.execs[e].bp
                 /\ s'.execs[e].proc = s.execs[e].proc /\ s'.execs[e].closing = s.execs[e].closing
                 /\ ~s.execs[e].down /\ ~s'.execs[e].down
                 /\ s'.execs[e].stop # "done" /\ (s'.execs[e].closing <=> s'.execs[e].stop # "no")
                 /\ s'.execs[e].remote = "running" => s.execs[e].remote = "running"
                 /\ \A a \in Agents : ~Pending(a, e)
  <2>1. CASE e \notin running
    BY <1>4, <1>13, <2>1
  <2>2. CASE e \in running
    <3>1. ~s.execs[e].down /\ s.execs[e].stop # "done" /\ (s.execs[e].closing <=> s.execs[e].stop # "no")
      BY <1>5, <2>2 DEF Shape, ExecutorsKept
    <3> QED  BY <1>4, <1>5, <1>13, <2>2, <3>1
  <2> QED  BY <2>1, <2>2
<1> HIDE DEF running
<1> QED  BY <1>1, <1>9, <1>13, <1>16, <1>17, StoppingKeepsShape

(* What is left of an executor is one that is down. *)
LEMMA ForgottenIsDown ==
    ASSUME NEW i \in Ids
    PROVE  /\ Forgotten \in Executors
           /\ Forgotten.closing /\ Forgotten.down /\ Forgotten.stop = "done" /\ Forgotten.remote = "none"
<1>1. AnId \in Ids
  BY DEF AnId
<1>2. PICK x \in Agents, b \in Blueprints : AnId = <<x, b>>
  BY <1>1, PoolsAssumption
<1>3. Forgotten = [[agent |-> x, bp |-> b, proc |-> 0, closing |-> FALSE, down |-> FALSE, stop |-> "no", remote |-> "none"]
                     EXCEPT !.closing = TRUE, !.down = TRUE, !.stop = "done"]
  BY <1>2 DEF Forgotten, NewExecutor
<1> QED  BY <1>1, <1>2, <1>3 DEF Executors

(* A new executor that is given up is down, and nobody else knew it. *)
GivesUp(a, e, p, P) ==
    /\ runner[a].pc = "newExecutor" /\ runner[a].exec = e /\ runner[a].proc = p
    /\ P.bp = s.procs[p].bp /\ P.pool = s.procs[p].pool /\ P.closing = s.procs[p].closing
    /\ P.lost = s.procs[p].lost /\ P.os = s.procs[p].os /\ P.down = s.procs[p].down
    /\ Distinct(P.inbox) /\ Mail(P.inbox) \subseteq Mail(s.procs[p].inbox) \ {Command("init", e)}
    /\ P.lost => P.inbox = <<>>

(* Its runner waits for nothing any more. *)
LEMMA GivingUpKeepsShape ==
    ASSUME Shape, NEW a \in Agents, NEW e \in Execs, NEW p \in Procs, NEW P \in Processes, GivesUp(a, e, p, P),
           s' = [s EXCEPT !.procs[p] = P, !.execs[e] = Forgotten], Fail(a), UNCHANGED <<phase, crashes>>
    PROVE  Shape' /\ TakesDown({e})
<1>1. /\ runner[a].pc = "newExecutor" /\ runner[a].exec = e /\ runner[a].proc = p
      /\ P.bp = s.procs[p].bp /\ P.pool = s.procs[p].pool /\ P.closing = s.procs[p].closing
      /\ P.lost = s.procs[p].lost /\ P.os = s.procs[p].os /\ P.down = s.procs[p].down
      /\ Distinct(P.inbox) /\ Mail(P.inbox) \subseteq Mail(s.procs[p].inbox) \ {Command("init", e)}
      /\ P.lost => P.inbox = <<>>
  BY DEF GivesUp
<1>2. /\ s.execs[e].agent = a /\ s.execs[e].proc = p /\ ~s.execs[e].down /\ ~s.execs[e].closing
      /\ Unregistered(e) /\ <<a, runner[a].bp>> \in Ids
  BY <1>1 DEF Shape, RunnersKept, RunnerKept, StartsExecutor, Running, Getting
<1>3. PICK X \in Executors : X = Forgotten
  BY <1>2, ForgottenIsDown
<1>4. X.closing /\ X.down /\ X.stop = "done" /\ X.remote = "none"
  BY <1>2, <1>3, ForgottenIsDown
<1>5. PICK E \in Seq(Executors) : E = [s.execs EXCEPT ![e] = X] /\ ReplacesExecutor(E, e, X)
  <2>1. ReplacesExecutor([s.execs EXCEPT ![e] = X], e, X)
    BY ExecutorReplaced
  <2>2. [s.execs EXCEPT ![e] = X] \in Seq(Executors)
    BY <2>1 DEF ReplacesExecutor
  <2> QED  BY <2>1, <2>2
<1>6. s' = [s EXCEPT !.procs[p] = P, !.execs = E]
  BY <1>3, <1>5
<1>7. ChangesMembers(p, P, E)
  BY <1>5, <1>6, MembersChange DEF ReplacesExecutor
<1>8. /\ s' \in Pools /\ s'.pool = s.pool /\ s'.agent_map = s.agent_map /\ s'.process_pool = s.process_pool
      /\ Execs' = Execs /\ Procs' = Procs /\ s'.procs[p] = P
      /\ \A x \in Procs : x # p => s'.procs[x] = s.procs[x]
      /\ s'.execs[e] = X /\ \A x \in Execs : x # e => s'.execs[x] = s.execs[x]
  BY <1>5, <1>7 DEF ChangesMembers, ReplacesExecutor
<1>9. TakesDown({e})
  <2>1. (\A i \in Ids : s.pool[i] # e) /\ (\A x \in Agents : e \notin s.agent_map[x])
        /\ \A q \in Procs, x \in Agents : s.procs[q].pool[x] # e
    BY <1>2 DEF Unregistered
  <2>2. \A q \in Procs : /\ s'.procs[q].bp = s.procs[q].bp
                         /\ s.procs[q].closing => s'.procs[q].closing
                         /\ s'.procs[q].pool = s.procs[q].pool
    BY <1>1, <1>8
  <2> QED  BY <1>4, <1>8, <2>1, <2>2 DEF TakesDown
<1>10. /\ runner' \in [Agents -> Waits] /\ WaitChanges(a)
       /\ \A x \in Agents : x # a => runner'[x] = runner[x]
  BY FailEffect
<1>11. ASSUME NEW x \in Agents, x # a, runner[x].pc = "newExecutor" PROVE runner[x].exec # e
  BY <1>2, <1>11 DEF Shape, RunnersKept, RunnerKept, StartsExecutor
<1>12. ASSUME NEW q \in Procs PROVE MailShrinks(q) /\ MailStaysGood(q)
  <2>1. MailOf(q) /\ (StopCommand \in Mail(s.procs[q].inbox) => s.procs[q].closing)
    BY DEF Shape, MailKept, MailOf, Delivers, StopCommand, Command
  <2>2. MailShrinks(q)
    <3>1. CASE q # p
      BY <1>8, <2>1, <3>1 DEF MailShrinks, MailOf
    <3>2. CASE q = p
      BY <1>1, <1>8, <2>1, <3>2 DEF MailShrinks, MailOf
    <3> QED  BY <3>1, <3>2
  <2>3. SUFFICES ASSUME NEW m \in Mail(s.procs[q].inbox), m \in Mail(s'.procs[q].inbox)
                 PROVE  /\ m.cmd = "init" => \A x \in Agents : Pending(x, m.exec) => runner'[x] = runner[x]
                        /\ m.cmd = "stopfor" => s'.execs[m.exec].stop = "sent" /\ s'.execs[m.exec].proc = s.execs[m.exec].proc
    BY <2>2 DEF MailStaysGood
  <2>4. Delivers(m, q)
    BY <2>1 DEF MailOf
  <2>5. m.cmd = "init" => m.exec # e
    <3>1. m \in Commands
      <4>1. s.procs[q] \in Processes
        BY DEF Shape, TypeOK, Pools, Procs
      <4>2. s.procs[q].inbox \in Seq(Commands)
        BY <4>1 DEF Processes
      <4> QED  BY <4>2, ElementOfSeq DEF Mail
    <3>2. m.cmd = "init" /\ m.exec = e => m = Command("init", e)
      BY <3>1 DEF Commands, Command
    <3>3. m.cmd = "init" /\ m.exec = e => q = p
      BY <1>1, <1>11, <2>4 DEF Delivers, Pending
    <3> QED  BY <1>1, <1>8, <2>3, <3>2, <3>3
  <2>6. m.cmd = "stopfor" => m.exec \in Execs /\ m.exec # e /\ s.execs[m.exec].stop = "sent"
    BY <1>2, <2>4 DEF Delivers, Shape, ExecutorsKept
  <2> QED  BY <1>1, <1>8, <1>10, <2>5, <2>6 DEF Pending
<1>13. PhaseOK'
  BY DEF Shape, TypeOK, PhaseOK
<1>14. \A x \in Agents : \/ WaitChanges(x)
                         \/ runner'[x] = runner[x] /\ (runner[x].pc = "newExecutor" => runner[x].exec \notin {e})
  BY <1>10, <1>11
<1> QED  BY <1>9, <1>10, <1>12, <1>13, <1>14, TakesDownKeepsShape

(* No process has held it. *)
LEMMA GivenUpFades ==
    ASSUME Shape, NEW e \in Execs, Unregistered(e), TakesDown({e}), \A a \in Agents : RunnerFades(a)
    PROVE  Fades
<1>1. ASSUME NEW q \in Procs PROVE s'.procs[q].pool = s.procs[q].pool
  <2>1. s.procs[q].pool \in [Agents -> Nat] /\ s'.procs[q].pool \in [Agents -> Nat]
    <3>1. s \in Pools /\ s' \in Pools /\ q \in Procs'
      BY DEF Shape, TypeOK, TakesDown
    <3>2. s.procs[q] \in Processes /\ s'.procs[q] \in Processes
      BY <3>1 DEF Pools, Procs
    <3> QED  BY <3>2 DEF Processes
  <2>2. \A a \in Agents : s'.procs[q].pool[a] = s.procs[q].pool[a]
    BY DEF TakesDown, Unregistered
  <2> QED  BY <2>1, <2>2
<1> QED  BY <1>1, TakesDownFades

(* The connection is lost before the answer. *)
LEMMA InitFailsKeepsShape ==
    ASSUME Shape, NEW a \in Agents, InitFails(a)
    PROVE  Shape' /\ Fades
<1>1. /\ runner[a].pc = "newExecutor" /\ s.procs[runner[a].proc].lost /\ Fail(a) /\ UNCHANGED <<phase, crashes>>
      /\ s' = [s EXCEPT !.execs[runner[a].exec] = Forgotten]
  BY DEF InitFails
<1>2. PICK e \in Execs : e = runner[a].exec /\ ~s.execs[e].down /\ s.execs[e].proc = runner[a].proc
  BY <1>1 DEF Shape, RunnersKept, RunnerKept, StartsExecutor, Running
<1>3. PICK p \in Procs : p = runner[a].proc
  BY <1>2 DEF Shape, ExecutorsKept
<1>4. s \in Pools /\ s.procs[p] \in Processes /\ s.procs \in Seq(Processes)
  BY DEF Shape, TypeOK, Pools, Procs
<1>5. s.procs[p].inbox = <<>> /\ Distinct(s.procs[p].inbox) /\ Mail(s.procs[p].inbox) = {}
  <2>1. s.procs[p].inbox = <<>> /\ Distinct(s.procs[p].inbox)
    BY <1>1, <1>3 DEF Shape, MailKept, MailOf
  <2> QED  BY <2>1 DEF Mail
<1>6. GivesUp(a, e, p, s.procs[p])
  BY <1>1, <1>2, <1>3, <1>5 DEF GivesUp
<1>7. s' = [s EXCEPT !.procs[p] = s.procs[p], !.execs[e] = Forgotten]
  <2>1. [s.procs EXCEPT ![p] = s.procs[p]] = s.procs
    BY <1>4, ElementOfSeq, LenProperties DEF Procs
  <2> QED  BY <1>1, <1>2, <1>4, <2>1 DEF Pools
<1>8. Shape' /\ TakesDown({e})
  BY <1>1, <1>2, <1>4, <1>6, <1>7, GivingUpKeepsShape
<1>9. \A x \in Agents : RunnerFades(x)
  <2>1. runner'[a] = Idle /\ \A x \in Agents : x # a => runner'[x] = runner[x]
    BY <1>1, FailEffect
  <2>2. s'.execs[e].down /\ s'.procs[p].closing
    BY <1>1, <1>3, <1>8 DEF TakesDown, Shape, MailKept, MailOf
  <2> QED  BY <1>1, <1>2, <1>3, <2>1, <2>2 DEF RunnerFades, Idle
<1>10. Unregistered(e)
  BY <1>1, <1>2 DEF Shape, RunnersKept, RunnerKept, StartsExecutor
<1> QED  BY <1>8, <1>9, <1>10, GivenUpFades

(* The init command is answered: the runner that waits for it is the one of its agent. *)
Answers(p, a, e) ==
    /\ Receives(p) /\ Message(p) = Command("init", e)
    /\ runner[a].pc = "newExecutor" /\ runner[a].exec = e /\ runner[a].proc = p /\ runner[a].bp = s.execs[e].bp
    /\ s.execs[e].agent = a /\ s.execs[e].proc = p /\ Running(s, e) /\ s.execs[e].remote = "none"
    /\ Unregistered(e) /\ Id(s, e) \in Ids /\ s.procs[p].bp = s.execs[e].bp

(* The command tells which runner waits. *)
LEMMA InitIsAwaited ==
    ASSUME Shape, NEW p \in Procs, Received(p, "init")
    PROVE  /\ Message(p).exec \in Execs /\ s.execs[Message(p).exec].agent \in Agents
           /\ Answers(p, s.execs[Message(p).exec].agent, Message(p).exec)
<1>1. Receives(p) /\ Message(p).cmd = "init"
  BY ReceivedMail
<1>2. PICK m \in Commands : m = Message(p)
  BY <1>1 DEF Receives
<1>3. PICK a \in Agents : runner[a].pc = "newExecutor" /\ runner[a].exec = m.exec /\ runner[a].proc = p
  BY <1>1, <1>2 DEF Receives, Delivers, Pending
<1>4. StartsExecutor(a)
  BY DEF Shape, RunnersKept, RunnerKept
<1>5. PICK e \in Execs : e = m.exec
  BY <1>3, <1>4 DEF StartsExecutor
<1>6. /\ s.execs[e].agent = a /\ s.execs[e].proc = p /\ Running(s, e) /\ s.execs[e].remote = "none"
      /\ Unregistered(e) /\ runner[a].bp = s.execs[e].bp
  BY <1>3, <1>4, <1>5 DEF StartsExecutor
<1>7. Id(s, e) \in Ids /\ s.procs[p].bp = s.execs[e].bp
  <2>1. s.execs[e] \in Executors
    BY DEF Shape, TypeOK, Pools, Execs
  <2> QED  BY <1>6, <2>1 DEF Executors, Id, Running, Shape, ExecutorsKept
<1>8. m = Command("init", e)
  BY <1>1, <1>2, <1>5 DEF Commands, Command
<1> QED  BY <1>1, <1>2, <1>3, <1>5, <1>6, <1>7, <1>8 DEF Answers

(* init_for fails: the executor is given up. *)
InitFailed(p) == LET e == Message(p).exec
                 IN  /\ s' = [[s EXCEPT !.procs[p].inbox = Tail(@)] EXCEPT !.execs[e] = Forgotten]
                     /\ Fail(s.execs[e].agent)

(* The executor is in no cache, and its runner gives up. *)
LEMMA InitForFailsKeepsShape ==
    ASSUME Shape, NEW p \in Procs, Received(p, "init"), InitFailed(p), UNCHANGED <<phase, crashes>>
    PROVE  Shape' /\ TakesDown({Message(p).exec})
<1>1. PICK e \in Execs : e = Message(p).exec
  BY InitIsAwaited
<1>2. PICK a \in Agents : a = s.execs[e].agent
  BY <1>1, InitIsAwaited
<1>3. Answers(p, a, e)
  BY <1>1, <1>2, InitIsAwaited
<1>4. s.procs[p] \in Processes
  BY DEF Shape, TypeOK, Pools, Procs
<1>5. PICK q \in Seq(Commands) : q = Tail(s.procs[p].inbox)
  BY <1>3 DEF Answers, Receives
<1>6. PICK P \in Processes : P = [s.procs[p] EXCEPT !.inbox = q]
  BY <1>4 DEF Processes
<1>7. /\ P.bp = s.procs[p].bp /\ P.pool = s.procs[p].pool /\ P.closing = s.procs[p].closing /\ P.inbox = q
      /\ P.lost = s.procs[p].lost /\ P.os = s.procs[p].os /\ P.down = s.procs[p].down
  BY <1>4, <1>6 DEF Processes
<1>8. GivesUp(a, e, p, P)
  BY <1>3, <1>5, <1>7 DEF GivesUp, Answers, Receives
<1>9. s' = [s EXCEPT !.procs[p] = P, !.execs[e] = Forgotten] /\ Fail(a)
  <2>1. s' = [[s EXCEPT !.procs[p].inbox = Tail(@)] EXCEPT !.execs[e] = Forgotten] /\ Fail(a)
    BY <1>1, <1>2 DEF InitFailed
  <2>2. [s EXCEPT !.procs[p].inbox = Tail(@)] = [s EXCEPT !.procs[p] = P]
    BY <1>5, <1>6
  <2>3. s \in Pools
    BY DEF Shape, TypeOK
  <2> QED  BY <2>1, <2>2, <2>3 DEF Pools
<1> QED  BY <1>1, <1>8, <1>9, GivingUpKeepsShape

(* init_for succeeds: the executor is registered with its process and the      *)
(* manager, and its task goes on.                                              *)
Initialised(p, a, e) ==
    /\ s' \in Pools /\ s'.process_pool = s.process_pool
    /\ Execs' = Execs /\ Procs' = Procs
    /\ \A x \in Execs : x # e => s'.execs[x] = s.execs[x]
    /\ /\ s'.execs[e].agent = a /\ s'.execs[e].bp = s.execs[e].bp /\ s'.execs[e].proc = p
       /\ ~s'.execs[e].closing /\ ~s'.execs[e].down /\ s'.execs[e].stop = s.execs[e].stop
       /\ s'.execs[e].remote = "running"
    /\ \A i \in Ids : s'.pool[i] = IF i = <<a, s.execs[e].bp>> THEN e ELSE s.pool[i]
    /\ \A x \in Agents : s'.agent_map[x] = IF x = a THEN s.agent_map[x] \cup {e} ELSE s.agent_map[x]
    /\ \A q \in Procs : q # p => s'.procs[q] = s.procs[q]
    /\ /\ s'.procs[p].bp = s.procs[p].bp /\ s'.procs[p].closing = s.procs[p].closing
       /\ s'.procs[p].lost = s.procs[p].lost /\ s'.procs[p].os = s.procs[p].os /\ s'.procs[p].down = s.procs[p].down
       /\ s'.procs[p].inbox = Tail(s.procs[p].inbox)
       /\ \A x \in Agents : s'.procs[p].pool[x] = IF x = a THEN e ELSE s.procs[p].pool[x]
    /\ runner' \in [Agents -> Waits]
    /\ runner'[a] = [pc |-> "executing", bp |-> s.procs[p].bp, proc |-> 0, exec |-> e]
    /\ \A x \in Agents \ {a} : runner'[x] = runner[x]

InitSucceeds(p, a, e) ==
    /\ s' = Register([[s EXCEPT !.procs[p].inbox = Tail(@)] EXCEPT !.procs[p].pool[a] = e,
                            !.execs[e].remote = "running", !.pool[Id(s, e)] = e], a, e)
    /\ Wait(a, s.procs[p].bp, "executing", 0, e)

(* What a successful answer does. *)
LEMMA InitialisedEffect ==
    ASSUME Shape, NEW p \in Procs, NEW a \in Agents, NEW e \in Execs, Answers(p, a, e), InitSucceeds(p, a, e)
    PROVE  Initialised(p, a, e)
<1>1. /\ s \in Pools /\ s.execs[e] \in Executors /\ s.procs[p] \in Processes /\ e \in Nat
      /\ s.procs \in [Procs -> Processes] /\ s.execs \in [Execs -> Executors]
      /\ s.procs \in Seq(Processes) /\ runner \in [Agents -> Waits]
  BY ElementOfSeq, LenProperties DEF Shape, TypeOK, Pools, Execs, Procs
<1>2. /\ s.execs[e].agent = a /\ s.execs[e].proc = p /\ ~s.execs[e].closing /\ ~s.execs[e].down
  BY DEF Answers, Running
<1>3. PICK X \in Executors : X = [s.execs[e] EXCEPT !.remote = "running"]
  BY <1>1 DEF Executors
<1>4. /\ X.agent = a /\ X.bp = s.execs[e].bp /\ X.proc = p /\ ~X.closing /\ ~X.down
      /\ X.stop = s.execs[e].stop /\ X.remote = "running"
  BY <1>1, <1>2, <1>3 DEF Executors
<1>5. PICK E \in Seq(Executors) : E = [s.execs EXCEPT ![e] = X] /\ ReplacesExecutor(E, e, X)
  <2>1. ReplacesExecutor([s.execs EXCEPT ![e] = X], e, X)
    BY ExecutorReplaced
  <2>2. [s.execs EXCEPT ![e] = X] \in Seq(Executors)
    BY <2>1 DEF ReplacesExecutor
  <2> QED  BY <2>1, <2>2
<1>6. PICK q \in Seq(Commands) : q = Tail(s.procs[p].inbox)
  BY DEF Answers, Receives
<1>7. PICK f \in [Agents -> Nat] : f = [s.procs[p].pool EXCEPT ![a] = e]
  BY <1>1 DEF Processes
<1>8. \A x \in Agents : f[x] = IF x = a THEN e ELSE s.procs[p].pool[x]
  BY <1>1, <1>7 DEF Processes
<1>9. PICK P \in Processes : P = [s.procs[p] EXCEPT !.inbox = q, !.pool = f]
  BY <1>1 DEF Processes
<1>10. /\ P.bp = s.procs[p].bp /\ P.pool = f /\ P.closing = s.procs[p].closing /\ P.inbox = q
       /\ P.lost = s.procs[p].lost /\ P.os = s.procs[p].os /\ P.down = s.procs[p].down
  BY <1>1, <1>9 DEF Processes
<1>11. PICK i \in Ids : i = Id(s, e)
  BY DEF Answers
<1>12. i = <<a, s.execs[e].bp>>
  BY <1>2, <1>11 DEF Id
<1>13. PICK g \in [Ids -> Nat] : g = [s.pool EXCEPT ![i] = e]
  BY <1>1 DEF Pools
<1>14. \A j \in Ids : g[j] = IF j = i THEN e ELSE s.pool[j]
  BY <1>1, <1>13 DEF Pools
<1>15. PICK Q \in Seq(Processes) : Q = [s.procs EXCEPT ![p] = P]
  BY <1>1, ExceptSeq DEF Procs
<1>16. Len(Q) = Len(s.procs) /\ Q[p] = P /\ \A x \in Procs : x # p => Q[x] = s.procs[x]
  BY <1>1, <1>15, ExceptSeq DEF Procs
<1>17. PICK t \in Pools : t = [s EXCEPT !.procs = Q, !.execs = E, !.pool = g]
  BY <1>1 DEF Pools
<1>18. /\ t.procs = Q /\ t.execs = E /\ t.pool = g /\ t.process_pool = s.process_pool /\ t.agent_map = s.agent_map
  BY <1>1, <1>17 DEF Pools
<1>19. s' = Register(t, a, e)
  <2>1. [s.execs EXCEPT ![e].remote = "running"] = E
    BY <1>3, <1>5
  <2>2. PICK P0 \in Processes : P0 = [s.procs[p] EXCEPT !.inbox = q]
    BY <1>1 DEF Processes
  <2>3. P0.pool = s.procs[p].pool /\ P = [P0 EXCEPT !.pool[a] = e]
    BY <1>1, <1>7, <1>9, <2>2 DEF Processes
  <2>4. PICK Q0 \in [Procs -> Processes] : Q0 = [s.procs EXCEPT ![p] = P0]
    BY <1>1
  <2>5. Q0[p] = P0 /\ Q = [Q0 EXCEPT ![p] = P]
    BY <1>1, <1>15, <2>4
  <2>6. [s.procs EXCEPT ![p].inbox = Tail(@)] = Q0
    BY <1>6, <2>2, <2>4
  <2>7. [Q0 EXCEPT ![p].pool[a] = e] = Q
    BY <2>3, <2>5
  <2>8. PICK u : u = [s EXCEPT !.procs[p].inbox = Tail(@)]
    OBVIOUS
  <2>9. u = [s EXCEPT !.procs = Q0]
    BY <2>6, <2>8
  <2>10. t = [u EXCEPT !.procs = Q, !.execs = E, !.pool = g]
    BY <1>1, <1>17, <2>9 DEF Pools
  <2>11. u.procs = Q0 /\ u.execs = s.execs /\ u.pool = s.pool
    BY <1>1, <2>9 DEF Pools
  <2>12. t = [u EXCEPT !.procs[p].pool[a] = e, !.execs[e].remote = "running", !.pool[Id(s, e)] = e]
    BY <1>11, <1>13, <2>1, <2>7, <2>10, <2>11
  <2> QED  BY <2>8, <2>12 DEF InitSucceeds
<1>20. /\ s' \in Pools /\ s'.procs = Q /\ s'.execs = E /\ s'.pool = g /\ s'.process_pool = s.process_pool
       /\ s'.agent_map = [s.agent_map EXCEPT ![a] = @ \cup {e}]
  <2>1. /\ Register(t, a, e) \in Pools /\ Register(t, a, e).procs = t.procs /\ Register(t, a, e).execs = t.execs
        /\ Register(t, a, e).pool = t.pool /\ Register(t, a, e).process_pool = t.process_pool
        /\ Register(t, a, e).agent_map = [t.agent_map EXCEPT ![a] = @ \cup {e}]
    <3>1. e \in Nat
      BY <1>1
    <3> QED  BY <3>1, RegisterKept
  <2> QED  BY <1>18, <1>19, <2>1
<1>21. \A x \in Agents : s'.agent_map[x] = IF x = a THEN s.agent_map[x] \cup {e} ELSE s.agent_map[x]
  BY <1>1, <1>20 DEF Pools
<1>22. Execs' = Execs /\ Procs' = Procs
  BY <1>5, <1>16, <1>20 DEF Execs, Procs, ReplacesExecutor
<1>23. /\ runner' \in [Agents -> Waits]
       /\ runner'[a] = [pc |-> "executing", bp |-> s.procs[p].bp, proc |-> 0, exec |-> e]
       /\ \A x \in Agents \ {a} : runner'[x] = runner[x]
  <2>1. s.procs[p].bp \in Blueprints
    BY <1>1 DEF Processes
  <2> QED  BY <1>1, <2>1 DEF InitSucceeds, Wait, Waits
<1>24. s'.execs[e] = X /\ \A x \in Execs : x # e => s'.execs[x] = s.execs[x]
  BY <1>5, <1>20 DEF ReplacesExecutor
<1>25. s'.procs[p] = P /\ \A x \in Procs : x # p => s'.procs[x] = s.procs[x]
  BY <1>16, <1>20
<1>26. \A j \in Ids : s'.pool[j] = IF j = <<a, s.execs[e].bp>> THEN e ELSE s.pool[j]
  BY <1>12, <1>14, <1>20
<1> QED  BY <1>4, <1>6, <1>8, <1>10, <1>20, <1>21, <1>22, <1>23, <1>24, <1>25, <1>26 DEF Initialised

(* The pools know the executor from now on, and nothing else has changed for the others. *)
LEMMA InitialisedKeepsShape ==
    ASSUME Shape, NEW p \in Procs, NEW a \in Agents, NEW e \in Execs, Answers(p, a, e), Initialised(p, a, e),
           UNCHANGED <<phase, crashes>>
    PROVE  Shape'
<1>1. /\ Receives(p) /\ Message(p) = Command("init", e)
      /\ runner[a].pc = "newExecutor" /\ runner[a].exec = e /\ runner[a].proc = p /\ runner[a].bp = s.execs[e].bp
      /\ s.execs[e].agent = a /\ s.execs[e].proc = p /\ ~s.execs[e].closing /\ ~s.execs[e].down
      /\ Unregistered(e) /\ <<a, s.execs[e].bp>> \in Ids /\ s.procs[p].bp = s.execs[e].bp
  BY DEF Answers, Running, Id
<1>2. /\ s' \in Pools /\ s'.process_pool = s.process_pool
      /\ Execs' = Execs /\ Procs' = Procs
      /\ \A x \in Execs : x # e => s'.execs[x] = s.execs[x]
  BY DEF Initialised
<1>3. /\ s'.execs[e].agent = a /\ s'.execs[e].bp = s.execs[e].bp /\ s'.execs[e].proc = p
      /\ ~s'.execs[e].closing /\ ~s'.execs[e].down /\ s'.execs[e].stop = s.execs[e].stop
  BY DEF Initialised
<1>4. \A i \in Ids : s'.pool[i] = IF i = <<a, s.execs[e].bp>> THEN e ELSE s.pool[i]
  BY DEF Initialised
<1>5. \A x \in Agents : s'.agent_map[x] = IF x = a THEN s.agent_map[x] \cup {e} ELSE s.agent_map[x]
  BY DEF Initialised
<1>6. /\ \A q \in Procs : q # p => s'.procs[q] = s.procs[q]
      /\ s'.procs[p].bp = s.procs[p].bp /\ s'.procs[p].closing = s.procs[p].closing
      /\ s'.procs[p].lost = s.procs[p].lost /\ s'.procs[p].os = s.procs[p].os /\ s'.procs[p].down = s.procs[p].down
      /\ s'.procs[p].inbox = Tail(s.procs[p].inbox)
      /\ \A x \in Agents : s'.procs[p].pool[x] = IF x = a THEN e ELSE s.procs[p].pool[x]
  BY DEF Initialised
<1>7. /\ runner' \in [Agents -> Waits]
      /\ runner'[a] = [pc |-> "executing", bp |-> s.procs[p].bp, proc |-> 0, exec |-> e]
      /\ \A x \in Agents \ {a} : runner'[x] = runner[x]
  BY DEF Initialised
<1>8. TypeOK'
  BY <1>2, <1>7 DEF Shape, TypeOK
<1>9. \A x \in Execs : /\ s'.execs[x].agent = s.execs[x].agent /\ s'.execs[x].bp = s.execs[x].bp
                       /\ s'.execs[x].proc = s.execs[x].proc /\ (s'.execs[x].closing <=> s.execs[x].closing)
                       /\ (s'.execs[x].down <=> s.execs[x].down) /\ s'.execs[x].stop = s.execs[x].stop
                       /\ s.execs[x].down => s'.execs[x] = s.execs[x]
  BY <1>1, <1>2, <1>3
<1>10. \A q \in Procs : s'.procs[q].bp = s.procs[q].bp /\ s'.procs[q].closing = s.procs[q].closing
  BY <1>6
<1>11. ObjectsStay
  BY <1>2, <1>9, <1>10 DEF ObjectsStay
<1>12. ExecutorsKept'
  <2>1. SUFFICES ASSUME NEW x \in Execs
                 PROVE  /\ s'.execs[x].down => s'.execs[x].closing /\ s'.execs[x].stop = "done" /\ s'.execs[x].remote = "none"
                        /\ ~s'.execs[x].down =>
                             /\ s'.execs[x].proc \in Procs /\ s'.procs[s'.execs[x].proc].bp = s'.execs[x].bp
                             /\ s'.execs[x].stop # "done" /\ (s'.execs[x].closing <=> s'.execs[x].stop # "no")
    BY <1>2 DEF ExecutorsKept
  <2>2. /\ s.execs[x].down => s.execs[x].closing /\ s.execs[x].stop = "done" /\ s.execs[x].remote = "none"
        /\ ~s.execs[x].down =>
             /\ s.execs[x].proc \in Procs /\ s.procs[s.execs[x].proc].bp = s.execs[x].bp
             /\ s.execs[x].stop # "done" /\ (s.execs[x].closing <=> s.execs[x].stop # "no")
    BY DEF Shape, ExecutorsKept
  <2> QED  BY <1>9, <1>10, <2>2
<1>13. PoolKept'
  <2>1. SUFFICES ASSUME NEW i \in Ids, s'.pool[i] # 0 PROVE s'.pool[i] \in Execs /\ Id(s', s'.pool[i]) = i
    BY <1>2 DEF PoolKept, Id
  <2>2. CASE i = <<a, s.execs[e].bp>>
    BY <1>3, <1>4, <2>2 DEF Id
  <2>3. CASE i # <<a, s.execs[e].bp>>
    BY <1>4, <1>9, <2>1, <2>3 DEF Shape, PoolKept, Id
  <2> QED  BY <2>2, <2>3
<1>14. AgentMapKept'
  <2>1. SUFFICES ASSUME NEW x \in Agents, NEW y \in s'.agent_map[x] PROVE y \in Execs /\ s'.execs[y].agent = x
    BY <1>2 DEF AgentMapKept
  <2>2. y \in s.agent_map[x] => y \in Execs /\ s.execs[y].agent = x
    BY DEF Shape, AgentMapKept
  <2>3. y \in s.agent_map[x] \/ (y = e /\ x = a)
    BY <1>5
  <2> QED  BY <1>3, <1>9, <2>2, <2>3
<1>15. HostsKept'
  <2>1. SUFFICES ASSUME NEW q \in Procs, NEW x \in Agents PROVE HostedBy(q, x)'
    BY <1>2 DEF HostsKept
  <2>2. HostedBy(q, x)
    BY DEF Shape, HostsKept
  <2>3. CASE q = p /\ x = a
    BY <1>2, <1>3, <1>6, <2>3 DEF HostedBy
  <2>4. CASE ~(q = p /\ x = a)
    <3>1. s'.procs[q].pool[x] = s.procs[q].pool[x]
      BY <1>6, <2>4
    <3> QED  BY <1>2, <1>9, <2>2, <3>1 DEF HostedBy
  <2> QED  BY <2>3, <2>4
<1>16. ProcessPoolKept'
  BY <1>2, <1>10 DEF Shape, ProcessPoolKept
<1>17. WaitChanges(a)
  BY <1>2, <1>3, <1>7 DEF WaitChanges, RunnerKept, Getting, Works, StartsProcess, StartsExecutor
<1>18. ASSUME NEW x \in Agents \ {a} PROVE WaitStays(x)
  <2>1. runner'[x] = runner[x]
    BY <1>7
  <2>2. ASSUME runner[x].pc = "newExecutor"
        PROVE  s'.execs[runner[x].exec] = s.execs[runner[x].exec] /\ Unregistered(runner[x].exec)'
    <3>1. StartsExecutor(x)
      BY DEF Shape, RunnersKept, RunnerKept
    <3>2. PICK y \in Execs : y = runner[x].exec /\ y # e /\ Unregistered(y)
      BY <1>1, <2>2, <3>1 DEF StartsExecutor
    <3>3. \A i \in Ids : s'.pool[i] # y
      BY <1>4, <3>2 DEF Unregistered
    <3>4. \A z \in Agents : y \notin s'.agent_map[z]
      BY <1>5, <3>2 DEF Unregistered
    <3>5. \A q \in Procs, z \in Agents : s'.procs[q].pool[z] # y
      BY <1>6, <3>2 DEF Unregistered
    <3>6. Unregistered(y)'
      BY <1>2, <3>3, <3>4, <3>5 DEF Unregistered
    <3> QED  BY <1>2, <2>1, <3>2, <3>6
  <2> QED  BY <1>2, <2>1, <2>2 DEF WaitStays
<1>19. RunnersKept'
  BY <1>11, <1>17, <1>18, RunnersStay
<1>20. ASSUME NEW q \in Procs PROVE MailOf(q)'
  <2>1. MailOf(q) /\ (StopCommand \in Mail(s.procs[q].inbox) => s.procs[q].closing)
    BY DEF Shape, MailKept, MailOf, Delivers, StopCommand, Command
  <2>2. MailShrinks(q)
    <3>1. CASE q # p
      BY <1>6, <2>1, <3>1 DEF MailShrinks, MailOf
    <3>2. CASE q = p
      BY <1>1, <1>6, <2>1, <3>2 DEF MailShrinks, MailOf, Receives
    <3> QED  BY <3>1, <3>2
  <2>3. MailStaysGood(q)
    <3>1. SUFFICES ASSUME NEW m \in Mail(s.procs[q].inbox), m \in Mail(s'.procs[q].inbox)
                   PROVE  /\ m.cmd = "init" => \A x \in Agents : Pending(x, m.exec) => runner'[x] = runner[x]
                          /\ m.cmd = "stopfor" => s'.execs[m.exec].stop = "sent" /\ s'.execs[m.exec].proc = s.execs[m.exec].proc
      BY DEF MailStaysGood
    <3>2. Delivers(m, q)
      BY <2>1 DEF MailOf
    <3>3. m.cmd = "init" => m.exec # e
      <4>1. m \in Commands
        <5>1. s.procs[q] \in Processes
          BY DEF Shape, TypeOK, Pools, Procs
        <5>2. s.procs[q].inbox \in Seq(Commands)
          BY <5>1 DEF Processes
        <5> QED  BY <5>2, ElementOfSeq DEF Mail
      <4>2. m.cmd = "init" /\ m.exec = e => m = Command("init", e)
        BY <4>1 DEF Commands, Command
      <4>3. ASSUME NEW x \in Agents, Pending(x, e) PROVE x = a
        BY <1>1, <4>3 DEF Shape, RunnersKept, RunnerKept, StartsExecutor, Pending
      <4>4. m.cmd = "init" /\ m.exec = e => q = p
        BY <1>1, <3>2, <4>3 DEF Delivers
      <4> QED  BY <1>1, <1>6, <3>1, <4>2, <4>4 DEF Receives
    <3>4. m.cmd = "stopfor" => m.exec \in Execs /\ s.execs[m.exec].stop = "sent"
      BY <3>2 DEF Delivers
    <3> QED  BY <1>1, <1>7, <1>9, <3>3, <3>4 DEF Pending
  <2> QED  BY <1>11, <2>2, <2>3, MailShrinksWell
<1> QED  BY <1>2, <1>8, <1>12, <1>13, <1>14, <1>15, <1>16, <1>19, <1>20 DEF Shape, MailKept

-----------------------------------------------------------------------------
(* The connection is lost *)

(* The executors that are closing, and those that the process still holds. *)
Outstanding(p) == {e \in Execs : s.execs[e].proc = p /\ s.execs[e].stop \in {"sent", "stopping"}}
Hosted(p)      == {s.procs[p].pool[a] : a \in Agents} \ {0}

(* Only one process has changed: it is closing, and gets no more commands. *)
OnlyLost(p) ==
    /\ s'.procs[p].closing /\ s'.procs[p].os = "dead" /\ s'.procs[p].inbox = <<>>
    /\ \A q \in Procs : q # p => s'.procs[q] = s.procs[q]

(* The manager is not told of u when the process could not be closed any more. *)
LosesMembers(p, told, u) ==
    s' = [s EXCEPT
        !.procs[p] = [@ EXCEPT !.closing = TRUE, !.lost = TRUE, !.inbox = <<>>, !.busy = {},
                               !.pool = [a \in Agents |-> 0]],
        !.agent_map = [a \in Agents |-> s.agent_map[a] \ told],
        !.last_used = {r \in @ : r[1] \notin told /\ r[2] \notin told},
        !.pool = [i \in Ids |-> IF s.pool[i] \in told THEN 0 ELSE s.pool[i]],
        !.execs = [e \in Execs |->
            IF e \in told THEN Forgotten
            ELSE IF e = u THEN [s.execs[e] EXCEPT !.closing = TRUE, !.down = TRUE, !.stop = "done", !.remote = "none"]
            ELSE s.execs[e]]]

(* Its executors are down, whether the manager was told of all of them or not. *)
LEMMA ConnectionLostEffect ==
    ASSUME Shape, NEW p \in Procs, ConnectionLost(p)
    PROVE  TakesDown(Outstanding(p) \cup Hosted(p)) /\ OnlyLost(p)
<1> DEFINE gone == Outstanding(p) \cup Hosted(p)
<1>1. /\ s \in Pools /\ s.procs[p] \in Processes /\ s.procs \in Seq(Processes) /\ s.execs \in Seq(Executors)
      /\ \A e \in Execs : s.execs[e] \in Executors
  BY DEF Shape, TypeOK, Pools, Execs, Procs
<1>2. \A e \in gone : e \in Execs /\ e # 0 /\ s.execs[e].proc = p /\ ~s.execs[e].down
  BY DEF Outstanding, Hosted, Shape, HostsKept, HostedBy, ExecutorsKept, Execs
<1>3. PICK u \in Nat : (u = 0 \/ u \in gone) /\ LosesMembers(p, gone \ {u}, u)
  <2> DEFINE closing  == {e \in Execs : s.execs[e].proc = p /\ s.execs[e].stop \in {"sent", "stopping"}}
             children == {s.procs[p].pool[a] : a \in Agents} \ {0}
             emptied  == ~s.procs[p].closing /\ closing # {} /\ children \subseteq closing
             last     == IF children = {} THEN closing ELSE children
  <2>1. gone = closing \cup children
    BY DEF Outstanding, Hosted
  <2>2. \A u \in IF emptied THEN last ELSE {0} : u \in Nat /\ (u = 0 \/ u \in gone)
    <3>1. \A u \in gone : u \in Nat
      BY <1>2 DEF Execs
    <3>2. last \subseteq gone
      BY <2>1
    <3> HIDE DEF last, emptied, gone
    <3> QED  BY <3>1, <3>2
  <2> HIDE DEF gone
  <2>3. PICK u \in IF emptied THEN last ELSE {0} : LosesMembers(p, (closing \cup children) \ {u}, u)
    BY DEF ConnectionLost, LosesMembers
  <2> QED  BY <2>1, <2>2, <2>3
<1> DEFINE told == gone \ {u}
           X(e) == IF e \in told THEN Forgotten
                   ELSE IF e = u THEN [s.execs[e] EXCEPT !.closing = TRUE, !.down = TRUE, !.stop = "done", !.remote = "none"]
                   ELSE s.execs[e]
           F == [e \in Execs |-> X(e)]
           G == [i \in Ids |-> IF s.pool[i] \in told THEN 0 ELSE s.pool[i]]
           A == [a \in Agents |-> s.agent_map[a] \ told]
           R == {r \in s.last_used : r[1] \notin told /\ r[2] \notin told}
           P == [s.procs[p] EXCEPT !.closing = TRUE, !.lost = TRUE, !.inbox = <<>>, !.busy = {},
                                   !.pool = [a \in Agents |-> 0]]
<1>4. s' = [s EXCEPT !.procs[p] = P, !.agent_map = A, !.last_used = R, !.pool = G, !.execs = F]
  BY <1>3 DEF LosesMembers
<1> HIDE DEF gone
<1>5. ASSUME NEW e \in Execs
      PROVE  /\ X(e) \in Executors
             /\ e \in gone => X(e).closing /\ X(e).down /\ X(e).stop = "done" /\ X(e).remote = "none"
             /\ e = u => X(e).agent = s.execs[e].agent /\ X(e).bp = s.execs[e].bp
             /\ e \notin gone => X(e) = s.execs[e]
  <2>1. s.execs[e] \in Executors /\ e # 0
    BY <1>1 DEF Execs
  <2>2. CASE e \in told
    <3>1. PICK i \in Ids : i = Id(s, e)
      BY <2>1 DEF Executors, Id
    <3>2. /\ Forgotten \in Executors
          /\ Forgotten.closing /\ Forgotten.down /\ Forgotten.stop = "done" /\ Forgotten.remote = "none"
      BY <3>1, ForgottenIsDown
    <3> QED  BY <2>2, <3>2
  <2>3. CASE e \notin told /\ e = u
    BY <1>3, <2>1, <2>3 DEF Executors
  <2>4. CASE e \notin told /\ e # u
    BY <2>1, <2>4
  <2> QED  BY <2>2, <2>3, <2>4
<1>6. F \in [1..Len(s.execs) -> Executors] /\ (\A e \in Execs : F[e] = X(e)) /\ Len(s.execs) \in Nat
  BY <1>1, <1>5, LenProperties DEF Execs
<1>7. /\ P \in Processes /\ P.bp = s.procs[p].bp /\ P.closing /\ P.lost /\ P.inbox = <<>> /\ P.os = s.procs[p].os
      /\ \A a \in Agents : P.pool[a] = 0
  <2>1. <<>> \in Seq(Commands)
    BY EmptySeq
  <2> QED  BY <1>1, <2>1 DEF Processes
<1>8. G \in [Ids -> Nat] /\ A \in [Agents -> SUBSET Nat] /\ R \in SUBSET (Nat \X Nat)
  BY <1>1 DEF Pools
<1>9. /\ \A i \in Ids : G[i] = IF s.pool[i] \in told THEN 0 ELSE s.pool[i]
      /\ \A a \in Agents : A[a] = s.agent_map[a] \ told
  OBVIOUS
<1> HIDE DEF X, F, G, A, R, P
<1>10. F \in Seq(Executors) /\ Len(F) = Len(s.execs)
  BY <1>6, IsASeq, LenProperties
<1>11. PICK Q \in Seq(Processes) : Q = [s.procs EXCEPT ![p] = P]
  BY <1>1, <1>7, ExceptSeq DEF Procs
<1>12. Len(Q) = Len(s.procs) /\ Q[p] = P /\ \A q \in Procs : q # p => Q[q] = s.procs[q]
  BY <1>1, <1>7, <1>11, ExceptSeq DEF Procs
<1>13. s' = [s EXCEPT !.procs = Q, !.agent_map = A, !.last_used = R, !.pool = G, !.execs = F]
  BY <1>4, <1>11
<1>14. s' \in Pools /\ s'.procs = Q /\ s'.agent_map = A /\ s'.pool = G /\ s'.execs = F /\ s'.process_pool = s.process_pool
  BY <1>1, <1>8, <1>10, <1>13 DEF Pools
<1>15. Execs' = Execs /\ Procs' = Procs
  BY <1>10, <1>12, <1>14 DEF Execs, Procs
<1>16. \A e \in Execs : s'.execs[e] = X(e)
  BY <1>6, <1>14
<1>17. ASSUME NEW i \in Ids
       PROVE  \/ s'.pool[i] = 0 /\ s.pool[i] \in gone
              \/ s'.pool[i] = s.pool[i] /\ (s.pool[i] \in gone => Id(s', s.pool[i]) = i)
  <2>1. s.pool[i] \in gone => s.pool[i] \in Execs /\ Id(s, s.pool[i]) = i
    BY <1>2 DEF Shape, PoolKept
  <2>2. s.pool[i] = u /\ s.pool[i] \in gone => Id(s', s.pool[i]) = Id(s, s.pool[i])
    BY <1>5, <1>16, <2>1 DEF Id
  <2> QED  BY <1>9, <1>14, <2>1, <2>2
<1>18. ASSUME NEW a \in Agents
       PROVE  /\ s'.agent_map[a] \subseteq s.agent_map[a]
              /\ s.agent_map[a] \ gone \subseteq s'.agent_map[a]
              /\ \A e \in s'.agent_map[a] \cap gone : s'.execs[e].agent = a
  <2>1. s'.agent_map[a] = s.agent_map[a] \ told
    BY <1>9, <1>14
  <2>2. \A e \in s.agent_map[a] : e \in Execs /\ s.execs[e].agent = a
    BY DEF Shape, AgentMapKept
  <2> QED  BY <1>5, <1>16, <2>1, <2>2
<1>19. ASSUME NEW q \in Procs, NEW a \in Agents
       PROVE  s'.procs[q].pool[a] = IF s.procs[q].pool[a] \in gone THEN 0 ELSE s.procs[q].pool[a]
  <2>1. CASE q = p
    <3>1. s.procs[p].pool[a] = 0 \/ s.procs[p].pool[a] \in gone
      BY DEF gone, Hosted
    <3> QED  BY <1>7, <1>12, <1>14, <2>1, <3>1
  <2>2. CASE q # p
    <3>1. s.procs[q].pool[a] \notin gone
      BY <1>2, <2>2 DEF Shape, HostsKept, HostedBy
    <3> QED  BY <1>12, <1>14, <2>2, <3>1
  <2> QED  BY <2>1, <2>2
<1>20. \A q \in Procs : s'.procs[q].bp = s.procs[q].bp /\ (s.procs[q].closing => s'.procs[q].closing)
  BY <1>7, <1>12, <1>14
<1>21. TakesDown(gone)
  <2>1. \A e \in Execs \ gone : s'.execs[e] = s.execs[e]
    BY <1>5, <1>16
  <2>2. \A e \in gone : s'.execs[e].closing /\ s'.execs[e].down /\ s'.execs[e].stop = "done" /\ s'.execs[e].remote = "none"
    BY <1>2, <1>5, <1>16
  <2> QED  BY <1>14, <1>15, <1>17, <1>18, <1>19, <1>20, <2>1, <2>2 DEF TakesDown
<1>22. OnlyLost(p)
  <2>1. s.procs[p].os = "dead"
    BY DEF ConnectionLost
  <2> QED  BY <1>7, <1>12, <1>14, <2>1 DEF OnlyLost
<1> QED  BY <1>21, <1>22 DEF gone

(* The executors of the process are down, and it is closing. *)
LEMMA ConnectionLostKeepsShape ==
    ASSUME Shape, NEW p \in Procs, ConnectionLost(p)
    PROVE  Shape' /\ Fades
<1> DEFINE gone == Outstanding(p) \cup Hosted(p)
<1>1. TakesDown(gone) /\ OnlyLost(p) /\ UNCHANGED <<runner, phase, crashes>>
  BY ConnectionLostEffect DEF ConnectionLost
<1>2. \A e \in gone : e \in Execs /\ s.execs[e].proc = p /\ (s.execs[e].stop \in {"sent", "stopping"} \/ ~Unregistered(e))
  <2>1. \A e \in Outstanding(p) : e \in Execs /\ s.execs[e].proc = p /\ s.execs[e].stop \in {"sent", "stopping"}
    BY DEF Outstanding
  <2>2. \A e \in Hosted(p) : e \in Execs /\ s.execs[e].proc = p /\ ~Unregistered(e)
    BY DEF Hosted, Shape, HostsKept, HostedBy, Unregistered
  <2> QED  BY <2>1, <2>2
<1> HIDE DEF gone
<1>3. ASSUME NEW a \in Agents, runner[a].pc = "newExecutor" PROVE runner[a].exec \notin gone
  <2>1. Unregistered(runner[a].exec)
    BY <1>3 DEF Shape, RunnersKept, RunnerKept, StartsExecutor
  <2>2. s.execs[runner[a].exec].stop = "no"
    BY <1>3, ClosingIsNotPending DEF Pending
  <2> QED  BY <1>2, <2>1, <2>2
<1>4. ASSUME NEW q \in Procs PROVE MailShrinks(q) /\ MailStaysGood(q)
  <2>1. MailOf(q) /\ (StopCommand \in Mail(s.procs[q].inbox) => s.procs[q].closing)
    BY DEF Shape, MailKept, MailOf, Delivers, StopCommand, Command
  <2>2. CASE q = p
    <3>1. Mail(s'.procs[p].inbox) = {} /\ Distinct(s'.procs[p].inbox)
      <4>1. s'.procs[p].inbox = <<>>
        BY <1>1 DEF OnlyLost
      <4> QED  BY <4>1 DEF Mail, Distinct
    <3> QED  BY <1>1, <2>2, <3>1 DEF OnlyLost, MailShrinks, MailStaysGood
  <2>3. CASE q # p
    <3>1. s'.procs[q] = s.procs[q]
      BY <1>1, <2>3 DEF OnlyLost
    <3>2. MailShrinks(q)
      BY <2>1, <3>1 DEF MailShrinks, MailOf
    <3>3. ASSUME NEW m \in Mail(s.procs[q].inbox), m.cmd = "stopfor"
          PROVE  s'.execs[m.exec].stop = "sent" /\ s'.execs[m.exec].proc = s.execs[m.exec].proc
      <4>1. m.exec \in Execs /\ s.execs[m.exec].proc = q /\ s.execs[m.exec].stop = "sent"
        BY <2>1, <3>3 DEF MailOf, Delivers
      <4>2. m.exec \notin gone
        BY <1>2, <2>3, <4>1
      <4> QED  BY <1>1, <4>1, <4>2 DEF TakesDown
    <3> QED  BY <1>1, <3>2, <3>3 DEF MailStaysGood
  <2> QED  BY <2>2, <2>3
<1>5. gone \in SUBSET Execs
  BY <1>2
<1>6. runner' \in [Agents -> Waits] /\ PhaseOK'
  BY <1>1 DEF Shape, TypeOK, PhaseOK
<1>7. \A q \in Procs : s'.procs[q].closing \/ ~is_empty(s'.procs[q]) \/ s'.procs[q].pool = s.procs[q].pool
  BY <1>1 DEF OnlyLost
<1>8. \A a \in Agents : RunnerFades(a)
  BY <1>1 DEF RunnerFades
<1>9. Fades
  BY <1>1, <1>5, <1>7, <1>8, TakesDownFades
<1> QED  BY <1>1, <1>3, <1>4, <1>5, <1>6, <1>9, TakesDownKeepsShape

-----------------------------------------------------------------------------
(* Processes that start, and executors that are asked for *)

(* make_child_and_connect: the runner waits for a process of its own. *)
Forks(a, b, n) ==
    /\ s' = [s EXCEPT !.procs = Append(@, NewProcess(b))]
    /\ Wait(a, b, "newProcess", n, 0)

Forked(a, b, n) ==
    /\ s' \in Pools /\ s'.execs = s.execs /\ s'.pool = s.pool /\ s'.agent_map = s.agent_map
    /\ s'.process_pool = s.process_pool
    /\ Procs' = Procs \cup {n} /\ n \notin Procs
    /\ \A p \in Procs : s'.procs[p] = s.procs[p]
    /\ /\ s'.procs[n].bp = b /\ ~s'.procs[n].closing /\ ~s'.procs[n].lost /\ ~s'.procs[n].down
       /\ s'.procs[n].inbox = <<>> /\ \A x \in Agents : s'.procs[n].pool[x] = 0
    /\ runner' \in [Agents -> Waits]
    /\ runner'[a] = [pc |-> "newProcess", bp |-> b, proc |-> n, exec |-> 0]
    /\ \A x \in Agents \ {a} : runner'[x] = runner[x]

(* Nobody else knows the new process. *)
LEMMA ForkedEffect ==
    ASSUME Shape, NEW a \in Agents, NEW b \in Blueprints, NEW n \in Nat, n = Len(s.procs) + 1, Forks(a, b, n)
    PROVE  Forked(a, b, n)
<1>1. s \in Pools /\ s.procs \in Seq(Processes) /\ Len(s.procs) \in Nat /\ runner \in [Agents -> Waits]
  BY LenProperties DEF Shape, TypeOK, Pools
<1>2. PICK P \in Processes : P = NewProcess(b)
  <2>1. <<>> \in Seq(Commands)
    BY EmptySeq
  <2> QED  BY <2>1 DEF NewProcess, Processes
<1>3. /\ P.bp = b /\ ~P.closing /\ ~P.lost /\ ~P.down /\ P.inbox = <<>> /\ \A x \in Agents : P.pool[x] = 0
  BY <1>2 DEF NewProcess
<1>4. PICK Q \in Seq(Processes) : Q = Append(s.procs, P)
  BY <1>1, AppendProperties
<1>5. Len(Q) = n /\ Q[n] = P /\ \A p \in Procs : Q[p] = s.procs[p]
  BY <1>1, <1>4, AppendProperties DEF Procs
<1>6. s' = [s EXCEPT !.procs = Q]
  BY <1>2, <1>4 DEF Forks
<1>7. /\ s' \in Pools /\ s'.procs = Q /\ s'.execs = s.execs /\ s'.pool = s.pool /\ s'.agent_map = s.agent_map
      /\ s'.process_pool = s.process_pool
  BY <1>1, <1>6 DEF Pools
<1>8. Procs' = Procs \cup {n} /\ n \notin Procs
  BY <1>1, <1>5, <1>7 DEF Procs
<1>9. /\ runner' \in [Agents -> Waits]
      /\ runner'[a] = [pc |-> "newProcess", bp |-> b, proc |-> n, exec |-> 0]
      /\ \A x \in Agents \ {a} : runner'[x] = runner[x]
  BY <1>1 DEF Forks, Wait, Waits
<1> QED  BY <1>3, <1>5, <1>7, <1>8, <1>9 DEF Forked

(* There is no other start of a process for the blueprint. *)
LEMMA ForkedKeepsShape ==
    ASSUME Shape, NEW a \in Agents, runner[a].pc = "wantProcess", NEW b \in Blueprints, b = runner[a].bp,
           ~usable(s.process_pool[b]), \A x \in Agents : runner[x].pc = "newProcess" => runner[x].bp # b,
           NEW n \in Nat, Forked(a, b, n), UNCHANGED <<phase, crashes>>
    PROVE  Shape'
<1>1. /\ s' \in Pools /\ s'.execs = s.execs /\ s'.pool = s.pool /\ s'.agent_map = s.agent_map
      /\ s'.process_pool = s.process_pool
      /\ Procs' = Procs \cup {n} /\ n \notin Procs /\ Execs' = Execs
      /\ \A p \in Procs : s'.procs[p] = s.procs[p]
  BY DEF Forked, Execs
<1>2. /\ s'.procs[n].bp = b /\ ~s'.procs[n].closing /\ ~s'.procs[n].lost /\ ~s'.procs[n].down
      /\ s'.procs[n].inbox = <<>> /\ \A x \in Agents : s'.procs[n].pool[x] = 0
  BY DEF Forked
<1>3. /\ runner' \in [Agents -> Waits]
      /\ runner'[a] = [pc |-> "newProcess", bp |-> b, proc |-> n, exec |-> 0]
      /\ \A x \in Agents \ {a} : runner'[x] = runner[x]
  BY DEF Forked
<1>4. TypeOK'
  BY <1>1, <1>3 DEF Shape, TypeOK
<1>5. ExecutorsKept'
  BY <1>1 DEF Shape, ExecutorsKept
<1>6. PoolKept' /\ AgentMapKept'
  BY <1>1 DEF Shape, PoolKept, AgentMapKept, Id
<1>7. HostsKept'
  <2>1. SUFFICES ASSUME NEW p \in Procs', NEW x \in Agents PROVE HostedBy(p, x)'
    BY DEF HostsKept
  <2>2. CASE p = n
    BY <1>2, <2>2 DEF HostedBy
  <2>3. CASE p \in Procs
    BY <1>1, <2>3 DEF Shape, HostsKept, HostedBy
  <2> QED  BY <1>1, <2>2, <2>3
<1>8. ProcessPoolKept'
  BY <1>1 DEF Shape, ProcessPoolKept
<1>9. ObjectsStay
  BY <1>1 DEF ObjectsStay, Shape, ExecutorsKept
<1>10. <<a, b>> \in Ids
  BY DEF Shape, RunnersKept, RunnerKept, Getting
<1>11. ~usable(s.process_pool[b])'
  <2>1. s.process_pool[b] # 0 => s.process_pool[b] \in Procs
    BY DEF Shape, ProcessPoolKept
  <2> QED  BY <1>1, <2>1 DEF usable
<1>12. RunnerKept(a)'
  <2>1. \A x \in Agents : runner'[x].pc = "newProcess" /\ runner'[x].bp = b => x = a
    BY <1>3
  <2>2. StartsProcess(a)'
    BY <1>1, <1>2, <1>3, <1>11, <2>1, SMTT(30) DEF StartsProcess, usable
  <2> QED  BY <1>3, <1>10, <2>2 DEF RunnerKept, Getting, Works, StartsExecutor
<1>13. ASSUME NEW x \in Agents \ {a} PROVE RunnerKept(x)'
  <2>1. runner'[x] = runner[x] /\ RunnerKept(x)
    BY <1>3 DEF Shape, RunnersKept
  <2>2. Works(x)'
    BY <1>1, <2>1 DEF RunnerKept, Works
  <2>3. StartsProcess(x)'
    <3>1. SUFFICES ASSUME runner[x].pc = "newProcess" PROVE StartsProcess(x)'
      BY <2>1 DEF StartsProcess
    <3>2. /\ runner[x].proc \in Procs /\ s.procs[runner[x].proc].bp = runner[x].bp /\ runner[x].bp # b
          /\ ~usable(s.process_pool[runner[x].bp])
          /\ \A y \in Agents : runner[y].pc = "newProcess" /\ runner[y].bp = runner[x].bp => y = x
      BY <2>1, <3>1 DEF RunnerKept, StartsProcess
    <3>3. runner[x].bp \in Blueprints
      BY <2>1, <3>1, PoolsAssumption DEF RunnerKept, Getting
    <3>4. ~usable(s.process_pool[runner[x].bp])'
      <4>1. s.process_pool[runner[x].bp] # 0 => s.process_pool[runner[x].bp] \in Procs
        BY <3>3 DEF Shape, ProcessPoolKept
      <4> QED  BY <1>1, <2>1, <3>2, <4>1 DEF usable
    <3>5. \A y \in Agents : runner'[y].pc = "newProcess" /\ runner'[y].bp = runner[x].bp => y = x
      BY <1>3, <3>2
    <3> QED  BY <1>1, <2>1, <3>2, <3>4, <3>5 DEF StartsProcess
  <2>4. StartsExecutor(x)'
    <3>1. SUFFICES ASSUME runner[x].pc = "newExecutor" PROVE StartsExecutor(x)'
      BY <2>1 DEF StartsExecutor
    <3>2. StartsExecutor(x) /\ Unregistered(runner[x].exec) /\ runner[x].exec # 0
      BY <2>1, <3>1 DEF RunnerKept, StartsExecutor, Execs
    <3>3. \A p \in Procs', y \in Agents : s'.procs[p].pool[y] # runner[x].exec
      BY <1>1, <1>2, <3>2 DEF Unregistered
    <3>4. Unregistered(runner[x].exec)'
      BY <1>1, <2>1, <3>2, <3>3 DEF Unregistered
    <3> QED  BY <1>1, <2>1, <3>1, <3>2, <3>4 DEF StartsExecutor, Running
  <2> QED  BY <2>1, <2>2, <2>3, <2>4 DEF RunnerKept, Getting
<1>14. RunnersKept'
  BY <1>12, <1>13 DEF RunnersKept
<1>15. ASSUME NEW p \in Procs' PROVE MailOf(p)'
  <2>1. CASE p = n
    <3>1. Mail(s'.procs[n].inbox) = {} /\ Distinct(s'.procs[n].inbox)
      BY <1>2 DEF Mail, Distinct
    <3> QED  BY <1>2, <2>1, <3>1 DEF MailOf
  <2>2. CASE p \in Procs
    <3>1. MailOf(p)
      BY <2>2 DEF Shape, MailKept
    <3>2. ASSUME NEW m \in Mail(s.procs[p].inbox) PROVE Delivers(m, p)'
      <4>1. \A x \in Agents : Pending(x, m.exec) => runner'[x] = runner[x]
        BY <1>3 DEF Pending
      <4> QED  BY <1>1, <1>9, <2>2, <4>1, MailStays
    <3> QED  BY <1>1, <2>2, <3>1, <3>2 DEF MailOf
  <2> QED  BY <1>1, <2>1, <2>2
<1> QED  BY <1>4, <1>5, <1>6, <1>7, <1>8, <1>14, <1>15 DEF Shape, MailKept

(* The runner a, which waits for the process p of the blueprint b, goes on with it. *)
HasProcess(a, b, p) ==
    /\ runner[a].pc \in {"wantProcess", "newProcess"} /\ runner[a].bp = b
    /\ s.procs[p].bp = b /\ p # 0
    /\ \A x \in Agents \ {a} : runner[x].pc = "newProcess" => runner[x].bp # b

InPool(b, p) == [s EXCEPT !.process_pool[b] = p]

(* The process is lost, the executor is there, or it is created. *)
Refuses(a, b, p) ==
    s.procs[p].lost /\ Fail(a) /\ s' = InPool(b, p)
Finds(a, b, p, e) ==
    /\ e = s.procs[p].pool[a] /\ ~s.execs[e].closing
    /\ s' = Register([InPool(b, p) EXCEPT !.pool[<<a, b>>] = e], a, e) /\ Wait(a, b, "executing", 0, e)

(* MPProcess.get has one of the three outcomes. *)
LEMMA GetExecutorOutcomes ==
    ASSUME Shape, NEW a \in Agents, NEW b \in Blueprints, NEW p \in Procs, HasProcess(a, b, p),
           NEW t \in Pools, t = InPool(b, p), get_executor(t, a, p)
    PROVE  \/ Refuses(a, b, p)
           \/ \E e \in Execs : Finds(a, b, p, e)
           \/ ~s.procs[p].lost /\ CreatesExecutor(a, p, b, Len(s.execs) + 1)
<1>1. s \in Pools /\ t.procs = s.procs /\ t.execs = s.execs
  BY DEF Shape, TypeOK, Pools, InPool
<1>2. t.procs[p].bp = b
  BY <1>1 DEF HasProcess
<1>3. CASE s.procs[p].lost
  BY <1>1, <1>3 DEF get_executor, Refuses
<1>4. CASE ~s.procs[p].lost
  <2> DEFINE e == s.procs[p].pool[a]
  <2>1. CASE e # 0 /\ ~s.execs[e].closing
    <3>1. e \in Execs
      BY <2>1 DEF Shape, HostsKept, HostedBy
    <3>2. s' = Register([t EXCEPT !.pool[<<a, b>>] = e], a, e) /\ Wait(a, b, "executing", 0, e)
      BY <1>1, <1>2, <1>4, <2>1 DEF get_executor
    <3> QED  BY <2>1, <3>1, <3>2 DEF Finds
  <2>2. CASE ~(e # 0 /\ ~s.execs[e].closing)
    <3>1. /\ s' = Send([t EXCEPT !.execs = Append(@, NewExecutor(a, p, b))], p, "init", Len(s.execs) + 1)
          /\ Wait(a, b, "newExecutor", p, Len(s.execs) + 1)
      BY <1>1, <1>2, <1>4, <2>2 DEF get_executor
    <3> QED  BY <1>4, <3>1 DEF CreatesExecutor, InPool
  <2> QED  BY <2>1, <2>2
<1> QED  BY <1>3, <1>4

(* The process is put back into the pool, and what was there is closing. *)
LEMMA InPoolKept ==
    ASSUME Shape, NEW b \in Blueprints, NEW p \in Procs
    PROVE  /\ InPool(b, p) \in Pools /\ InPool(b, p).procs = s.procs /\ InPool(b, p).execs = s.execs
           /\ InPool(b, p).agent_map = s.agent_map /\ InPool(b, p).pool = s.pool
           /\ \A x \in Blueprints : InPool(b, p).process_pool[x] = IF x = b THEN p ELSE s.process_pool[x]
<1>1. s \in Pools /\ p \in Nat
  BY DEF Shape, TypeOK, Procs
<1>2. PICK f \in [Blueprints -> Nat] : f = [s.process_pool EXCEPT ![b] = p]
  BY <1>1 DEF Pools
<1>3. \A x \in Blueprints : f[x] = IF x = b THEN p ELSE s.process_pool[x]
  BY <1>1, <1>2 DEF Pools
<1>4. InPool(b, p) = [s EXCEPT !.process_pool = f]
  BY <1>2 DEF InPool
<1> QED  BY <1>1, <1>3, <1>4 DEF Pools

(* All of them keep the shape. *)
LEMMA GetExecutorKeepsShape ==
    ASSUME Shape, NEW a \in Agents, NEW b \in Blueprints, NEW p \in Procs, HasProcess(a, b, p),
           NEW t \in Pools, t = InPool(b, p), get_executor(t, a, p), UNCHANGED <<phase, crashes>>
    PROVE  Shape'
<1>1. s.procs[p].bp = b /\ runner[a].pc \in {"wantProcess", "newProcess"} /\ runner[a].bp = b
      /\ \A x \in Agents \ {a} : runner[x].pc = "newProcess" => runner[x].bp # b
  BY DEF HasProcess
<1>2. <<a, b>> \in Ids /\ PhaseOK' /\ s \in Pools
  BY <1>1 DEF Shape, RunnersKept, RunnerKept, Getting, TypeOK, PhaseOK
<1>3. /\ t.procs = s.procs /\ t.execs = s.execs /\ t.agent_map = s.agent_map /\ t.pool = s.pool
      /\ \A x \in Blueprints : t.process_pool[x] = IF x = b THEN p ELSE s.process_pool[x]
  BY InPoolKept
<1>4. ASSUME NEW x \in Agents, runner[x].pc = "newProcess" PROVE runner[x].bp \in Blueprints
  BY <1>4, PoolsAssumption DEF Shape, RunnersKept, RunnerKept, Getting
<1>5. \A x \in Agents \ {a} : runner[x].pc = "newProcess" => t.process_pool[runner[x].bp] = s.process_pool[runner[x].bp]
  BY <1>1, <1>3, <1>4
<1>6. CASE Refuses(a, b, p)
  <2>1. s' = t /\ Fail(a)
    BY <1>6 DEF Refuses
  <2>2. /\ runner' \in [Agents -> Waits] /\ WaitChanges(a)
        /\ \A x \in Agents : x # a => runner'[x] = runner[x]
    BY <2>1, FailEffect
  <2>3. PoolKept' /\ AgentMapKept' /\ ProcessPoolKept'
    <3>1. Execs' = Execs /\ Procs' = Procs
      BY <1>3, <2>1 DEF Execs, Procs
    <3>2. PoolKept'
      BY <1>3, <2>1, <3>1 DEF Shape, PoolKept, Id
    <3>3. AgentMapKept'
      BY <1>3, <2>1, <3>1 DEF Shape, AgentMapKept
    <3>4. ProcessPoolKept'
      BY <1>1, <1>3, <2>1, <3>1 DEF Shape, ProcessPoolKept
    <3> QED  BY <3>2, <3>3, <3>4
  <2>4. ASSUME NEW x \in Agents, x # a PROVE WaitStays(x)
    <3>1. runner[x].pc = "newExecutor" => Unregistered(runner[x].exec)
      BY DEF Shape, RunnersKept, RunnerKept, StartsExecutor
    <3> QED  BY <1>3, <1>5, <2>1, <2>2, <2>4, <3>1 DEF WaitStays, Unregistered, Procs
  <2> QED  BY <1>1, <1>2, <1>3, <2>1, <2>2, <2>3, <2>4, CachesKeepShape
<1>7. ASSUME NEW e \in Execs, Finds(a, b, p, e) PROVE Shape'
  <2>1. e = s.procs[p].pool[a] /\ ~s.execs[e].closing /\ e # 0 /\ e \in Nat
    BY <1>7 DEF Finds, Execs
  <2>2. s.execs[e].agent = a /\ s.execs[e].proc = p /\ ~s.execs[e].down
    BY <2>1 DEF Shape, HostsKept, HostedBy
  <2>3. Id(s, e) = <<a, b>>
    BY <1>1, <2>2 DEF Shape, ExecutorsKept, Id
  <2>4. PICK u \in Pools : u = [t EXCEPT !.pool[<<a, b>>] = e]
    BY <1>2, <2>1 DEF Pools
  <2>5. /\ u.procs = s.procs /\ u.execs = s.execs /\ u.agent_map = s.agent_map
        /\ u.pool = [s.pool EXCEPT ![<<a, b>>] = e] /\ u.process_pool = t.process_pool
    BY <1>3, <2>4 DEF Pools
  <2>6. s' = Register(u, a, e) /\ Wait(a, b, "executing", 0, e)
    BY <1>7, <2>4 DEF Finds
  <2>7. \A x \in Blueprints : \/ u.process_pool[x] = s.process_pool[x]
                              \/ u.process_pool[x] \in Procs /\ s.procs[u.process_pool[x]].bp = x
    BY <1>1, <1>3, <2>5
  <2>8. \A x \in Agents \ {a} : runner[x].pc = "newProcess" =>
            u.process_pool[runner[x].bp] = s.process_pool[runner[x].bp]
    BY <1>5, <2>5
  <2> QED  BY <1>1, <1>2, <2>1, <2>3, <2>5, <2>6, <2>7, <2>8, HandingOutKeepsShape, SMTT(30)
<1>8. CASE ~s.procs[p].lost /\ CreatesExecutor(a, p, b, Len(s.execs) + 1)
  <2>1. Len(s.execs) + 1 \in Nat
    BY <1>2, LenProperties DEF Pools
  <2> QED  BY <1>1, <1>8, <2>1, NewExecutorKeepsShape
<1> QED  BY <1>6, <1>7, <1>8, GetExecutorOutcomes

(* A runner that gets no process gives up. *)
LEMMA LeavingKeepsShape ==
    ASSUME Shape, NEW a \in Agents, runner[a].pc \in {"wantProcess", "refused"}, Fail(a),
           UNCHANGED <<s, phase, crashes>>
    PROVE  Shape' /\ Fades
<1>1. runner[a].pc \in {"wantProcess", "refused"} /\ Fail(a) /\ UNCHANGED <<s, phase, crashes>>
  OBVIOUS
<1>2. /\ runner' \in [Agents -> Waits] /\ WaitChanges(a) /\ runner'[a] = Idle
      /\ \A x \in Agents : x # a => runner'[x] = runner[x]
  BY <1>1, FailEffect
<1>3. PoolKept' /\ AgentMapKept' /\ ProcessPoolKept' /\ s' \in Pools /\ PhaseOK'
  BY <1>1 DEF Shape, TypeOK, PhaseOK, PoolKept, AgentMapKept, ProcessPoolKept, Id, Execs, Procs
<1>4. ASSUME NEW x \in Agents, x # a PROVE WaitStays(x)
  <2>1. runner[x].pc = "newExecutor" => Unregistered(runner[x].exec)
    BY DEF Shape, RunnersKept, RunnerKept, StartsExecutor
  <2> QED  BY <1>1, <1>2, <1>4, <2>1 DEF WaitStays, Unregistered, Procs
<1>5. \A x \in Agents : RunnerFades(x)
  BY <1>1, <1>2 DEF RunnerFades, Idle
<1>6. Fades
  BY <1>1, <1>5, UnchangedFades
<1> QED  BY <1>1, <1>2, <1>3, <1>4, <1>6, CachesKeepShape

(* MPPool.get *)
LEMMA GetProcessOutcomes ==
    ASSUME Shape, NEW a \in Agents, GetProcess(a)
    PROVE  LET b == runner[a].bp
               p == s.process_pool[b]
           IN  /\ runner[a].pc = "wantProcess" /\ b \in Blueprints /\ UNCHANGED <<phase, crashes>>
               /\ \/ Fail(a) /\ UNCHANGED s
                  \/ /\ p \in Procs /\ ~s.procs[p].closing /\ HasProcess(a, b, p)
                     /\ s = InPool(b, p) /\ get_executor(InPool(b, p), a, p)
                  \/ /\ ~usable(p) /\ Forks(a, b, Len(s.procs) + 1)
                     /\ \A x \in Agents : runner[x].pc = "newProcess" => runner[x].bp # b
<1> DEFINE b == runner[a].bp
           p == s.process_pool[b]
<1>1. runner[a].pc = "wantProcess" /\ UNCHANGED <<phase, crashes>>
      /\ \A x \in Agents : runner[x].pc = "newProcess" => runner[x].bp # b
  BY DEF GetProcess
<1>2. b \in Blueprints /\ s \in Pools
  BY <1>1, PoolsAssumption DEF Shape, RunnersKept, RunnerKept, Getting, TypeOK
<1>3. p # 0 => p \in Procs /\ s.procs[p].bp = b
  BY <1>2 DEF Shape, ProcessPoolKept
<1>4. s = InPool(b, p)
  BY <1>2 DEF InPool, Pools
<1>5. CASE usable(p) /\ get_executor(s, a, p)
  <2>1. HasProcess(a, b, p)
    BY <1>1, <1>3, <1>5 DEF HasProcess, usable
  <2> QED  BY <1>1, <1>2, <1>3, <1>4, <1>5, <2>1 DEF usable
<1>6. CASE ~usable(p) /\ StartProcess(a, b)
  BY <1>1, <1>2, <1>6 DEF StartProcess, Forks
<1>7. (usable(p) /\ get_executor(s, a, p)) \/ (~usable(p) /\ StartProcess(a, b))
  BY DEF GetProcess
<1> QED  BY <1>1, <1>2, <1>5, <1>6, <1>7

(* What is found of the executors of a blueprint does not depend on its process. *)
LEMMA GetProcessKeepsShape ==
    ASSUME Shape, NEW a \in Agents, GetProcess(a)
    PROVE  Shape'
<1> DEFINE p == s.process_pool[runner[a].bp]
<1>1. runner[a].pc = "wantProcess" /\ UNCHANGED <<phase, crashes>>
  BY GetProcessOutcomes
<1>2. PICK b \in Blueprints : b = runner[a].bp
  BY GetProcessOutcomes
<1>3. CASE Fail(a) /\ UNCHANGED s
  BY <1>1, <1>3, LeavingKeepsShape
<1>4. CASE p \in Procs /\ HasProcess(a, b, p) /\ get_executor(InPool(b, p), a, p)
  BY <1>1, <1>4, InPoolKept, GetExecutorKeepsShape
<1>5. CASE /\ ~usable(p) /\ Forks(a, b, Len(s.procs) + 1)
           /\ \A x \in Agents : runner[x].pc = "newProcess" => runner[x].bp # b
  <2>1. Len(s.procs) + 1 \in Nat
    <3>1. s.procs \in Seq(Processes)
      BY DEF Shape, TypeOK, Pools
    <3> QED  BY <3>1, LenProperties
  <2>2. Forked(a, b, Len(s.procs) + 1)
    BY <1>5, <2>1, ForkedEffect
  <2> QED  BY <1>1, <1>2, <1>5, <2>1, <2>2, ForkedKeepsShape
<1> QED  BY <1>2, <1>3, <1>4, <1>5, GetProcessOutcomes

(* The new process is the one of its blueprint from now on. *)
LEMMA ProcessReadyOutcomes ==
    ASSUME Shape, NEW a \in Agents, ProcessReady(a)
    PROVE  LET b == runner[a].bp
               p == runner[a].proc
           IN  /\ runner[a].pc = "newProcess" /\ b \in Blueprints /\ p \in Procs /\ UNCHANGED <<phase, crashes>>
               /\ HasProcess(a, b, p) /\ get_executor(InPool(b, p), a, p) /\ ~usable(s.process_pool[b])
<1>1. runner[a].pc = "newProcess" /\ UNCHANGED <<phase, crashes>>
      /\ get_executor(InPool(runner[a].bp, runner[a].proc), a, runner[a].proc)
  BY DEF ProcessReady, InPool
<1>2. StartsProcess(a) /\ runner[a].bp \in Blueprints
  BY <1>1, PoolsAssumption DEF Shape, RunnersKept, RunnerKept, Getting
<1>3. /\ runner[a].proc \in Procs /\ s.procs[runner[a].proc].bp = runner[a].bp
      /\ ~usable(s.process_pool[runner[a].bp])
      /\ \A x \in Agents : runner[x].pc = "newProcess" /\ runner[x].bp = runner[a].bp => x = a
  BY <1>1, <1>2 DEF StartsProcess
<1>4. HasProcess(a, runner[a].bp, runner[a].proc)
  BY <1>1, <1>3 DEF HasProcess, Procs
<1> QED  BY <1>1, <1>2, <1>3, <1>4

(* The new process goes into the pool, and is asked for the executor. *)
LEMMA ProcessReadyKeepsShape ==
    ASSUME Shape, NEW a \in Agents, ProcessReady(a)
    PROVE  Shape'
<1>1. /\ runner[a].bp \in Blueprints /\ runner[a].proc \in Procs /\ UNCHANGED <<phase, crashes>>
      /\ HasProcess(a, runner[a].bp, runner[a].proc)
      /\ get_executor(InPool(runner[a].bp, runner[a].proc), a, runner[a].proc)
  BY ProcessReadyOutcomes
<1> QED  BY <1>1, InPoolKept, GetExecutorKeepsShape

-----------------------------------------------------------------------------
(* Executors are closed *)

(* What is closed runs, and is known to the pools: nobody is about to get it. *)
MayClose(S) == \A e \in S : Running(s, e) /\ \A a \in Agents : ~Pending(a, e)

(* An executor in a cache is not a new one. *)
LEMMA RegisteredIsNotPending ==
    ASSUME Shape, NEW e \in Execs, ~Unregistered(e)
    PROVE  \A a \in Agents : ~Pending(a, e)
BY DEF Shape, RunnersKept, RunnerKept, StartsExecutor, Pending

(* One executor is closed ... *)
LEMMA ClosingOne ==
    ASSUME Shape, NEW e \in Execs, s' = [s EXCEPT !.execs[e] = close_executor(@)]
    PROVE  ClosesExecutors({e})
<1>1. s \in Pools /\ s.execs \in [Execs -> Executors]
  BY ElementOfSeq, LenProperties DEF Shape, TypeOK, Pools, Execs
<1>2. [s.execs EXCEPT ![e] = close_executor(s.execs[e])]
        = [x \in Execs |-> IF x \in {e} THEN close_executor(s.execs[x]) ELSE s.execs[x]]
  BY <1>1
<1> QED  BY <1>1, <1>2 DEF ClosesExecutors, Pools

(* ... or none. *)
LEMMA ClosingNone ==
    ASSUME Shape, s' = s
    PROVE  ClosesExecutors({})
<1>1. s \in Pools /\ s.execs \in [Execs -> Executors]
  BY ElementOfSeq, LenProperties DEF Shape, TypeOK, Pools, Execs
<1>2. s.execs = [x \in Execs |-> IF x \in {} THEN close_executor(s.execs[x]) ELSE s.execs[x]]
  BY <1>1
<1> QED  BY <1>1, <1>2 DEF ClosesExecutors, Pools

(* pre_create_capacity_check closes an executor of the agent if there are too many. *)
LEMMA RoomIsMade ==
    ASSUME Shape, NEW a \in Agents, make_room(a)
    PROVE  \/ ClosesExecutors({}) /\ s' = s /\ ~no_room(Cardinality(RunningIn(a)))
           \/ \E oldest \in RunningIn(a) : ClosesExecutors({oldest})
<1>1. \A e \in RunningIn(a) : e \in Execs
  BY DEF Shape, AgentMapKept, RunningIn
<1>2. CASE ~no_room(Cardinality(RunningIn(a))) /\ s' = s
  BY <1>2, ClosingNone
<1>3. ASSUME NEW e \in RunningIn(a), s' = [s EXCEPT !.execs[e] = close_executor(@)] PROVE ClosesExecutors({e})
  BY <1>1, <1>3, ClosingOne
<1> QED  BY <1>2, <1>3 DEF make_room, RunningIn

(* Every step that closes executors closes those that nobody works with. *)
ClosesIdle(S) == S \in SUBSET Execs /\ MayClose(S) /\ ClosesExecutors(S) /\ \A e \in S : ~InUse(e)

(* MPManager.get closes one executor at most, and an idle one. *)
LEMMA GetNewCloses ==
    ASSUME Shape, NEW a \in Agents, NEW b \in Blueprints, <<a, b>> \in Ids, GetNew(a, b)
    PROVE  \/ ClosesIdle({}) /\ s' = s /\ ~no_room(Cardinality(RunningIn(a)))
           \/ \E oldest \in RunningIn(a) : ClosesIdle({oldest})
<1>1. runner[a].pc = "idle" /\ make_room(a)
  BY DEF GetNew, Idle
<1>2. ASSUME NEW e \in RunningIn(a) PROVE e \in Execs /\ MayClose({e}) /\ ~InUse(e)
  <2>1. e \in Execs /\ s.execs[e].agent = a /\ Running(s, e) /\ ~Unregistered(e)
    BY DEF Shape, AgentMapKept, RunningIn, Unregistered
  <2>2. ~InUse(e)
    BY <1>1, <2>1 DEF InUse, Shape, RunnersKept, RunnerKept, Works, Running
  <2> QED  BY <2>1, <2>2, RegisteredIsNotPending DEF MayClose
<1>3. ClosesExecutors({}) => ClosesIdle({})
  BY DEF ClosesIdle, MayClose
<1>4. ASSUME NEW e \in RunningIn(a), ClosesExecutors({e}) PROVE ClosesIdle({e})
  BY <1>2, <1>4 DEF ClosesIdle
<1> QED  BY <1>1, <1>3, <1>4, RoomIsMade

(* What closes idle executors keeps the shape. *)
LEMMA ClosingIdleKeepsShape ==
    ASSUME Shape, NEW S, ClosesIdle(S), runner' \in [Agents -> Waits], \A a \in Agents : Waits0(a),
           UNCHANGED <<phase, crashes>>
    PROVE  Shape'
<1>1. S \in SUBSET Execs /\ ClosesExecutors(S) /\ \A e \in S : Running(s, e) /\ \A a \in Agents : ~Pending(a, e)
  BY DEF ClosesIdle, MayClose
<1>2. phase' \in {"running", "stopping", "poolStopped", "joining", "joined"} /\ crashes' \in Nat
  BY DEF Shape, TypeOK
<1> QED  BY <1>1, <1>2, ClosingKeepsShape

(* The runner waits for a process. *)
LEMMA GetNewKeepsShape ==
    ASSUME Shape, NEW a \in Agents, NEW b \in Blueprints, <<a, b>> \in Ids, GetNew(a, b)
    PROVE  Shape'
<1>1. runner[a].pc = "idle" /\ UNCHANGED <<phase, crashes>>
      /\ (Wait(a, b, "wantProcess", 0, 0) \/ Wait(a, b, "refused", 0, 0))
  BY DEF GetNew, Idle
<1>2. /\ runner' \in [Agents -> Waits]
      /\ \E pc \in {"wantProcess", "refused"} : runner'[a] = [pc |-> pc, bp |-> b, proc |-> 0, exec |-> 0]
      /\ \A x \in Agents \ {a} : runner'[x] = runner[x]
  BY <1>1 DEF Wait, Shape, TypeOK, Waits
<1>3. \A x \in Agents : Waits0(x)
  BY <1>1, <1>2 DEF Waits0, Getting
<1> QED  BY <1>1, <1>2, <1>3, GetNewCloses, ClosingIdleKeepsShape

(* The cleanup closes an idle executor. *)
LEMMA CleanUpCloses ==
    ASSUME Shape, NEW e \in Execs, CleanUp(e)
    PROVE  ClosesIdle({e}) /\ UNCHANGED <<runner, phase, crashes>>
<1>1. /\ s.pool[Id(s, e)] = e /\ Running(s, e) /\ ~InUse(e) /\ UNCHANGED <<runner, phase, crashes>>
      /\ s' = [s EXCEPT !.execs[e] = close_executor(@)]
  BY DEF CleanUp, can_be_cleaned_up
<1>2. ~Unregistered(e)
  <2>1. s.execs[e] \in Executors
    BY DEF Shape, TypeOK, Pools, Execs
  <2>2. Id(s, e) \in Ids
    BY <2>1 DEF Executors, Id
  <2> QED  BY <1>1, <2>2 DEF Unregistered
<1> QED  BY <1>1, <1>2, ClosingOne, RegisteredIsNotPending DEF ClosesIdle, MayClose

(* Suspended deployments leave all executors idle. *)
LEMMA StopAllCloses ==
    ASSUME Shape, StopAllExecutors
    PROVE  (\E S \in SUBSET Execs : ClosesIdle(S)) /\ UNCHANGED <<runner, phase, crashes>>
<1> DEFINE S == {e \in Execs : Running(s, e) /\ Mapped(e)}
<1>1. ClosesExecutors(S) /\ UNCHANGED <<runner, phase, crashes>> /\ \A a \in Agents : runner[a].pc = "idle"
  <2>1. ClosesExecutors(S)
    BY DEF StopAllExecutors, ClosesExecutors
  <2>2. UNCHANGED <<runner, phase, crashes>> /\ \A a \in Agents : runner[a].pc = "idle"
    <3>1. UNCHANGED <<runner, phase, crashes>> /\ \A a \in Agents : runner[a] = Idle
      BY DEF StopAllExecutors
    <3>2. Idle.pc = "idle"
      BY DEF Idle
    <3> QED  BY <3>1, <3>2
  <2> QED  BY <2>1, <2>2
<1>2. MayClose(S) /\ \A e \in S : ~InUse(e)
  BY <1>1 DEF MayClose, Pending, InUse
<1> QED  BY <1>1, <1>2 DEF ClosesIdle

(* Idle executors are closed, and nothing else happens. *)
LEMMA ClosingStaysKeepsShape ==
    ASSUME Shape, NEW S, ClosesIdle(S), UNCHANGED <<runner, phase, crashes>>
    PROVE  Shape'
<1>1. runner' \in [Agents -> Waits] /\ \A a \in Agents : Waits0(a)
  BY DEF Shape, TypeOK, Waits0
<1> QED  BY <1>1, ClosingIdleKeepsShape

(* The phases of the manager's stop are no business of the pools. *)
LEMMA PhaseKeepsShape ==
    ASSUME Shape, UNCHANGED <<s, runner, crashes>>,
           phase' \in {"running", "stopping", "poolStopped", "joining", "joined"}
    PROVE  Shape'
<1>1. /\ UNCHANGED <<s, runner>> /\ runner' \in [Agents -> Waits] /\ crashes' \in Nat
      /\ ClosesExecutors({}) /\ \A a \in Agents : Waits0(a)
  BY ClosingNone DEF Shape, TypeOK, Waits0
<1> QED  BY <1>1, ClosingKeepsShape

(* The answer to the init command, either way. *)
LEMMA InitForKeepsShape ==
    ASSUME Shape, NEW p \in Procs, InitFor(p)
    PROVE  Shape'
<1>1. Received(p, "init") /\ UNCHANGED <<phase, crashes>>
  BY DEF InitFor
<1>2. PICK e \in Execs : e = Message(p).exec
  BY <1>1, InitIsAwaited
<1>3. PICK a \in Agents : a = s.execs[e].agent
  BY <1>1, <1>2, InitIsAwaited
<1>4. Answers(p, a, e)
  BY <1>1, <1>2, <1>3, InitIsAwaited
<1>5. CASE InitFailed(p)
  BY <1>1, <1>5, InitForFailsKeepsShape
<1>6. CASE InitSucceeds(p, a, e)
  BY <1>1, <1>4, <1>6, InitialisedEffect, InitialisedKeepsShape
<1>7. InitFailed(p) \/ InitSucceeds(p, a, e)
  <2>1. CASE StillRunning(p, a)
    BY <1>2, <1>3, <2>1 DEF InitFor, InitFailed
  <2>2. CASE ~StillRunning(p, a)
    BY <1>2, <1>3, <2>2 DEF InitFor, InitSucceeds
  <2> QED  BY <2>1, <2>2
<1> QED  BY <1>5, <1>6, <1>7

(* There is nothing at first. *)
LEMMA NothingAtFirst ==
    ASSUME Init
    PROVE  Execs = {} /\ Procs = {} /\ Shape
<1>1. /\ s = [procs |-> <<>>, execs |-> <<>>,
              process_pool |-> [b \in Blueprints |-> 0],
              pool |-> [i \in Ids |-> 0],
              agent_map |-> [a \in Agents |-> {}],
              last_used |-> {}]
      /\ runner = [a \in Agents |-> Idle] /\ phase = "running" /\ crashes = 0
  BY DEF Init
<1>2. <<>> \in Seq(Processes) /\ <<>> \in Seq(Executors) /\ Len(s.procs) = 0 /\ Len(s.execs) = 0
  BY <1>1, EmptySeq
<1>3. Execs = {} /\ Procs = {}
  BY <1>2 DEF Execs, Procs
<1>4. TypeOK
  <2>1. s \in Pools
    BY <1>1, <1>2 DEF Pools
  <2>2. Idle \in Waits
    BY DEF Idle, Waits
  <2> QED  BY <1>1, <2>1, <2>2 DEF TypeOK
<1>5. PoolKept /\ AgentMapKept /\ ProcessPoolKept
  BY <1>1 DEF PoolKept, AgentMapKept, ProcessPoolKept
<1>6. RunnersKept
  <2>1. \A a \in Agents : runner[a].pc = "idle" /\ runner[a].proc = 0
    BY <1>1 DEF Idle
  <2> QED  BY <2>1 DEF RunnersKept, RunnerKept, Getting, Works, StartsProcess, StartsExecutor
<1>7. ExecutorsKept /\ HostsKept /\ MailKept
  BY <1>3 DEF ExecutorsKept, HostsKept, MailKept
<1> QED  BY <1>3, <1>4, <1>5, <1>6, <1>7 DEF Shape

(* Nothing happens to the pools. *)
LEMMA StutterKeepsShape ==
    ASSUME Shape, UNCHANGED vars
    PROVE  Shape'
<1>1. UNCHANGED <<s, runner, crashes>> /\ phase' \in {"running", "stopping", "poolStopped", "joining", "joined"}
  BY DEF vars, Shape, TypeOK
<1> QED  BY <1>1, PhaseKeepsShape

(* Every step keeps the objects, the caches, the waits and the mail together. *)
LEMMA NextKeepsShape ==
    ASSUME Shape, [Next]_vars
    PROVE  Shape'
<1>1. ASSUME NEW a \in Agents, RunnerStep(a) PROVE Shape'
  <2>1. CASE Refused(a)
    BY <2>1, LeavingKeepsShape DEF Refused
  <2>2. CASE ~Refused(a)
    BY <1>1, <2>2, GetProcessKeepsShape, ProcessReadyKeepsShape, ProcessFailsKeepsShape, CallReturnsKeepsShape,
       InitFailsKeepsShape DEF RunnerStep
  <2> QED  BY <2>1, <2>2
<1>2. ASSUME NEW e \in Execs, ExecutorStep(e) PROVE Shape'
  <2>1. CASE SendStop(e)
    BY <2>1, SendStopKeepsShape
  <2>2. CASE StopReply(e)
    BY <2>2, StopReplyKeepsShape DEF StopReply
  <2> QED  BY <1>2, <2>1, <2>2 DEF ExecutorStep
<1>3. ASSUME NEW p \in Procs, ProcessStep(p) PROVE Shape'
  <2>1. CASE End(p)
    <3>1. EndsChild(p) /\ runner' = runner /\ PhaseOK'
      BY <2>1 DEF End, EndsChild, Shape, TypeOK, PhaseOK
    <3> QED  BY <3>1, EndsChildKeepsShape
  <2>2. CASE JoinProcess(p)
    <3>1. s' = process_down(s, p) /\ runner' = runner /\ PhaseOK'
      BY <2>2 DEF JoinProcess, Shape, TypeOK, PhaseOK
    <3> QED  BY <3>1, ProcessDownKeepsShape
  <2>3. CASE InitFor(p) \/ StopFor(p) \/ Stop(p) \/ ConnectionLost(p)
    BY <2>3, InitForKeepsShape, StopForKeepsShape, StopKeepsShape, ConnectionLostKeepsShape
  <2> QED  BY <1>3, <2>1, <2>2, <2>3 DEF ProcessStep
<1>4. ASSUME StopManager \/ Joined \/ RequestShutdown \/ Start PROVE Shape'
  <2>1. UNCHANGED <<s, runner, crashes>> /\ phase' \in {"running", "stopping", "poolStopped", "joining", "joined"}
    BY <1>4 DEF StopManager, Joined, RequestShutdown, Start
  <2> QED  BY <2>1, PhaseKeepsShape
<1>5. ASSUME NEW p \in Procs, KillOnJoin(p) PROVE Shape'
  <2>1. s' = process_down(s, p) /\ runner' = runner /\ PhaseOK'
    BY <1>5 DEF KillOnJoin, Shape, TypeOK, PhaseOK
  <2> QED  BY <2>1, ProcessDownKeepsShape
<1>6. ASSUME NEW i \in Ids, GetExisting(i[1], i[2]) \/ GetNew(i[1], i[2]) PROVE Shape'
  <2>1. PICK a \in Agents, b \in Blueprints : i = <<a, b>>
    BY PoolsAssumption
  <2>2. GetExisting(a, b) \/ GetNew(a, b)
    BY <1>6, <2>1
  <2> QED  BY <2>1, <2>2, GetExistingKeepsShape, GetNewKeepsShape
<1>7. ASSUME NEW e \in Execs, CleanUp(e) PROVE Shape'
  BY <1>7, CleanUpCloses, ClosingStaysKeepsShape
<1>8. ASSUME NEW p \in Procs, Crash(p) PROVE Shape'
  <2>1. EndsChild(p) /\ runner' = runner /\ PhaseOK'
    BY <1>8 DEF Crash, EndsChild, Shape, TypeOK, PhaseOK
  <2> QED  BY <2>1, EndsChildKeepsShape
<1>9. ASSUME StopAllExecutors PROVE Shape'
  BY <1>9, StopAllCloses, ClosingStaysKeepsShape
<1> QED
  BY <1>1, <1>2, <1>3, <1>4, <1>5, <1>6, <1>7, <1>8, <1>9, StopPoolKeepsShape, StutterKeepsShape
  DEF Next, Progress, ManagerStep

(* Type correctness, and the shape on which all else rests. *)
THEOREM ObjectsAgree == Spec => []Shape
<1>1. Init => Shape
  BY NothingAtFirst
<1>2. Shape /\ [Next]_vars => Shape'
  BY NextKeepsShape
<1> QED  BY <1>1, <1>2, PTL DEF Spec

-----------------------------------------------------------------------------
(* The steps, by what they do to the executors and processes that run *)

(* Idle executors are closed. *)
LEMMA ClosingIdleFades ==
    ASSUME Shape, NEW S, ClosesIdle(S), ClosedExecutors(S), \A a \in Agents : RunnerFades(a)
    PROVE  Fades
<1>1. ASSUME NEW e \in Execs PROVE ExecutorFades(e)
  <2>1. ~s.execs[e].down => ~s'.execs[e].down
    BY DEF ClosedExecutors
  <2>2. /\ s'.execs[e].agent = s.execs[e].agent /\ s'.execs[e].bp = s.execs[e].bp /\ s'.execs[e].proc = s.execs[e].proc
        /\ s'.execs[e].remote = s.execs[e].remote
        /\ s'.pool = s.pool /\ s'.agent_map = s.agent_map /\ s'.procs = s.procs
    BY DEF ClosedExecutors
  <2>3. s'.execs[e].closing => s.execs[e].closing \/ ~InUse(e)
    BY DEF ClosedExecutors, ClosesIdle
  <2>4. s.execs[e].closing => s'.execs[e].closing
    BY DEF ClosedExecutors
  <2>5. CASE s.execs[e].down
    BY <2>2, <2>4, <2>5 DEF ExecutorFades, ClosedExecutors, Shape, ExecutorsKept
  <2>6. CASE ~s.execs[e].down
    BY <2>2, <2>3, <2>4, <2>6 DEF ExecutorFades
  <2> QED  BY <2>5, <2>6
<1>2. \A p \in Procs : ProcessFades(p)
  BY DEF ProcessFades, ClosedExecutors
<1>3. \A b \in Blueprints : s'.process_pool[b] \in {s.process_pool[b], 0}
  BY DEF ClosedExecutors
<1> QED  BY <1>1, <1>2, <1>3 DEF Fades, ClosedExecutors

(* MPManager.get finds no executor and makes room for one. *)
LEMMA GetNewFades ==
    ASSUME Shape, NEW a \in Agents, NEW b \in Blueprints, <<a, b>> \in Ids, GetNew(a, b)
    PROVE  Fades
<1>1. /\ runner[a].pc = "idle" /\ UNCHANGED <<phase, crashes>>
      /\ (Wait(a, b, "wantProcess", 0, 0) \/ Wait(a, b, "refused", 0, 0))
      /\ phase \in {"running", "stopping"}
      /\ s.pool[<<a, b>>] # 0 => s.execs[s.pool[<<a, b>>]].closing
  BY DEF GetNew, Idle, Accepts, accepts
<1>2. /\ runner' \in [Agents -> Waits]
      /\ \E pc \in {"wantProcess", "refused"} : runner'[a] = [pc |-> pc, bp |-> b, proc |-> 0, exec |-> 0]
      /\ \A x \in Agents \ {a} : runner'[x] = runner[x]
  BY <1>1 DEF Wait, Shape, TypeOK, Waits
<1>3. \A x \in Agents : Waits0(x)
  BY <1>1, <1>2 DEF Waits0, Getting
<1>4. ASSUME NEW S, ClosesIdle(S),
             ~no_room(Cardinality(RunningIn(a))) \/ \E e \in RunningIn(a) : e \in S
      PROVE  Fades
  <2>1. ClosedExecutors(S)
    <3>1. S \in SUBSET Execs /\ ClosesExecutors(S) /\ \A e \in S : Running(s, e) /\ \A x \in Agents : ~Pending(x, e)
      BY <1>4 DEF ClosesIdle, MayClose
    <3>2. phase' \in {"running", "stopping", "poolStopped", "joining", "joined"} /\ crashes' \in Nat
      BY <1>1 DEF Shape, TypeOK
    <3> QED  BY <1>2, <1>3, <3>1, <3>2, ClosingKeepsShape
  <2>2. \A e \in S : ~Running(s', e)
    BY <1>4, <2>1 DEF ClosesIdle, ClosedExecutors, Running
  <2>3. Asks(a)
    BY <1>1, <1>2, <1>4, <2>2 DEF Asks
  <2>4. \A x \in Agents : RunnerFades(x)
    BY <1>2, <2>3 DEF RunnerFades
  <2> QED  BY <1>4, <2>1, <2>4, ClosingIdleFades
<1>5. CASE ClosesIdle({}) /\ ~no_room(Cardinality(RunningIn(a)))
  BY <1>4, <1>5
<1>6. ASSUME NEW e \in RunningIn(a), ClosesIdle({e}) PROVE Fades
  BY <1>4, <1>6
<1> QED  BY <1>5, <1>6, GetNewCloses

(* The cleanup, and the manager when it stops all executors. *)
LEMMA ClosingStaysFades ==
    ASSUME Shape, NEW S, ClosesIdle(S), UNCHANGED <<runner, phase, crashes>>
    PROVE  Fades
<1>1. runner' \in [Agents -> Waits] /\ \A a \in Agents : Waits0(a)
  BY DEF Shape, TypeOK, Waits0
<1>2. S \in SUBSET Execs /\ ClosesExecutors(S) /\ \A e \in S : Running(s, e) /\ \A a \in Agents : ~Pending(a, e)
  BY DEF ClosesIdle, MayClose
<1>3. phase' \in {"running", "stopping", "poolStopped", "joining", "joined"} /\ crashes' \in Nat
  BY DEF Shape, TypeOK
<1>4. ClosedExecutors(S)
  BY <1>1, <1>2, <1>3, ClosingKeepsShape
<1>5. \A a \in Agents : RunnerFades(a)
  BY DEF RunnerFades
<1> QED  BY <1>4, <1>5, ClosingIdleFades

(* An executor that runs at the other end is the one its process holds.       *)
RemoteTracked ==
    \A e \in Execs : s.execs[e].remote = "running" => s.procs[s.execs[e].proc].pool[s.execs[e].agent] = e

(* While a runner asks for an executor, no other one with the same id runs. *)
NotYet ==
    \A a \in Agents : Getting(a) =>
        \A e \in Execs : Running(s, e) /\ Id(s, e) = <<a, runner[a].bp>> => Pending(a, e)

(* init_for fails because the old executor of the agent is still there, so    *)
(* that the process is in use.                                                 *)
LEMMA InitForFailsFades ==
    ASSUME Shape, RemoteTracked, NEW p \in Procs, Received(p, "init"), InitFailed(p),
           StillRunning(p, s.execs[Message(p).exec].agent), UNCHANGED <<phase, crashes>>
    PROVE  Fades
<1>1. PICK e \in Execs : e = Message(p).exec
  BY InitIsAwaited
<1>2. PICK a \in Agents : a = s.execs[e].agent
  BY <1>1, InitIsAwaited
<1>3. Answers(p, a, e)
  BY <1>1, <1>2, InitIsAwaited
<1>4. TakesDown({e})
  BY <1>1, InitForFailsKeepsShape
<1>5. runner'[a] = Idle /\ \A x \in Agents : x # a => runner'[x] = runner[x]
  <2>1. Fail(a)
    BY <1>1, <1>2 DEF InitFailed
  <2> QED  BY <2>1, FailEffect
<1>6. ~is_empty(s'.procs[p])
  <2>1. PICK x \in Execs : s.execs[x].proc = p /\ s.execs[x].agent = a /\ s.execs[x].remote = "running"
    BY <1>1, <1>2 DEF StillRunning
  <2>2. s.procs[p].pool[a] = x /\ x # e
    BY <1>3, <2>1 DEF RemoteTracked, Answers
  <2>3. s'.procs[p].pool[a] = x /\ x # 0
    BY <1>4, <2>2 DEF TakesDown, Execs
  <2> QED  BY <2>3 DEF is_empty
<1>7. \A x \in Agents : RunnerFades(x)
  BY <1>3, <1>4, <1>5, <1>6 DEF RunnerFades, Idle, Answers, TakesDown
<1> QED  BY <1>3, <1>4, <1>7, GivenUpFades DEF Answers

(* An executor that is there is given to the runner a. *)
HandsOut(a, e) ==
    /\ e \in Execs /\ s.execs[e].agent = a /\ ~s.execs[e].closing /\ runner[a].pc = "idle"
    /\ s'.procs = s.procs /\ s'.execs = s.execs /\ s'.pool = s.pool /\ s'.process_pool = s.process_pool
    /\ \A x \in Agents : s.agent_map[x] \subseteq s'.agent_map[x]
    /\ runner'[a].pc = "executing" /\ runner'[a].exec = e /\ runner'[a].proc = 0
    /\ \A x \in Agents \ {a} : runner'[x] = runner[x]

(* The runner a waits for a new executor in the process of its blueprint. *)
Creates(a, p, b, n) ==
    /\ p \in Procs /\ runner[a].pc \in {"wantProcess", "newProcess"} /\ runner[a].bp = b /\ s.procs[p].bp = b
    /\ runner[a].pc = "newProcess" => runner[a].proc = p
    /\ s.process_pool[b] = p \/ ~usable(s.process_pool[b])
    /\ n \notin Execs /\ b \in Blueprints /\ CreatedExecutor(a, p, b, n)

(* The runner a waits for a new process. *)
Starts(a, b, n) == runner[a].pc = "wantProcess" /\ runner[a].bp = b /\ Forked(a, b, n)

(* The new executor of the runner a is there. *)
Begins(p, a, e) == p \in Procs /\ e \in Execs /\ Answers(p, a, e) /\ Initialised(p, a, e) /\ ~StillRunning(p, a)

Outcome ==
    \/ Fades
    \/ \E a \in Agents, e \in Execs : HandsOut(a, e)
    \/ \E a \in Agents, p \in Procs, b \in Blueprints, n \in Nat : Creates(a, p, b, n)
    \/ \E a \in Agents, b \in Blueprints, n \in Nat : Starts(a, b, n)
    \/ \E p \in Procs, a \in Agents, e \in Execs : Begins(p, a, e)

(* GetExisting *)
LEMMA GetExistingHandsOut ==
    ASSUME Shape, NEW a \in Agents, NEW b \in Blueprints, <<a, b>> \in Ids, GetExisting(a, b)
    PROVE  \E e \in Execs : HandsOut(a, e)
<1>1. PICK e \in Execs : e = s.pool[<<a, b>>] /\ Id(s, e) = <<a, b>>
  BY DEF GetExisting, Shape, PoolKept
<1>2. /\ runner[a].pc = "idle" /\ ~s.execs[e].closing /\ s' = Touch(s, a, e) /\ Wait(a, b, "executing", 0, e)
  BY <1>1 DEF GetExisting, Idle
<1>3. s \in Pools /\ e \in Nat /\ s.execs[e].agent = a
  BY <1>1 DEF Shape, TypeOK, Execs, Id
<1>4. /\ s'.procs = s.procs /\ s'.execs = s.execs /\ s'.pool = s.pool /\ s'.process_pool = s.process_pool
      /\ s'.agent_map = s.agent_map
  BY <1>2, <1>3 DEF Touch, Pools
<1>5. \A x \in Agents : s.agent_map[x] \subseteq s'.agent_map[x]
  BY <1>3, <1>4 DEF Pools
<1>6. /\ runner'[a].pc = "executing" /\ runner'[a].exec = e /\ runner'[a].proc = 0
      /\ \A x \in Agents \ {a} : runner'[x] = runner[x]
  BY <1>2 DEF Wait, Shape, TypeOK
<1> QED  BY <1>2, <1>3, <1>4, <1>5, <1>6 DEF HandsOut

(* A process that is alive makes a new executor: one that ran would have been  *)
(* in the pool of the manager.                                                 *)
LEMMA GetExecutorCreates ==
    ASSUME Shape, NotYet, NEW a \in Agents, NEW b \in Blueprints, NEW p \in Procs, <<a, b>> \in Ids,
           HasProcess(a, b, p), get_executor(InPool(b, p), a, p), ~s.procs[p].lost,
           runner[a].pc = "newProcess" => runner[a].proc = p,
           s.process_pool[b] = p \/ ~usable(s.process_pool[b])
    PROVE  \E n \in Nat : Creates(a, p, b, n)
<1>1. PICK t \in Pools : t = InPool(b, p)
  BY InPoolKept
<1>2. runner[a].pc \in {"wantProcess", "newProcess"} /\ runner[a].bp = b /\ s.procs[p].bp = b
  BY DEF HasProcess
<1>3. ASSUME NEW e \in Execs, Finds(a, b, p, e) PROVE FALSE
  <2>1. e = s.procs[p].pool[a] /\ ~s.execs[e].closing /\ e # 0
    BY <1>3 DEF Finds, Execs
  <2>2. s.execs[e].agent = a /\ s.execs[e].proc = p /\ ~s.execs[e].down
    BY <2>1 DEF Shape, HostsKept, HostedBy
  <2>3. s.execs[e].bp = b
    BY <1>2, <2>2 DEF Shape, ExecutorsKept
  <2>4. Running(s, e) /\ Id(s, e) = <<a, b>>
    BY <2>1, <2>2, <2>3 DEF Running, Id
  <2>5. Pending(a, e)
    BY <1>2, <2>4 DEF NotYet, Getting
  <2> QED  BY <1>2, <2>5 DEF Pending
<1>4. CreatesExecutor(a, p, b, Len(s.execs) + 1)
  BY <1>1, <1>3, GetExecutorOutcomes DEF Refuses
<1>5. PICK n \in Nat : n = Len(s.execs) + 1 /\ n \notin Execs
  <2>1. Len(s.execs) \in Nat
    BY LenProperties DEF Shape, TypeOK, Pools
  <2> QED  BY <2>1 DEF Execs
<1>6. CreatedExecutor(a, p, b, n)
  BY <1>4, <1>5, NewExecutorEffect
<1> QED  BY <1>2, <1>5, <1>6 DEF Creates

(* MPPool.get *)
LEMMA GetProcessOutcome ==
    ASSUME Shape, NotYet, NEW a \in Agents, GetProcess(a)
    PROVE  Outcome
<1> DEFINE p == s.process_pool[runner[a].bp]
<1>1. runner[a].pc = "wantProcess" /\ UNCHANGED <<phase, crashes>>
  BY GetProcessOutcomes
<1>2. PICK b \in Blueprints : b = runner[a].bp
  BY GetProcessOutcomes
<1>3. CASE Fail(a) /\ UNCHANGED s
  BY <1>1, <1>3, LeavingKeepsShape DEF Outcome
<1>4. CASE p \in Procs /\ ~s.procs[p].closing /\ HasProcess(a, b, p) /\ get_executor(InPool(b, p), a, p)
  <2>1. ~s.procs[p].lost /\ s.process_pool[b] = p
    BY <1>2, <1>4 DEF Shape, MailKept, MailOf
  <2>2. <<a, b>> \in Ids
    BY <1>1, <1>2 DEF Shape, RunnersKept, RunnerKept, Getting
  <2>3. \E n \in Nat : Creates(a, p, b, n)
    BY <1>1, <1>4, <2>1, <2>2, GetExecutorCreates
  <2> QED  BY <1>4, <2>3 DEF Outcome
<1>5. CASE Forks(a, b, Len(s.procs) + 1)
  <2>1. PICK n \in Nat : n = Len(s.procs) + 1
    BY LenProperties DEF Shape, TypeOK, Pools
  <2>2. Starts(a, b, n)
    BY <1>1, <1>2, <1>5, <2>1, ForkedEffect DEF Starts
  <2> QED  BY <2>2 DEF Outcome
<1> QED  BY <1>2, <1>3, <1>4, <1>5, GetProcessOutcomes

(* The process is ready. *)
LEMMA ProcessReadyOutcome ==
    ASSUME Shape, NotYet, NEW a \in Agents, ProcessReady(a)
    PROVE  Outcome
<1>1. PICK b \in Blueprints : b = runner[a].bp
  BY ProcessReadyOutcomes
<1>2. PICK p \in Procs : p = runner[a].proc
  BY ProcessReadyOutcomes
<1>3. /\ runner[a].pc = "newProcess" /\ HasProcess(a, b, p) /\ get_executor(InPool(b, p), a, p)
      /\ ~usable(s.process_pool[b])
  BY <1>1, <1>2, ProcessReadyOutcomes
<1>4. ~s.procs[p].lost
  <2>1. s.procs[p].os = "alive"
    BY <1>2 DEF ProcessReady
  <2> QED  BY <2>1 DEF Shape, MailKept, MailOf
<1>5. <<a, b>> \in Ids
  BY <1>1, <1>3 DEF Shape, RunnersKept, RunnerKept, Getting
<1>6. \E n \in Nat : Creates(a, p, b, n)
  BY <1>2, <1>3, <1>4, <1>5, GetExecutorCreates
<1> QED  BY <1>6 DEF Outcome

(* The answer to the init command. *)
LEMMA InitForOutcome ==
    ASSUME Shape, RemoteTracked, NEW p \in Procs, InitFor(p)
    PROVE  Outcome
<1>1. Received(p, "init") /\ UNCHANGED <<phase, crashes>>
  BY DEF InitFor
<1>2. PICK e \in Execs : e = Message(p).exec
  BY <1>1, InitIsAwaited
<1>3. PICK a \in Agents : a = s.execs[e].agent
  BY <1>1, <1>2, InitIsAwaited
<1>4. Answers(p, a, e)
  BY <1>1, <1>2, <1>3, InitIsAwaited
<1>5. CASE StillRunning(p, a)
  <2>1. InitFailed(p)
    BY <1>2, <1>3, <1>5 DEF InitFor, InitFailed
  <2> QED  BY <1>1, <1>2, <1>3, <1>5, <2>1, InitForFailsFades DEF Outcome
<1>6. CASE ~StillRunning(p, a)
  <2>1. InitSucceeds(p, a, e)
    BY <1>2, <1>3, <1>6 DEF InitFor, InitSucceeds
  <2>2. Begins(p, a, e)
    BY <1>4, <1>6, <2>1, InitialisedEffect DEF Begins
  <2> QED  BY <2>2 DEF Outcome
<1> QED  BY <1>5, <1>6

(* What any step does. *)
LEMMA StepOutcome ==
    ASSUME Shape, RemoteTracked, NotYet, [Next]_vars
    PROVE  Outcome
<1>1. ASSUME NEW a \in Agents, RunnerStep(a) PROVE Outcome
  <2>1. CASE GetProcess(a) \/ ProcessReady(a)
    BY <2>1, GetProcessOutcome, ProcessReadyOutcome
  <2>2. CASE ProcessFails(a) \/ CallReturns(a) \/ InitFails(a)
    BY <2>2, ProcessFailsKeepsShape, CallReturnsKeepsShape, InitFailsKeepsShape DEF Outcome
  <2>3. CASE Refused(a)
    BY <2>3, LeavingKeepsShape DEF Refused, Outcome
  <2> QED  BY <1>1, <2>1, <2>2, <2>3 DEF RunnerStep
<1>2. ASSUME NEW e \in Execs, ExecutorStep(e) PROVE Outcome
  <2>1. CASE SendStop(e)
    BY <2>1, SendStopKeepsShape DEF Outcome
  <2>2. CASE StopReply(e)
    BY <2>2, StopReplyKeepsShape DEF StopReply, Outcome
  <2> QED  BY <1>2, <2>1, <2>2 DEF ExecutorStep
<1>3. ASSUME NEW p \in Procs, ProcessStep(p) PROVE Outcome
  <2>1. CASE End(p)
    <3>1. EndsChild(p) /\ runner' = runner /\ PhaseOK'
      BY <2>1 DEF End, EndsChild, Shape, TypeOK, PhaseOK
    <3> QED  BY <3>1, EndsChildKeepsShape DEF Outcome
  <2>2. CASE JoinProcess(p)
    <3>1. s' = process_down(s, p) /\ runner' = runner /\ PhaseOK'
      BY <2>2 DEF JoinProcess, Shape, TypeOK, PhaseOK
    <3> QED  BY <3>1, ProcessDownKeepsShape DEF Outcome
  <2>3. CASE StopFor(p) \/ Stop(p) \/ ConnectionLost(p)
    BY <2>3, StopForKeepsShape, StopKeepsShape, ConnectionLostKeepsShape DEF Outcome
  <2>4. CASE InitFor(p)
    BY <2>4, InitForOutcome
  <2> QED  BY <1>3, <2>1, <2>2, <2>3, <2>4 DEF ProcessStep
<1>4. ASSUME UNCHANGED <<s, runner>> PROVE Outcome
  <2>1. \A a \in Agents : RunnerFades(a)
    BY <1>4 DEF RunnerFades
  <2> QED  BY <1>4, <2>1, UnchangedFades DEF Outcome
<1>5. ASSUME NEW p \in Procs, KillOnJoin(p) PROVE Outcome
  <2>1. s' = process_down(s, p) /\ runner' = runner /\ PhaseOK'
    BY <1>5 DEF KillOnJoin, Shape, TypeOK, PhaseOK
  <2> QED  BY <2>1, ProcessDownKeepsShape DEF Outcome
<1>6. ASSUME NEW i \in Ids, GetExisting(i[1], i[2]) \/ GetNew(i[1], i[2]) PROVE Outcome
  <2>1. PICK a \in Agents, b \in Blueprints : i = <<a, b>>
    BY PoolsAssumption
  <2>2. GetExisting(a, b) \/ GetNew(a, b)
    BY <1>6, <2>1
  <2> QED  BY <2>1, <2>2, GetExistingHandsOut, GetNewFades DEF Outcome
<1>7. ASSUME NEW e \in Execs, CleanUp(e) PROVE Outcome
  BY <1>7, CleanUpCloses, ClosingStaysFades DEF Outcome
<1>8. ASSUME NEW p \in Procs, Crash(p) PROVE Outcome
  <2>1. EndsChild(p) /\ runner' = runner /\ PhaseOK'
    BY <1>8 DEF Crash, EndsChild, Shape, TypeOK, PhaseOK
  <2> QED  BY <2>1, EndsChildKeepsShape DEF Outcome
<1>9. ASSUME StopAllExecutors PROVE Outcome
  BY <1>9, StopAllCloses, ClosingStaysFades DEF Outcome
<1>10. ASSUME StopPool PROVE Outcome
  BY <1>10, StopPoolKeepsShape DEF Outcome
<1>11. CASE StopManager \/ Joined \/ RequestShutdown \/ Start \/ UNCHANGED vars
  BY <1>4, <1>11 DEF StopManager, Joined, RequestShutdown, Start, vars
<1> QED
  BY <1>1, <1>2, <1>3, <1>5, <1>6, <1>7, <1>8, <1>9, <1>10, <1>11
  DEF Next, Progress, ManagerStep

-----------------------------------------------------------------------------
(* What runs is in the caches, and what has work runs *)

(* An executor that runs is awaited, or it is known to the manager. *)
TrackedOne(e) ==
    Running(s, e) => Pending(s.execs[e].agent, e) \/ (Mapped(e) /\ s.pool[Id(s, e)] = e)
Tracked == \A e \in Execs : TrackedOne(e)

(* A process that is not closing is about to start, or it is the one in the    *)
(* pool and has an executor or is about to.                                    *)
InUseByOne(p) ==
    \/ \E a \in Agents : Starting(a, p)
    \/ /\ s.process_pool[s.procs[p].bp] = p
       /\ ~is_empty(s.procs[p]) \/ \E a \in Agents : runner[a].pc = "newExecutor" /\ runner[a].proc = p
ProcessKept == \A p \in Procs : ~s.procs[p].closing => InUseByOne(p)

Kept == WorkIsNotInterrupted /\ RemoteTracked /\ Tracked /\ NotYet /\ ProcessKept

(* An executor that still runs has run before, and stays where it was. *)
LEMMA FadedExecutor ==
    ASSUME NEW e \in Execs, ExecutorFades(e), Running(s', e)
    PROVE  Running(s, e) /\ Id(s', e) = Id(s, e) /\ s'.execs[e].agent = s.execs[e].agent
BY DEF ExecutorFades, Running, Id

(* Steps in which nothing begins. *)
LEMMA FadesKeeps ==
    ASSUME Shape, Kept, Fades
    PROVE  Kept'
<1>1. ASSUME NEW a \in Agents PROVE /\ runner'[a].pc = "executing" => runner'[a] = runner[a]
                                    /\ runner[a].pc = "newExecutor" =>
                                          runner'[a] = runner[a] \/ s'.execs[runner[a].exec].down
  BY DEF Fades, RunnerFades, Asks
<1>2. WorkIsNotInterrupted'
  <2>1. SUFFICES ASSUME NEW e \in Execs, InUse(e)' PROVE Running(s', e) \/ s'.execs[e].down
    BY DEF WorkIsNotInterrupted, Fades
  <2>2. InUse(e)
    BY <1>1, <2>1 DEF InUse
  <2>3. ExecutorFades(e) /\ (Running(s, e) \/ s.execs[e].down)
    BY <2>2 DEF Fades, Kept, WorkIsNotInterrupted
  <2> QED  BY <2>2, <2>3 DEF ExecutorFades, Running
<1>3. RemoteTracked'
  <2>1. SUFFICES ASSUME NEW e \in Execs, s'.execs[e].remote = "running"
                 PROVE  s'.procs[s'.execs[e].proc].pool[s'.execs[e].agent] = e
    BY DEF RemoteTracked, Fades
  <2> QED  BY <2>1, SMTT(30) DEF Fades, ExecutorFades, Kept, RemoteTracked
<1>4. Tracked'
  <2>1. SUFFICES ASSUME NEW e \in Execs, Running(s', e) PROVE TrackedOne(e)'
    BY DEF Tracked, TrackedOne, Fades
  <2>2. /\ ExecutorFades(e) /\ Running(s, e)
        /\ Id(s', e) = Id(s, e) /\ s'.execs[e].agent = s.execs[e].agent
    BY <2>1, FadedExecutor DEF Fades
  <2>3. TrackedOne(e) /\ s.execs[e].agent \in Agents
    <3>1. s.execs[e] \in Executors
      BY DEF Shape, TypeOK, Pools, Execs
    <3> QED  BY <3>1 DEF Kept, Tracked, Executors
  <2>4. CASE Pending(s.execs[e].agent, e)
    <3>1. runner'[s.execs[e].agent] = runner[s.execs[e].agent]
      BY <1>1, <2>1, <2>3, <2>4 DEF Pending, Running
    <3> QED  BY <2>2, <2>4, <3>1 DEF Pending, TrackedOne
  <2>5. CASE Mapped(e) /\ s.pool[Id(s, e)] = e
    BY <2>1, <2>2, <2>5 DEF ExecutorFades, Running, Mapped, TrackedOne
  <2> QED  BY <2>2, <2>3, <2>4, <2>5 DEF TrackedOne
<1>5. NotYet'
  <2>1. SUFFICES ASSUME NEW a \in Agents, Getting(a)', NEW e \in Execs, Running(s', e), Id(s', e) = <<a, runner'[a].bp>>
                 PROVE  Pending(a, e)'
    BY DEF NotYet, Fades
  <2>2. Running(s, e) /\ Id(s, e) = <<a, runner'[a].bp>>
    BY <2>1, FadedExecutor DEF Fades
  <2>3. CASE runner'[a] = runner[a]
    BY <2>1, <2>2, <2>3 DEF Getting, Kept, NotYet, Pending
  <2>4. CASE Asks(a)
    <3>1. s.execs[e].agent = a /\ ~Pending(a, e)
      BY <2>2, <2>4 DEF Id, Pending, Asks
    <3>2. s.pool[<<a, runner'[a].bp>>] = e /\ e # 0
      BY <2>2, <3>1 DEF Kept, Tracked, TrackedOne, Execs
    <3> QED  BY <2>2, <2>4, <3>2 DEF Asks, Running
  <2>5. CASE runner'[a].pc = "idle"
    BY <2>1, <2>5 DEF Getting
  <2> QED  BY <2>3, <2>4, <2>5 DEF Fades, RunnerFades
<1>6. ProcessKept'
  <2>1. SUFFICES ASSUME NEW p \in Procs, ~s'.procs[p].closing PROVE InUseByOne(p)'
    BY DEF ProcessKept, Fades
  <2>2. /\ ProcessFades(p) /\ ~s.procs[p].closing /\ s'.procs[p].bp = s.procs[p].bp
        /\ is_empty(s'.procs[p]) => is_empty(s.procs[p])
        /\ s.process_pool[s.procs[p].bp] = p => s'.process_pool[s.procs[p].bp] = p
    BY <2>1 DEF Fades, ProcessFades
  <2>3. InUseByOne(p)
    BY <2>2 DEF Kept, ProcessKept
  <2>4. ASSUME NEW a \in Agents, Starting(a, p) PROVE InUseByOne(p)'
    <3>1. runner'[a] = runner[a]
      BY <2>1, <2>4 DEF Starting, Fades, RunnerFades, Asks
    <3> QED  BY <2>4, <3>1 DEF Starting, InUseByOne
  <2>5. ASSUME s.process_pool[s.procs[p].bp] = p, ~is_empty(s.procs[p]) PROVE InUseByOne(p)'
    BY <2>2, <2>5 DEF InUseByOne
  <2>6. ASSUME s.process_pool[s.procs[p].bp] = p, NEW a \in Agents, runner[a].pc = "newExecutor", runner[a].proc = p
        PROVE  InUseByOne(p)'
    <3>1. runner'[a] = runner[a] \/ ~is_empty(s'.procs[p])
      BY <2>1, <2>6 DEF Fades, RunnerFades, Asks
    <3> QED  BY <2>2, <2>6, <3>1 DEF InUseByOne
  <2> QED  BY <2>3, <2>4, <2>5, <2>6 DEF InUseByOne
<1> QED  BY <1>2, <1>3, <1>4, <1>5, <1>6 DEF Kept

(* An executor that is there is handed out. *)
LEMMA HandingOutKeeps ==
    ASSUME Shape, Kept, NEW a \in Agents, NEW e \in Execs, HandsOut(a, e)
    PROVE  Kept'
<1>1. /\ Execs' = Execs /\ Procs' = Procs
      /\ \A x \in Execs : (Running(s', x) <=> Running(s, x)) /\ Id(s', x) = Id(s, x)
  BY DEF HandsOut, Execs, Procs, Running, Id
<1>2. WorkIsNotInterrupted'
  <2>1. SUFFICES ASSUME NEW x \in Execs, InUse(x)' PROVE Running(s', x) \/ s'.execs[x].down
    BY <1>1 DEF WorkIsNotInterrupted
  <2>2. CASE x = e
    BY <2>2 DEF HandsOut, Running
  <2>3. CASE x # e
    <3>1. InUse(x)
      BY <2>1, <2>3 DEF InUse, HandsOut
    <3> QED  BY <1>1, <3>1 DEF Kept, WorkIsNotInterrupted, HandsOut
  <2> QED  BY <2>2, <2>3
<1>3. RemoteTracked'
  BY <1>1 DEF Kept, RemoteTracked, HandsOut
<1>4. Tracked'
  <2>1. SUFFICES ASSUME NEW x \in Execs, Running(s', x) PROVE TrackedOne(x)'
    BY <1>1 DEF Tracked, TrackedOne
  <2>2. TrackedOne(x) /\ Running(s, x) /\ s.execs[x].agent \in Agents
    <3>1. s.execs[x] \in Executors
      BY DEF Shape, TypeOK, Pools, Execs
    <3> QED  BY <1>1, <2>1, <3>1 DEF Kept, Tracked, Executors
  <2>3. CASE Pending(s.execs[x].agent, x)
    BY <2>2, <2>3 DEF Pending, HandsOut, TrackedOne
  <2>4. CASE Mapped(x) /\ s.pool[Id(s, x)] = x
    BY <1>1, <2>2, <2>4 DEF Mapped, HandsOut, TrackedOne
  <2> QED  BY <2>2, <2>3, <2>4 DEF TrackedOne
<1>5. NotYet'
  BY <1>1 DEF Kept, NotYet, Getting, Pending, HandsOut
<1>6. ProcessKept'
  <2>1. SUFFICES ASSUME NEW p \in Procs, ~s'.procs[p].closing PROVE InUseByOne(p)'
    BY <1>1 DEF ProcessKept
  <2>2. InUseByOne(p)
    BY <2>1 DEF Kept, ProcessKept, HandsOut
  <2>3. \A x \in Agents : runner[x].pc \in {"newProcess", "newExecutor"} => runner'[x] = runner[x]
    BY DEF HandsOut
  <2> QED  BY <2>2, <2>3 DEF InUseByOne, Starting, HandsOut
<1> QED  BY <1>2, <1>3, <1>4, <1>5, <1>6 DEF Kept

(* A new process starts. *)
LEMMA StartingKeeps ==
    ASSUME Shape, Kept, NEW a \in Agents, NEW b \in Blueprints, NEW n \in Nat, Starts(a, b, n)
    PROVE  Kept'
<1>1. /\ Execs' = Execs /\ Procs' = Procs \cup {n} /\ n \notin Procs
      /\ s'.execs = s.execs /\ s'.pool = s.pool /\ s'.agent_map = s.agent_map /\ s'.process_pool = s.process_pool
      /\ \A x \in Execs : (Running(s', x) <=> Running(s, x)) /\ Id(s', x) = Id(s, x)
      /\ \A p \in Procs : s'.procs[p] = s.procs[p]
      /\ runner[a].pc = "wantProcess" /\ runner[a].bp = b
      /\ runner'[a] = [pc |-> "newProcess", bp |-> b, proc |-> n, exec |-> 0]
      /\ \A x \in Agents \ {a} : runner'[x] = runner[x]
  BY DEF Starts, Forked, Execs, Running, Id
<1>2. WorkIsNotInterrupted'
  <2>1. SUFFICES ASSUME NEW x \in Execs, InUse(x)' PROVE Running(s', x) \/ s'.execs[x].down
    BY <1>1 DEF WorkIsNotInterrupted
  <2>2. InUse(x)
    BY <1>1, <2>1 DEF InUse
  <2> QED  BY <1>1, <2>2 DEF Kept, WorkIsNotInterrupted
<1>3. RemoteTracked'
  <2>1. SUFFICES ASSUME NEW x \in Execs, s'.execs[x].remote = "running"
                 PROVE  s'.procs[s'.execs[x].proc].pool[s'.execs[x].agent] = x
    BY <1>1 DEF RemoteTracked
  <2>2. s.execs[x].proc \in Procs
    BY <1>1, <2>1 DEF Shape, ExecutorsKept
  <2> QED  BY <1>1, <2>1, <2>2 DEF Kept, RemoteTracked
<1>4. Tracked'
  <2>1. SUFFICES ASSUME NEW x \in Execs, Running(s', x) PROVE TrackedOne(x)'
    BY <1>1 DEF Tracked, TrackedOne
  <2>2. TrackedOne(x) /\ Running(s, x) /\ s.execs[x].agent \in Agents
    <3>1. s.execs[x] \in Executors
      BY DEF Shape, TypeOK, Pools, Execs
    <3> QED  BY <1>1, <2>1, <3>1 DEF Kept, Tracked, Executors
  <2> QED  BY <1>1, <2>2 DEF TrackedOne, Pending, Mapped
<1>5. NotYet'
  <2>1. SUFFICES ASSUME NEW x \in Agents, Getting(x)', NEW e \in Execs, Running(s', e), Id(s', e) = <<x, runner'[x].bp>>
                 PROVE  Pending(x, e)'
    BY <1>1 DEF NotYet
  <2>2. Getting(x) /\ runner'[x].bp = runner[x].bp
    BY <1>1, <2>1 DEF Getting
  <2>3. Pending(x, e)
    BY <1>1, <2>1, <2>2 DEF Kept, NotYet
  <2> QED  BY <1>1, <2>3 DEF Pending
<1>6. ProcessKept'
  <2>1. SUFFICES ASSUME NEW p \in Procs \cup {n}, ~s'.procs[p].closing PROVE InUseByOne(p)'
    BY <1>1 DEF ProcessKept
  <2>2. CASE p = n
    BY <1>1, <2>2 DEF InUseByOne, Starting
  <2>3. CASE p \in Procs
    <3>1. InUseByOne(p)
      BY <1>1, <2>1, <2>3 DEF Kept, ProcessKept
    <3>2. \A x \in Agents : runner[x].pc \in {"newProcess", "newExecutor"} => runner'[x] = runner[x]
      BY <1>1
    <3> QED  BY <1>1, <2>3, <3>1, <3>2 DEF InUseByOne, Starting
  <2> QED  BY <2>2, <2>3
<1> QED  BY <1>2, <1>3, <1>4, <1>5, <1>6 DEF Kept

(* A new executor is awaited. *)
LEMMA CreatingKeeps ==
    ASSUME Shape, Kept, NEW a \in Agents, NEW p \in Procs, NEW b \in Blueprints, NEW n \in Nat, Creates(a, p, b, n)
    PROVE  Kept'
<1>1. /\ s'.pool = s.pool /\ s'.agent_map = s.agent_map
      /\ Execs' = Execs \cup {n} /\ n \notin Execs /\ Procs' = Procs
      /\ \A e \in Execs : s'.execs[e] = s.execs[e]
      /\ runner[a].pc \in {"wantProcess", "newProcess"} /\ runner[a].bp = b
      /\ runner'[a] = [pc |-> "newExecutor", bp |-> b, proc |-> p, exec |-> n]
      /\ \A x \in Agents \ {a} : runner'[x] = runner[x]
  BY DEF Creates, CreatedExecutor
<1>2. /\ s'.execs[n].agent = a /\ s'.execs[n].bp = b /\ s'.execs[n].remote = "none"
      /\ ~s'.execs[n].closing /\ ~s'.execs[n].down
  BY DEF Creates, CreatedExecutor, NewExecutor
<1>3. \A q \in Procs : /\ s'.procs[q].bp = s.procs[q].bp /\ s'.procs[q].closing = s.procs[q].closing
                       /\ s'.procs[q].pool = s.procs[q].pool
  BY DEF Creates, CreatedExecutor, SameButMail
<1>4. \A x \in Execs : (Running(s', x) <=> Running(s, x)) /\ Id(s', x) = Id(s, x)
  BY <1>1 DEF Running, Id
<1>5. WorkIsNotInterrupted'
  <2>1. SUFFICES ASSUME NEW x \in Execs \cup {n}, InUse(x)' PROVE Running(s', x) \/ s'.execs[x].down
    BY <1>1 DEF WorkIsNotInterrupted
  <2>2. InUse(x)
    BY <1>1, <2>1 DEF InUse
  <2>3. CASE x = n
    BY <1>2, <2>3 DEF Running
  <2>4. CASE x \in Execs
    BY <1>1, <1>4, <2>2, <2>4 DEF Kept, WorkIsNotInterrupted
  <2> QED  BY <2>3, <2>4
<1>6. RemoteTracked'
  <2>1. SUFFICES ASSUME NEW x \in Execs \cup {n}, s'.execs[x].remote = "running"
                 PROVE  s'.procs[s'.execs[x].proc].pool[s'.execs[x].agent] = x
    BY <1>1 DEF RemoteTracked
  <2>2. x \in Execs /\ s.execs[x].remote = "running"
    BY <1>1, <1>2, <2>1
  <2>3. PICK q \in Procs : q = s.execs[x].proc
    BY <2>2 DEF Shape, ExecutorsKept
  <2>4. s.procs[q].pool[s.execs[x].agent] = x
    BY <2>2, <2>3 DEF Kept, RemoteTracked
  <2>5. s'.execs[x] = s.execs[x] /\ s'.procs[q].pool = s.procs[q].pool
    BY <1>1, <1>3, <2>2
  <2> QED  BY <2>3, <2>4, <2>5
<1>7. Tracked'
  <2>1. SUFFICES ASSUME NEW x \in Execs \cup {n}, Running(s', x) PROVE TrackedOne(x)'
    BY <1>1 DEF Tracked, TrackedOne
  <2>2. CASE x = n
    BY <1>1, <1>2, <2>2 DEF TrackedOne, Pending
  <2>3. CASE x \in Execs
    <3>1. TrackedOne(x) /\ Running(s, x) /\ s.execs[x].agent \in Agents
      <4>1. s.execs[x] \in Executors
        BY <2>3 DEF Shape, TypeOK, Pools, Execs
      <4> QED  BY <1>4, <2>1, <2>3, <4>1 DEF Kept, Tracked, Executors
    <3>2. CASE Pending(s.execs[x].agent, x)
      BY <1>1, <2>3, <3>1, <3>2 DEF TrackedOne, Pending
    <3>3. CASE Mapped(x) /\ s.pool[Id(s, x)] = x
      BY <1>1, <1>4, <2>3, <3>1, <3>3 DEF TrackedOne, Mapped
    <3> QED  BY <3>1, <3>2, <3>3 DEF TrackedOne
  <2> QED  BY <2>2, <2>3
<1>8. NotYet'
  <2>1. SUFFICES ASSUME NEW x \in Agents, Getting(x)', NEW e \in Execs \cup {n}, Running(s', e), Id(s', e) = <<x, runner'[x].bp>>
                 PROVE  Pending(x, e)'
    BY <1>1 DEF NotYet
  <2>2. CASE e = n
    <3>1. x = a
      BY <1>2, <2>1, <2>2 DEF Id
    <3> QED  BY <1>1, <2>2, <3>1 DEF Pending
  <2>3. CASE e \in Execs
    <3>1. Getting(x) /\ runner'[x].bp = runner[x].bp
      BY <1>1, <2>1 DEF Getting
    <3>2. Pending(x, e)
      BY <1>4, <2>1, <2>3, <3>1 DEF Kept, NotYet
    <3> QED  BY <1>1, <3>2 DEF Pending
  <2> QED  BY <2>2, <2>3
<1>9. ProcessKept'
  <2>1. SUFFICES ASSUME NEW q \in Procs, ~s'.procs[q].closing PROVE InUseByOne(q)'
    BY <1>1 DEF ProcessKept
  <2>2. InUseByOne(q) /\ ~s.procs[q].closing
    BY <1>3, <2>1 DEF Kept, ProcessKept
  <2>3. s'.process_pool = [s.process_pool EXCEPT ![b] = p] /\ s.process_pool \in [Blueprints -> Nat]
        /\ s.procs[q].bp \in Blueprints
    <3>1. s \in Pools /\ s.procs[q] \in Processes
      BY DEF Shape, TypeOK, Pools, Procs
    <3> QED  BY <3>1 DEF Creates, CreatedExecutor, Pools, Processes
  <2>4. CASE q = p
    <3>1. s'.process_pool[s'.procs[p].bp] = p
      BY <1>3, <2>3 DEF Creates
    <3> QED  BY <1>1, <2>4, <3>1 DEF InUseByOne
  <2>5. CASE q # p
    <3>1. \A x \in Agents : Starting(x, q) => Starting(x, q)'
      BY <1>1, <2>5 DEF Starting, Creates
    <3>2. ASSUME s.process_pool[s.procs[q].bp] = q PROVE s'.process_pool[s'.procs[q].bp] = q
      <4>1. s.procs[q].bp # b
        BY <2>2, <2>5, <3>2 DEF Creates, usable, Procs
      <4> QED  BY <1>3, <2>3, <3>2, <4>1
    <3>3. is_empty(s'.procs[q]) <=> is_empty(s.procs[q])
      BY <1>3 DEF is_empty
    <3>4. \A x \in Agents : runner[x].pc = "newExecutor" => runner'[x] = runner[x]
      BY <1>1
    <3> QED  BY <2>2, <3>1, <3>2, <3>3, <3>4 DEF InUseByOne
  <2> QED  BY <2>4, <2>5
<1> QED  BY <1>5, <1>6, <1>7, <1>8, <1>9 DEF Kept

(* A new executor is there. *)
LEMMA BeginningKeeps ==
    ASSUME Shape, Kept, NEW p \in Procs, NEW a \in Agents, NEW e \in Execs, Begins(p, a, e)
    PROVE  Kept'
<1>1. /\ Execs' = Execs /\ Procs' = Procs /\ s'.process_pool = s.process_pool
      /\ \A x \in Execs : x # e => s'.execs[x] = s.execs[x]
      /\ s'.execs[e].agent = s.execs[e].agent /\ s'.execs[e].bp = s.execs[e].bp /\ s'.execs[e].proc = s.execs[e].proc
      /\ Running(s', e) /\ Running(s, e)
      /\ s.execs[e].agent = a /\ s.execs[e].proc = p
      /\ \A i \in Ids : s'.pool[i] = IF i = <<a, s.execs[e].bp>> THEN e ELSE s.pool[i]
      /\ \A x \in Agents : s'.agent_map[x] = IF x = a THEN s.agent_map[x] \cup {e} ELSE s.agent_map[x]
  BY DEF Begins, Initialised, Answers, Running
<1>2. /\ runner[a].pc = "newExecutor" /\ runner[a].exec = e /\ runner[a].proc = p /\ runner[a].bp = s.execs[e].bp
      /\ runner'[a].pc = "executing" /\ runner'[a].exec = e
      /\ \A x \in Agents \ {a} : runner'[x] = runner[x]
  BY DEF Begins, Initialised, Answers
<1>3. /\ \A q \in Procs : /\ q # p => s'.procs[q] = s.procs[q]
                          /\ s'.procs[q].bp = s.procs[q].bp /\ s'.procs[q].closing = s.procs[q].closing
      /\ \A x \in Agents : s'.procs[p].pool[x] = IF x = a THEN e ELSE s.procs[p].pool[x]
  BY DEF Begins, Initialised
<1>4. \A x \in Execs : (Running(s', x) <=> Running(s, x)) /\ Id(s', x) = Id(s, x)
  BY <1>1 DEF Running, Id
<1>5. ASSUME NEW x \in Execs PROVE s.execs[x].agent \in Agents /\ Id(s, x) \in Ids
  <2>1. s.execs[x] \in Executors
    BY DEF Shape, TypeOK, Pools, Execs
  <2> QED  BY <2>1 DEF Executors, Id
<1>6. WorkIsNotInterrupted'
  <2>1. SUFFICES ASSUME NEW x \in Execs, InUse(x)', x # e PROVE Running(s', x) \/ s'.execs[x].down
    BY <1>1 DEF WorkIsNotInterrupted
  <2>2. InUse(x)
    BY <1>2, <2>1 DEF InUse
  <2> QED  BY <1>1, <1>4, <2>1, <2>2 DEF Kept, WorkIsNotInterrupted
<1>7. RemoteTracked'
  <2>1. SUFFICES ASSUME NEW x \in Execs, s'.execs[x].remote = "running"
                 PROVE  s'.procs[s'.execs[x].proc].pool[s'.execs[x].agent] = x
    BY <1>1 DEF RemoteTracked
  <2>2. CASE x = e
    BY <1>1, <1>3, <2>2
  <2>3. CASE x # e
    <3>1. s.execs[x].remote = "running" /\ s.procs[s.execs[x].proc].pool[s.execs[x].agent] = x
      BY <1>1, <2>1, <2>3 DEF Kept, RemoteTracked
    <3>2. PICK q \in Procs : q = s.execs[x].proc
      BY <3>1 DEF Shape, ExecutorsKept
    <3>3. PICK c \in Agents : c = s.execs[x].agent
      BY <1>5
    <3>4. ~(q = p /\ c = a)
      BY <3>1, <3>2, <3>3 DEF Begins, StillRunning
    <3>5. s.procs[q].pool[c] = x /\ s'.execs[x].proc = q /\ s'.execs[x].agent = c
      BY <1>1, <2>3, <3>1, <3>2, <3>3
    <3>6. CASE q = p
      BY <1>3, <3>4, <3>5, <3>6
    <3>7. CASE q # p
      BY <1>3, <3>5, <3>7
    <3> QED  BY <3>6, <3>7
  <2> QED  BY <2>2, <2>3
<1>8. Tracked'
  <2>1. SUFFICES ASSUME NEW x \in Execs, Running(s', x) PROVE TrackedOne(x)'
    BY <1>1 DEF Tracked, TrackedOne
  <2>2. CASE x = e
    <3>1. Id(s, e) = <<a, s.execs[e].bp>> /\ Id(s, e) \in Ids
      BY <1>1, <1>5 DEF Id
    <3> QED  BY <1>1, <1>4, <2>2, <3>1 DEF TrackedOne, Mapped
  <2>3. CASE x # e
    <3>1. TrackedOne(x) /\ Running(s, x)
      BY <1>4, <2>1 DEF Kept, Tracked
    <3>2. CASE Pending(s.execs[x].agent, x)
      BY <1>1, <1>2, <1>5, <2>3, <3>2 DEF TrackedOne, Pending
    <3>3. CASE Mapped(x) /\ s.pool[Id(s, x)] = x
      <4>1. Id(s, x) # <<a, s.execs[e].bp>>
        BY <1>2, <2>3, <3>1 DEF Kept, NotYet, Getting, Pending
      <4> QED  BY <1>1, <1>4, <1>5, <2>3, <3>3, <4>1, ZenonT(40) DEF TrackedOne, Mapped
    <3> QED  BY <3>1, <3>2, <3>3 DEF TrackedOne
  <2> QED  BY <2>2, <2>3
<1>9. NotYet'
  <2>1. SUFFICES ASSUME NEW x \in Agents, Getting(x)', NEW y \in Execs, Running(s', y), Id(s', y) = <<x, runner'[x].bp>>
                 PROVE  Pending(x, y)'
    BY <1>1 DEF NotYet
  <2>2. x # a
    BY <1>2, <2>1 DEF Getting
  <2>3. runner'[x] = runner[x] /\ Getting(x)
    BY <1>2, <2>1, <2>2 DEF Getting
  <2>4. Pending(x, y)
    BY <1>4, <2>1, <2>3 DEF Kept, NotYet
  <2> QED  BY <2>3, <2>4 DEF Pending
<1>10. ProcessKept'
  <2>1. SUFFICES ASSUME NEW q \in Procs, ~s'.procs[q].closing PROVE InUseByOne(q)'
    BY <1>1 DEF ProcessKept
  <2>2. InUseByOne(q)
    BY <1>3, <2>1 DEF Kept, ProcessKept
  <2>3. \A x \in Agents : Starting(x, q) => Starting(x, q)'
    BY <1>2 DEF Starting
  <2>4. CASE q = p
    <3>1. ~is_empty(s'.procs[p])
      BY <1>3 DEF is_empty, Execs
    <3> QED  BY <1>1, <1>3, <2>2, <2>3, <2>4, <3>1 DEF InUseByOne
  <2>5. CASE q # p
    <3>1. \A x \in Agents : runner[x].pc = "newExecutor" /\ runner[x].proc = q => runner'[x] = runner[x]
      BY <1>2, <2>5
    <3> QED  BY <1>1, <1>3, <2>2, <2>3, <2>5, <3>1 DEF InUseByOne
  <2> QED  BY <2>4, <2>5
<1> QED  BY <1>6, <1>7, <1>8, <1>9, <1>10 DEF Kept

(* Every step keeps what runs tracked, and what has work running. *)
LEMMA NextKeeps ==
    ASSUME Shape, Kept, [Next]_vars
    PROVE  Kept'
<1>1. Outcome
  BY StepOutcome DEF Kept
<1> QED
  BY <1>1, FadesKeeps, HandingOutKeeps, StartingKeeps, CreatingKeeps, BeginningKeeps
  DEF Outcome, HandsOut, Creates, Begins

(* There is nothing to keep at first. *)
LEMMA KeptAtFirst ==
    ASSUME Init
    PROVE  Kept
<1>1. Execs = {} /\ Procs = {}
  BY NothingAtFirst
<1> QED  BY <1>1 DEF Kept, WorkIsNotInterrupted, RemoteTracked, Tracked, NotYet, ProcessKept

(* The inductive invariant of the pools. *)
THEOREM PoolsKept == Spec => [](Shape /\ Kept)
<1>1. Init => Shape /\ Kept
  BY NothingAtFirst, KeptAtFirst
<1>2. (Shape /\ Kept) /\ [Next]_vars => (Shape /\ Kept)'
  BY NextKeepsShape, NextKeeps
<1> QED  BY <1>1, <1>2, PTL DEF Spec

(* The cleanup, making room and the replacement of executors close only those *)
(* that have no work, and what has begun to work runs until it is down.        *)
THEOREM WorkGoesOn == Spec => []WorkIsNotInterrupted
<1>1. Shape /\ Kept => WorkIsNotInterrupted
  BY DEF Kept
<1> QED  BY <1>1, PoolsKept, PTL

(* All three caches know an executor that runs.                               *)
THEOREM RunningExecutorsTracked == Spec => []RunningIsTracked
<1>1. ASSUME Shape, Kept PROVE RunningIsTracked
  <2>1. SUFFICES ASSUME NEW e \in Execs, Running(s, e), s.execs[e].remote = "running"
                 PROVE  /\ s.pool[Id(s, e)] = e /\ Mapped(e)
                        /\ s.procs[s.execs[e].proc].pool[s.execs[e].agent] = e
    BY DEF RunningIsTracked
  <2>2. s.procs[s.execs[e].proc].pool[s.execs[e].agent] = e
    BY <1>1, <2>1 DEF Kept, RemoteTracked
  <2>3. TrackedOne(e) /\ s.execs[e].agent \in Agents
    <3>1. s.execs[e] \in Executors
      BY <1>1 DEF Shape, TypeOK, Pools, Execs
    <3> QED  BY <1>1, <3>1 DEF Kept, Tracked, Executors
  <2>4. ~Pending(s.execs[e].agent, e)
    BY <1>1, <2>1, <2>3 DEF Pending, Shape, RunnersKept, RunnerKept, StartsExecutor
  <2> QED  BY <2>1, <2>2, <2>3, <2>4 DEF TrackedOne
<1> QED  BY <1>1, PoolsKept, PTL

(* A process that was not asked to stop has a use.                            *)
THEOREM ProcessesHaveUse == Spec => []ProcessIsUsed
<1>1. ASSUME Shape, Kept PROVE ProcessIsUsed
  <2>1. SUFFICES ASSUME NEW p \in Procs, ~s.procs[p].closing
                 PROVE  \/ Creating(p)
                        \/ s.process_pool[s.procs[p].bp] = p /\ \E a \in Agents : s.procs[p].pool[a] # 0
    BY DEF ProcessIsUsed
  <2>2. InUseByOne(p)
    BY <1>1, <2>1 DEF Kept, ProcessKept
  <2> QED  BY <2>2 DEF InUseByOne, Starting, Creating, is_empty
<1> QED  BY <1>1, PoolsKept, PTL

-----------------------------------------------------------------------------
(* The manager's stop *)

(* Nobody asks for an executor any more when the manager is joined, and then  *)
(* the process pool has been emptied.                                          *)
JoinOK ==
    /\ phase \in {"joining", "joined"} => \A a \in Agents : ~Getting(a)
    /\ phase = "joined" => \A b \in Blueprints : s.process_pool[b] = 0

(* How the phase moves to the last two: when nobody asks, and when none is left. *)
LastPhases ==
    phase' = phase \/ phase' \in {"running", "stopping", "poolStopped"}
    \/ /\ UNCHANGED <<s, runner>>
       /\ \/ phase' = "joining" /\ \A a \in Agents : ~Getting(a)
          \/ phase = "joining" /\ \A b \in Blueprints : s.process_pool[b] = 0

(* The phase moves in the order in which the manager stops. *)
LEMMA PhaseMoves ==
    ASSUME [Next]_vars
    PROVE  LastPhases
<1>1. ASSUME NEW a \in Agents, RunnerStep(a) PROVE LastPhases
  BY <1>1 DEF RunnerStep, GetProcess, Refused, ProcessReady, ProcessFails, CallReturns, InitFails, LastPhases
<1>2. ASSUME NEW e \in Execs, ExecutorStep(e) PROVE LastPhases
  BY <1>2 DEF ExecutorStep, SendStop, StopReply, LastPhases
<1>3. ASSUME NEW p \in Procs, ProcessStep(p) PROVE LastPhases
  BY <1>3 DEF ProcessStep, InitFor, StopFor, Stop, End, ConnectionLost, JoinProcess, LastPhases
<1>4. ASSUME ManagerStep PROVE LastPhases
  BY <1>4 DEF ManagerStep, StopPool, StopManager, Joined, KillOnJoin, LastPhases
<1>5. ASSUME NEW i \in Ids, GetExisting(i[1], i[2]) \/ GetNew(i[1], i[2]) PROVE LastPhases
  BY <1>5 DEF GetExisting, GetNew, LastPhases
<1>6. ASSUME NEW e \in Execs, CleanUp(e) PROVE LastPhases
  BY <1>6 DEF CleanUp, LastPhases
<1>7. ASSUME NEW p \in Procs, Crash(p) PROVE LastPhases
  BY <1>7 DEF Crash, LastPhases
<1>8. CASE StopAllExecutors \/ RequestShutdown \/ Start
  BY <1>8 DEF StopAllExecutors, RequestShutdown, Start, LastPhases
<1>9. CASE UNCHANGED vars
  BY <1>9 DEF vars, LastPhases
<1> QED  BY <1>1, <1>2, <1>3, <1>4, <1>5, <1>6, <1>7, <1>8, <1>9 DEF Next, Progress

(* What has stopped is not started again but by the manager. *)
LEMMA NextKeepsStopped ==
    ASSUME Shape, Kept, JoinOK, [Next]_vars
    PROVE  JoinOK'
<1>1. Outcome /\ LastPhases
  BY StepOutcome, PhaseMoves DEF Kept
<1>2. CASE UNCHANGED <<s, runner>> /\ (\/ phase' = "joining" /\ \A a \in Agents : ~Getting(a)
                                       \/ phase = "joining" /\ \A b \in Blueprints : s.process_pool[b] = 0)
  BY <1>2 DEF JoinOK, Getting
<1>3. CASE phase' \in {"running", "stopping", "poolStopped"}
  BY <1>3 DEF JoinOK
<1>4. CASE phase' = phase
  <2>1. SUFFICES ASSUME phase \in {"joining", "joined"}, \A a \in Agents : ~Getting(a) PROVE JoinOK'
    BY <1>4 DEF JoinOK
  <2>2. CASE Fades
    <3>1. ASSUME NEW a \in Agents PROVE ~Getting(a)'
      BY <2>1, <2>2 DEF Fades, RunnerFades, Asks, Getting
    <3>2. phase = "joined" => \A b \in Blueprints : s'.process_pool[b] = 0
      BY <2>2 DEF Fades, JoinOK
    <3> QED  BY <1>4, <3>1, <3>2 DEF JoinOK
  <2>3. ASSUME NEW a \in Agents, NEW e \in Execs, HandsOut(a, e) PROVE JoinOK'
    BY <1>4, <2>1, <2>3 DEF JoinOK, HandsOut, Getting
  <2>4. ASSUME NEW a \in Agents, NEW p \in Procs, NEW b \in Blueprints, NEW n \in Nat, Creates(a, p, b, n) PROVE FALSE
    BY <2>1, <2>4 DEF Creates, Getting
  <2>5. ASSUME NEW a \in Agents, NEW b \in Blueprints, NEW n \in Nat, Starts(a, b, n) PROVE FALSE
    BY <2>1, <2>5 DEF Starts, Getting
  <2>6. ASSUME NEW p \in Procs, NEW a \in Agents, NEW e \in Execs, Begins(p, a, e) PROVE FALSE
    BY <2>1, <2>6 DEF Begins, Answers, Getting
  <2> QED  BY <1>1, <2>2, <2>3, <2>4, <2>5, <2>6 DEF Outcome
<1> QED  BY <1>1, <1>2, <1>3, <1>4 DEF LastPhases

(* A manager that was joined has left no process behind, but those that were  *)
(* asked to stop.                                                              *)
THEOREM JoinLeavesNone == Spec => []JoinedMeansStopped
<1>1. Init => JoinOK
  BY DEF Init, JoinOK
<1>2. (Shape /\ Kept) /\ JoinOK /\ [Next]_vars => JoinOK'
  BY NextKeepsStopped
<1>3. Spec => []JoinOK
  BY <1>1, <1>2, PoolsKept, PTL DEF Spec
<1>4. ASSUME Shape, Kept, JoinOK PROVE JoinedMeansStopped
  <2>1. SUFFICES ASSUME phase = "joined", NEW p \in Procs, ~s.procs[p].closing PROVE FALSE
    BY DEF JoinedMeansStopped
  <2>2. InUseByOne(p)
    BY <1>4, <2>1 DEF Kept, ProcessKept
  <2>3. s.procs[p].bp \in Blueprints /\ p # 0
    <3>1. s.procs[p] \in Processes
      BY <1>4 DEF Shape, TypeOK, Pools, Procs
    <3> QED  BY <3>1 DEF Processes, Procs
  <2> QED  BY <1>4, <2>1, <2>2, <2>3 DEF InUseByOne, Starting, JoinOK, Getting
<1> QED  BY <1>3, <1>4, PoolsKept, PTL

-----------------------------------------------------------------------------
(* The cap *)

RunningOf(a) == {e \in Execs : s.execs[e].agent = a /\ Running(s, e)}

(* One more may begin to run when a runner waits for a process for it. *)
CapOf(a) ==
    /\ Cardinality(RunningOf(a)) <= Cap
    /\ runner[a].pc \in {"wantProcess", "newProcess"} => Cardinality(RunningOf(a)) < Cap

(* The executors of an agent are finitely many. *)
LEMMA FiniteRunning ==
    ASSUME Shape, NEW a \in Agents
    PROVE  IsFiniteSet(RunningOf(a)) /\ Cardinality(RunningOf(a)) \in Nat
<1>1. IsFiniteSet(Execs)
  <2>1. Len(s.execs) \in Nat
    BY LenProperties DEF Shape, TypeOK, Pools
  <2> QED  BY <2>1, FS_Interval DEF Execs
<1>2. RunningOf(a) \in SUBSET Execs
  BY DEF RunningOf
<1>3. IsFiniteSet(RunningOf(a))
  BY <1>1, <1>2, FS_Subset
<1> QED  BY <1>3, FS_CardinalityType

(* When fewer run, and the runner does not begin to wait, the cap still holds. *)
LEMMA FewerRun ==
    ASSUME Shape, NEW a \in Agents, CapOf(a), RunningOf(a)' \in SUBSET RunningOf(a),
           runner'[a].pc \in {"wantProcess", "newProcess"} =>
               runner[a].pc \in {"wantProcess", "newProcess"} \/ RunningOf(a)' # RunningOf(a)
                                                              \/ Cardinality(RunningOf(a)) < Cap
    PROVE  CapOf(a)'
<1>1. IsFiniteSet(RunningOf(a)) /\ Cardinality(RunningOf(a)) \in Nat
  BY FiniteRunning
<1>2. PICK R : R = RunningOf(a)'
  OBVIOUS
<1>3. /\ IsFiniteSet(R) /\ Cardinality(R) <= Cardinality(RunningOf(a))
      /\ Cardinality(R) = Cardinality(RunningOf(a)) => R = RunningOf(a)
  BY <1>1, <1>2, FS_Subset
<1>4. Cardinality(R) \in Nat
  BY <1>3, FS_CardinalityType
<1> QED  BY <1>1, <1>2, <1>3, <1>4, PoolsAssumption DEF CapOf

(* What an agent asks for is the only one it may get above what runs. *)
LEMMA AskingKeepsCap ==
    ASSUME Shape, Kept, NEW a \in Agents, CapOf(a), Asks(a), RunningOf(a)' \in SUBSET RunningOf(a)
    PROVE  CapOf(a)'
<1>1. RunningOf(a) = RunningIn(a)
  <2>1. ASSUME NEW e \in RunningOf(a) PROVE e \in RunningIn(a)
    <3>1. e \in Execs /\ s.execs[e].agent = a /\ Running(s, e) /\ TrackedOne(e)
      BY DEF RunningOf, Kept, Tracked
    <3> QED  BY <3>1 DEF TrackedOne, Pending, Asks, Mapped, RunningIn
  <2>2. ASSUME NEW e \in RunningIn(a) PROVE e \in RunningOf(a)
    BY DEF RunningIn, RunningOf, Shape, AgentMapKept
  <2> QED  BY <2>1, <2>2
<1>2. CASE ~no_room(Cardinality(RunningIn(a)))
  <2>1. Cardinality(RunningOf(a)) < Cap
    BY <1>1, <1>2, FiniteRunning, PoolsAssumption DEF no_room
  <2> QED  BY <2>1, FewerRun
<1>3. ASSUME NEW e \in RunningIn(a), ~Running(s', e) PROVE CapOf(a)'
  <2>1. e \in RunningOf(a) /\ e \notin RunningOf(a)'
    BY <1>1, <1>3 DEF RunningOf
  <2> QED  BY <2>1, FewerRun
<1> QED  BY <1>2, <1>3 DEF Asks

(* A new executor of an agent is one more. *)
LEMMA CreatingKeepsCap ==
    ASSUME Shape, NEW a \in Agents, NEW p \in Procs, NEW b \in Blueprints, NEW n \in Nat, Creates(a, p, b, n),
           NEW x \in Agents, CapOf(x)
    PROVE  CapOf(x)'
<1>1. /\ Execs' = Execs \cup {n} /\ n \notin Execs
      /\ \A e \in Execs : s'.execs[e] = s.execs[e]
      /\ runner[a].pc \in {"wantProcess", "newProcess"} /\ runner'[a].pc = "newExecutor"
      /\ s'.execs[n].agent = a
      /\ \A y \in Agents \ {a} : runner'[y] = runner[y]
  BY DEF Creates, CreatedExecutor, NewExecutor
<1>2. IsFiniteSet(RunningOf(x)) /\ Cardinality(RunningOf(x)) \in Nat /\ n \notin RunningOf(x)
  BY <1>1, FiniteRunning DEF RunningOf
<1>3. CASE x # a
  <2>1. RunningOf(x)' \in SUBSET RunningOf(x)
    BY <1>1, <1>3 DEF RunningOf, Running
  <2> QED  BY <1>1, <1>3, <2>1, FewerRun
<1>4. CASE x = a
  <2>1. PICK R : R = RunningOf(a)'
    OBVIOUS
  <2>2. R \in SUBSET (RunningOf(a) \cup {n})
    BY <1>1, <2>1 DEF RunningOf, Running
  <2>3. IsFiniteSet(RunningOf(a) \cup {n}) /\ Cardinality(RunningOf(a) \cup {n}) = Cardinality(RunningOf(a)) + 1
    BY <1>2, <1>4, FS_AddElement
  <2>4. IsFiniteSet(R) /\ Cardinality(R) <= Cardinality(RunningOf(a)) + 1
    BY <2>2, <2>3, FS_Subset
  <2>5. Cardinality(R) \in Nat /\ Cardinality(RunningOf(a)) < Cap
    BY <1>1, <1>4, <2>4, FS_CardinalityType DEF CapOf
  <2>6. Cardinality(R) <= Cap
    BY <1>2, <1>4, <2>4, <2>5, PoolsAssumption
  <2> QED  BY <1>1, <1>4, <2>1, <2>6 DEF CapOf
<1> QED  BY <1>3, <1>4

(* Every step keeps to the cap. *)
LEMMA NextKeepsCap ==
    ASSUME Shape, Kept, NEW a \in Agents, CapOf(a), [Next]_vars
    PROVE  CapOf(a)'
<1>1. Outcome
  BY StepOutcome DEF Kept
<1>2. CASE Fades
  <2>1. RunningOf(a)' \in SUBSET RunningOf(a)
    BY <1>2, FadedExecutor DEF Fades, RunningOf
  <2>2. CASE Asks(a)
    BY <2>1, <2>2, AskingKeepsCap
  <2>3. CASE runner'[a] = runner[a] \/ runner'[a].pc = "idle"
    BY <2>1, <2>3, FewerRun
  <2> QED  BY <1>2, <2>2, <2>3 DEF Fades, RunnerFades
<1>3. ASSUME NEW x \in Agents, NEW e \in Execs, HandsOut(x, e) PROVE CapOf(a)'
  <2>1. RunningOf(a)' \in SUBSET RunningOf(a)
    BY <1>3 DEF HandsOut, RunningOf, Running, Execs
  <2>2. runner'[a] = runner[a] \/ runner'[a].pc = "executing"
    BY <1>3 DEF HandsOut
  <2> QED  BY <2>1, <2>2, FewerRun
<1>4. ASSUME NEW x \in Agents, NEW b \in Blueprints, NEW n \in Nat, Starts(x, b, n) PROVE CapOf(a)'
  <2>1. RunningOf(a)' \in SUBSET RunningOf(a)
    BY <1>4 DEF Starts, Forked, RunningOf, Running, Execs
  <2>2. runner'[a] = runner[a] \/ runner[a].pc = "wantProcess"
    BY <1>4 DEF Starts, Forked
  <2> QED  BY <2>1, <2>2, FewerRun
<1>5. ASSUME NEW p \in Procs, NEW x \in Agents, NEW e \in Execs, Begins(p, x, e) PROVE CapOf(a)'
  <2>1. RunningOf(a)' \in SUBSET RunningOf(a)
    BY <1>5 DEF Begins, Initialised, Answers, RunningOf, Running
  <2>2. runner'[a] = runner[a] \/ runner'[a].pc = "executing"
    BY <1>5 DEF Begins, Initialised
  <2> QED  BY <2>1, <2>2, FewerRun
<1> QED  BY <1>1, <1>2, <1>3, <1>4, <1>5, CreatingKeepsCap DEF Outcome, Creates

(* No agent has more executors than the cap, those that are on their way      *)
(* included: room is made before a process is asked for.                       *)
THEOREM CapHolds == Spec => []CapRespected
<1> DEFINE CapKept == \A a \in Agents : CapOf(a)
<1>1. ASSUME Init PROVE CapKept
  <2>1. Execs = {} /\ \A a \in Agents : runner[a].pc = "idle"
    BY <1>1, NothingAtFirst DEF Init, Idle
  <2>2. \A a \in Agents : Cardinality(RunningOf(a)) = 0
    BY <2>1, FS_EmptySet DEF RunningOf
  <2> QED  BY <2>1, <2>2, PoolsAssumption DEF CapOf
<1>2. (Shape /\ Kept) /\ CapKept /\ [Next]_vars => CapKept'
  BY NextKeepsCap
<1>3. CapKept => CapRespected
  BY DEF CapOf, CapRespected, RunningOf
<1> HIDE DEF CapKept
<1> QED  BY <1>1, <1>2, <1>3, PoolsKept, PTL DEF Spec
=============================================================================
