--------------------------- MODULE ScheduledWork ---------------------------
(***************************************************************************)
(* The scheduled work of the resource scheduler (deploy/work.py): deploy   *)
(* tasks that are ready (in an agent queue) and deploy tasks that wait for *)
(* one of their dependencies.  The methods of the class ScheduledWork are  *)
(* operators from a work value to a work value, so that the scheduler's    *)
(* handlers, which call several of them under one lock, compose them.      *)
(*                                                                         *)
(* Priorities and request order decide only which queued task an agent     *)
(* takes first; they are left to the module AgentQueues.                   *)
(***************************************************************************)
EXTENDS RequiresProvides, Naturals, FiniteSets

(***************************************************************************)
(* waiting, blocked_on: the keys and the blocked_on fields of _waiting;    *)
(* agent_queues: the deploy tasks in one of the agent queues;              *)
(* rescheduled: auxiliary, the tasks that were created, with the new       *)
(* blockers only, for a resource that is deploying (see extended_tasks).   *)
(***************************************************************************)
Works == [waiting : SUBSET Resources, blocked_on : Edges,
          agent_queues : SUBSET Resources, rescheduled : SUBSET Resources]

EmptyWork == [waiting |-> {}, blocked_on |-> NoEdges,
              agent_queues |-> {}, rescheduled |-> {}]

scheduled(w) == w.waiting \cup w.agent_queues

\* The arguments of deploy_with_context, priority and reason left out.
Requests == [resources : SUBSET Resources, deploying : SUBSET Resources,
             added_requires : Edges, dropped_requires : Edges, force_deploy : BOOLEAN]

DeployRequest(resources, deploying) ==
    [resources |-> resources, deploying |-> deploying, added_requires |-> NoEdges,
     dropped_requires |-> NoEdges, force_deploy |-> FALSE]

-----------------------------------------------------------------------------
(* deploy_with_context *)

\* Mutant: a forced request does not insist on a new task.
unforced_cache(q) == q.deploying

\* The in-progress deploys that count as scheduled: all of them, except that a
\* forced request wants a new task for its own resources.
queued_cache(q) ==
    IF q.force_deploy THEN q.deploying \ q.resources ELSE q.deploying

\* What is_scheduled answers before the call has created any task.
scheduled_before(w, q) == scheduled(w) \cup queued_cache(q)

created_tasks(w, q) == q.resources \ scheduled_before(w, q)

\* What is_scheduled answers once every requested task exists.
is_scheduled(w, q) == scheduled_before(w, q) \cup q.resources

\* Mutant: tasks that this call creates do not block the tasks that exist.
only_added_blockers(w, requires, q, r) == q.added_requires[r] \cap is_scheduled(w, q)

\* The blockers that extend_blocked_on adds to r, over all its calls: tasks
\* created for a dependency, and added requires that are scheduled.
new_blockers(w, requires, q, r) ==
    (requires[r] \cap created_tasks(w, q)) \cup (q.added_requires[r] \cap is_scheduled(w, q))

\* Tasks found in the lookup cache or in an agent queue that got a blocker: they
\* are (re)created as waiting tasks, with the new blockers only.  That includes a
\* task that is waiting already while its resource is deploying.
extended_tasks(w, requires, q) ==
    {r \in queued_cache(q) \cup w.agent_queues : new_blockers(w, requires, q, r) # {}}

blocked_on_after(w, requires, q) ==
    LET created  == created_tasks(w, q)
        extended == extended_tasks(w, requires, q)
    IN  [r \in Resources |->
           IF r \in created THEN requires[r] \cap is_scheduled(w, q)
           ELSE IF r \in extended THEN new_blockers(w, requires, q, r)
           ELSE IF r \in w.waiting
             THEN (w.blocked_on[r] \ q.dropped_requires[r]) \cup new_blockers(w, requires, q, r)
           ELSE {}]

deploy_with_context(w, requires, q) ==
    LET created  == created_tasks(w, q)
        extended == extended_tasks(w, requires, q)
        blocked  == blocked_on_after(w, requires, q)
        waiting  == w.waiting \cup created \cup extended
        ready    == {r \in waiting : /\ blocked[r] = {}
                                     /\ r \in created \/ q.dropped_requires[r] # {}}
    IN  [waiting      |-> waiting \ ready,
         blocked_on   |-> blocked,
         agent_queues |-> (w.agent_queues \ extended) \cup ready,
         rescheduled  |-> w.rescheduled \cup (extended \ w.agent_queues)]

-----------------------------------------------------------------------------
(* The other methods *)

\* Mutant: only queued tasks are deleted.
delete_queued_only(w, S) == [w EXCEPT !.agent_queues = @ \ S]

\* delete_resource, for every resource of a set.
delete_resources(w, S) ==
    [waiting      |-> w.waiting \ S,
     blocked_on   |-> [r \in Resources |-> IF r \in S THEN {} ELSE w.blocked_on[r]],
     agent_queues |-> w.agent_queues \ S,
     rescheduled  |-> w.rescheduled \ S]

\* Mutant: a finished deploy releases nobody.
releases_nobody(w, requires, r) == w

\* finished_deploy: nothing if a new task for r was scheduled meanwhile, else r
\* no longer blocks its dependants.
finished_deploy(w, requires, r) ==
    IF r \in scheduled(w) THEN w
    ELSE LET dependants == provides(requires, r) \cap w.waiting
             blocked == [x \in Resources |->
                           IF x \in dependants THEN w.blocked_on[x] \ {r} ELSE w.blocked_on[x]]
             ready   == {x \in dependants : blocked[x] = {}}
         IN  [w EXCEPT !.waiting = @ \ ready, !.blocked_on = blocked,
                       !.agent_queues = @ \cup ready]

\* queue_get: a runner takes the task of r from its agent queue.
queue_get(w, r) ==
    [w EXCEPT !.agent_queues = @ \ {r}, !.rescheduled = @ \ {r}]

-----------------------------------------------------------------------------
(* What the class promises of its state in between calls *)

(***************************************************************************)
(* Each deploy task exists at most once: it is never both waiting and in a *)
(* queue (work.py, first invariant of the class docstring).                *)
(***************************************************************************)
AtMostOnce(w) == w.waiting \cap w.agent_queues = {}

(***************************************************************************)
(* A waiting task waits for something: nothing is left waiting on an empty *)
(* blocked_on set, where no finished deploy would ever pick it up          *)
(* (maybe_runnable and _queue_if_ready).                                   *)
(***************************************************************************)
WaitingIsBlocked(w) == \A r \in w.waiting : w.blocked_on[r] # {}

(***************************************************************************)
(* The requires relation is enforced within the scheduled work (work.py,   *)
(* second invariant of the class docstring): a queued task has no          *)
(* scheduled dependency, a waiting task waits for all of them.  `except'   *)
(* names tasks for which nothing is claimed, neither that they wait for    *)
(* others nor that others wait for them.                                   *)
(***************************************************************************)
RequiresOrder(w, requires, except) ==
    \A r \in scheduled(w) \ except :
        requires[r] \cap (scheduled(w) \ except) \subseteq (IF r \in w.waiting THEN w.blocked_on[r] ELSE {})
=============================================================================
