---------------------- MODULE ResourceSchedulerProofs ----------------------
(***************************************************************************)
(* Theorems about the resource scheduler, for any set of resources and     *)
(* agents, any versions, and with database failures and re-created         *)
(* resources allowed unless a theorem says otherwise: its state is well    *)
(* typed, a resource it reports as compliant was deployed with its present *)
(* intent (and the scheduler implements DesiredState), the order of the    *)
(* scheduled work is enforced, no blocked resource is scheduled, what is   *)
(* blocked or skipped depends on something bad, _deploying_latest is what  *)
(* it says, and no event is forgotten.  What a theorem assumes about the   *)
(* versions that are released is named here.                               *)
(***************************************************************************)
EXTENDS ResourceScheduler, NewVersionsProofs
-----------------------------------------------------------------------------
(***************************************************************************)
(* The operations of ScheduledWork keep its state well formed and keep     *)
(* what its class docstring promises, for every set of resources and every *)
(* requires relation.  WorkInvariant is inductive over all of them; the    *)
(* step that carries the argument is DeployWithContextOrder.               *)
(***************************************************************************)

\* deploy_with_context leaves a well-formed work state: it only schedules resources of
\* the model.
LEMMA DeployWithContextType ==
    ASSUME NEW w \in Works, NEW requires \in Edges, NEW q \in Requests
    PROVE  deploy_with_context(w, requires, q) \in Works
  <1> DEFINE created  == created_tasks(w, q)
             extended == extended_tasks(w, requires, q)
             blocked  == blocked_on_after(w, requires, q)
  <1>1. created \subseteq Resources /\ extended \subseteq Resources
    BY DEF created_tasks, extended_tasks, queued_cache, Works, Requests
  <1>2. \A r \in Resources : new_blockers(w, requires, q, r) \subseteq Resources
    BY <1>1 DEF new_blockers, Edges, Requests
  <1>3. blocked \in Edges
    BY <1>1, <1>2 DEF blocked_on_after, Edges, Works
  <1> QED
    BY <1>1, <1>3 DEF deploy_with_context, Works

\* So does delete_resource.
LEMMA DeleteResourcesType ==
    ASSUME NEW w \in Works, NEW S
    PROVE  delete_resources(w, S) \in Works
  BY DEF delete_resources, Works, Edges

\* So does finished_deploy.
LEMMA FinishedDeployType ==
    ASSUME NEW w \in Works, NEW requires \in Edges, NEW r
    PROVE  finished_deploy(w, requires, r) \in Works
  BY DEF finished_deploy, Works, Edges, provides

\* So does queue_get.
LEMMA QueueGetType ==
    ASSUME NEW w \in Works, NEW r
    PROVE  queue_get(w, r) \in Works
  BY DEF queue_get, Works

\* The requests of deploy, repair, deploy_resource and _send_events are well formed.
LEMMA DeployRequestType ==
    ASSUME NEW S \in SUBSET Resources, NEW deploying \in SUBSET Resources
    PROVE  /\ DeployRequest(S, deploying) \in Requests
           /\ [DeployRequest(S, deploying) EXCEPT !.force_deploy = TRUE] \in Requests
  BY DEF DeployRequest, Requests, NoEdges, Edges
-----------------------------------------------------------------------------
(* The operations keep the order of the scheduled work *)

\* What the class promises: it is inductive.
WorkInvariant(w, requires) ==
    /\ AtMostOnce(w) /\ WaitingIsBlocked(w)
    /\ RequiresOrder(w, requires, w.rescheduled)

\* The request tells how the requires changed from `old' to `requires'.
DescribesChange(q, old, requires) ==
    \A r \in Resources : /\ requires[r] \subseteq old[r] \cup q.added_requires[r]
                         /\ requires[r] \cap q.dropped_requires[r] = {}

\* deploy_with_context keeps the order of the scheduled work while the requires relation
\* changes, as long as added_requires and dropped_requires describe the change: each
\* dependency of a task that is scheduled afterwards either was scheduled before, and
\* then blocks it already unless its edge is new, or gets its task in this call, and then
\* extend_blocked_on makes the dependant wait.
LEMMA DeployWithContextOrder ==
    ASSUME NEW w \in Works, NEW old \in Edges, NEW requires \in Edges, NEW q \in Requests,
           WorkInvariant(w, old), DescribesChange(q, old, requires)
    PROVE  WorkInvariant(deploy_with_context(w, requires, q), requires)
  <1> DEFINE created  == created_tasks(w, q)
             extended == extended_tasks(w, requires, q)
             blocked  == blocked_on_after(w, requires, q)
             new(r)   == new_blockers(w, requires, q, r)
             waiting  == w.waiting \cup created \cup extended
             ready    == {r \in waiting : /\ blocked[r] = {}
                                          /\ r \in created \/ q.dropped_requires[r] # {}}
             n == deploy_with_context(w, requires, q)
  <1>1. /\ n.waiting = waiting \ ready
        /\ n.blocked_on = blocked
        /\ n.agent_queues = (w.agent_queues \ extended) \cup ready
        /\ n.rescheduled = w.rescheduled \cup (extended \ w.agent_queues)
    <2>1. n = [waiting      |-> waiting \ ready,
               blocked_on   |-> blocked,
               agent_queues |-> (w.agent_queues \ extended) \cup ready,
               rescheduled  |-> w.rescheduled \cup (extended \ w.agent_queues)]
      BY DEF deploy_with_context
    <2> HIDE DEF n, waiting, ready, blocked, extended
    <2> QED BY <2>1
  <1>2. /\ created \subseteq Resources /\ extended \subseteq Resources
        /\ w.waiting \subseteq Resources /\ w.agent_queues \subseteq Resources
        /\ w.waiting \cap w.agent_queues = {}
        /\ created \cap scheduled(w) = {} /\ created \cap extended = {}
    BY DEF WorkInvariant, AtMostOnce, created_tasks, extended_tasks, scheduled_before, scheduled,
           queued_cache, Works, Requests
  <1>3. \A r \in extended : new(r) # {}
    BY DEF extended_tasks
  <1>4. \A r \in w.agent_queues \ extended : new(r) = {}
    BY DEF extended_tasks
  <1>5. \A r \in Resources :
          blocked[r] = IF r \in created THEN requires[r] \cap is_scheduled(w, q)
                       ELSE IF r \in extended THEN new(r)
                       ELSE IF r \in w.waiting THEN (w.blocked_on[r] \ q.dropped_requires[r]) \cup new(r)
                       ELSE {}
    BY DEF blocked_on_after
  <1>6. scheduled(w) \cup created \cup extended \subseteq is_scheduled(w, q)
    BY DEF is_scheduled, scheduled_before, scheduled, created_tasks, extended_tasks
  <1>7. \A r \in Resources :
          new(r) = (requires[r] \cap created) \cup (q.added_requires[r] \cap is_scheduled(w, q))
    BY DEF new_blockers
  <1>8. scheduled(n) = scheduled(w) \cup created \cup extended
    BY <1>1 DEF scheduled
  <1> HIDE DEF created, extended, blocked, new, n
  <1>9. AtMostOnce(n)
    BY <1>1, <1>2 DEF AtMostOnce, scheduled
  <1>10. WaitingIsBlocked(n)
    <2> SUFFICES ASSUME NEW r \in waiting \ ready PROVE blocked[r] # {}
      BY <1>1 DEF WaitingIsBlocked
    <2>1. CASE r \in created
      BY <2>1
    <2>2. CASE r \in extended
      BY <1>2, <1>3, <1>5, <2>2
    <2>3. CASE r \in w.waiting \ (created \cup extended)
      <3>1. q.dropped_requires[r] # {} \/ blocked[r] = w.blocked_on[r] \cup new(r)
        BY <1>2, <1>5, <2>3
      <3>2. w.blocked_on[r] # {}
        BY <2>3 DEF WorkInvariant, WaitingIsBlocked
      <3> QED BY <3>1, <3>2
    <2> QED BY <2>1, <2>2, <2>3
  <1>11. RequiresOrder(n, requires, n.rescheduled)
    <2> SUFFICES ASSUME NEW r \in scheduled(n) \ n.rescheduled,
                        NEW d \in requires[r] \cap (scheduled(n) \ n.rescheduled)
                 PROVE  r \in n.waiting /\ d \in n.blocked_on[r]
      BY DEF RequiresOrder
    <2>1. r \in Resources /\ d \in Resources
      BY <1>2, <1>8 DEF Edges, scheduled
    <2>2. r \in waiting /\ d \in blocked[r] => r \in n.waiting /\ d \in n.blocked_on[r]
      <3>1. d \in blocked[r] => r \notin ready
        OBVIOUS
      <3> HIDE DEF ready
      <3> QED BY <1>1, <3>1
    <2>3. d \in is_scheduled(w, q)
      BY <1>6, <1>8
    <2>4. d \in created \/ d \in q.added_requires[r] => d \in new(r)
      BY <1>7, <2>1, <2>3
    <2>5. ASSUME d \notin new(r), r \in scheduled(w)
          PROVE  r \in w.waiting /\ d \in w.blocked_on[r] /\ d \notin q.dropped_requires[r]
      <3>1. d \in scheduled(w) \ w.rescheduled /\ r \notin w.rescheduled
        BY <1>1, <1>8, <2>4, <2>5 DEF scheduled
      <3>2. d \in old[r] /\ d \notin q.dropped_requires[r]
        BY <2>1, <2>4, <2>5 DEF DescribesChange
      <3> QED BY <2>5, <3>1, <3>2 DEF WorkInvariant, RequiresOrder
    <2>6. CASE r \in created
      BY <1>5, <2>1, <2>2, <2>3, <2>6
    <2>7. CASE r \in extended
      <3>1. r \in w.agent_queues
        BY <1>1, <2>7
      <3>2. d \in new(r)
        BY <1>2, <2>5, <3>1 DEF scheduled
      <3> QED BY <1>2, <1>5, <2>1, <2>2, <2>7, <3>2
    <2>8. CASE r \notin created \cup extended
      <3>1. r \in scheduled(w)
        BY <1>8, <2>8
      <3>2. r \in w.waiting
        BY <1>4, <2>5, <2>8, <3>1 DEF scheduled
      <3>3. d \in blocked[r]
        BY <1>5, <2>1, <2>5, <2>8, <3>1, <3>2
      <3> QED BY <2>2, <3>2, <3>3
    <2> QED BY <2>6, <2>7, <2>8
  <1> QED BY <1>9, <1>10, <1>11 DEF WorkInvariant, n

\* delete_resource keeps it, also when edges are dropped with the resources: fewer tasks
\* and fewer edges have fewer obligations.
LEMMA DeleteResourcesOrder ==
    ASSUME NEW w \in Works, NEW old \in Edges, NEW requires \in Edges, NEW S,
           WorkInvariant(w, old), \A r \in Resources : requires[r] \subseteq old[r]
    PROVE  WorkInvariant(delete_resources(w, S), requires)
  <1> DEFINE n == delete_resources(w, S)
  <1>1. /\ n.waiting = w.waiting \ S /\ n.agent_queues = w.agent_queues \ S
        /\ n.rescheduled = w.rescheduled \ S
        /\ \A r \in Resources \ S : n.blocked_on[r] = w.blocked_on[r]
        /\ w.waiting \subseteq Resources /\ w.agent_queues \subseteq Resources
    BY DEF delete_resources, Works
  <1> HIDE DEF n
  <1>2. AtMostOnce(n) /\ WaitingIsBlocked(n)
    BY <1>1 DEF WorkInvariant, AtMostOnce, WaitingIsBlocked
  <1>3. RequiresOrder(n, requires, n.rescheduled)
    BY <1>1 DEF WorkInvariant, RequiresOrder, scheduled
  <1> QED BY <1>2, <1>3 DEF WorkInvariant, n

\* finished_deploy keeps it: it stops waiting for a resource only if that resource is not
\* scheduled again.
LEMMA FinishedDeployOrder ==
    ASSUME NEW w \in Works, NEW requires \in Edges, NEW r, WorkInvariant(w, requires)
    PROVE  WorkInvariant(finished_deploy(w, requires, r), requires)
  <1> DEFINE n == finished_deploy(w, requires, r)
             waits_for_r == provides(requires, r) \cap w.waiting
             blocked == [x \in Resources |->
                           IF x \in waits_for_r THEN w.blocked_on[x] \ {r} ELSE w.blocked_on[x]]
             ready   == {x \in waits_for_r : blocked[x] = {}}
  <1>1. CASE r \in scheduled(w)
    BY <1>1 DEF finished_deploy
  <1>2. CASE r \notin scheduled(w)
    <2>1. /\ n.waiting = w.waiting \ ready /\ n.agent_queues = w.agent_queues \cup ready
          /\ n.rescheduled = w.rescheduled /\ n.blocked_on = blocked
          /\ w.waiting \subseteq Resources /\ w.agent_queues \subseteq Resources
      BY <1>2 DEF finished_deploy, Works
    <2>2. ready \subseteq w.waiting /\ \A x \in ready : blocked[x] = {}
      OBVIOUS
    <2>3. \A x \in w.waiting : blocked[x] = {} => x \in ready
      BY <2>1 DEF WorkInvariant, WaitingIsBlocked
    <2>4. \A x \in Resources : w.blocked_on[x] \ {r} \subseteq blocked[x]
      OBVIOUS
    <2>5. scheduled(n) = scheduled(w)
      BY <2>1, <2>2 DEF scheduled
    <2> HIDE DEF n, ready, blocked
    <2>6. AtMostOnce(n) /\ WaitingIsBlocked(n)
      BY <2>1, <2>2, <2>3 DEF WorkInvariant, AtMostOnce, WaitingIsBlocked
    <2>7. RequiresOrder(n, requires, n.rescheduled)
      <3> SUFFICES ASSUME NEW x \in scheduled(n) \ n.rescheduled,
                          NEW d \in requires[x] \cap (scheduled(n) \ n.rescheduled)
                   PROVE  x \in n.waiting /\ d \in n.blocked_on[x]
        BY DEF RequiresOrder
      <3>1. x \in w.waiting /\ d \in w.blocked_on[x]
        BY <2>1, <2>5 DEF WorkInvariant, RequiresOrder
      <3>2. d # r
        BY <1>2, <2>5
      <3>3. d \in blocked[x]
        BY <2>1, <2>4, <3>1, <3>2
      <3> QED BY <2>1, <2>2, <3>1, <3>3
    <2> QED BY <2>6, <2>7 DEF WorkInvariant, n
  <1> QED BY <1>1, <1>2

\* queue_get keeps it: taking the task of a resource out of a queue creates no task.
LEMMA QueueGetOrder ==
    ASSUME NEW w \in Works, NEW requires \in Edges, NEW r \in w.agent_queues,
           WorkInvariant(w, requires)
    PROVE  WorkInvariant(queue_get(w, r), requires)
  <1> DEFINE n == queue_get(w, r)
  <1>1. /\ n.waiting = w.waiting /\ n.agent_queues = w.agent_queues \ {r}
        /\ n.rescheduled = w.rescheduled \ {r} /\ n.blocked_on = w.blocked_on
    BY DEF queue_get, Works
  <1>2. r \notin w.waiting
    BY DEF WorkInvariant, AtMostOnce
  <1> HIDE DEF n
  <1>3. AtMostOnce(n) /\ WaitingIsBlocked(n)
    BY <1>1 DEF WorkInvariant, AtMostOnce, WaitingIsBlocked
  <1>4. RequiresOrder(n, requires, n.rescheduled)
    BY <1>1, <1>2 DEF WorkInvariant, RequiresOrder, scheduled
  <1> QED BY <1>3, <1>4 DEF WorkInvariant, n
-----------------------------------------------------------------------------
(* What the operations do to the set of scheduled tasks *)

\* deploy_with_context removes no task, creates one only for a requested resource or for
\* one that is being deployed, and leaves no requested resource without a task or an
\* in-progress deploy that counts as one.
LEMMA DeployWithContextScheduled ==
    ASSUME NEW w \in Works, NEW requires, NEW q \in Requests
    PROVE  /\ scheduled(w) \subseteq scheduled(deploy_with_context(w, requires, q))
           /\ scheduled(deploy_with_context(w, requires, q)) \subseteq scheduled(w) \cup q.resources \cup q.deploying
           /\ q.resources \subseteq scheduled(deploy_with_context(w, requires, q)) \cup queued_cache(q)
  <1> DEFINE created  == created_tasks(w, q)
             extended == extended_tasks(w, requires, q)
             blocked  == blocked_on_after(w, requires, q)
             waiting  == w.waiting \cup created \cup extended
             ready    == {r \in waiting : /\ blocked[r] = {}
                                          /\ r \in created \/ q.dropped_requires[r] # {}}
             n == deploy_with_context(w, requires, q)
  <1>1. n.waiting = waiting \ ready /\ n.agent_queues = (w.agent_queues \ extended) \cup ready
    <2>1. n = [waiting      |-> waiting \ ready,
               blocked_on   |-> blocked,
               agent_queues |-> (w.agent_queues \ extended) \cup ready,
               rescheduled  |-> w.rescheduled \cup (extended \ w.agent_queues)]
      BY DEF deploy_with_context
    <2> HIDE DEF n, waiting, ready, blocked, extended
    <2> QED BY <2>1
  <1>2. scheduled(n) = scheduled(w) \cup created \cup extended
    BY <1>1 DEF scheduled
  <1>3. created = q.resources \ (scheduled(w) \cup queued_cache(q))
    BY DEF created_tasks, scheduled_before
  <1>4. extended \subseteq q.deploying \cup scheduled(w)
    BY DEF extended_tasks, queued_cache, scheduled
  <1> HIDE DEF created, extended, n
  <1> QED BY <1>2, <1>3, <1>4 DEF n

\* The other operations: delete_resource deletes all tasks of its resources, finished_deploy
\* none, and queue_get at most the one it takes.
LEMMA OtherScheduled ==
    ASSUME NEW w \in Works, NEW requires, NEW S, NEW r
    PROVE  /\ scheduled(delete_resources(w, S)) = scheduled(w) \ S
           /\ scheduled(finished_deploy(w, requires, r)) = scheduled(w)
           /\ scheduled(queue_get(w, r)) \subseteq scheduled(w)
           /\ scheduled(w) \subseteq scheduled(queue_get(w, r)) \cup {r}
           /\ queue_get(w, r).waiting = w.waiting /\ queue_get(w, r).blocked_on = w.blocked_on
  <1>1. scheduled(delete_resources(w, S)) = scheduled(w) \ S
    BY DEF delete_resources, scheduled
  <1>2. scheduled(finished_deploy(w, requires, r)) = scheduled(w)
    <2> DEFINE waits_for_r == provides(requires, r) \cap w.waiting
               blocked == [x \in Resources |->
                             IF x \in waits_for_r THEN w.blocked_on[x] \ {r} ELSE w.blocked_on[x]]
               ready   == {x \in waits_for_r : blocked[x] = {}}
               n == [w EXCEPT !.waiting = @ \ ready, !.blocked_on = blocked,
                              !.agent_queues = @ \cup ready]
    <2>1. finished_deploy(w, requires, r) = IF r \in scheduled(w) THEN w ELSE n
      BY DEF finished_deploy
    <2>2. ready \subseteq w.waiting
      OBVIOUS
    <2> HIDE DEF ready, blocked
    <2>3. n.waiting = w.waiting \ ready /\ n.agent_queues = w.agent_queues \cup ready
      BY DEF Works
    <2> QED BY <2>1, <2>2, <2>3 DEF scheduled
  <1>3. /\ queue_get(w, r).waiting = w.waiting /\ queue_get(w, r).agent_queues = w.agent_queues \ {r}
        /\ queue_get(w, r).blocked_on = w.blocked_on
    BY DEF queue_get, Works
  <1> QED BY <1>1, <1>2, <1>3 DEF scheduled

\* A task that waits after deploy_with_context waits for what it waited for before, except the
\* requires that were dropped, and for requires of it that are scheduled now or being deployed.
LEMMA DeployWithContextBlockers ==
    ASSUME NEW w \in Works, NEW requires \in Edges, NEW q \in Requests,
           NEW r \in deploy_with_context(w, requires, q).waiting,
           NEW d \in deploy_with_context(w, requires, q).blocked_on[r]
    PROVE  \/ r \in w.waiting /\ d \in w.blocked_on[r] \ q.dropped_requires[r]
           \/ /\ d \in requires[r] \cup q.added_requires[r]
              /\ d \in scheduled(w) \cup q.resources \cup q.deploying
  <1> DEFINE created  == created_tasks(w, q)
             extended == extended_tasks(w, requires, q)
             blocked  == blocked_on_after(w, requires, q)
             waiting  == w.waiting \cup created \cup extended
             ready    == {x \in waiting : /\ blocked[x] = {}
                                          /\ x \in created \/ q.dropped_requires[x] # {}}
             n == deploy_with_context(w, requires, q)
             new == new_blockers(w, requires, q, r)
  <1>1. n.waiting = waiting \ ready /\ n.blocked_on = blocked
    <2>1. n = [waiting      |-> waiting \ ready,
               blocked_on   |-> blocked,
               agent_queues |-> (w.agent_queues \ extended) \cup ready,
               rescheduled  |-> w.rescheduled \cup (extended \ w.agent_queues)]
      BY DEF deploy_with_context
    <2> HIDE DEF n, waiting, ready, blocked, extended
    <2> QED BY <2>1
  <1>2. created \subseteq q.resources /\ is_scheduled(w, q) \subseteq scheduled(w) \cup q.resources \cup q.deploying
    BY DEF created_tasks, is_scheduled, scheduled_before, queued_cache
  <1>3. new \subseteq (requires[r] \cap created) \cup (q.added_requires[r] \cap is_scheduled(w, q))
    BY DEF new_blockers
  <1>4. created \subseteq Resources /\ extended \subseteq Resources
    BY DEF created_tasks, extended_tasks, queued_cache, Works, Requests
  <1>5. r \in waiting /\ r \in Resources /\ d \in blocked[r]
    <2>1. w.waiting \subseteq Resources
      BY DEF Works
    <2> HIDE DEF created, extended, blocked, n
    <2> QED BY <1>1, <1>4, <2>1 DEF n
  <1>6. blocked[r] = IF r \in created THEN requires[r] \cap is_scheduled(w, q)
                     ELSE IF r \in extended THEN new
                     ELSE IF r \in w.waiting
                       THEN (w.blocked_on[r] \ q.dropped_requires[r]) \cup new
                     ELSE {}
    BY <1>5 DEF blocked_on_after
  <1> HIDE DEF created, extended, blocked, new, n
  <1>7. CASE r \in created
    BY <1>2, <1>5, <1>6, <1>7
  <1>8. CASE r \notin created /\ d \in new
    BY <1>2, <1>3, <1>8
  <1>9. CASE r \notin created /\ d \notin new
    BY <1>5, <1>6, <1>9
  <1> QED BY <1>7, <1>8, <1>9

\* finished_deploy adds no waiting task and no blocker, and afterwards no dependant waits for
\* the deploy, unless a new task for the resource is scheduled.
LEMMA FinishedDeployBlockers ==
    ASSUME NEW w \in Works, NEW requires \in Edges, NEW r \in Resources,
           NEW x \in finished_deploy(w, requires, r).waiting,
           NEW d \in finished_deploy(w, requires, r).blocked_on[x]
    PROVE  /\ x \in w.waiting /\ d \in w.blocked_on[x]
           /\ d = r => r \in scheduled(w) \/ r \notin requires[x]
  <1> DEFINE waits_for_r == provides(requires, r) \cap w.waiting
             blocked == [y \in Resources |->
                           IF y \in waits_for_r THEN w.blocked_on[y] \ {r} ELSE w.blocked_on[y]]
             ready   == {y \in waits_for_r : blocked[y] = {}}
             m == [w EXCEPT !.waiting = @ \ ready, !.blocked_on = blocked,
                            !.agent_queues = @ \cup ready]
             n == finished_deploy(w, requires, r)
  <1>1. CASE r \in scheduled(w)
    BY <1>1 DEF finished_deploy
  <1>2. CASE r \notin scheduled(w)
    <2>1. n = m
      BY <1>2 DEF finished_deploy
    <2> HIDE DEF ready, blocked, n
    <2>2. n.waiting = w.waiting \ ready /\ n.blocked_on = blocked
      BY <2>1 DEF Works
    <2>3. x \in w.waiting /\ x \in Resources /\ d \in blocked[x]
      BY <2>2 DEF n, Works
    <2>4. blocked[x] = IF x \in waits_for_r THEN w.blocked_on[x] \ {r} ELSE w.blocked_on[x]
      BY <2>3 DEF blocked
    <2>5. x \in waits_for_r <=> r \in requires[x]
      BY <2>3 DEF provides
    <2> HIDE DEF waits_for_r
    <2> QED BY <2>3, <2>4, <2>5
  <1> QED BY <1>1, <1>2

-----------------------------------------------------------------------------
(* The handlers of the scheduler *)

\* update_timers only sets timers of the resources it is given.
LEMMA UpdateTimersType ==
    ASSUME NEW t \in SUBSET Resources, NEW m, NEW S \in SUBSET Resources
    PROVE  update_timers(t, m, S) \in SUBSET Resources
  BY DEF update_timers

\* from_handler_resource_state converts each handler state to a HandlerResult.
LEMMA HandlerResultType ==
    ASSUME NEW result \in HandlerResourceStates
    PROVE  from_handler_resource_state(result) \in HandlerResults
  BY DEF from_handler_resource_state, HandlerResourceStates, HandlerResults

\* _send_events keeps the state well typed and changes no intent and no compliance.
LEMMA SendEventsType ==
    ASSUME NEW m \in Models, NEW deploying \in SUBSET Resources, NEW r, NEW stale, NEW rec,
           work \in Works, timers \in SUBSET Resources,
           send_events(m, deploying, r, stale, rec)
    PROVE  /\ model' \in Models /\ SameCompliance(m, model')
           /\ work' \in Works /\ timers' \in SUBSET Resources
  <1> DEFINE events    == IF stale THEN {} ELSE event_listeners(m, r)
             recovery  == IF rec THEN recovery_listeners(m, r) ELSE {}
             listeners == events \cup recovery
             state == [d \in Resources |->
                         IF d \in recovery THEN [m.resource_state[d] EXCEPT !.blocked = "NOT_BLOCKED"]
                         ELSE m.resource_state[d]]
             q == [DeployRequest(listeners, deploying) EXCEPT !.force_deploy = TRUE]
  <1>1. events \in SUBSET Resources /\ recovery \in SUBSET Resources
    BY DEF event_listeners, recovery_listeners, dependants, managed
  <1>2. /\ model' = [m EXCEPT !.dirty = @ \cup recovery, !.resource_state = state]
        /\ timers' = timers \ listeners
        /\ work' = IF listeners = {} THEN work ELSE deploy_with_context(work, m.requires, q)
    BY DEF send_events
  <1> HIDE DEF events, recovery
  <1>3. \A d \in Resources : /\ state[d] \in ResourceStates
                             /\ state[d].compliance = m.resource_state[d].compliance
    BY BlockedChangeType DEF Models, BlockedStates
  <1>4. state \in [Resources -> ResourceStates]
    BY <1>3
  <1> HIDE DEF state
  <1>5. model' \in Models /\ SameCompliance(m, model')
    BY <1>1, <1>2, <1>3, <1>4 DEF Models, SameCompliance
  <1>6. listeners \in SUBSET Resources
    BY <1>1
  <1> HIDE DEF listeners
  <1>7. q \in Requests
    BY <1>6, DeployRequestType
  <1>8. m.requires \in Edges
    BY DEF Models
  <1> HIDE DEF q
  <1>9. deploy_with_context(work, m.requires, q) \in Works
    BY <1>7, <1>8, DeployWithContextType
  <1> QED BY <1>2, <1>5, <1>9

\* Applying the report of a deploy leaves a well-formed model, in which the compliance of
\* the deployed resource is that of the report and no other resource changed.
LEMMA DeployedModelType ==
    ASSUME NEW m \in Models, NEW r \in Resources, NEW result \in HandlerResourceStates
    PROVE  /\ deployed_model(m, r, result) \in Models
           /\ deployed_model(m, r, result).intent = m.intent
           /\ deployed_model(m, r, result).resource_state[r].compliance
                = IF result = "deployed" THEN "COMPLIANT" ELSE "NON_COMPLIANT"
           /\ \A x \in Resources \ {r} :
                deployed_model(m, r, result).resource_state[x] = m.resource_state[x]
  <1> DEFINE state   == m.resource_state[r]
             handler == from_handler_resource_state(result)
             skips   == /\ state.blocked # "BLOCKED"
                        /\ result = "skipped_for_dependency"
                        /\ should_skip_for_dependencies(m, r)
             blocked == IF skips THEN "TEMPORARILY_BLOCKED"
                        ELSE IF handler = "SUCCESSFUL" /\ state.blocked = "TEMPORARILY_BLOCKED"
                             THEN "NOT_BLOCKED" ELSE state.blocked
             compliance == IF result = "deployed" THEN "COMPLIANT" ELSE "NON_COMPLIANT"
             new == [compliance |-> compliance,
                     last_handler_run |-> handler, blocked |-> blocked, last_deployed |-> TRUE,
                     last_handler_run_compliant |-> result = "deployed"]
             dirty == IF skips \/ handler = "SUCCESSFUL" THEN m.dirty \ {r} ELSE m.dirty \cup {r}
  <1>1. deployed_model(m, r, result) = [m EXCEPT !.resource_state[r] = new, !.dirty = dirty]
    BY DEF deployed_model
  <1>2. state \in ResourceStates /\ handler \in HandlerResults
    BY HandlerResultType DEF Models
  <1> HIDE DEF state, handler, skips
  <1>3. blocked \in BlockedStates /\ compliance \in ComplianceStates
    BY <1>2 DEF ResourceStates, BlockedStates, ComplianceStates
  <1>4. dirty \in SUBSET Resources
    BY DEF Models
  <1> HIDE DEF blocked, dirty, compliance
  <1>5. new \in ResourceStates /\ new.compliance = compliance
    BY <1>2, <1>3 DEF ResourceStates
  <1> HIDE DEF new
  <1> DEFINE states == [m.resource_state EXCEPT ![r] = new]
  <1>6. /\ states \in [Resources -> ResourceStates]
        /\ states[r] = new
        /\ \A x \in Resources \ {r} : states[x] = m.resource_state[x]
    BY <1>5 DEF Models
  <1>7. deployed_model(m, r, result) = [m EXCEPT !.resource_state = states, !.dirty = dirty]
    BY <1>1
  <1> HIDE DEF states
  <1>8. /\ deployed_model(m, r, result) \in Models
        /\ deployed_model(m, r, result).intent = m.intent
        /\ deployed_model(m, r, result).resource_state = states
    BY <1>4, <1>6, <1>7 DEF Models
  <1> QED BY <1>5, <1>6, <1>8 DEF compliance

\* A runner whose resource left the model still is a runner.
LEMMA OrphanedType ==
    ASSUME NEW x \in Runners
    PROVE  [x EXCEPT !.orphaned = TRUE] \in Runners
  BY DEF Runners

\* A new version keeps the state well typed, and what is compliant after it was compliant
\* before, is neither new nor deleted and kept its intent.
LEMMA NewVersionType ==
    ASSUME TypeOK, NEW v \in Releases,
           NEW recreated \in SUBSET Resources, NEW reverted,
           ProcessVersions(v, recreated, reverted), version' \in 0..MaxVersions
    PROVE  /\ TypeOK'
           /\ LET c == intent_changes(model, v, recreated, reverted)
              IN  \A r \in reported' : /\ r \in reported /\ r \notin c.new \cup c.deleted
                                       /\ model'.intent[r] = model.intent[r]
  <1> DEFINE c == intent_changes(model, v, recreated, reverted)
  <1> USE ConstantsAssumption
  <1>1. /\ model \in Models /\ work \in Works /\ v \in ModelVersions
        /\ recreated \in SUBSET Resources
    BY DEF TypeOK, managed, batch_resources
  <1>2. c \in IntentChanges
    BY <1>1, IntentChangesType
  <1>3. added_requires(model, v) \in Edges /\ dropped_requires(model, v) \in Edges
    BY <1>1, RequiresChangesType
  <1> DEFINE undefined == became_undefined(model, v, c)
             changed == c.deleted \cup c.new \cup c.updated
             deploying(out) == deploying_latest \ (changed \cup out.blocked)
             stopped(out) == out.model.dirty \cup undefined \cup out.blocked \cup c.deleted
             q(out) == [resources |-> out.model.dirty, deploying |-> deploying(out),
                        added_requires |-> added_requires(model, v),
                        dropped_requires |-> dropped_requires(model, v),
                        force_deploy |-> FALSE]
  <1>4. PICK out \in updated_models(model, v, c, recreated) :
          /\ deploying_unmanaged' = deploying_unmanaged \cup (deploying_latest \cap (c.new \cup c.deleted))
          /\ deploying_latest' = deploying(out)
          /\ timers' = update_timers(timers \ stopped(out), out.model,
                          (out.unblocked \cup dependants(out.model, recreated)) \ out.model.dirty)
          /\ work' = delete_resources(deploy_with_context(work, out.model.requires, q(out)),
                                      c.deleted \cup undefined \cup out.blocked)
          /\ model' = drop(out.model, c.deleted)
    BY Zenon DEF ProcessVersions, process_version, still_latest, remaining_timers
  <1> DEFINE m == out.model
  <1>5. /\ m \in Models /\ out.unblocked \subseteq Resources
        /\ SameCompliance(update_resource(model, v, c.new, c.updated), m)
    BY <1>1, <1>2, UpdatedModelsType
  <1>6. /\ version' \in 0..MaxVersions
        /\ runner' \in [Agents -> Runners]
        /\ UNCHANGED <<triggers, db_deploying, device>>
    <2>1. /\ runner' = [x \in Agents |->
                          IF runner[x].pc = "deploying" /\ runner[x].resource \in c.new \cup c.deleted
                          THEN [runner[x] EXCEPT !.orphaned = TRUE] ELSE runner[x]]
          /\ UNCHANGED <<triggers, db_deploying, device>>
      BY DEF ProcessVersions, process_version
    <2>2. \A x \in Agents : [runner[x] EXCEPT !.orphaned = TRUE] \in Runners
      BY OrphanedType DEF TypeOK
    <2>3. runner' \in [Agents -> Runners]
      BY <2>1, <2>2 DEF TypeOK
    <2> QED BY <2>1, <2>3 DEF TypeOK
  <1> HIDE DEF c, undefined, m
  <1>7. deploying(out) \in SUBSET Resources /\ m.dirty \in SUBSET Resources /\ m.requires \in Edges
    BY <1>5 DEF TypeOK, Models
  <1>8. q(out) \in Requests
    BY <1>3, <1>7 DEF Requests, m
  <1> HIDE DEF q
  <1>9. deploy_with_context(work, m.requires, q(out)) \in Works
    BY <1>1, <1>7, <1>8, DeployWithContextType
  <1>10. work' \in Works
    BY <1>4, <1>9, DeleteResourcesType DEF m
  <1>11. timers' \in SUBSET Resources
    <2>1. (out.unblocked \cup dependants(m, recreated)) \ m.dirty \in SUBSET Resources
      BY <1>5 DEF dependants, managed
    <2>2. timers \ stopped(out) \in SUBSET Resources
      BY DEF TypeOK
    <2> QED BY <1>4, <2>1, <2>2, UpdateTimersType DEF m
  <1>12. model' \in Models
    BY <1>4, <1>5, DropType DEF m
  <1>13. deploying_unmanaged' \in SUBSET Resources
    BY <1>2, <1>4 DEF TypeOK, IntentChanges
  <1>14. TypeOK'
    BY <1>4, <1>6, <1>7, <1>10, <1>11, <1>12, <1>13 DEF TypeOK
  <1>15. ASSUME NEW r \in reported'
         PROVE  r \in reported /\ r \notin c.new \cup c.deleted /\ model'.intent[r] = model.intent[r]
    <2>1. /\ r \in Resources /\ model'.intent[r] # None
          /\ model'.resource_state[r].compliance = "COMPLIANT"
      BY DEF reported, managed
    <2>2. /\ r \notin c.deleted /\ model'.intent[r] = m.intent[r]
          /\ m.resource_state[r].compliance = "COMPLIANT"
      BY <1>4, <1>5, <2>1, DropType DEF m
    <2>3. r \notin c.new \cup c.updated
      <3>1. SUFFICES ASSUME r \in c.new \cup c.updated PROVE FALSE
        OBVIOUS
      <3>2. updated_state(model, v, r, c.new).compliance = "COMPLIANT"
        BY <1>1, <1>2, <1>5, <2>1, <2>2, <3>1, UpdateResourceType DEF SameCompliance, IntentChanges
      <3>3. updated_state(model, v, r, c.new).compliance \in {"UNDEFINED", "HAS_UPDATE"}
        BY <1>1, <2>1 DEF updated_state, NoState, Models, ResourceStates
      <3> QED BY <3>2, <3>3
    <2>4. /\ m.intent[r] = model.intent[r]
          /\ model.resource_state[r].compliance = "COMPLIANT"
      BY <1>1, <1>2, <1>5, <2>1, <2>2, <2>3, UpdateResourceType DEF SameCompliance, IntentChanges
    <2> QED BY <2>1, <2>2, <2>3, <2>4 DEF reported, managed
  <1> QED BY <1>14, <1>15 DEF c

\* A task runner that moves on to its next step still is a runner.
LEMMA RunnerType ==
    ASSUME NEW x \in Agents, runner \in [Agents -> Runners],
           NEW p \in {"idle", "picked", "deploying", "reporting", "raised"},
           NEW h \in Hashes \cup {None}
    PROVE  /\ [runner EXCEPT ![x].pc = p] \in [Agents -> Runners]
           /\ [runner EXCEPT ![x].pc = p, ![x].hash = h] \in [Agents -> Runners]
  BY DEF Runners

\* So is one that is idle or has just taken a task.
LEMMA IdleRunnerType ==
    /\ IdleRunner \in Runners
    /\ \A r \in Resources : [IdleRunner EXCEPT !.pc = "picked", !.resource = r] \in Runners
  BY DEF IdleRunner, Runners

\* The handler leaves the resource with an intent of the model or in an unknown state.
LEMMA ExecuteType ==
    ASSUME TypeOK, NEW x \in Agents, NEW result, execute(x, result)
    PROVE  device' \in [Resources -> Hashes \cup {None}]
  <1> DEFINE h == IF result = "deployed" THEN runner[x].hash ELSE None
  <1>1. h \in Hashes \cup {None} /\ device' = [device EXCEPT ![runner[x].resource] = h]
    BY DEF TypeOK, Runners, execute
  <1> QED BY <1>1 DEF TypeOK

\* Recording the result of a stale deploy changes no compliance.
LEMMA StaleResultType ==
    ASSUME NEW m \in Models, NEW r \in Resources, NEW result \in HandlerResourceStates
    PROVE  LET m1 == [m EXCEPT !.resource_state[r].last_handler_run = from_handler_resource_state(result),
                               !.resource_state[r].last_deployed = TRUE]
           IN  m1 \in Models /\ SameCompliance(m, m1)
  <1> DEFINE handler == from_handler_resource_state(result)
             new == [m.resource_state[r] EXCEPT !.last_handler_run = handler, !.last_deployed = TRUE]
             states == [m.resource_state EXCEPT ![r] = new]
             m1 == [m EXCEPT !.resource_state[r].last_handler_run = handler,
                             !.resource_state[r].last_deployed = TRUE]
  <1>1. handler \in HandlerResults
    BY HandlerResultType
  <1> HIDE DEF handler
  <1>2. new \in ResourceStates /\ new.compliance = m.resource_state[r].compliance
    BY <1>1 DEF Models, ResourceStates
  <1>3. m1 = [m EXCEPT !.resource_state = states]
    BY DEF Models, ResourceStates
  <1> HIDE DEF new
  <1>4. /\ states \in [Resources -> ResourceStates]
        /\ \A x \in Resources : states[x].compliance = m.resource_state[x].compliance
    BY <1>2 DEF Models
  <1> HIDE DEF states, m1
  <1>5. m1 \in Models /\ SameCompliance(m, m1)
    BY <1>3, <1>4 DEF Models, SameCompliance
  <1> QED BY <1>5 DEF m1, handler

\* Assigning the compliance alone, as the report that raises does, leaves a model.
LEMMA ComplianceChangeType ==
    ASSUME NEW m \in Models, NEW r, NEW k \in ComplianceStates
    PROVE  [m EXCEPT !.resource_state[r].compliance = k] \in Models
  <1> DEFINE states == [m.resource_state EXCEPT ![r].compliance = k]
  <1>1. states \in [Resources -> ResourceStates]
    BY DEF Models, ResourceStates
  <1>2. [m EXCEPT !.resource_state[r].compliance = k] = [m EXCEPT !.resource_state = states]
    BY DEF Models
  <1> HIDE DEF states
  <1> QED BY <1>1, <1>2 DEF Models

\* Managed resources are resources.
LEMMA ManagedType == managed(model) \subseteq Resources
  BY DEF managed

\* The steps of a scheduler, whatever the filters of its requests are, and at whatever
\* rate versions are released.
NewVersionStep ==
    /\ version' \in 0..MaxVersions
    /\ \E v \in Releases : \E recreated, reverted \in SUBSET Resources :
         ProcessVersions(v, recreated, reverted)

OtherStep ==
    \/ \E S \in SUBSET Resources : Deploy(S) \/ Repair(S)
    \/ \E r \in Resources : TimerFires(r) \/ DeployResource(r)
    \/ \E a \in Agents : RunnerStep(a)

SchedulerStep == NewVersionStep \/ OtherStep

\* Only resources can be re-created.
LEMMA BatchType == \A v : batch_resources(v) \subseteq Resources
  BY DEF batch_resources, managed

\* The steps of Next are such steps.
LEMMA NextIsStep == TypeOK /\ [Next]_vars => [SchedulerStep]_vars
  <1>1. ASSUME TypeOK, NEW v \in Releases, NEW recreated \in SUBSET batch_resources(v),
               NEW reverted \in SUBSET (batch_resources(v) \ recreated), NewVersion(v, recreated, reverted)
        PROVE  NewVersionStep
    <2>1. version' \in 0..MaxVersions /\ ProcessVersions(v, recreated, reverted)
      BY <1>1, ConstantsAssumption DEF NewVersion, TypeOK
    <2>2. recreated \in SUBSET Resources /\ reverted \in SUBSET Resources
      BY BatchType
    <2> QED BY <2>1, <2>2 DEF NewVersionStep
  <1>2. Scopes \subseteq SUBSET Resources
    BY ConstantsAssumption
  <1> QED BY <1>1, <1>2 DEF Next, SchedulerStep, OtherStep

\* Every step of the scheduler keeps its state well typed.
LEMMA TypeStep == TypeOK /\ [SchedulerStep]_vars => TypeOK'
  <1> SUFFICES ASSUME TypeOK, [SchedulerStep]_vars PROVE TypeOK'
    OBVIOUS
  <1> USE ConstantsAssumption
  <1>0. model.requires \in Edges /\ model.dirty \in SUBSET Resources
    BY DEF TypeOK, Models
  <1>r. \A S \in SUBSET Resources :
          deploy_with_context(work, model.requires, DeployRequest(S, deploying_latest)) \in Works
    BY <1>0, DeployRequestType, DeployWithContextType DEF TypeOK
  <1>1. ASSUME NEW S \in SUBSET Resources, Deploy(S) PROVE TypeOK'
    <2>1. model.dirty \cap S \in SUBSET Resources
      BY <1>0
    <2> QED BY <1>1, <1>r, <2>1 DEF Deploy, TypeOK
  <1>2. ASSUME NEW S \in SUBSET Resources, Repair(S) PROVE TypeOK'
    <2> DEFINE to_deploy == (managed(model) \ is_blocked(model)) \cap S
    <2>1. to_deploy \in SUBSET Resources
      BY ManagedType
    <2>2. /\ model' = [model EXCEPT !.dirty = @ \cup to_deploy]
          /\ work' = deploy_with_context(work, model.requires, DeployRequest(to_deploy, deploying_latest))
          /\ timers' = timers \ to_deploy
          /\ UNCHANGED <<runner, deploying_latest, deploying_unmanaged, triggers, db_deploying, device, version>>
      BY <1>2 DEF Repair
    <2> HIDE DEF to_deploy
    <2>3. model' \in Models
      BY <2>1, <2>2 DEF TypeOK, Models
    <2> QED BY <1>r, <2>1, <2>2, <2>3 DEF TypeOK
  <1>3. ASSUME NEW r \in Resources, TimerFires(r) PROVE TypeOK'
    BY <1>3 DEF TimerFires, TypeOK
  <1>4. ASSUME NEW r \in Resources, DeployResource(r) PROVE TypeOK'
    <2>1. {r} \in SUBSET Resources
      OBVIOUS
    <2> QED BY <1>4, <1>r, <2>1 DEF DeployResource, TypeOK
  <1>5. ASSUME NEW v \in Releases,
               NEW recreated \in SUBSET Resources, NEW reverted,
               ProcessVersions(v, recreated, reverted), version' \in 0..MaxVersions
        PROVE TypeOK'
    BY <1>5, NewVersionType
  <1>6. ASSUME NEW x \in Agents, NEW r \in Resources, QueueGet(x, r) PROVE TypeOK'
    BY <1>6, QueueGetType, IdleRunnerType DEF QueueGet, TypeOK
  <1>7. ASSUME NEW x \in Agents, DeployStart(x) PROVE TypeOK'
    <2>1. runner[x].resource \in Resources /\ model.intent[runner[x].resource] \in Hashes \cup {None}
      BY <1>7, ManagedType DEF DeployStart, TypeOK, Models
    <2>2. runner' \in [Agents -> Runners]
      BY <1>7, <2>1, RunnerType DEF DeployStart, TypeOK
    <2> QED BY <1>7, <2>1, <2>2 DEF DeployStart, TypeOK
  <1>8. ASSUME NEW x \in Agents, DeployStartStale(x) PROVE TypeOK'
    BY <1>8, IdleRunnerType DEF DeployStartStale, TypeOK
  <1>9. ASSUME NEW x \in Agents, DeployStartRaises(x) PROVE TypeOK'
    <2>1. runner[x].resource \in Resources
      BY <1>9, ManagedType DEF DeployStartRaises
    <2> QED BY <1>9, <2>1, IdleRunnerType DEF DeployStartRaises, TypeOK
  <1>10. ASSUME NEW x \in Agents, NEW result \in Reports, DeployDoneUnmanaged(x, result) PROVE TypeOK'
    <2>1. runner' \in [Agents -> Runners]
      BY <1>10, RunnerType DEF DeployDoneUnmanaged, TypeOK
    <2>2. device' \in [Resources -> Hashes \cup {None}]
      BY <1>10, ExecuteType DEF DeployDoneUnmanaged
    <2> QED BY <1>10, <2>1, <2>2 DEF DeployDoneUnmanaged, TypeOK
  <1>11. ASSUME NEW x \in Agents, NEW result \in Reports, DeployDoneStale(x, result) PROVE TypeOK'
    <2> DEFINE r == runner[x].resource
               m == [model EXCEPT !.resource_state[r].last_handler_run = from_handler_resource_state(result),
                                  !.resource_state[r].last_deployed = TRUE]
    <2>1. /\ r \in Resources
          /\ send_events(m, deploying_latest, r, TRUE, recovered(model, r, result))
          /\ runner' = [runner EXCEPT ![x].pc = "reporting"]
          /\ execute(x, result)
          /\ UNCHANGED <<deploying_latest, deploying_unmanaged, triggers, db_deploying, version>>
      BY <1>11, ManagedType DEF DeployDoneStale
    <2>2. m \in Models
      BY <2>1, StaleResultType DEF TypeOK
    <2> HIDE DEF m
    <2>3. model' \in Models /\ work' \in Works /\ timers' \in SUBSET Resources
      BY <2>1, <2>2, SendEventsType DEF TypeOK
    <2>4. runner' \in [Agents -> Runners]
      BY <2>1, RunnerType DEF TypeOK
    <2> QED BY <2>1, <2>3, <2>4, ExecuteType DEF TypeOK
  <1>12. ASSUME NEW x \in Agents, NEW result \in Reports, DeployDoneLatest(x, result) PROVE TypeOK'
    <2> DEFINE r == runner[x].resource
               m == deployed_model(model, r, result)
    <2>1. /\ r \in Resources
          /\ deploying_latest' = deploying_latest \ {r}
          /\ send_events(m, deploying_latest \ {r}, r, FALSE, recovered(model, r, result))
          /\ runner' = [runner EXCEPT ![x].pc = "reporting"]
          /\ execute(x, result)
          /\ UNCHANGED <<deploying_unmanaged, triggers, db_deploying, version>>
      BY <1>12, ManagedType DEF DeployDoneLatest
    <2>2. m \in Models
      BY <2>1, DeployedModelType DEF TypeOK
    <2> HIDE DEF m
    <2>3. deploying_latest \ {r} \in SUBSET Resources
      BY DEF TypeOK
    <2>4. model' \in Models /\ work' \in Works /\ timers' \in SUBSET Resources
      BY <2>1, <2>2, <2>3, SendEventsType DEF TypeOK
    <2>5. runner' \in [Agents -> Runners]
      BY <2>1, RunnerType DEF TypeOK
    <2> QED BY <2>1, <2>3, <2>4, <2>5, ExecuteType DEF TypeOK
  <1>13. ASSUME NEW x \in Agents, NEW result \in Reports, DeployDoneRaises(x, result) PROVE TypeOK'
    <2> DEFINE r == runner[x].resource
               k == IF result = "deployed" THEN "COMPLIANT" ELSE "NON_COMPLIANT"
    <2>1. /\ model' = [model EXCEPT !.resource_state[r].compliance = k]
          /\ runner' = [runner EXCEPT ![x].pc = "raised"]
          /\ execute(x, result)
          /\ UNCHANGED <<work, deploying_latest, deploying_unmanaged, timers, triggers, db_deploying, version>>
      BY <1>13 DEF DeployDoneRaises
    <2>2. k \in ComplianceStates
      BY DEF ComplianceStates
    <2> HIDE DEF k
    <2>3. model' \in Models
      BY <2>1, <2>2, ComplianceChangeType DEF TypeOK
    <2>4. runner' \in [Agents -> Runners]
      BY <2>1, RunnerType DEF TypeOK
    <2> QED BY <2>1, <2>3, <2>4, ExecuteType DEF TypeOK
  <1>14. ASSUME NEW x \in Agents, FinishDeploy(x) PROVE TypeOK'
    <2>1. finished_deploy(work, model.requires, runner[x].resource) \in Works
      BY <1>0, FinishedDeployType DEF TypeOK
    <2>2. update_timers(timers, model, {runner[x].resource} \cap managed(model)) \in SUBSET Resources
      BY ManagedType, UpdateTimersType DEF TypeOK
    <2> QED BY <1>14, <2>1, <2>2, IdleRunnerType DEF FinishDeploy, TypeOK
  <1>15. CASE UNCHANGED vars
    BY <1>15 DEF vars, TypeOK
  <1> QED
    BY <1>1, <1>2, <1>3, <1>4, <1>5, <1>6, <1>7, <1>8, <1>9, <1>10, <1>11, <1>12, <1>13, <1>14, <1>15
    DEF SchedulerStep, NewVersionStep, OtherStep, RunnerStep

\* A step that changes no intent, no compliance and no device keeps the compliance
\* invariant and is a stuttering step of DesiredState: requests, timers, and the steps of
\* a runner before and after its report.
LEMMA QuietStep ==
    ASSUME ComplianceInvariant, TypeOK', SameCompliance(model, model'),
           device' = device, deploying_unmanaged' = deploying_unmanaged,
           \A x \in Agents :
             /\ runner'[x].pc # "idle" =>
                  runner'[x].resource \in Resources /\ AgentOf[runner'[x].resource] = x
             /\ runner'[x].pc = "deploying" =>
                  \/ runner'[x] = runner[x]
                  \/ runner'[x].hash = model.intent[runner'[x].resource]
    PROVE  /\ ComplianceInvariant'
           /\ UNCHANGED <<model.intent, device, reported>>
  <1>1. model'.intent = model.intent
    BY DEF SameCompliance, ComplianceInvariant, TypeOK, Models
  <1>2. reported' = reported
    BY DEF SameCompliance, reported, managed
  <1> QED BY <1>1, <1>2 DEF ComplianceInvariant, CompliantIsDeployed, reported, managed

\* A report that claims compliance only for the present intent of a resource without an
\* orphaned deploy keeps the compliance invariant, and is a Deployed step of
\* DesiredState.
LEMMA DoneStep ==
    ASSUME ComplianceInvariant, TypeOK', NEW x \in Agents, NEW result, NEW p,
           runner[x].pc = "deploying", p # "deploying",
           runner' = [runner EXCEPT ![x].pc = p],
           execute(x, result),
           model'.intent = model.intent,
           deploying_unmanaged' \subseteq deploying_unmanaged,
           \A r \in Resources \ {runner[x].resource} :
             model'.resource_state[r].compliance = model.resource_state[r].compliance,
           runner[x].resource \in reported' =>
             /\ runner[x].resource \notin deploying_unmanaged
             /\ result = "deployed" /\ runner[x].hash = model.intent[runner[x].resource]
    PROVE  ComplianceInvariant' /\ Promise!Deployed(runner[x].resource)
  <1> DEFINE r == runner[x].resource
             h == IF result = "deployed" THEN runner[x].hash ELSE None
  <1>1. /\ r \in Resources /\ AgentOf[r] = x
        /\ h \in Hashes \cup {None}
        /\ device' = [device EXCEPT ![r] = h]
        /\ device \in [Resources -> Hashes \cup {None}]
    BY DEF ComplianceInvariant, TypeOK, Runners, execute
  <1>2. \A y \in Resources \ {r} : y \in reported' <=> y \in reported
    BY DEF reported, managed
  <1>3. r \in reported' => device'[r] = model'.intent[r]
    BY <1>1
  <1>4. CompliantIsDeployed'
    BY <1>1, <1>2, <1>3 DEF ComplianceInvariant, CompliantIsDeployed, reported, managed
  <1>5. deploying_unmanaged' \cap reported' = {}
    BY <1>1, <1>2 DEF ComplianceInvariant, reported, managed
  <1>6. \A y \in Agents :
           runner'[y] = IF y = x THEN [runner[x] EXCEPT !.pc = p] ELSE runner[y]
    BY DEF ComplianceInvariant, TypeOK
  <1>7. \A y \in Agents \ {x} : runner[y].pc # "idle" => runner[y].resource # r
    BY <1>1 DEF ComplianceInvariant
  <1>8. /\ runner'[x].pc = p /\ runner'[x].resource = r
    BY <1>6 DEF ComplianceInvariant, TypeOK, Runners
  <1>9. \A y \in Agents : runner'[y].pc # "idle" =>
           runner'[y].resource \in Resources /\ AgentOf[runner'[y].resource] = y
    BY <1>1, <1>6, <1>8 DEF ComplianceInvariant
  <1>10. \A y \in Agents : runner'[y].pc = "deploying" /\ runner'[y].resource \in reported' =>
           runner'[y].hash = model'.intent[runner'[y].resource]
    <2> SUFFICES ASSUME NEW y \in Agents, runner'[y].pc = "deploying", runner'[y].resource \in reported'
                 PROVE  runner'[y].hash = model'.intent[runner'[y].resource]
      OBVIOUS
    <2>1. y # x /\ runner'[y] = runner[y]
      BY <1>6, <1>8
    <2>2. runner[y].resource \in Resources \ {r}
      BY <1>7, <2>1 DEF ComplianceInvariant
    <2> QED BY <1>2, <2>1, <2>2 DEF ComplianceInvariant
  <1>11. ComplianceInvariant'
    BY <1>4, <1>5, <1>9, <1>10 DEF ComplianceInvariant
  <1>12. \/ reported' = reported \ {r}
         \/ device'[r] = model.intent[r] /\ reported' = reported \cup {r}
    <2>1. reported \subseteq Resources /\ reported' \subseteq Resources
      BY DEF reported, managed
    <2> QED BY <1>2, <1>3, <2>1
  <1>13. Promise!Deployed(r)
    BY <1>1, <1>12 DEF Promise!Deployed
  <1> QED BY <1>11, <1>13

\* Every step keeps the compliance invariant and is a step of DesiredState or a stutter:
\* one case per handler.
LEMMA ComplianceStep ==
    ASSUME ComplianceInvariant, [SchedulerStep]_vars
    PROVE  /\ ComplianceInvariant'
           /\ [Promise!Next]_<<model.intent, device, reported>>
  <1> DEFINE Goal == ComplianceInvariant' /\ [Promise!Next]_<<model.intent, device, reported>>
  <1>0. TypeOK /\ TypeOK'
    BY TypeStep DEF ComplianceInvariant
  <1>d. ASSUME NEW x \in Agents, ComplianceInvariant', Promise!Deployed(runner[x].resource),
               runner[x].pc # "idle"
        PROVE Goal
    BY <1>d DEF Promise!Next, ComplianceInvariant
  <1> HIDE DEF Goal
  <1>q. ASSUME ComplianceInvariant', UNCHANGED <<model.intent, device, reported>> PROVE Goal
    BY <1>q DEF Goal
  <1>s. SameCompliance(model, model)
    BY DEF SameCompliance
  <1>m. ASSUME model' = model, device' = device, deploying_unmanaged' = deploying_unmanaged,
               runner' = runner
        PROVE Goal
    BY <1>0, <1>m, <1>q, <1>s, QuietStep DEF ComplianceInvariant
  <1>1. ASSUME NEW S \in SUBSET Resources, Deploy(S) PROVE Goal
    BY <1>1, <1>m DEF Deploy
  <1>2. ASSUME NEW S \in SUBSET Resources, Repair(S) PROVE Goal
    <2>1. SameCompliance(model, model')
      BY <1>0, <1>2 DEF Repair, SameCompliance, TypeOK, Models
    <2>2. device' = device /\ deploying_unmanaged' = deploying_unmanaged /\ runner' = runner
      BY <1>2 DEF Repair
    <2> QED BY <1>0, <1>q, <2>1, <2>2, QuietStep DEF ComplianceInvariant
  <1>3. ASSUME NEW r \in Resources, TimerFires(r) PROVE Goal
    BY <1>3, <1>m DEF TimerFires
  <1>4. ASSUME NEW r \in Resources, DeployResource(r) PROVE Goal
    BY <1>4, <1>m DEF DeployResource
  <1>5. ASSUME NEW v \in Releases,
               NEW recreated \in SUBSET Resources, NEW reverted,
               ProcessVersions(v, recreated, reverted), version' \in 0..MaxVersions
        PROVE Goal
    <2> DEFINE c == intent_changes(model, v, recreated, reverted)
    <2>1. \A r \in reported' : /\ r \in reported /\ r \notin c.new \cup c.deleted
                               /\ model'.intent[r] = model.intent[r]
      BY <1>0, <1>5, NewVersionType
    <2>2. /\ device' = device
          /\ deploying_unmanaged' \subseteq deploying_unmanaged \cup c.new \cup c.deleted
          /\ \A x \in Agents :
               /\ runner'[x].pc = runner[x].pc /\ runner'[x].resource = runner[x].resource
               /\ runner'[x].hash = runner[x].hash
      <3>1. /\ device' = device
            /\ runner' = [x \in Agents |->
                            IF runner[x].pc = "deploying" /\ runner[x].resource \in c.new \cup c.deleted
                            THEN [runner[x] EXCEPT !.orphaned = TRUE] ELSE runner[x]]
            /\ deploying_unmanaged' = deploying_unmanaged \cup (deploying_latest \cap (c.new \cup c.deleted))
        BY <1>5 DEF ProcessVersions, process_version
      <3> HIDE DEF c
      <3>2. \A x \in Agents : runner[x] \in Runners
        BY <1>0 DEF TypeOK
      <3> QED BY <3>1, <3>2 DEF Runners
    <2> HIDE DEF c
    <2>3. deploying_unmanaged' \cap reported' = {}
      BY <2>1, <2>2 DEF ComplianceInvariant
    <2>4. CompliantIsDeployed'
      BY <2>1, <2>2 DEF ComplianceInvariant, CompliantIsDeployed
    <2>5. ComplianceInvariant'
      BY <1>0, <2>1, <2>2, <2>3, <2>4 DEF ComplianceInvariant
    <2>6. Promise!Release
      BY <1>0, <2>1, <2>2 DEF Promise!Release, TypeOK, Models
    <2> QED BY <2>5, <2>6 DEF Promise!Next, Goal
  <1>6. ASSUME NEW x \in Agents, NEW r \in Resources, QueueGet(x, r) PROVE Goal
    <2> DEFINE new == [IdleRunner EXCEPT !.pc = "picked", !.resource = r]
    <2>1. /\ model' = model /\ device' = device /\ deploying_unmanaged' = deploying_unmanaged
          /\ runner' = [runner EXCEPT ![x] = new] /\ AgentOf[r] = x
      BY <1>6 DEF QueueGet
    <2>2. new.pc = "picked" /\ new.resource = r
      BY DEF IdleRunner
    <2> HIDE DEF new
    <2>3. \A y \in Agents : runner'[y] = IF y = x THEN new ELSE runner[y]
      BY <1>0, <2>1 DEF TypeOK
    <2> QED BY <1>0, <1>q, <1>s, <2>1, <2>2, <2>3, QuietStep DEF ComplianceInvariant
  <1>7. ASSUME NEW x \in Agents, DeployStart(x) PROVE Goal
    <2> DEFINE r == runner[x].resource
               new == [runner[x] EXCEPT !.pc = "deploying", !.hash = model.intent[r]]
    <2>1. /\ model' = model /\ device' = device /\ deploying_unmanaged' = deploying_unmanaged
          /\ runner[x].pc = "picked"
          /\ runner' = [runner EXCEPT ![x].pc = "deploying", ![x].hash = model.intent[r]]
      BY <1>7 DEF DeployStart
    <2>2. new.pc = "deploying" /\ new.resource = r /\ new.hash = model.intent[r]
      BY <1>0 DEF TypeOK, Runners
    <2>3. \A y \in Agents : runner'[y] = IF y = x THEN new ELSE runner[y]
      BY <1>0, <2>1 DEF TypeOK, Runners
    <2>4. r \in Resources /\ AgentOf[r] = x
      BY <2>1 DEF ComplianceInvariant
    <2> HIDE DEF new
    <2>5. \A y \in Agents :
             /\ runner'[y].pc # "idle" =>
                  runner'[y].resource \in Resources /\ AgentOf[runner'[y].resource] = y
             /\ runner'[y].pc = "deploying" =>
                  \/ runner'[y] = runner[y]
                  \/ runner'[y].hash = model.intent[runner'[y].resource]
      BY <2>2, <2>3, <2>4 DEF ComplianceInvariant
    <2> HIDE DEF r
    <2> QED BY <1>0, <1>q, <1>s, <2>1, <2>5, QuietStep
  <1>i. ASSUME NEW x \in Agents, runner' = [runner EXCEPT ![x] = IdleRunner], model' = model,
               device' = device, deploying_unmanaged' = deploying_unmanaged
        PROVE Goal
    <2>1. \A y \in Agents : runner'[y] = IF y = x THEN IdleRunner ELSE runner[y]
      BY <1>0, <1>i DEF TypeOK
    <2>2. IdleRunner.pc = "idle"
      BY DEF IdleRunner
    <2> QED BY <1>0, <1>i, <1>q, <1>s, <2>1, <2>2, QuietStep DEF ComplianceInvariant
  <1>8. ASSUME NEW x \in Agents, DeployStartStale(x) PROVE Goal
    BY <1>8, <1>i DEF DeployStartStale
  <1>9. ASSUME NEW x \in Agents, DeployStartRaises(x) PROVE Goal
    BY <1>9, <1>i DEF DeployStartRaises
  <1>10. ASSUME NEW x \in Agents, NEW result \in Reports, DeployDoneUnmanaged(x, result) PROVE Goal
    <2> DEFINE r == runner[x].resource
    <2>1. /\ runner[x].pc = "deploying" /\ execute(x, result) /\ model' = model
          /\ deploying_unmanaged' = deploying_unmanaged \ {r}
          /\ runner' = [runner EXCEPT ![x].pc = "reporting"]
          /\ r \notin managed(model) \/ r \in deploying_unmanaged
      BY <1>10 DEF DeployDoneUnmanaged
    <2>2. r \notin reported /\ reported' = reported
      BY <2>1 DEF ComplianceInvariant, reported
    <2>3. ComplianceInvariant' /\ Promise!Deployed(r)
      BY <1>0, <2>1, <2>2, DoneStep
    <2> QED BY <1>d, <2>1, <2>3
  <1>11. ASSUME NEW x \in Agents, NEW result \in Reports, DeployDoneStale(x, result) PROVE Goal
    <2> DEFINE r == runner[x].resource
               m == [model EXCEPT !.resource_state[r].last_handler_run = from_handler_resource_state(result),
                                  !.resource_state[r].last_deployed = TRUE]
    <2>1. /\ runner[x].pc = "deploying" /\ execute(x, result) /\ r \in Resources
          /\ deploying_unmanaged' = deploying_unmanaged
          /\ runner' = [runner EXCEPT ![x].pc = "reporting"]
          /\ is_stale(model, r, runner[x].hash)
          /\ send_events(m, deploying_latest, r, TRUE, recovered(model, r, result))
      BY <1>11, ManagedType DEF DeployDoneStale
    <2>2. m \in Models /\ SameCompliance(model, m)
      BY <1>0, <2>1, StaleResultType, ConstantsAssumption DEF TypeOK
    <2> HIDE DEF m
    <2>3. SameCompliance(m, model')
      BY <1>0, <2>1, <2>2, SendEventsType DEF TypeOK
    <2>4. SameCompliance(model, model')
      BY <2>2, <2>3 DEF SameCompliance
    <2>5. reported' = reported /\ model'.intent = model.intent
      BY <1>0, <2>4 DEF SameCompliance, reported, managed, TypeOK, Models
    <2>6. r \notin reported
      BY <2>1 DEF is_stale, is_undefined, reported, ComplianceInvariant
    <2>7. ComplianceInvariant' /\ Promise!Deployed(r)
      BY <1>0, <2>1, <2>4, <2>5, <2>6, DoneStep DEF SameCompliance
    <2> QED BY <1>d, <2>1, <2>7
  <1>12. ASSUME NEW x \in Agents, NEW result \in Reports, DeployDoneLatest(x, result) PROVE Goal
    <2> DEFINE r == runner[x].resource
               m == deployed_model(model, r, result)
    <2>1. /\ runner[x].pc = "deploying" /\ execute(x, result)
          /\ r \in Resources /\ r \notin deploying_unmanaged
          /\ deploying_unmanaged' = deploying_unmanaged
          /\ runner' = [runner EXCEPT ![x].pc = "reporting"]
          /\ runner[x].hash = model.intent[r]
          /\ send_events(m, deploying_latest \ {r}, r, FALSE, recovered(model, r, result))
      BY <1>12, ManagedType DEF DeployDoneLatest, is_stale
    <2>2. /\ m \in Models /\ m.intent = model.intent
          /\ m.resource_state[r].compliance = IF result = "deployed" THEN "COMPLIANT" ELSE "NON_COMPLIANT"
          /\ \A y \in Resources \ {r} : m.resource_state[y] = model.resource_state[y]
      BY <1>0, <2>1, DeployedModelType, ConstantsAssumption DEF TypeOK
    <2> HIDE DEF m
    <2>3. deploying_latest \ {r} \in SUBSET Resources
      BY <1>0 DEF TypeOK
    <2>4. SameCompliance(m, model')
      BY <1>0, <2>1, <2>2, <2>3, SendEventsType DEF TypeOK
    <2>5. model'.intent = model.intent
      BY <1>0, <2>2, <2>4 DEF SameCompliance, TypeOK, Models
    <2>6. \A y \in Resources \ {r} :
            model'.resource_state[y].compliance = model.resource_state[y].compliance
      BY <2>2, <2>4 DEF SameCompliance
    <2>7. r \in reported' => result = "deployed"
      BY <2>1, <2>2, <2>4 DEF SameCompliance, reported
    <2>8. ComplianceInvariant' /\ Promise!Deployed(r)
      BY <1>0, <2>1, <2>5, <2>6, <2>7, DoneStep
    <2> QED BY <1>d, <2>1, <2>8
  <1>13. ASSUME NEW x \in Agents, NEW result \in Reports, DeployDoneRaises(x, result) PROVE Goal
    <2> DEFINE r == runner[x].resource
               k == IF result = "deployed" THEN "COMPLIANT" ELSE "NON_COMPLIANT"
    <2>1. /\ runner[x].pc = "deploying" /\ execute(x, result)
          /\ r \in Resources /\ r \notin deploying_unmanaged
          /\ deploying_unmanaged' = deploying_unmanaged
          /\ runner' = [runner EXCEPT ![x].pc = "raised"]
          /\ runner[x].hash = model.intent[r]
          /\ model' = [model EXCEPT !.resource_state[r].compliance = k]
      BY <1>13, ManagedType DEF DeployDoneRaises, is_stale
    <2>2. k \in ComplianceStates /\ (k = "COMPLIANT" => result = "deployed")
      BY DEF ComplianceStates
    <2> HIDE DEF k
    <2>3. /\ model'.intent = model.intent
          /\ \A y \in Resources :
               model'.resource_state[y].compliance = IF y = r THEN k ELSE model.resource_state[y].compliance
      <3> DEFINE m == [model EXCEPT !.resource_state[r].compliance = k]
      <3>1. /\ m.intent = model.intent
            /\ \A y \in Resources :
                 m.resource_state[y].compliance = IF y = r THEN k ELSE model.resource_state[y].compliance
        <4>1. model \in Models BY <1>0 DEF TypeOK
        <4> QED BY <2>2, <4>1 DEF Models, ResourceStates
      <3> HIDE DEF m
      <3>2. model' = m
        BY <2>1 DEF m
      <3> QED BY <3>1, <3>2
    <2>4. r \in reported' => result = "deployed"
      BY <2>1, <2>2, <2>3 DEF reported
    <2>5. ComplianceInvariant' /\ Promise!Deployed(r)
      BY <1>0, <2>1, <2>3, <2>4, DoneStep
    <2> QED BY <1>d, <2>1, <2>5
  <1>14. ASSUME NEW x \in Agents, FinishDeploy(x) PROVE Goal
    BY <1>14, <1>i DEF FinishDeploy
  <1>15. ASSUME UNCHANGED vars PROVE Goal
    BY <1>15, <1>m DEF vars
  <1>16. Goal
    BY <1>1, <1>2, <1>3, <1>4, <1>5, <1>6, <1>7, <1>8, <1>9, <1>10, <1>11, <1>12, <1>13, <1>14, <1>15
    DEF SchedulerStep, NewVersionStep, OtherStep, RunnerStep
  <1> QED BY <1>16 DEF Goal

\* The scheduler starts with nothing managed, hence nothing reported.
LEMMA InitCompliance == Init => ComplianceInvariant /\ Promise!Init
  <1> SUFFICES ASSUME Init PROVE ComplianceInvariant /\ Promise!Init
    OBVIOUS
  <1>1. model \in Models
    BY NoStateType DEF Init, EmptyModel, Models, NoEdges, Edges
  <1>2. work \in Works
    BY DEF Init, EmptyWork, Works, NoEdges, Edges
  <1>3. TypeOK
    <2>1. runner \in [Agents -> Runners]
      BY IdleRunnerType DEF Init
    <2>2. version \in 0..MaxVersions
      BY ConstantsAssumption DEF Init
    <2>3. device \in [Resources -> Hashes \cup {None}]
      BY DEF Init
    <2> QED BY <1>1, <1>2, <2>1, <2>2, <2>3 DEF Init, TypeOK
  <1>4. reported = {}
    BY DEF Init, EmptyModel, reported, managed
  <1>5. \A x \in Agents : runner[x].pc = "idle"
    BY DEF Init, IdleRunner
  <1>6. ComplianceInvariant
    BY <1>3, <1>4, <1>5 DEF ComplianceInvariant, CompliantIsDeployed, Init
  <1>7. Promise!Init
    BY <1>4 DEF Init, EmptyModel, Promise!Init
  <1> QED BY <1>6, <1>7

(***************************************************************************)
(* The state of the scheduler is always well typed; in particular handler  *)
(* results are converted before they are stored.                           *)
(***************************************************************************)
THEOREM TypeCorrect == Spec => []TypeOK
  <1>1. Init => TypeOK
    BY InitCompliance DEF ComplianceInvariant
  <1> QED BY <1>1, NextIsStep, TypeStep, PTL DEF Spec

(***************************************************************************)
(* The compliance invariant, which is inductive, always holds.             *)
(***************************************************************************)
THEOREM ComplianceIsInvariant == Spec => []ComplianceInvariant
  <1>1. Init => ComplianceInvariant
    BY InitCompliance
  <1>2. ComplianceInvariant /\ [SchedulerStep]_vars => ComplianceInvariant'
    BY ComplianceStep
  <1> QED BY <1>1, <1>2, NextIsStep, TypeCorrect, PTL DEF Spec

(***************************************************************************)
(* A resource is COMPLIANT only if its present intent is the one it was    *)
(* last deployed with: no stale or orphaned deploy is ever taken for the   *)
(* deploy of a newer intent.                                               *)
(***************************************************************************)
THEOREM CompliantResourcesAreDeployed == Spec => []CompliantIsDeployed
  <1>1. ComplianceInvariant => CompliantIsDeployed
    BY DEF ComplianceInvariant
  <1> QED BY <1>1, ComplianceIsInvariant, PTL

(***************************************************************************)
(* The scheduler implements the abstract specification DesiredState, with  *)
(* the intents of its model as what is desired.                            *)
(***************************************************************************)
THEOREM SchedulerKeepsPromise == Spec => ImplementsDesiredState
  <1>1. Init => Promise!Init
    BY InitCompliance
  <1>2. ComplianceInvariant /\ [SchedulerStep]_vars => [Promise!Next]_<<model.intent, device, reported>>
    BY ComplianceStep
  <1> QED
    BY <1>1, <1>2, NextIsStep, TypeCorrect, ComplianceIsInvariant, PTL DEF Spec, ImplementsDesiredState, Promise!Spec
-----------------------------------------------------------------------------
(* The order of the scheduled work *)

\* A request that changes no requires describes the change of requires.
LEMMA PlainRequest ==
    ASSUME NEW S, NEW deploying, NEW requires
    PROVE  /\ DescribesChange(DeployRequest(S, deploying), requires, requires)
           /\ DescribesChange([DeployRequest(S, deploying) EXCEPT !.force_deploy = TRUE], requires, requires)
  BY DEF DescribesChange, DeployRequest, NoEdges

\* _send_events keeps the order of the scheduled work.
LEMMA SendEventsOrder ==
    ASSUME NEW m \in Models, NEW deploying \in SUBSET Resources, NEW r, NEW stale, NEW rec,
           work \in Works, WorkInvariant(work, m.requires),
           send_events(m, deploying, r, stale, rec)
    PROVE  WorkInvariant(work', model'.requires)
  <1> DEFINE events    == IF stale THEN {} ELSE event_listeners(m, r)
             recovery  == IF rec THEN recovery_listeners(m, r) ELSE {}
             listeners == events \cup recovery
             q == [DeployRequest(listeners, deploying) EXCEPT !.force_deploy = TRUE]
  <1>1. listeners \in SUBSET Resources
    BY DEF event_listeners, recovery_listeners, dependants, managed
  <1>2. work' = IF listeners = {} THEN work ELSE deploy_with_context(work, m.requires, q)
    BY DEF send_events
  <1>3. model'.requires = m.requires /\ m.requires \in Edges
    BY DEF send_events, Models
  <1> HIDE DEF listeners
  <1>4. q \in Requests /\ DescribesChange(q, m.requires, m.requires)
    BY <1>1, DeployRequestType, PlainRequest
  <1> HIDE DEF q
  <1>5. WorkInvariant(deploy_with_context(work, m.requires, q), m.requires)
    BY <1>3, <1>4, DeployWithContextOrder
  <1> QED BY <1>2, <1>3, <1>5

\* A new version keeps it: dropped tasks and requires included.
LEMMA NewVersionOrder ==
    ASSUME TypeOK, WorkInvariant(work, model.requires), NEW v \in Releases,
           NEW recreated \in SUBSET Resources, NEW reverted,
           ProcessVersions(v, recreated, reverted)
    PROVE  WorkInvariant(work', model'.requires)
  <1> DEFINE c == intent_changes(model, v, recreated, reverted)
  <1>1. /\ model \in Models /\ work \in Works /\ v \in ModelVersions
        /\ recreated \in SUBSET Resources /\ deploying_latest \in SUBSET Resources
    BY ConstantsAssumption DEF TypeOK, managed, batch_resources
  <1>2. c \in IntentChanges
    BY <1>1, IntentChangesType
  <1>3. added_requires(model, v) \in Edges /\ dropped_requires(model, v) \in Edges
    BY <1>1, RequiresChangesType
  <1> DEFINE undefined == became_undefined(model, v, c)
             changed == c.deleted \cup c.new \cup c.updated
             q(out) == [resources |-> out.model.dirty,
                        deploying |-> deploying_latest \ (changed \cup out.blocked),
                        added_requires |-> added_requires(model, v),
                        dropped_requires |-> dropped_requires(model, v),
                        force_deploy |-> FALSE]
  <1>4. PICK out \in updated_models(model, v, c, recreated) :
          /\ work' = delete_resources(deploy_with_context(work, out.model.requires, q(out)),
                                      c.deleted \cup undefined \cup out.blocked)
          /\ model' = drop(out.model, c.deleted)
    BY Zenon DEF ProcessVersions, process_version, still_latest, remaining_timers
  <1> DEFINE m == out.model
  <1>5. /\ m \in Models
        /\ \A r \in Resources :
             /\ m.requires[r] \subseteq model.requires[r] \cup added_requires(model, v)[r]
             /\ m.requires[r] \cap dropped_requires(model, v)[r] = {}
    BY <1>1, <1>2, UpdatedModelsType
  <1> HIDE DEF c, undefined, m
  <1>6. m.dirty \in SUBSET Resources /\ m.requires \in Edges /\ model.requires \in Edges
    BY <1>1, <1>5 DEF Models
  <1>7. q(out) \in Requests /\ DescribesChange(q(out), model.requires, m.requires)
    BY <1>1, <1>3, <1>5, <1>6 DEF Requests, DescribesChange, m
  <1> HIDE DEF q
  <1> DEFINE w == deploy_with_context(work, m.requires, q(out))
  <1>8. w \in Works /\ WorkInvariant(w, m.requires)
    BY <1>1, <1>6, <1>7, DeployWithContextType, DeployWithContextOrder
  <1>9. model'.requires \in Edges /\ \A r \in Resources : model'.requires[r] \subseteq m.requires[r]
    BY <1>4, <1>5, DropType DEF m, Models
  <1> HIDE DEF w
  <1>10. WorkInvariant(delete_resources(w, c.deleted \cup undefined \cup out.blocked), model'.requires)
    BY <1>6, <1>8, <1>9, DeleteResourcesOrder
  <1> QED BY <1>4, <1>10 DEF w, m

\* Every step of the scheduler keeps it.
LEMMA OrderStep ==
    ASSUME TypeOK, WorkInvariant(work, model.requires), [SchedulerStep]_vars
    PROVE  WorkInvariant(work', model'.requires)
  <1> DEFINE Goal == WorkInvariant(work', model'.requires)
  <1> HIDE DEF Goal
  <1> USE ConstantsAssumption
  <1>0. /\ model \in Models /\ work \in Works /\ model.requires \in Edges
        /\ model.dirty \in SUBSET Resources /\ deploying_latest \in SUBSET Resources
    BY DEF TypeOK, Models
  <1>u. ASSUME work' = work, model'.requires = model.requires PROVE Goal
    BY <1>u DEF Goal
  <1>r. ASSUME NEW S \in SUBSET Resources, model'.requires = model.requires,
               work' = deploy_with_context(work, model.requires, DeployRequest(S, deploying_latest))
        PROVE Goal
    <2>1. /\ DeployRequest(S, deploying_latest) \in Requests
          /\ DescribesChange(DeployRequest(S, deploying_latest), model.requires, model.requires)
      BY <1>0, DeployRequestType, PlainRequest
    <2> QED BY <1>0, <1>r, <2>1, DeployWithContextOrder DEF Goal
  <1>1. ASSUME NEW S \in SUBSET Resources, Deploy(S) PROVE Goal
    <2>1. model.dirty \cap S \in SUBSET Resources
      BY <1>0
    <2> QED BY <1>1, <1>r, <2>1 DEF Deploy
  <1>2. ASSUME NEW S \in SUBSET Resources, Repair(S) PROVE Goal
    <2>1. (managed(model) \ is_blocked(model)) \cap S \in SUBSET Resources
      BY ManagedType
    <2>2. model'.requires = model.requires
      BY <1>0, <1>2 DEF Repair, Models
    <2> QED BY <1>2, <1>r, <2>1, <2>2 DEF Repair
  <1>3. ASSUME NEW r \in Resources, TimerFires(r) PROVE Goal
    BY <1>3, <1>u DEF TimerFires
  <1>4. ASSUME NEW r \in Resources, DeployResource(r) PROVE Goal
    <2>1. {r} \in SUBSET Resources
      OBVIOUS
    <2> QED BY <1>4, <1>r, <1>u, <2>1 DEF DeployResource
  <1>5. ASSUME NEW v \in Releases,
               NEW recreated \in SUBSET Resources, NEW reverted,
               ProcessVersions(v, recreated, reverted)
        PROVE Goal
    BY <1>5, NewVersionOrder DEF Goal
  <1>6. ASSUME NEW x \in Agents, NEW r \in Resources, QueueGet(x, r) PROVE Goal
    BY <1>0, <1>6, QueueGetOrder DEF QueueGet, Goal
  <1>7. ASSUME NEW x \in Agents, DeployStart(x) \/ DeployStartStale(x) \/ DeployStartRaises(x) PROVE Goal
    BY <1>7, <1>u DEF DeployStart, DeployStartStale, DeployStartRaises
  <1>8. ASSUME NEW x \in Agents, NEW result \in Reports, DeployDoneUnmanaged(x, result) PROVE Goal
    BY <1>8, <1>u DEF DeployDoneUnmanaged
  <1>9. ASSUME NEW x \in Agents, NEW result \in Reports, DeployDoneStale(x, result) PROVE Goal
    <2> DEFINE r == runner[x].resource
               m == [model EXCEPT !.resource_state[r].last_handler_run = from_handler_resource_state(result),
                                  !.resource_state[r].last_deployed = TRUE]
    <2>1. r \in Resources /\ send_events(m, deploying_latest, r, TRUE, recovered(model, r, result))
      BY <1>9, ManagedType DEF DeployDoneStale
    <2>2. m \in Models
      BY <1>0, <2>1, StaleResultType
    <2>3. m.requires = model.requires
      BY <1>0 DEF Models
    <2> HIDE DEF m
    <2> QED BY <1>0, <2>1, <2>2, <2>3, SendEventsOrder DEF Goal
  <1>10. ASSUME NEW x \in Agents, NEW result \in Reports, DeployDoneLatest(x, result) PROVE Goal
    <2> DEFINE r == runner[x].resource
               m == deployed_model(model, r, result)
    <2>1. /\ r \in Resources
          /\ send_events(m, deploying_latest \ {r}, r, FALSE, recovered(model, r, result))
      BY <1>10, ManagedType DEF DeployDoneLatest
    <2>2. m \in Models
      BY <1>0, <2>1, DeployedModelType
    <2>3. m.requires = model.requires
      BY <1>0 DEF deployed_model, Models
    <2>4. deploying_latest \ {r} \in SUBSET Resources
      BY <1>0
    <2> HIDE DEF m
    <2> QED BY <1>0, <2>1, <2>2, <2>3, <2>4, SendEventsOrder DEF Goal
  <1>11. ASSUME NEW x \in Agents, NEW result \in Reports, DeployDoneRaises(x, result) PROVE Goal
    <2>1. model'.requires = model.requires
      BY <1>0, <1>11 DEF DeployDoneRaises, Models
    <2> QED BY <1>11, <1>u, <2>1 DEF DeployDoneRaises
  <1>12. ASSUME NEW x \in Agents, FinishDeploy(x) PROVE Goal
    BY <1>0, <1>12, FinishedDeployOrder DEF FinishDeploy, Goal
  <1>13. ASSUME UNCHANGED vars PROVE Goal
    BY <1>13, <1>u DEF vars
  <1>14. Goal
    BY <1>1, <1>2, <1>3, <1>4, <1>5, <1>6, <1>7, <1>8, <1>9, <1>10, <1>11, <1>12, <1>13
    DEF SchedulerStep, NewVersionStep, OtherStep, RunnerStep
  <1> QED BY <1>14 DEF Goal

(***************************************************************************)
(* In the running scheduler each deploy task exists at most once, no       *)
(* waiting task is left without a blocker, and requires are enforced       *)
(* within the scheduled work but for tasks that were rescheduled while     *)
(* deploying.                                                              *)
(***************************************************************************)
THEOREM ScheduledWorkInvariants == Spec => [](WorkConsistent /\ OrderEnforced)
  <1> DEFINE Inv == TypeOK /\ WorkInvariant(work, model.requires)
  <1>1. Init => Inv
    <2>1. Init => WorkInvariant(work, model.requires)
      BY DEF Init, EmptyWork, WorkInvariant, AtMostOnce, WaitingIsBlocked, RequiresOrder, scheduled
    <2> QED BY <2>1, InitCompliance DEF ComplianceInvariant
  <1>2. Inv /\ [SchedulerStep]_vars => Inv'
    BY TypeStep, OrderStep
  <1>3. Inv => WorkConsistent /\ OrderEnforced
    BY DEF WorkInvariant, WorkConsistent, OrderEnforced
  <1> HIDE DEF Inv
  <1> QED BY <1>1, <1>2, <1>3, NextIsStep, TypeCorrect, PTL DEF Spec

-----------------------------------------------------------------------------
(* What the report of a deploy does to the model and to the work *)

\* The listeners that _send_events schedules.
Recovering(m, r, rec) == IF rec THEN recovery_listeners(m, r) ELSE {}
Listening(m, r, stale, rec) == (IF stale THEN {} ELSE event_listeners(m, r)) \cup Recovering(m, r, rec)

\* Listeners are managed and not BLOCKED, and every one of them has a task afterwards, also
\* if it is being deployed.  Those that wait for the recovery are TEMPORARILY_BLOCKED until
\* then, and dirty afterwards.
LEMMA SendEventsEffect ==
    ASSUME NEW m \in Models, NEW deploying \in SUBSET Resources, NEW r, NEW stale, NEW rec,
           work \in Works, send_events(m, deploying, r, stale, rec)
    PROVE  /\ model'.intent = m.intent /\ model'.requires = m.requires
           /\ model'.dirty = m.dirty \cup Recovering(m, r, rec)
           /\ \A d \in Resources :
                /\ SameButBlocked(m.resource_state[d], model'.resource_state[d])
                /\ model'.resource_state[d].blocked = IF d \in Recovering(m, r, rec) THEN "NOT_BLOCKED"
                                                      ELSE m.resource_state[d].blocked
           /\ \A d \in Recovering(m, r, rec) : m.resource_state[d].blocked = "TEMPORARILY_BLOCKED"
           /\ Recovering(m, r, rec) \subseteq Listening(m, r, stale, rec)
           /\ Listening(m, r, stale, rec) \subseteq managed(m) \ is_blocked(m)
           /\ timers' = timers \ Listening(m, r, stale, rec)
           /\ scheduled(work) \subseteq scheduled(work')
           /\ scheduled(work') \subseteq scheduled(work) \cup Listening(m, r, stale, rec) \cup deploying
           /\ Listening(m, r, stale, rec) \subseteq scheduled(work')
  <1> DEFINE recovery  == Recovering(m, r, rec)
             listeners == Listening(m, r, stale, rec)
             state == [d \in Resources |->
                         IF d \in recovery THEN [m.resource_state[d] EXCEPT !.blocked = "NOT_BLOCKED"]
                         ELSE m.resource_state[d]]
             q == [DeployRequest(listeners, deploying) EXCEPT !.force_deploy = TRUE]
  <1>1. /\ model' = [m EXCEPT !.dirty = @ \cup recovery, !.resource_state = state]
        /\ timers' = timers \ listeners
        /\ work' = IF listeners = {} THEN work ELSE deploy_with_context(work, m.requires, q)
    BY DEF send_events, Recovering, Listening
  <1>2. /\ recovery \subseteq listeners /\ listeners \subseteq managed(m) \ is_blocked(m)
        /\ \A d \in recovery : m.resource_state[d].blocked = "TEMPORARILY_BLOCKED"
    BY DEF Recovering, Listening, event_listeners, recovery_listeners, dependants, is_blocked
  <1> HIDE DEF recovery, listeners
  <1>3. \A d \in Resources :
           /\ SameButBlocked(m.resource_state[d], state[d])
           /\ state[d].blocked = IF d \in recovery THEN "NOT_BLOCKED" ELSE m.resource_state[d].blocked
    <2> TAKE d \in Resources
    <2>1. m.resource_state[d] \in ResourceStates /\ "NOT_BLOCKED" \in BlockedStates
      BY DEF Models, BlockedStates
    <2>2. CASE d \in recovery
      BY <2>1, <2>2, BlockedChange
    <2>3. CASE d \notin recovery
      BY <2>1, <2>3, BlockedChange
    <2> QED BY <2>2, <2>3
  <1> HIDE DEF state
  <1>4. /\ model'.intent = m.intent /\ model'.requires = m.requires
        /\ model'.dirty = m.dirty \cup recovery /\ model'.resource_state = state
    BY <1>1 DEF Models
  <1>5. listeners \in SUBSET Resources
    BY <1>2 DEF managed
  <1>6. q \in Requests
    BY <1>5, DeployRequestType
  <1>7. q.resources = listeners /\ q.deploying = deploying /\ queued_cache(q) \cap q.resources = {}
    BY DEF DeployRequest, queued_cache
  <1> HIDE DEF q
  <1>8. /\ scheduled(work) \subseteq scheduled(work')
        /\ scheduled(work') \subseteq scheduled(work) \cup listeners \cup deploying
        /\ listeners \subseteq scheduled(work')
    BY <1>1, <1>6, <1>7, DeployWithContextScheduled
  <1> QED BY <1>1, <1>2, <1>3, <1>4, <1>8 DEF recovery, listeners

\* The model n once the report of the latest intent of r is applied to the model m.
Reported(m, n, r, result) ==
    LET s == m.resource_state[r]
        t == n.resource_state[r]
        successful == from_handler_resource_state(result) = "SUCCESSFUL"
        skips == /\ s.blocked # "BLOCKED" /\ result = "skipped_for_dependency"
                 /\ should_skip_for_dependencies(m, r)
    IN  /\ n.intent = m.intent /\ n.requires = m.requires
        /\ n.dirty = IF skips \/ successful THEN m.dirty \ {r} ELSE m.dirty \cup {r}
        /\ t.compliance = IF result = "deployed" THEN "COMPLIANT" ELSE "NON_COMPLIANT"
        /\ t.last_handler_run = from_handler_resource_state(result)
        /\ t.last_deployed = TRUE
        /\ t.last_handler_run_compliant = (result = "deployed")
        /\ t.blocked = IF skips THEN "TEMPORARILY_BLOCKED"
                       ELSE IF successful /\ s.blocked = "TEMPORARILY_BLOCKED" THEN "NOT_BLOCKED"
                       ELSE s.blocked
        /\ \A x \in Resources \ {r} : n.resource_state[x] = m.resource_state[x]

\* That is what deployed_model does.
LEMMA DeployedModelState ==
    ASSUME NEW m \in Models, NEW r \in Resources, NEW result \in HandlerResourceStates
    PROVE  Reported(m, deployed_model(m, r, result), r, result)
  <1> DEFINE state   == m.resource_state[r]
             handler == from_handler_resource_state(result)
             skips   == /\ state.blocked # "BLOCKED"
                        /\ result = "skipped_for_dependency"
                        /\ should_skip_for_dependencies(m, r)
             blocked == IF skips THEN "TEMPORARILY_BLOCKED"
                        ELSE IF handler = "SUCCESSFUL" /\ state.blocked = "TEMPORARILY_BLOCKED"
                             THEN "NOT_BLOCKED" ELSE state.blocked
             compliance == IF result = "deployed" THEN "COMPLIANT" ELSE "NON_COMPLIANT"
             new == [compliance |-> compliance,
                     last_handler_run |-> handler, blocked |-> blocked, last_deployed |-> TRUE,
                     last_handler_run_compliant |-> result = "deployed"]
             dirty == IF skips \/ handler = "SUCCESSFUL" THEN m.dirty \ {r} ELSE m.dirty \cup {r}
             n == deployed_model(m, r, result)
  <1>1. n = [m EXCEPT !.resource_state[r] = new, !.dirty = dirty]
    BY DEF deployed_model
  <1>2. /\ new.compliance = compliance /\ new.last_handler_run = handler /\ new.blocked = blocked
        /\ new.last_deployed = TRUE /\ new.last_handler_run_compliant = (result = "deployed")
    OBVIOUS
  <1> HIDE DEF new, dirty, n
  <1>3. /\ n.intent = m.intent /\ n.requires = m.requires /\ n.dirty = dirty
        /\ n.resource_state = [m.resource_state EXCEPT ![r] = new]
    BY <1>1 DEF Models
  <1>4. n.resource_state[r] = new /\ \A x \in Resources \ {r} : n.resource_state[x] = m.resource_state[x]
    BY <1>3 DEF Models
  <1> QED BY <1>2, <1>3, <1>4 DEF n, dirty, Reported

\* The model n once the report of a stale deploy of r is recorded in the model m: nothing
\* but what is known of the last run changes.
StaleModel(m, r, handler) == [m EXCEPT !.resource_state[r].last_handler_run = handler,
                                       !.resource_state[r].last_deployed = TRUE]

StaleRecorded(m, n, r, handler) ==
    /\ n.intent = m.intent /\ n.requires = m.requires /\ n.dirty = m.dirty
    /\ n.resource_state[r].compliance = m.resource_state[r].compliance
    /\ n.resource_state[r].blocked = m.resource_state[r].blocked
    /\ n.resource_state[r].last_handler_run = handler
    /\ n.resource_state[r].last_deployed = TRUE
    /\ n.resource_state[r].last_handler_run_compliant = m.resource_state[r].last_handler_run_compliant
    /\ \A x \in Resources \ {r} : n.resource_state[x] = m.resource_state[x]

\* That is what a stale report does before a recovery is reported.
LEMMA StaleModelState ==
    ASSUME NEW m \in Models, NEW r \in Resources, NEW handler
    PROVE  StaleRecorded(m, StaleModel(m, r, handler), r, handler)
  <1> DEFINE n == StaleModel(m, r, handler)
             new == [m.resource_state[r] EXCEPT !.last_handler_run = handler, !.last_deployed = TRUE]
  <1>1. n = [m EXCEPT !.resource_state = [m.resource_state EXCEPT ![r] = new]]
    BY DEF Models, ResourceStates, StaleModel
  <1>2. /\ new.compliance = m.resource_state[r].compliance
        /\ new.blocked = m.resource_state[r].blocked
        /\ new.last_handler_run = handler /\ new.last_deployed = TRUE
        /\ new.last_handler_run_compliant = m.resource_state[r].last_handler_run_compliant
    BY DEF Models, ResourceStates
  <1> HIDE DEF new, n
  <1>3. /\ n.intent = m.intent /\ n.requires = m.requires /\ n.dirty = m.dirty
        /\ n.resource_state[r] = new
        /\ \A x \in Resources \ {r} : n.resource_state[x] = m.resource_state[x]
    BY <1>1 DEF Models
  <1> QED BY <1>2, <1>3 DEF StaleRecorded, n
-----------------------------------------------------------------------------
(* What a new version does to the state of the scheduler *)

\* With a repair interval, update_timers keeps or sets the timer of every resource that is
\* not BLOCKED, if it was set before or the resource was deployed before.
LEMMA UpdateTimersCovers ==
    ASSUME PeriodicRepair, NEW t, NEW m, NEW S, NEW r, m.resource_state[r].blocked # "BLOCKED",
           r \in t \/ (r \in S /\ m.resource_state[r].last_deployed)
    PROVE  r \in update_timers(t, m, S)
  BY DEF update_timers

\* The state after a new version, from the model n that it computes before it calls
\* update_transitive_state, and the result o of that call.
VersionDone(v, recreated, c, n, o) ==
    LET undefined == became_undefined(model, v, c)
        dirty     == (n.dirty \ o.blocked) \cup {r \in o.unblocked : is_dirty(n.resource_state[r])}
        stopped   == c.deleted \cup undefined \cup o.blocked
    IN  /\ o.unblocked \subseteq (is_blocked(n) \cup o.blocked) \ is_undefined(n)
        /\ model'.dirty = dirty \ c.deleted
        /\ \A r \in c.deleted :
             model'.intent[r] = None /\ model'.requires[r] = {} /\ model'.resource_state[r] = NoState
        /\ \A r \in Resources \ c.deleted :
             /\ model'.intent[r] = n.intent[r] /\ model'.requires[r] = n.requires[r] \ c.deleted
             /\ SameButBlocked(n.resource_state[r], model'.resource_state[r])
             /\ \/ model'.resource_state[r].blocked = BlockedBy(n, o, r)
                \/ /\ recreated # {} /\ BlockedBy(n, o, r) = "TEMPORARILY_BLOCKED"
                   /\ model'.resource_state[r].blocked = "NOT_BLOCKED"
        /\ deploying_latest' = deploying_latest \ (c.deleted \cup c.new \cup c.updated \cup o.blocked)
        /\ deploying_unmanaged' = deploying_unmanaged \cup (deploying_latest \cap (c.new \cup c.deleted))
        /\ scheduled(work') \subseteq (scheduled(work) \cup dirty \cup deploying_latest') \ stopped
        /\ (scheduled(work) \cup (dirty \ deploying_latest')) \ stopped \subseteq scheduled(work')
        /\ \A r \in work'.waiting : \A d \in work'.blocked_on[r] :
             \/ r \in work.waiting /\ d \in work.blocked_on[r] \ dropped_requires(model, v)[r]
             \/ /\ d \in n.requires[r] \cup added_requires(model, v)[r]
                /\ d \in scheduled(work) \cup dirty \cup deploying_latest'
        /\ runner' = [x \in Agents |->
                        IF runner[x].pc = "deploying" /\ runner[x].resource \in c.new \cup c.deleted
                        THEN [runner[x] EXCEPT !.orphaned = TRUE] ELSE runner[x]]
        /\ \A r \in Resources \ c.deleted :
             (/\ PeriodicRepair /\ model'.resource_state[r].blocked # "BLOCKED"
              /\ \/ r \in timers \ (dirty \cup stopped)
                 \/ r \in o.unblocked \ dirty /\ model'.resource_state[r].last_deployed)
             => r \in timers'
        /\ UNCHANGED <<triggers, db_deploying, device>>

\* A new version is such a step.
LEMMA NewVersionEffect ==
    ASSUME TypeOK, NEW v \in Releases,
           NEW recreated \in SUBSET Resources, NEW reverted,
           NEW c, c = intent_changes(model, v, recreated, reverted),
           ProcessVersions(v, recreated, reverted)
    PROVE  /\ model \in Models /\ v \in ModelVersions /\ c \in IntentChanges
           /\ \E n \in Models :
                \E o \in update_transitive_state(n, became_undefined(model, v, c), Added(model, v),
                                                 became_defined(model, v, c) \cup Dropped(model, v)) :
                  /\ \E F \in SUBSET Resources : RequiresDone(model, v, c, n, F)
                  /\ VersionDone(v, recreated, c, n, o)
  <1>1. /\ model \in Models /\ work \in Works /\ v \in ModelVersions
        /\ recreated \in SUBSET Resources /\ deploying_latest \in SUBSET Resources
    BY ConstantsAssumption DEF TypeOK, managed, batch_resources
  <1>2. c \in IntentChanges
    BY <1>1, IntentChangesType
  <1>3. added_requires(model, v) \in Edges /\ dropped_requires(model, v) \in Edges
    BY <1>1, RequiresChangesType
  <1>4. PICK out \in updated_models(model, v, c, recreated) : process_version(v, recreated, reverted, out)
    BY Zenon DEF ProcessVersions
  <1>5. PICK o \in update_transitive_state(WithRequires(model, v, c), became_undefined(model, v, c),
                                           Added(model, v), became_defined(model, v, c) \cup Dropped(model, v)) :
          /\ out.model = reset_requires(o.model, recreated)
          /\ out.blocked = o.blocked /\ out.unblocked = o.unblocked
          /\ o.model \in Models /\ WithRequires(model, v, c) \in Models
    <2>1. PICK mm \in Models, vv \in ModelVersions, cc \in IntentChanges : mm = model /\ vv = v /\ cc = c
      BY <1>1, <1>2
    <2>2. out \in updated_models(mm, vv, cc, recreated)
      BY <2>1, Zenon
    <2>3. \E o \in update_transitive_state(WithRequires(mm, vv, cc), became_undefined(mm, vv, cc), Added(mm, vv),
                                            became_defined(mm, vv, cc) \cup Dropped(mm, vv)) :
             /\ out.model = reset_requires(o.model, recreated)
             /\ out.blocked = o.blocked /\ out.unblocked = o.unblocked
             /\ o.model \in Models /\ WithRequires(mm, vv, cc) \in Models
      BY <2>2, UpdatedModelsResult, Zenon
    <2> QED BY <2>1, <2>3, Zenon
  <1>6. PICK n \in Models : n = WithRequires(model, v, c)
    BY <1>5
  <1>7. Added(model, v) \in SUBSET Resources
    BY DEF Added
  <1>8. /\ o.model.intent = n.intent /\ o.model.requires = n.requires
        /\ o.unblocked \subseteq Resources
        /\ o.unblocked \subseteq (is_blocked(n) \cup o.blocked) \ is_undefined(n)
        /\ o.model.dirty = (n.dirty \ o.blocked) \cup {r \in o.unblocked : is_dirty(n.resource_state[r])}
        /\ \A r \in Resources : /\ SameButBlocked(n.resource_state[r], o.model.resource_state[r])
                                /\ o.model.resource_state[r].blocked = BlockedBy(n, o, r)
    <2>1. PICK AA \in SUBSET Resources : AA = Added(model, v)
      BY <1>7
    <2>2. PICK UU, DD : UU = became_undefined(model, v, c)
                        /\ DD = became_defined(model, v, c) \cup Dropped(model, v)
      OBVIOUS
    <2>3. o \in update_transitive_state(n, UU, AA, DD)
      BY <1>5, <1>6, <2>1, <2>2
    <2>4. TransitiveDone(n, o)
      BY <2>3, TransitiveStateResult
    <2> QED BY <2>4 DEF TransitiveDone
  <1>9. PICK m \in Models : m = out.model
    BY <1>5, ResetRequiresType
  <1>10. /\ m.intent = n.intent /\ m.requires = n.requires /\ m.dirty = o.model.dirty
         /\ \A r \in Resources :
              /\ SameButBlocked(n.resource_state[r], m.resource_state[r])
              /\ \/ m.resource_state[r].blocked = BlockedBy(n, o, r)
                 \/ /\ recreated # {} /\ BlockedBy(n, o, r) = "TEMPORARILY_BLOCKED"
                    /\ m.resource_state[r].blocked = "NOT_BLOCKED"
    <2>1. PICK k \in Models : k = o.model
      BY <1>5
    <2>2. m = reset_requires(k, recreated)
      BY <1>5, <1>9, <2>1
    <2>3. m.requires = k.requires
      BY <2>2, ResetRequiresType
    <2>4. /\ m.intent = k.intent /\ m.dirty = k.dirty
          /\ \A r \in Resources :
               /\ SameButBlocked(k.resource_state[r], m.resource_state[r])
               /\ \/ m.resource_state[r].blocked = k.resource_state[r].blocked
                  \/ /\ recreated # {}
                     /\ k.resource_state[r].blocked = "TEMPORARILY_BLOCKED"
                     /\ m.resource_state[r].blocked = "NOT_BLOCKED"
      BY <2>2, ResetRequiresState
    <2> QED BY <1>8, <2>1, <2>3, <2>4 DEF SameButBlocked
  <1> DEFINE undefined == became_undefined(model, v, c)
             stopped   == c.deleted \cup undefined \cup o.blocked
             deploying == deploying_latest \ (c.deleted \cup c.new \cup c.updated \cup o.blocked)
             S == (o.unblocked \cup dependants(m, recreated)) \ m.dirty
             q == [resources |-> m.dirty, deploying |-> deploying,
                   added_requires |-> added_requires(model, v),
                   dropped_requires |-> dropped_requires(model, v),
                   force_deploy |-> FALSE]
  <1>11. /\ deploying_unmanaged' = deploying_unmanaged \cup (deploying_latest \cap (c.new \cup c.deleted))
         /\ deploying_latest' = deploying
         /\ timers' = update_timers(timers \ (m.dirty \cup undefined \cup o.blocked \cup c.deleted), m, S)
         /\ work' = delete_resources(deploy_with_context(work, m.requires, q), stopped)
         /\ model' = drop(m, c.deleted)
         /\ runner' = [x \in Agents |->
                        IF runner[x].pc = "deploying" /\ runner[x].resource \in c.new \cup c.deleted
                        THEN [runner[x] EXCEPT !.orphaned = TRUE] ELSE runner[x]]
         /\ UNCHANGED <<triggers, db_deploying, device>>
    BY <1>4, <1>5, <1>9 DEF process_version, still_latest, remaining_timers
  <1> HIDE DEF undefined, S
  <1>12. q \in Requests /\ q.resources = m.dirty /\ q.deploying = deploying /\ queued_cache(q) = deploying
    BY <1>1, <1>3 DEF Requests, Models, queued_cache
  <1> HIDE DEF q
  <1>13. deploy_with_context(work, m.requires, q) \in Works
    BY <1>1, <1>12, DeployWithContextType DEF Models
  <1>14. /\ scheduled(work') \subseteq (scheduled(work) \cup m.dirty \cup deploying) \ stopped
         /\ (scheduled(work) \cup (m.dirty \ deploying)) \ stopped \subseteq scheduled(work')
    <2>1. scheduled(work') = scheduled(deploy_with_context(work, m.requires, q)) \ stopped
      BY <1>11, <1>13, OtherScheduled
    <2> HIDE DEF stopped, deploying
    <2>2. /\ scheduled(work) \subseteq scheduled(deploy_with_context(work, m.requires, q))
          /\ scheduled(deploy_with_context(work, m.requires, q)) \subseteq scheduled(work) \cup q.resources \cup q.deploying
          /\ q.resources \subseteq scheduled(deploy_with_context(work, m.requires, q)) \cup queued_cache(q)
      BY <1>1, <1>12, DeployWithContextScheduled
    <2> QED BY <1>12, <2>1, <2>2
  <1>b. \A r \in work'.waiting : \A d \in work'.blocked_on[r] :
           \/ r \in work.waiting /\ d \in work.blocked_on[r] \ dropped_requires(model, v)[r]
           \/ /\ d \in n.requires[r] \cup added_requires(model, v)[r]
              /\ d \in scheduled(work) \cup m.dirty \cup deploying
    <2> DEFINE w == deploy_with_context(work, m.requires, q)
    <2>1. \A r \in work'.waiting : r \in w.waiting /\ work'.blocked_on[r] \subseteq w.blocked_on[r]
      <3> HIDE DEF stopped, w
      <3>1. w \in Works /\ work' = delete_resources(w, stopped)
        BY <1>11, <1>13 DEF w
      <3> QED BY <3>1 DEF delete_resources, Works
    <2>2. m.requires \in Edges
      BY <1>9 DEF Models
    <2>3. q.added_requires = added_requires(model, v) /\ q.dropped_requires = dropped_requires(model, v)
      BY DEF q
    <2> HIDE DEF stopped, deploying, w
    <2>4. ASSUME NEW r \in w.waiting, NEW d \in w.blocked_on[r]
          PROVE  \/ r \in work.waiting /\ d \in work.blocked_on[r] \ q.dropped_requires[r]
                 \/ /\ d \in m.requires[r] \cup q.added_requires[r]
                    /\ d \in scheduled(work) \cup q.resources \cup q.deploying
      BY <1>1, <1>12, <2>2, DeployWithContextBlockers DEF w
    <2> QED BY <1>10, <1>12, <2>1, <2>3, <2>4
  <1>15. /\ model'.dirty = m.dirty \ c.deleted
         /\ \A r \in Resources :
              /\ model'.intent[r] = IF r \in c.deleted THEN None ELSE m.intent[r]
              /\ model'.requires[r] = IF r \in c.deleted THEN {} ELSE m.requires[r] \ c.deleted
              /\ model'.resource_state[r] = IF r \in c.deleted THEN NoState ELSE m.resource_state[r]
    BY <1>11 DEF drop, drop_edges
  <1>16. c.deleted \subseteq Resources
    BY <1>2 DEF IntentChanges
  <1>17. ASSUME NEW r \in Resources \ c.deleted, PeriodicRepair, model'.resource_state[r].blocked # "BLOCKED",
                \/ r \in timers \ (m.dirty \cup stopped)
                \/ r \in o.unblocked \ m.dirty /\ model'.resource_state[r].last_deployed
         PROVE  r \in timers'
    <2>1. model'.resource_state[r] = m.resource_state[r]
      BY <1>15, <1>17
    <2>2. \/ r \in timers \ (m.dirty \cup undefined \cup o.blocked \cup c.deleted)
          \/ r \in S /\ m.resource_state[r].last_deployed
      BY <1>17, <2>1 DEF S
    <2> QED BY <1>11, <1>17, <2>1, <2>2, UpdateTimersCovers
  <1>18. VersionDone(v, recreated, c, n, o)
    <2> DEFINE dirty == (n.dirty \ o.blocked) \cup {r \in o.unblocked : is_dirty(n.resource_state[r])}
    <2>1. m.dirty = dirty
      BY <1>8, <1>10
    <2> HIDE DEF dirty, stopped
    <2>2. /\ model'.dirty = dirty \ c.deleted
          /\ \A r \in c.deleted :
               model'.intent[r] = None /\ model'.requires[r] = {} /\ model'.resource_state[r] = NoState
          /\ \A r \in Resources \ c.deleted :
               /\ model'.intent[r] = n.intent[r] /\ model'.requires[r] = n.requires[r] \ c.deleted
               /\ SameButBlocked(n.resource_state[r], model'.resource_state[r])
               /\ \/ model'.resource_state[r].blocked = BlockedBy(n, o, r)
                  \/ /\ recreated # {} /\ BlockedBy(n, o, r) = "TEMPORARILY_BLOCKED"
                     /\ model'.resource_state[r].blocked = "NOT_BLOCKED"
      BY <1>10, <1>15, <1>16, <2>1
    <2>3. \A r \in Resources \ c.deleted :
             (/\ PeriodicRepair /\ model'.resource_state[r].blocked # "BLOCKED"
              /\ \/ r \in timers \ (dirty \cup stopped)
                 \/ r \in o.unblocked \ dirty /\ model'.resource_state[r].last_deployed)
             => r \in timers'
      BY <1>17, <2>1
    <2>4. /\ scheduled(work') \subseteq (scheduled(work) \cup dirty \cup deploying_latest') \ stopped
          /\ (scheduled(work) \cup (dirty \ deploying_latest')) \ stopped \subseteq scheduled(work')
      BY <1>11, <1>14, <2>1
    <2>5. \A r \in work'.waiting : \A d \in work'.blocked_on[r] :
             \/ r \in work.waiting /\ d \in work.blocked_on[r] \ dropped_requires(model, v)[r]
             \/ /\ d \in n.requires[r] \cup added_requires(model, v)[r]
                /\ d \in scheduled(work) \cup dirty \cup deploying_latest'
      BY <1>11, <1>b, <2>1
    <2> QED BY <1>8, <1>11, <2>2, <2>3, <2>4, <2>5 DEF VersionDone, dirty, stopped, undefined
  <1>19. \E F \in SUBSET Resources : RequiresDone(model, v, c, n, F)
    <2>1. PICK mm \in Models, vv \in ModelVersions, cc \in IntentChanges : mm = model /\ vv = v /\ cc = c
      BY <1>1, <1>2
    <2>2. \E F \in SUBSET Resources : RequiresDone(mm, vv, cc, WithRequires(mm, vv, cc), F)
      BY WithRequiresState
    <2> QED BY <1>6, <2>1, <2>2, Zenon
  <1>20. o \in update_transitive_state(n, became_undefined(model, v, c), Added(model, v),
                                       became_defined(model, v, c) \cup Dropped(model, v))
    BY <1>5, <1>6, Zenon
  <1> QED BY <1>1, <1>2, <1>18, <1>19, <1>20, Zenon
-----------------------------------------------------------------------------
(* A blocked resource is not scheduled *)

(***************************************************************************)
(* BlockedNotScheduled is inductive together with what _new_version relies *)
(* on: every undefined resource is BLOCKED already (so its task need not   *)
(* be deleted again), and no BLOCKED resource counts as being deployed     *)
(* with its latest intent (extend_blocked_on would create a task for it).  *)
(***************************************************************************)
BlockedInvariant ==
    /\ BlockedNotScheduled
    /\ deploying_latest \cap is_blocked(model) = {}
    /\ is_undefined(model) \subseteq is_blocked(model)

\* A step that blocks no resource, makes none undefined, and adds to the dirty set, to the
\* work and to deploying_latest only resources that may be deployed, keeps it.
LEMMA NothingBlocked ==
    ASSUME BlockedInvariant,
           is_blocked(model') \subseteq is_blocked(model),
           is_undefined(model') \subseteq is_undefined(model) \cap is_blocked(model'),
           model'.dirty \subseteq model.dirty \cup (Resources \ is_blocked(model)),
           scheduled(work') \subseteq scheduled(work) \cup model.dirty \cup deploying_latest
                                        \cup (Resources \ is_blocked(model)),
           deploying_latest' \subseteq deploying_latest \cup (Resources \ is_blocked(model))
    PROVE  BlockedInvariant'
  BY DEF BlockedInvariant, BlockedNotScheduled

\* A step that leaves the model alone blocks nothing.
LEMMA ModelUnchanged ==
    ASSUME BlockedInvariant, model' = model,
           scheduled(work') \subseteq scheduled(work) \cup model.dirty \cup deploying_latest
                                        \cup (Resources \ is_blocked(model)),
           deploying_latest' \subseteq deploying_latest \cup (Resources \ is_blocked(model))
    PROVE  BlockedInvariant'
  <1>1. is_blocked(model') = is_blocked(model) /\ is_undefined(model') = is_undefined(model)
    OBVIOUS
  <1>2. is_undefined(model) \subseteq is_blocked(model)
    BY DEF BlockedInvariant
  <1> QED BY <1>1, <1>2, NothingBlocked

\* A deploy request creates tasks for its resources and for in-progress deploys only.
LEMMA RequestScheduled ==
    ASSUME TypeOK, NEW S \in SUBSET Resources
    PROVE  /\ scheduled(work) \subseteq scheduled(deploy_with_context(work, model.requires, DeployRequest(S, deploying_latest)))
           /\ scheduled(deploy_with_context(work, model.requires, DeployRequest(S, deploying_latest)))
                \subseteq scheduled(work) \cup S \cup deploying_latest
           /\ S \subseteq deploying_latest \cup
                scheduled(deploy_with_context(work, model.requires, DeployRequest(S, deploying_latest)))
  <1> DEFINE q == DeployRequest(S, deploying_latest)
  <1>1. deploying_latest \in SUBSET Resources /\ work \in Works
    BY DEF TypeOK
  <1>2. q \in Requests /\ q.resources = S /\ q.deploying = deploying_latest /\ queued_cache(q) = deploying_latest
    BY <1>1, DeployRequestType DEF DeployRequest, queued_cache
  <1> HIDE DEF q
  <1>3. /\ scheduled(work) \subseteq scheduled(deploy_with_context(work, model.requires, q))
        /\ scheduled(deploy_with_context(work, model.requires, q)) \subseteq scheduled(work) \cup q.resources \cup q.deploying
        /\ q.resources \subseteq scheduled(deploy_with_context(work, model.requires, q)) \cup queued_cache(q)
    BY <1>1, <1>2, DeployWithContextScheduled
  <1> QED BY <1>2, <1>3 DEF q

\* Nor does the end of a deploy: it may only end that a resource is TEMPORARILY_BLOCKED.
LEMMA ReportBlocksNothing ==
    ASSUME TypeOK, BlockedInvariant, NEW m \in Models, NEW deploying \in SUBSET deploying_latest,
           NEW r \in Resources, NEW stale, NEW rec,
           send_events(m, deploying, r, stale, rec), deploying_latest' = deploying,
           m.intent = model.intent, is_blocked(m) = is_blocked(model),
           is_undefined(m) \subseteq is_undefined(model),
           m.dirty \subseteq model.dirty \cup (Resources \ is_blocked(model))
    PROVE  BlockedInvariant'
  <1>1. deploying \in SUBSET Resources /\ work \in Works
    BY DEF TypeOK
  <1>2. PICK L, R : L = Listening(m, r, stale, rec) /\ R = Recovering(m, r, rec)
    OBVIOUS
  <1>3. /\ model'.intent = m.intent
        /\ model'.dirty = m.dirty \cup R
        /\ \A d \in Resources :
             /\ model'.resource_state[d].compliance = m.resource_state[d].compliance
             /\ model'.resource_state[d].blocked = IF d \in R THEN "NOT_BLOCKED" ELSE m.resource_state[d].blocked
        /\ \A d \in R : m.resource_state[d].blocked = "TEMPORARILY_BLOCKED"
        /\ R \subseteq L /\ L \subseteq managed(m) \ is_blocked(m)
        /\ scheduled(work') \subseteq scheduled(work) \cup L \cup deploying
    <2>1. /\ \A d \in Resources :
               /\ SameButBlocked(m.resource_state[d], model'.resource_state[d])
               /\ model'.resource_state[d].blocked = IF d \in Recovering(m, r, rec) THEN "NOT_BLOCKED"
                                                     ELSE m.resource_state[d].blocked
          /\ \A d \in Recovering(m, r, rec) : m.resource_state[d].blocked = "TEMPORARILY_BLOCKED"
          /\ model'.intent = m.intent
          /\ model'.dirty = m.dirty \cup Recovering(m, r, rec)
          /\ Recovering(m, r, rec) \subseteq Listening(m, r, stale, rec)
          /\ Listening(m, r, stale, rec) \subseteq managed(m) \ is_blocked(m)
          /\ scheduled(work') \subseteq scheduled(work) \cup Listening(m, r, stale, rec) \cup deploying
      BY <1>1, SendEventsEffect
    <2> QED BY <1>2, <2>1 DEF SameButBlocked
  <1>4. is_blocked(model') = is_blocked(m) /\ is_undefined(model') = is_undefined(m)
    BY <1>3 DEF is_blocked, is_undefined, managed
  <1>5. L \subseteq Resources \ is_blocked(model)
    BY <1>3 DEF managed
  <1>6. is_undefined(model) \subseteq is_blocked(model)
    BY DEF BlockedInvariant
  <1>7. /\ is_blocked(model') \subseteq is_blocked(model)
        /\ is_undefined(model') \subseteq is_undefined(model) \cap is_blocked(model')
    BY <1>4, <1>6
  <1>8. /\ model'.dirty \subseteq model.dirty \cup (Resources \ is_blocked(model))
        /\ scheduled(work') \subseteq scheduled(work) \cup model.dirty \cup deploying_latest
                                        \cup (Resources \ is_blocked(model))
        /\ deploying_latest' \subseteq deploying_latest \cup (Resources \ is_blocked(model))
    BY <1>3, <1>5
  <1> QED BY <1>7, <1>8, NothingBlocked

\* A new version keeps it: what is blocked afterwards was blocked before and not scheduled,
\* or became blocked and has its task deleted.
LEMMA NewVersionBlocked ==
    ASSUME TypeOK, BlockedInvariant, NEW v \in Releases,
           NEW recreated \in SUBSET Resources, NEW reverted,
           ProcessVersions(v, recreated, reverted)
    PROVE  BlockedInvariant'
  <1>1. PICK c : c = intent_changes(model, v, recreated, reverted)
    OBVIOUS
  <1>2. PICK U : U = became_undefined(model, v, c)
    OBVIOUS
  <1>3. /\ model \in Models /\ v \in ModelVersions /\ c \in IntentChanges
        /\ \E n \in Models :
             \E o \in update_transitive_state(n, became_undefined(model, v, c), Added(model, v),
                                              became_defined(model, v, c) \cup Dropped(model, v)) :
               /\ \E F \in SUBSET Resources : RequiresDone(model, v, c, n, F)
               /\ VersionDone(v, recreated, c, n, o)
    BY <1>1, NewVersionEffect
  <1>4. PICK n, o, F :
          n \in Models /\ RequiresDone(model, v, c, n, F) /\ VersionDone(v, recreated, c, n, o)
    BY <1>3, Zenon
  <1>5. /\ c.updated \subseteq managed(model) \ c.new
        /\ \A r \in U : r \in c.new \cup c.updated
        /\ \A r \in c.new \cup c.updated : r \in v.undefined => r \in U \cup is_undefined(model)
    BY <1>1, <1>2 DEF became_undefined, intent_changes
  <1>c. c.new \subseteq Resources /\ c.updated \subseteq Resources /\ c.deleted \subseteq Resources
    BY <1>3 DEF IntentChanges
  <1> DEFINE changed == c.new \cup c.updated
             dirty   == (n.dirty \ o.blocked) \cup {r \in o.unblocked : is_dirty(n.resource_state[r])}
             stopped == c.deleted \cup U \cup o.blocked
  <1>6. /\ n.dirty = (model.dirty \ changed) \cup F
                       \cup {r \in changed : r \notin v.undefined
                               /\ (r \in c.new \/ model.resource_state[r].blocked # "BLOCKED")}
        /\ F \cap changed = {}
        /\ \A r \in Resources :
             /\ r \notin changed => /\ n.intent[r] = model.intent[r]
                                    /\ n.resource_state[r].compliance = model.resource_state[r].compliance
                                    /\ n.resource_state[r].blocked = IF r \in F THEN "NOT_BLOCKED"
                                                                     ELSE model.resource_state[r].blocked
             /\ r \in F => model.resource_state[r].blocked = "TEMPORARILY_BLOCKED"
             /\ r \in changed => n.resource_state[r].compliance = IF r \in v.undefined THEN "UNDEFINED" ELSE "HAS_UPDATE"
             /\ r \in c.new => n.resource_state[r].blocked = IF r \in v.undefined THEN "BLOCKED" ELSE "NOT_BLOCKED"
             /\ r \in c.updated \ c.new =>
                  n.resource_state[r].blocked = IF r \in v.undefined \/ model.resource_state[r].blocked = "BLOCKED"
                                                THEN "BLOCKED" ELSE "NOT_BLOCKED"
    BY <1>4 DEF RequiresDone, SameButBlocked
  <1>7. /\ o.unblocked \cap is_undefined(n) = {}
        /\ model'.dirty = dirty \ c.deleted
        /\ \A r \in c.deleted : model'.intent[r] = None
        /\ \A r \in Resources \ c.deleted :
             /\ model'.intent[r] = n.intent[r]
             /\ model'.resource_state[r].compliance = n.resource_state[r].compliance
             /\ model'.resource_state[r].blocked = "BLOCKED" <=> BlockedBy(n, o, r) = "BLOCKED"
        /\ deploying_latest' = deploying_latest \ (c.deleted \cup changed \cup o.blocked)
        /\ scheduled(work') \subseteq (scheduled(work) \cup dirty \cup deploying_latest') \ stopped
    BY <1>2, <1>4 DEF VersionDone, SameButBlocked
  <1> HIDE DEF dirty, stopped
  \* What is blocked in the new version.
  <1>8. ASSUME NEW r \in is_blocked(model')
        PROVE  /\ r \in Resources \ c.deleted /\ r \notin o.unblocked
               /\ \/ r \in o.blocked
                  \/ r \in changed /\ r \in v.undefined /\ r \in U
                  \/ /\ r \in is_blocked(model) /\ r \notin F
                     /\ r \in changed => (r \in v.undefined \/ r \notin c.new)
    <2>1. /\ r \in Resources /\ model'.intent[r] # None /\ model'.resource_state[r].blocked = "BLOCKED"
      BY DEF is_blocked, managed
    <2>2. r \notin c.deleted
      BY <1>7, <2>1
    <2>3. r \notin o.unblocked /\ (r \in o.blocked \/ n.resource_state[r].blocked = "BLOCKED")
      BY <1>7, <2>1, <2>2 DEF BlockedBy
    <2>4. ASSUME r \notin o.blocked, r \notin changed PROVE r \in is_blocked(model) /\ r \notin F
      BY <1>6, <1>7, <2>1, <2>2, <2>3, <2>4 DEF is_blocked, managed
    <2>5. ASSUME r \in changed, r \in v.undefined, r \notin U PROVE r \in is_blocked(model) /\ r \notin F
      BY <1>5, <1>6, <2>5 DEF BlockedInvariant
    <2>6. ASSUME r \notin o.blocked, r \in changed, r \notin v.undefined
          PROVE  r \in is_blocked(model) /\ r \notin F /\ r \notin c.new
      <3>1. r \notin c.new
        BY <1>6, <2>1, <2>3, <2>6
      <3>2. r \in managed(model) /\ model.resource_state[r].blocked = "BLOCKED"
        BY <1>5, <1>6, <2>1, <2>3, <2>6, <3>1
      <3> QED BY <1>6, <2>6, <3>1, <3>2 DEF is_blocked
    <2> QED BY <2>1, <2>2, <2>3, <2>4, <2>5, <2>6
  <1>9. ASSUME NEW r \in is_blocked(model') PROVE r \notin dirty
    <2>1. r \in Resources /\ r \notin o.unblocked
      BY <1>8
    <2>2. CASE r \in o.blocked
      BY <2>1, <2>2 DEF dirty
    <2>3. CASE r \in changed /\ r \in v.undefined
      BY <1>6, <2>1, <2>3 DEF dirty
    <2>4. CASE r \in is_blocked(model) /\ r \notin F /\ (r \in changed => (r \in v.undefined \/ r \notin c.new))
      <3>1. r \notin model.dirty /\ model.resource_state[r].blocked = "BLOCKED"
        BY <2>4 DEF BlockedInvariant, BlockedNotScheduled, is_blocked
      <3>2. r \notin n.dirty
        BY <1>6, <2>4, <3>1
      <3> QED BY <2>1, <3>2 DEF dirty
    <2> QED BY <1>8, <2>2, <2>3, <2>4
  <1>10. is_blocked(model') \cap deploying_latest' = {}
    <2> SUFFICES ASSUME NEW r \in is_blocked(model'), r \in deploying_latest' PROVE FALSE
      OBVIOUS
    <2>1. r \in deploying_latest /\ r \notin changed /\ r \notin o.blocked
      BY <1>7
    <2> QED BY <1>8, <2>1 DEF BlockedInvariant
  <1>11. is_blocked(model') \cap scheduled(work') = {}
    <2> SUFFICES ASSUME NEW r \in is_blocked(model'), r \in scheduled(work') PROVE FALSE
      OBVIOUS
    <2>1. r \in scheduled(work) /\ r \notin U /\ r \notin o.blocked
      BY <1>7, <1>9, <1>10 DEF stopped
    <2> QED BY <1>8, <2>1 DEF BlockedInvariant, BlockedNotScheduled
  <1>12. is_undefined(model') \subseteq is_blocked(model')
    <2> SUFFICES ASSUME NEW r \in is_undefined(model') PROVE r \in is_blocked(model')
      OBVIOUS
    <2>1. r \in Resources /\ model'.intent[r] # None /\ model'.resource_state[r].compliance = "UNDEFINED"
      BY DEF is_undefined, managed
    <2>2. r \in Resources \ c.deleted /\ n.intent[r] # None /\ n.resource_state[r].compliance = "UNDEFINED"
      BY <1>7, <2>1
    <2>3. r \notin o.unblocked
      BY <1>7, <2>2 DEF is_undefined, managed
    <2>4. n.resource_state[r].blocked = "BLOCKED"
      <3>1. CASE r \in changed
        BY <1>6, <2>2, <3>1
      <3>2. CASE r \notin changed
        <4>1. r \in is_undefined(model)
          BY <1>6, <2>2, <3>2 DEF is_undefined, managed
        <4>2. model.resource_state[r].blocked = "BLOCKED"
          BY <4>1 DEF BlockedInvariant, is_blocked
        <4> QED BY <1>6, <2>2, <3>2, <4>2
      <3> QED BY <3>1, <3>2
    <2> QED BY <1>7, <2>1, <2>2, <2>3, <2>4 DEF is_blocked, managed, BlockedBy
  <1> QED BY <1>7, <1>9, <1>10, <1>11, <1>12 DEF BlockedInvariant, BlockedNotScheduled

\* The model once a report is recorded, for the stale one and the latest one.
LEMMA StaleReport ==
    ASSUME TypeOK, NEW x \in Agents, NEW result \in Reports, DeployDoneStale(x, result)
    PROVE  \E m \in Models, handler \in HandlerResults :
             LET r == runner[x].resource
             IN  /\ handler = from_handler_resource_state(result)
                 /\ r \in Resources /\ r \in managed(model) /\ r \notin deploying_unmanaged
                 /\ is_stale(model, r, runner[x].hash)
                 /\ send_events(m, deploying_latest, r, TRUE, recovered(model, r, result))
                 /\ StaleRecorded(model, m, r, handler)
  <1>1. PICK r : r = runner[x].resource
    OBVIOUS
  <1>2. PICK handler : handler = from_handler_resource_state(result)
    OBVIOUS
  <1>3. PICK m : m = [model EXCEPT !.resource_state[r].last_handler_run = handler,
                                   !.resource_state[r].last_deployed = TRUE]
    OBVIOUS
  <1>4. /\ r \in managed(model) /\ r \notin deploying_unmanaged /\ is_stale(model, r, runner[x].hash)
        /\ send_events(m, deploying_latest, r, TRUE, recovered(model, r, result))
    BY <1>1, <1>2, <1>3 DEF DeployDoneStale
  <1>5. /\ model \in Models /\ r \in Resources /\ result \in HandlerResourceStates
        /\ handler \in HandlerResults
    BY <1>2, <1>4, HandlerResultType, ConstantsAssumption DEF TypeOK, managed
  <1>6. m \in Models
    BY <1>2, <1>3, <1>5, StaleResultType
  <1>7. StaleRecorded(model, m, r, handler)
    <2>1. PICK mm \in Models : mm = model
      BY <1>5
    <2>2. StaleRecorded(mm, StaleModel(mm, r, handler), r, handler)
      BY <1>5, StaleModelState
    <2>3. m = StaleModel(model, r, handler)
      BY <1>3 DEF StaleModel
    <2> QED BY <2>1, <2>2, <2>3, Zenon
  <1> QED BY <1>1, <1>2, <1>4, <1>5, <1>6, <1>7

\* That is what a report that is not stale does before its events are sent.
LEMMA LatestReport ==
    ASSUME TypeOK, NEW x \in Agents, NEW result \in Reports, DeployDoneLatest(x, result)
    PROVE  \E m \in Models :
             LET r == runner[x].resource
             IN  /\ r \in Resources /\ r \in managed(model) /\ r \notin deploying_unmanaged
                 /\ ~is_stale(model, r, runner[x].hash) /\ r \in deploying_latest
                 /\ deploying_latest' = deploying_latest \ {r}
                 /\ send_events(m, deploying_latest \ {r}, r, FALSE, recovered(model, r, result))
                 /\ Reported(model, m, r, result)
                 /\ m = deployed_model(model, r, result)
  <1>1. PICK r : r = runner[x].resource
    OBVIOUS
  <1>2. PICK m : m = deployed_model(model, r, result)
    OBVIOUS
  <1>3. /\ r \in managed(model) /\ r \notin deploying_unmanaged
        /\ ~is_stale(model, r, runner[x].hash) /\ r \in deploying_latest
        /\ deploying_latest' = deploying_latest \ {r}
        /\ send_events(m, deploying_latest \ {r}, r, FALSE, recovered(model, r, result))
    BY <1>1, <1>2 DEF DeployDoneLatest
  <1>4. model \in Models /\ r \in Resources /\ result \in HandlerResourceStates
    BY <1>3, ConstantsAssumption DEF TypeOK, managed
  <1>5. m \in Models
    BY <1>2, <1>4, DeployedModelType
  <1>6. Reported(model, m, r, result)
    <2>1. PICK mm \in Models : mm = model
      BY <1>4
    <2>2. Reported(mm, deployed_model(mm, r, result), r, result)
      BY <1>4, DeployedModelState
    <2> QED BY <1>2, <2>1, <2>2, Zenon
  <1> QED BY <1>1, <1>2, <1>3, <1>4, <1>5, <1>6

\* Every step of the scheduler keeps the blocked invariant.
LEMMA BlockedStep ==
    ASSUME TypeOK, BlockedInvariant, [SchedulerStep]_vars
    PROVE  BlockedInvariant'
  <1> DEFINE Goal == BlockedInvariant'
  <1> HIDE DEF Goal
  <1>0. /\ model \in Models /\ work \in Works /\ deploying_latest \in SUBSET Resources
        /\ model.dirty \in SUBSET Resources
    BY DEF TypeOK, Models
  <1>u. ASSUME model' = model, scheduled(work') \subseteq scheduled(work),
               deploying_latest' \subseteq deploying_latest \cup (Resources \ is_blocked(model))
        PROVE Goal
    BY <1>u, ModelUnchanged DEF Goal
  <1>1. ASSUME NEW S \in SUBSET Resources, Deploy(S) PROVE Goal
    <2>1. PICK T \in SUBSET Resources : T = model.dirty \cap S
      BY <1>0
    <2>2. /\ model' = model /\ deploying_latest' = deploying_latest
          /\ work' = deploy_with_context(work, model.requires, DeployRequest(T, deploying_latest))
      BY <1>1, <2>1 DEF Deploy
    <2>3. scheduled(work') \subseteq scheduled(work) \cup T \cup deploying_latest
      BY <2>2, RequestScheduled
    <2>4. scheduled(work') \subseteq scheduled(work) \cup model.dirty \cup deploying_latest
      BY <2>1, <2>3
    <2> QED BY <2>2, <2>4, ModelUnchanged DEF Goal
  <1>2. ASSUME NEW S \in SUBSET Resources, Repair(S) PROVE Goal
    <2>1. PICK T \in SUBSET Resources : T = (managed(model) \ is_blocked(model)) \cap S
      BY ManagedType
    <2>2. /\ model' = [model EXCEPT !.dirty = @ \cup T] /\ deploying_latest' = deploying_latest
          /\ work' = deploy_with_context(work, model.requires, DeployRequest(T, deploying_latest))
      BY <1>2, <2>1 DEF Repair
    <2>3. scheduled(work') \subseteq scheduled(work) \cup T \cup deploying_latest
      BY <2>2, RequestScheduled
    <2>4. T \subseteq Resources \ is_blocked(model)
      BY <2>1
    <2>5. /\ model'.intent = model.intent /\ model'.resource_state = model.resource_state
          /\ model'.dirty = model.dirty \cup T
      BY <1>0, <2>2 DEF Models
    <2>6. is_blocked(model') = is_blocked(model) /\ is_undefined(model') = is_undefined(model)
      BY <2>5 DEF is_blocked, is_undefined, managed
    <2>7. is_undefined(model) \subseteq is_blocked(model)
      BY DEF BlockedInvariant
    <2>8. /\ is_blocked(model') \subseteq is_blocked(model)
          /\ is_undefined(model') \subseteq is_undefined(model) \cap is_blocked(model')
          /\ model'.dirty \subseteq model.dirty \cup (Resources \ is_blocked(model))
          /\ scheduled(work') \subseteq scheduled(work) \cup model.dirty \cup deploying_latest
                                          \cup (Resources \ is_blocked(model))
          /\ deploying_latest' \subseteq deploying_latest \cup (Resources \ is_blocked(model))
      BY <2>2, <2>3, <2>4, <2>5, <2>6, <2>7
    <2> QED BY <2>8, NothingBlocked DEF Goal
  <1>3. ASSUME NEW r \in Resources, TimerFires(r) PROVE Goal
    BY <1>3, <1>u DEF TimerFires
  <1>4. ASSUME NEW r \in Resources, DeployResource(r) PROVE Goal
    <2>1. model' = model /\ deploying_latest' = deploying_latest
      BY <1>4 DEF DeployResource
    <2>2. CASE r \in managed(model) \ is_blocked(model)
      <3>1. PICK T \in SUBSET Resources : T = {r}
        OBVIOUS
      <3>2. work' = deploy_with_context(work, model.requires, DeployRequest(T, deploying_latest))
        BY <1>4, <2>2, <3>1 DEF DeployResource
      <3>3. scheduled(work') \subseteq scheduled(work) \cup T \cup deploying_latest
        BY <3>2, RequestScheduled
      <3>4. T \subseteq Resources \ is_blocked(model)
        BY <2>2, <3>1
      <3> QED BY <2>1, <3>3, <3>4, ModelUnchanged DEF Goal
    <2>3. CASE r \notin managed(model) \ is_blocked(model)
      <3>1. work' = work
        BY <1>4, <2>3 DEF DeployResource
      <3> QED BY <1>u, <2>1, <3>1
    <2> QED BY <2>2, <2>3
  <1>5. ASSUME NEW v \in Releases,
               NEW recreated \in SUBSET Resources, NEW reverted,
               ProcessVersions(v, recreated, reverted)
        PROVE Goal
    BY <1>5, NewVersionBlocked DEF Goal
  <1>6. ASSUME NEW x \in Agents, NEW r \in Resources, QueueGet(x, r) PROVE Goal
    BY <1>0, <1>6, <1>u, OtherScheduled DEF QueueGet
  <1>7. ASSUME NEW x \in Agents, DeployStart(x) \/ DeployStartStale(x) \/ DeployStartRaises(x) PROVE Goal
    BY <1>7, <1>u, ManagedType DEF DeployStart, DeployStartStale, DeployStartRaises
  <1>8. ASSUME NEW x \in Agents, NEW result \in Reports, DeployDoneUnmanaged(x, result) PROVE Goal
    BY <1>8, <1>u DEF DeployDoneUnmanaged
  <1>9. ASSUME NEW x \in Agents, NEW result \in Reports, DeployDoneStale(x, result) PROVE Goal
    <2>1. PICK r \in Resources, m \in Models, handler \in HandlerResults :
            /\ send_events(m, deploying_latest, r, TRUE, recovered(model, r, result))
            /\ StaleRecorded(model, m, r, handler)
      BY <1>9, StaleReport
    <2>2. /\ is_blocked(m) = is_blocked(model) /\ is_undefined(m) = is_undefined(model)
          /\ m.intent = model.intent /\ m.dirty = model.dirty
      BY <2>1 DEF StaleRecorded, is_blocked, is_undefined, managed
    <2>3. deploying_latest' = deploying_latest
      BY <1>9 DEF DeployDoneStale
    <2> QED BY <2>1, <2>2, <2>3, ReportBlocksNothing DEF Goal
  <1>10. ASSUME NEW x \in Agents, NEW result \in Reports, DeployDoneLatest(x, result) PROVE Goal
    <2>1. PICK r \in Resources, m \in Models :
            /\ r \in managed(model) /\ r \in deploying_latest /\ ~is_stale(model, r, runner[x].hash)
            /\ deploying_latest' = deploying_latest \ {r}
            /\ send_events(m, deploying_latest \ {r}, r, FALSE, recovered(model, r, result))
            /\ Reported(model, m, r, result)
      BY <1>10, LatestReport
    <2>2. /\ m.intent = model.intent /\ m.dirty \subseteq model.dirty \cup {r}
          /\ m.resource_state[r].compliance \in {"COMPLIANT", "NON_COMPLIANT"}
          /\ m.resource_state[r].blocked = "BLOCKED" <=> model.resource_state[r].blocked = "BLOCKED"
          /\ \A y \in Resources \ {r} : m.resource_state[y] = model.resource_state[y]
      BY <2>1 DEF Reported
    <2>3. is_blocked(m) = is_blocked(model) /\ is_undefined(m) \subseteq is_undefined(model)
      BY <2>2 DEF is_blocked, is_undefined, managed
    <2>4. r \notin is_blocked(model)
      BY <2>1 DEF BlockedInvariant
    <2>5. deploying_latest \ {r} \in SUBSET deploying_latest
      OBVIOUS
    <2>6. m.dirty \subseteq model.dirty \cup (Resources \ is_blocked(model))
      BY <2>2, <2>4
    <2> QED BY <2>1, <2>2, <2>3, <2>5, <2>6, ReportBlocksNothing DEF Goal
  <1>11. ASSUME NEW x \in Agents, NEW result \in Reports, DeployDoneRaises(x, result) PROVE Goal
    <2>1. PICK r \in Resources, k \in {"COMPLIANT", "NON_COMPLIANT"} :
            /\ model' = [model EXCEPT !.resource_state[r].compliance = k]
            /\ work' = work /\ deploying_latest' = deploying_latest
      BY <1>11, ManagedType DEF DeployDoneRaises
    <2>2. /\ model'.intent = model.intent /\ model'.dirty = model.dirty
          /\ model'.resource_state = [model.resource_state EXCEPT ![r].compliance = k]
      BY <1>0, <2>1 DEF Models
    <2>3. \A y \in Resources :
             /\ model'.resource_state[y].blocked = model.resource_state[y].blocked
             /\ model'.resource_state[y].compliance = IF y = r THEN k ELSE model.resource_state[y].compliance
      BY <1>0, <2>2 DEF Models, ResourceStates
    <2>4. is_blocked(model') = is_blocked(model) /\ is_undefined(model') \subseteq is_undefined(model)
      BY <2>1, <2>2, <2>3 DEF is_blocked, is_undefined, managed
    <2>5. is_undefined(model') \subseteq is_undefined(model) \cap is_blocked(model')
      BY <2>4 DEF BlockedInvariant
    <2> QED BY <2>1, <2>2, <2>4, <2>5, NothingBlocked DEF Goal
  <1>12. ASSUME NEW x \in Agents, FinishDeploy(x) PROVE Goal
    BY <1>0, <1>12, <1>u, OtherScheduled DEF FinishDeploy
  <1>13. ASSUME UNCHANGED vars PROVE Goal
    BY <1>13, <1>u DEF vars
  <1>14. Goal
    BY <1>1, <1>2, <1>3, <1>4, <1>5, <1>6, <1>7, <1>8, <1>9, <1>10, <1>11, <1>12, <1>13
    DEF SchedulerStep, NewVersionStep, OtherStep, RunnerStep
  <1> QED BY <1>14 DEF Goal

(***************************************************************************)
(* A blocked resource is neither dirty nor scheduled, whatever versions,   *)
(* requests, timers, events and stale deploys do: _new_version deletes the *)
(* task of whatever it blocks, and nothing else creates one.               *)
(***************************************************************************)
THEOREM BlockedStaysIdle == Spec => []BlockedNotScheduled
  <1> DEFINE Inv == TypeOK /\ BlockedInvariant
  <1>1. Init => Inv
    <2>1. Init => is_blocked(model) = {} /\ is_undefined(model) = {}
      BY DEF Init, EmptyModel, is_blocked, is_undefined, managed
    <2>2. Init => BlockedInvariant
      BY <2>1 DEF BlockedInvariant, BlockedNotScheduled
    <2> QED BY <2>2, InitCompliance DEF ComplianceInvariant
  <1>2. Inv /\ [SchedulerStep]_vars => Inv'
    BY TypeStep, BlockedStep
  <1>3. Inv => BlockedNotScheduled
    BY DEF BlockedInvariant
  <1> HIDE DEF Inv
  <1> QED BY <1>1, <1>2, <1>3, NextIsStep, TypeCorrect, PTL DEF Spec
-----------------------------------------------------------------------------
(* No event is lost *)

(***************************************************************************)
(* Each listener of a deploy that is applied has a task afterwards, also   *)
(* if it is being deployed at that moment: what is being deployed started  *)
(* before the event, and _send_events therefore forces a new task.         *)
(***************************************************************************)
THEOREM EventsReachListeners == Spec => EventsNotLost
  <1>1. ASSUME TypeOK, NEW x \in Agents, NEW result \in Reports, DeployDoneLatest(x, result)
        PROVE  event_listeners(model', runner[x].resource) \subseteq scheduled(work')
    <2>1. PICK r : r = runner[x].resource
      OBVIOUS
    <2>2. PICK m \in Models : send_events(m, deploying_latest \ {r}, r, FALSE, recovered(model, r, result))
      BY <1>1, <2>1, LatestReport
    <2>3. PICK rec : rec = recovered(model, r, result)
      OBVIOUS
    <2>4. work \in Works /\ deploying_latest \ {r} \in SUBSET Resources
      BY <1>1 DEF TypeOK
    <2>5. PICK deploying \in SUBSET Resources : deploying = deploying_latest \ {r}
      BY <2>4
    <2>6. send_events(m, deploying, r, FALSE, rec)
      BY <2>2, <2>3, <2>5, Zenon
    <2>7. /\ model'.intent = m.intent /\ model'.requires = m.requires
          /\ \A d \in Resources : model'.resource_state[d].blocked = IF d \in Recovering(m, r, rec) THEN "NOT_BLOCKED"
                                                                     ELSE m.resource_state[d].blocked
          /\ Recovering(m, r, rec) \subseteq Listening(m, r, FALSE, rec)
          /\ Listening(m, r, FALSE, rec) \subseteq scheduled(work')
      BY <2>4, <2>6, SendEventsEffect, ZenonT(40)
    <2>8. event_listeners(model', r) \subseteq event_listeners(m, r) \cup Recovering(m, r, rec)
      BY <2>7 DEF event_listeners, dependants, managed
    <2>9. event_listeners(m, r) \subseteq Listening(m, r, FALSE, rec)
      BY DEF Listening
    <2> QED BY <2>1, <2>7, <2>8, <2>9
  <1>2. TypeOK /\ [SchedulerStep]_vars =>
          [\A x \in Agents, result \in Reports :
             DeployDoneLatest(x, result) => event_listeners(model', runner[x].resource) \subseteq scheduled(work')]_vars
    BY <1>1
  <1> QED BY <1>2, NextIsStep, TypeCorrect, PTL DEF Spec, EventsNotLost

-----------------------------------------------------------------------------
(* The model follows the released versions *)

\* The version that the empty model represents.
EmptyVersion == [intent |-> [r \in Resources |-> None], requires |-> NoEdges, undefined |-> {}]

Present(v) == {r \in Resources : v.intent[r] # None}

(***************************************************************************)
(* Every version requires only resources that it has                       *)
(* (orchestrationservice.py:613 raises BadRequest otherwise).              *)
(***************************************************************************)
ClosedReleases == \A v \in Releases : \A r \in Present(v) : v.requires[r] \subseteq Present(v)

\* The model m is that of the version v: what is managed, with which intent, what it
\* requires, and what is undefined.
Represents(m, v) ==
    \A r \in Resources :
        /\ m.intent[r] = v.intent[r]
        /\ m.requires[r] = IF r \in Present(v) THEN v.requires[r] ELSE {}
        /\ r \in is_undefined(m) <=> r \in Present(v) /\ r \in v.undefined

Follows(m) == \E v \in Releases \cup {EmptyVersion} : Represents(m, v)

\* The edges of a model that follows a closed version are between managed resources.
LEMMA FollowsClosed ==
    ASSUME ClosedReleases, NEW m, Follows(m)
    PROVE  \A r \in Resources : /\ m.requires[r] \subseteq managed(m)
                                /\ r \notin managed(m) => m.requires[r] = {}
  <1>1. PICK v \in Releases \cup {EmptyVersion} : Represents(m, v)
    BY DEF Follows
  <1>2. \A r \in Present(v) : v.requires[r] \subseteq Present(v)
    <2>1. CASE v \in Releases
      BY <2>1 DEF ClosedReleases
    <2>2. CASE v = EmptyVersion
      <3>1. \A r \in Resources : v.intent[r] = None
        BY <2>2 DEF EmptyVersion
      <3> QED BY <3>1 DEF Present
    <2> QED BY <2>1, <2>2
  <1>3. managed(m) = Present(v)
    BY <1>1 DEF managed, Present, Represents
  <1> QED BY <1>1, <1>2, <1>3 DEF Represents

\* The changes c lead from the model to the version v and re-create nothing.  What differs is
\* updated, and so may be what an earlier version of a batch changed.
PlainChanges(v, c) ==
    /\ c.deleted = managed(model) \ Present(v)
    /\ c.new = Present(v) \ managed(model)
    /\ c.updated \subseteq managed(model) \cap Present(v)
    /\ \A r \in managed(model) \cap Present(v) :
         v.intent[r] # model.intent[r] \/ (r \in v.undefined) # (r \in is_undefined(model)) => r \in c.updated

\* Those are the changes of a single version, and of a batch that re-creates nothing.
LEMMA PlainVersion ==
    ASSUME NEW v, NEW reverted
    PROVE  PlainChanges(v, intent_changes(model, v, {}, reverted))
  BY DEF PlainChanges, intent_changes, Present, managed

\* A step of a scheduler that processes versions one by one, or in batches that re-create
\* nothing.
PlainVersionStep ==
    /\ version' \in 0..MaxVersions
    /\ \E v \in Releases : \E reverted \in SUBSET Resources : ProcessVersions(v, {}, reverted)

PlainStep == PlainVersionStep \/ OtherStep

\* They are steps of the scheduler.
LEMMA PlainIsStep == [PlainStep]_vars => [SchedulerStep]_vars
  <1>1. PlainVersionStep => NewVersionStep
    <2>1. {} \in SUBSET Resources
      OBVIOUS
    <2> QED BY <2>1 DEF PlainVersionStep, NewVersionStep
  <1> QED BY <1>1 DEF PlainStep, SchedulerStep

\* Without batches, every step of the scheduler is one.
LEMMA PlainNext ==
    ASSUME ~AllowBatches
    PROVE  /\ TypeOK /\ [Next]_vars => [PlainStep]_vars
           /\ [PlainStep]_vars => [SchedulerStep]_vars
  <1>1. ASSUME TypeOK, NEW v \in Releases, NEW recreated \in SUBSET batch_resources(v),
               NEW reverted \in SUBSET (batch_resources(v) \ recreated), NewVersion(v, recreated, reverted)
        PROVE  PlainVersionStep
    <2>1. version' \in 0..MaxVersions /\ ProcessVersions(v, recreated, reverted)
      BY <1>1, ConstantsAssumption DEF NewVersion, TypeOK
    <2>2. recreated = {} /\ reverted \in SUBSET Resources
      BY DEF batch_resources
    <2> QED BY <2>1, <2>2 DEF PlainVersionStep
  <1>2. Scopes \subseteq SUBSET Resources
    BY ConstantsAssumption
  <1>3. TypeOK /\ [Next]_vars => [PlainStep]_vars
    BY <1>1, <1>2 DEF Next, PlainStep, OtherStep
  <1>4. [PlainStep]_vars => [SchedulerStep]_vars
    BY PlainIsStep
  <1> QED BY <1>3, <1>4

\* A new version that re-creates nothing is the version that the model represents then.
LEMMA NewVersionFollows ==
    ASSUME TypeOK, ClosedReleases, Follows(model), NEW v \in Releases,
           NEW reverted \in SUBSET Resources, ProcessVersions(v, {}, reverted)
    PROVE  Represents(model', v)
  <1>1. PICK c : c = intent_changes(model, v, {}, reverted)
    OBVIOUS
  <1>2. /\ model \in Models /\ v \in ModelVersions /\ c \in IntentChanges
        /\ \E n \in Models :
             \E o \in update_transitive_state(n, became_undefined(model, v, c), Added(model, v),
                                              became_defined(model, v, c) \cup Dropped(model, v)) :
               /\ \E F \in SUBSET Resources : RequiresDone(model, v, c, n, F)
               /\ VersionDone(v, {}, c, n, o)
    BY <1>1, NewVersionEffect
  <1>3. PICK n, o, F : RequiresDone(model, v, c, n, F) /\ VersionDone(v, {}, c, n, o)
    BY <1>2, Zenon
  <1>4. /\ c.deleted = managed(model) \ Present(v)
        /\ c.new = Present(v) \ managed(model)
        /\ c.updated \subseteq managed(model) \cap Present(v)
        /\ \A r \in managed(model) \cap Present(v) :
             v.intent[r] # model.intent[r] \/ (r \in v.undefined) # (r \in is_undefined(model)) => r \in c.updated
    BY <1>1, PlainVersion DEF PlainChanges
  <1> DEFINE S == Added(model, v) \cup Dropped(model, v)
             changed == c.new \cup c.updated
  <1>5. \A r \in Resources :
          /\ n.intent[r] = IF r \in changed THEN v.intent[r] ELSE model.intent[r]
          /\ n.requires[r] = IF r \in S THEN v.requires[r] ELSE drop_edges(model.requires, c.new)[r]
          /\ n.resource_state[r].compliance =
               IF r \in changed THEN IF r \in v.undefined THEN "UNDEFINED" ELSE "HAS_UPDATE"
               ELSE model.resource_state[r].compliance
    BY <1>3 DEF RequiresDone, SameButBlocked
  <1>6. /\ \A r \in c.deleted : model'.intent[r] = None /\ model'.requires[r] = {}
        /\ \A r \in Resources \ c.deleted :
             /\ model'.intent[r] = n.intent[r] /\ model'.requires[r] = n.requires[r] \ c.deleted
             /\ model'.resource_state[r].compliance = n.resource_state[r].compliance
    BY <1>3 DEF VersionDone, SameButBlocked
  <1>7. managed(model) \subseteq Resources /\ Present(v) \subseteq Resources
    BY DEF managed, Present
  <1>8. \A r \in Resources : /\ model.requires[r] \subseteq managed(model)
                             /\ r \notin managed(model) => model.requires[r] = {}
    BY FollowsClosed
  <1>9. \A r \in Resources \ S : r \in Present(v) => v.requires[r] = model.requires[r]
    BY DEF Added, Dropped, added_requires, dropped_requires, Present
  <1>10. \A r \in S : r \in Present(v)
    BY DEF Added, Dropped, added_requires, dropped_requires, Present
  <1>11. \A r \in Resources : drop_edges(model.requires, c.new)[r] = model.requires[r]
    <2>1. \A r \in Resources : drop_edges(model.requires, c.new)[r] =
                                 IF r \in c.new THEN {} ELSE model.requires[r] \ c.new
      BY DEF drop_edges
    <2>2. \A r \in Resources : /\ r \in c.new => model.requires[r] = {}
                               /\ model.requires[r] \cap c.new = {}
      BY <1>4, <1>8
    <2> HIDE DEF S, changed
    <2> TAKE r \in Resources
    <2>3. PICK e : e = model.requires[r]
      OBVIOUS
    <2>4. drop_edges(model.requires, c.new)[r] = IF r \in c.new THEN {} ELSE e \ c.new
      BY <2>1, <2>3
    <2> QED BY <2>2, <2>3, <2>4
  <1> HIDE DEF S, changed
  <1> SUFFICES ASSUME NEW r \in Resources
               PROVE  /\ model'.intent[r] = v.intent[r]
                      /\ model'.requires[r] = IF r \in Present(v) THEN v.requires[r] ELSE {}
                      /\ r \in is_undefined(model') <=> r \in Present(v) /\ r \in v.undefined
    BY DEF Represents
  <1>12. model'.intent[r] = v.intent[r]
    BY <1>4, <1>5, <1>6, <1>7, ZenonT(40) DEF managed, Present, changed
  <1>13. model'.requires[r] = IF r \in Present(v) THEN v.requires[r] ELSE {}
    <2>1. CASE r \in Present(v)
      <3>1. r \notin c.deleted /\ model'.requires[r] = n.requires[r] \ c.deleted
        BY <1>4, <1>6, <2>1
      <3>2. n.requires[r] = v.requires[r]
        BY <1>5, <1>9, <1>11, <2>1
      <3>3. v.requires[r] \cap c.deleted = {}
        BY <1>4, <2>1 DEF ClosedReleases
      <3> QED BY <2>1, <3>1, <3>2, <3>3
    <2>2. CASE r \notin Present(v)
      <3>1. r \notin S /\ (r \in c.deleted \/ r \notin managed(model))
        BY <1>4, <1>10, <2>2
      <3> QED BY <1>5, <1>6, <1>8, <1>11, <2>2, <3>1
    <2> QED BY <2>1, <2>2
  <1>14. r \in is_undefined(model') <=> r \in Present(v) /\ r \in v.undefined
    <2>1. CASE r \notin Present(v)
      BY <1>12, <2>1 DEF is_undefined, managed, Present
    <2>2. CASE r \in Present(v) /\ r \in changed
      <3>1. /\ r \notin c.deleted
            /\ model'.resource_state[r].compliance = IF r \in v.undefined THEN "UNDEFINED" ELSE "HAS_UPDATE"
        BY <1>4, <1>5, <1>6, <2>2
      <3> QED BY <1>12, <2>2, <3>1 DEF is_undefined, managed, Present
    <2>3. CASE r \in Present(v) /\ r \notin changed
      <3>1. /\ r \notin c.deleted /\ r \in managed(model)
            /\ model'.resource_state[r].compliance = model.resource_state[r].compliance
            /\ (r \in v.undefined) = (r \in is_undefined(model))
        BY <1>4, <1>5, <1>6, <2>3 DEF changed
      <3> QED BY <1>12, <2>3, <3>1 DEF is_undefined, managed, Present
    <2> QED BY <2>1, <2>2, <2>3
  <1> QED BY <1>12, <1>13, <1>14

\* Any other step changes no intent and no requires, makes no resource undefined or defined,
\* and blocks or unblocks none.
SameVersion == /\ model'.intent = model.intent /\ model'.requires = model.requires
               /\ is_undefined(model') = is_undefined(model) /\ is_blocked(model') = is_blocked(model)

\* What the events that a report sends leave of the model they start from.
LEMMA SendEventsModel ==
    ASSUME TypeOK, NEW m \in Models, NEW deploying \in SUBSET deploying_latest,
           NEW r, NEW stale, NEW rec, send_events(m, deploying, r, stale, rec),
           m.intent = model.intent, m.requires = model.requires,
           is_undefined(m) = is_undefined(model), is_blocked(m) = is_blocked(model)
    PROVE  SameVersion
  <1>1. deploying \in SUBSET Resources /\ work \in Works
    BY DEF TypeOK
  <1>2. /\ \A d \in Resources :
             /\ SameButBlocked(m.resource_state[d], model'.resource_state[d])
             /\ model'.resource_state[d].blocked = IF d \in Recovering(m, r, rec) THEN "NOT_BLOCKED"
                                                   ELSE m.resource_state[d].blocked
        /\ \A d \in Recovering(m, r, rec) : m.resource_state[d].blocked = "TEMPORARILY_BLOCKED"
        /\ model'.intent = m.intent /\ model'.requires = m.requires
    BY <1>1, SendEventsEffect
  <1>3. is_blocked(model') = is_blocked(m) /\ is_undefined(model') = is_undefined(m)
    BY <1>2 DEF SameButBlocked, is_blocked, is_undefined, managed
  <1> QED BY <1>2, <1>3 DEF SameVersion

\* Every step but a new version is such a step.
LEMMA OtherStepModel ==
    ASSUME TypeOK, [OtherStep]_vars
    PROVE  SameVersion
  <1> DEFINE Goal == SameVersion
  <1> HIDE DEF Goal
  <1>0. model \in Models
    BY DEF TypeOK
  <1>u. ASSUME model' = model PROVE Goal
    BY <1>u DEF Goal, SameVersion
  <1>2. ASSUME NEW S \in SUBSET Resources, Repair(S) PROVE Goal
    <2>1. /\ model'.intent = model.intent /\ model'.requires = model.requires
          /\ model'.resource_state = model.resource_state
      BY <1>0, <1>2 DEF Repair, Models
    <2> QED BY <2>1 DEF Goal, SameVersion, is_blocked, is_undefined, managed
  <1>9. ASSUME NEW x \in Agents, NEW result \in Reports, DeployDoneStale(x, result) PROVE Goal
    <2>1. PICK r \in Resources, m \in Models, handler \in HandlerResults :
            /\ send_events(m, deploying_latest, r, TRUE, recovered(model, r, result))
            /\ StaleRecorded(model, m, r, handler)
      BY <1>9, StaleReport
    <2>2. /\ is_blocked(m) = is_blocked(model) /\ is_undefined(m) = is_undefined(model)
          /\ m.intent = model.intent /\ m.requires = model.requires
      BY <2>1 DEF StaleRecorded, is_blocked, is_undefined, managed
    <2> QED BY <2>1, <2>2, SendEventsModel DEF Goal
  <1>10. ASSUME NEW x \in Agents, NEW result \in Reports, DeployDoneLatest(x, result) PROVE Goal
    <2>1. PICK r \in Resources, m \in Models :
            /\ ~is_stale(model, r, runner[x].hash)
            /\ send_events(m, deploying_latest \ {r}, r, FALSE, recovered(model, r, result))
            /\ Reported(model, m, r, result)
      BY <1>10, LatestReport
    <2>2. /\ m.intent = model.intent /\ m.requires = model.requires
          /\ m.resource_state[r].compliance \in {"COMPLIANT", "NON_COMPLIANT"}
          /\ m.resource_state[r].blocked = "BLOCKED" <=> model.resource_state[r].blocked = "BLOCKED"
          /\ \A y \in Resources \ {r} : m.resource_state[y] = model.resource_state[y]
      BY <2>1 DEF Reported
    <2>3. r \notin is_undefined(model)
      BY <2>1 DEF is_stale
    <2>4. is_blocked(m) = is_blocked(model) /\ is_undefined(m) = is_undefined(model)
      BY <2>2, <2>3 DEF is_blocked, is_undefined, managed
    <2>5. deploying_latest \ {r} \in SUBSET deploying_latest
      OBVIOUS
    <2> QED BY <2>1, <2>2, <2>4, <2>5, SendEventsModel DEF Goal
  <1>11. ASSUME NEW x \in Agents, NEW result \in Reports, DeployDoneRaises(x, result) PROVE Goal
    <2>1. PICK r \in Resources, k \in {"COMPLIANT", "NON_COMPLIANT"} :
            /\ model' = [model EXCEPT !.resource_state[r].compliance = k] /\ r \notin is_undefined(model)
      BY <1>11, ManagedType DEF DeployDoneRaises, is_stale
    <2>2. /\ model'.intent = model.intent /\ model'.requires = model.requires
          /\ model'.resource_state = [model.resource_state EXCEPT ![r].compliance = k]
      BY <1>0, <2>1 DEF Models
    <2>3. \A y \in Resources :
             /\ model'.resource_state[y].blocked = model.resource_state[y].blocked
             /\ model'.resource_state[y].compliance = IF y = r THEN k ELSE model.resource_state[y].compliance
      BY <1>0, <2>2 DEF Models, ResourceStates
    <2> QED BY <2>1, <2>2, <2>3 DEF Goal, SameVersion, is_blocked, is_undefined, managed
  <1>12. Goal
    <2>1. ASSUME NEW S \in SUBSET Resources, Deploy(S) \/ Repair(S) PROVE Goal
      BY <1>u, <1>2, <2>1 DEF Deploy
    <2>2. ASSUME NEW r \in Resources, TimerFires(r) \/ DeployResource(r) PROVE Goal
      BY <1>u, <2>2 DEF TimerFires, DeployResource
    <2>3. ASSUME NEW x \in Agents, RunnerStep(x) PROVE Goal
      BY <1>u, <1>9, <1>10, <1>11, <2>3
      DEF RunnerStep, QueueGet, DeployStart, DeployStartStale, DeployStartRaises, DeployDoneUnmanaged, FinishDeploy
    <2>4. ASSUME UNCHANGED vars PROVE Goal
      BY <1>u, <2>4 DEF vars
    <2> QED BY <2>1, <2>2, <2>3, <2>4 DEF OtherStep
  <1> QED BY <1>12 DEF Goal

\* Following the versions is an invariant, as long as every version is processed alone.
LEMMA FollowsStep ==
    ASSUME TypeOK, ClosedReleases, Follows(model), [PlainStep]_vars
    PROVE  Follows(model')
  <1>1. CASE PlainVersionStep
    BY <1>1, NewVersionFollows DEF PlainVersionStep, Follows
  <1>2. CASE SameVersion
    <2>1. PICK v \in Releases \cup {EmptyVersion} : Represents(model, v)
      BY DEF Follows
    <2>2. Represents(model', v)
      BY <1>2, <2>1 DEF Represents, SameVersion
    <2> QED BY <2>2 DEF Follows
  <1> QED BY <1>1, <1>2, OtherStepModel DEF PlainStep

\* The empty model follows the empty version.
LEMMA InitFollows == Init => Follows(model)
  <1> SUFFICES ASSUME Init PROVE Represents(model, EmptyVersion)
    BY DEF Follows
  <1>1. \A r \in Resources : EmptyVersion.intent[r] = None
    BY DEF EmptyVersion
  <1>2. Present(EmptyVersion) = {} /\ is_undefined(model) = {}
    BY <1>1 DEF Present, Init, EmptyModel, is_undefined, managed
  <1> QED BY <1>1, <1>2 DEF Represents, Init, EmptyModel, NoEdges
-----------------------------------------------------------------------------
(* Skipping for a dependency *)

\* A new version that is processed alone leaves nobody skipping without a bad dependency:
\* whoever skips afterwards did so before, and if it dropped its bad dependency it kept or
\* got another one.
LEMMA NewVersionSkipped ==
    ASSUME TypeOK, ClosedReleases, Follows(model), SkippedHasBadDependency, NEW v \in Releases,
           NEW reverted \in SUBSET Resources, ProcessVersions(v, {}, reverted)
    PROVE  SkippedHasBadDependency'
  <1>1. PICK c : c = intent_changes(model, v, {}, reverted)
    OBVIOUS
  <1>2. /\ model \in Models /\ v \in ModelVersions /\ c \in IntentChanges
        /\ \E n \in Models :
             \E o \in update_transitive_state(n, became_undefined(model, v, c), Added(model, v),
                                              became_defined(model, v, c) \cup Dropped(model, v)) :
               /\ \E F \in SUBSET Resources : RequiresDone(model, v, c, n, F)
               /\ VersionDone(v, {}, c, n, o)
    BY <1>1, NewVersionEffect
  <1>3. PICK n, o, F : RequiresDone(model, v, c, n, F) /\ VersionDone(v, {}, c, n, o)
    BY <1>2, Zenon
  <1>4. /\ c.deleted = managed(model) \ Present(v)
        /\ c.new = Present(v) \ managed(model)
        /\ c.updated \subseteq managed(model) \cap Present(v)
    BY <1>1, PlainVersion DEF PlainChanges
  <1>5. Represents(model', v)
    BY NewVersionFollows
  <1> DEFINE S == Added(model, v) \cup Dropped(model, v)
             changed == c.new \cup c.updated
  <1>6. /\ \A r \in Resources :
             /\ r \in c.new => n.resource_state[r].blocked # "TEMPORARILY_BLOCKED"
             /\ r \in c.updated \ c.new => n.resource_state[r].blocked # "TEMPORARILY_BLOCKED"
             /\ r \notin changed => n.resource_state[r].blocked = IF r \in F THEN "NOT_BLOCKED"
                                                                  ELSE model.resource_state[r].blocked
             /\ r \notin c.new => n.resource_state[r].last_handler_run_compliant
                                    = model.resource_state[r].last_handler_run_compliant
        /\ \A r \in S \ changed :
             (/\ model.resource_state[r].blocked = "TEMPORARILY_BLOCKED"
              /\ drop_edges(model.requires, c.new)[r] \ v.requires[r] # {}
              /\ \A d \in v.requires[r] : n.resource_state[d].last_handler_run_compliant # FALSE)
             => r \in F
    BY <1>3 DEF RequiresDone, SameButBlocked
  <1>7. \A r \in Resources \ c.deleted :
           /\ model'.resource_state[r].blocked = BlockedBy(n, o, r)
           /\ model'.resource_state[r].last_handler_run_compliant = n.resource_state[r].last_handler_run_compliant
    BY <1>3, <1>4 DEF VersionDone, SameButBlocked
  <1> SUFFICES ASSUME NEW r \in managed(model'), model'.resource_state[r].blocked = "TEMPORARILY_BLOCKED"
               PROVE  \E d \in model'.requires[r] : model'.resource_state[d].last_handler_run_compliant = FALSE
    BY DEF SkippedHasBadDependency, should_skip_for_dependencies
  <1>8. /\ r \in Resources /\ r \in Present(v) /\ r \notin c.deleted
        /\ model'.requires[r] = v.requires[r]
    BY <1>4, <1>5 DEF Represents, managed, Present
  <1>9. n.resource_state[r].blocked = "TEMPORARILY_BLOCKED"
    BY <1>7, <1>8 DEF BlockedBy
  <1>10. r \notin changed /\ r \notin F /\ model.resource_state[r].blocked = "TEMPORARILY_BLOCKED"
    BY <1>6, <1>8, <1>9
  <1>11. r \in managed(model)
    BY <1>4, <1>8, <1>10
  <1>12. PICK d \in model.requires[r] : model.resource_state[d].last_handler_run_compliant = FALSE
    BY <1>10, <1>11 DEF SkippedHasBadDependency, should_skip_for_dependencies
  <1>13. d \in managed(model) /\ d \in Resources /\ d \notin c.new
    BY <1>4, <1>8, FollowsClosed DEF managed
  <1>14. \A e \in v.requires[r] : e \in Resources \ c.deleted
    BY <1>4, <1>8 DEF ClosedReleases, Present
  <1>15. CASE d \in v.requires[r]
    BY <1>6, <1>7, <1>8, <1>12, <1>13, <1>14, <1>15
  <1>16. CASE d \notin v.requires[r]
    <2>1. r \in S
      BY <1>8, <1>16 DEF Dropped, dropped_requires, Present
    <2>2. d \in drop_edges(model.requires, c.new)[r] \ v.requires[r]
      <3>1. drop_edges(model.requires, c.new)[r] = model.requires[r] \ c.new
        BY <1>8, <1>10 DEF drop_edges
      <3> QED BY <1>13, <1>16, <3>1
    <2> HIDE DEF S, changed
    <2>3. PICK e \in v.requires[r] : n.resource_state[e].last_handler_run_compliant = FALSE
      BY <1>6, <1>10, <2>1, <2>2
    <2> QED BY <1>7, <1>8, <1>14, <2>3
  <1> QED BY <1>15, <1>16

\* Neither does the report of a deploy: whoever skips for a resource that recovers stops.
LEMMA ReportSkipped ==
    ASSUME TypeOK, SkippedHasBadDependency, NEW m \in Models, NEW deploying \in SUBSET deploying_latest,
           NEW r \in Resources, NEW stale, NEW rec, send_events(m, deploying, r, stale, rec),
           m.intent = model.intent, m.requires = model.requires,
           \A y \in Resources \ {r} : m.resource_state[y] = model.resource_state[y],
           m.resource_state[r].blocked = "TEMPORARILY_BLOCKED" =>
             \/ model.resource_state[r].blocked = "TEMPORARILY_BLOCKED"
             \/ should_skip_for_dependencies(model, r),
           (/\ model.resource_state[r].last_handler_run_compliant = FALSE
            /\ m.resource_state[r].last_handler_run_compliant # FALSE)
             => rec /\ m.resource_state[r].blocked # "TEMPORARILY_BLOCKED"
    PROVE  SkippedHasBadDependency'
  <1>1. deploying \in SUBSET Resources /\ work \in Works
    BY DEF TypeOK
  <1>2. /\ \A d \in Resources :
             /\ SameButBlocked(m.resource_state[d], model'.resource_state[d])
             /\ model'.resource_state[d].blocked = IF d \in Recovering(m, r, rec) THEN "NOT_BLOCKED"
                                                   ELSE m.resource_state[d].blocked
        /\ model'.intent = m.intent /\ model'.requires = m.requires
    BY <1>1, SendEventsEffect
  <1> SUFFICES ASSUME NEW y \in managed(model'), model'.resource_state[y].blocked = "TEMPORARILY_BLOCKED"
               PROVE  \E d \in model'.requires[y] : model'.resource_state[d].last_handler_run_compliant = FALSE
    BY DEF SkippedHasBadDependency, should_skip_for_dependencies
  <1>3. /\ y \in managed(model) /\ y \in Resources /\ model'.requires[y] = model.requires[y]
        /\ m.resource_state[y].blocked = "TEMPORARILY_BLOCKED" /\ y \notin Recovering(m, r, rec)
    BY <1>2 DEF managed
  <1>4. should_skip_for_dependencies(model, y)
    <2>1. model.resource_state[y].blocked = "TEMPORARILY_BLOCKED" => should_skip_for_dependencies(model, y)
      BY <1>3 DEF SkippedHasBadDependency
    <2> QED BY <1>3, <2>1
  <1>5. PICK d \in model.requires[y] : model.resource_state[d].last_handler_run_compliant = FALSE
    BY <1>4 DEF should_skip_for_dependencies
  <1>6. d \in Resources
    BY <1>3 DEF TypeOK, Models, Edges
  <1>7. m.resource_state[d].last_handler_run_compliant = FALSE
    <2>1. CASE d # r
      BY <1>5, <1>6, <2>1
    <2>2. CASE d = r
      <3> SUFFICES ASSUME m.resource_state[r].last_handler_run_compliant # FALSE PROVE FALSE
        BY <2>2
      <3>1. rec /\ m.resource_state[r].blocked # "TEMPORARILY_BLOCKED"
        BY <1>5, <2>2
      <3>2. y \in dependants(m, {r})
        BY <1>3, <2>2 DEF dependants, managed
      <3> QED BY <1>3, <3>1, <3>2 DEF Recovering, recovery_listeners
    <2> QED BY <2>1, <2>2
  <1> QED BY <1>2, <1>3, <1>5, <1>6, <1>7 DEF SameButBlocked

\* Every other step leaves alone who skips, and for which dependency.
LEMMA SkippedStep ==
    ASSUME TypeOK, ClosedReleases, Follows(model), SkippedHasBadDependency, [PlainStep]_vars
    PROVE  SkippedHasBadDependency'
  <1> DEFINE Goal == SkippedHasBadDependency'
  <1> HIDE DEF Goal
  <1>0. model \in Models
    BY DEF TypeOK
  <1>s. ASSUME model'.intent = model.intent, model'.requires = model.requires,
               \A y \in Resources :
                 /\ model'.resource_state[y].blocked = model.resource_state[y].blocked
                 /\ model'.resource_state[y].last_handler_run_compliant = model.resource_state[y].last_handler_run_compliant
        PROVE Goal
    BY <1>0, <1>s DEF Goal, SkippedHasBadDependency, should_skip_for_dependencies, managed, Models, Edges
  <1>u. ASSUME model' = model PROVE Goal
    BY <1>s, <1>u
  <1>2. ASSUME NEW S \in SUBSET Resources, Repair(S) PROVE Goal
    <2>1. /\ model'.intent = model.intent /\ model'.requires = model.requires
          /\ model'.resource_state = model.resource_state
      BY <1>0, <1>2 DEF Repair, Models
    <2> QED BY <1>s, <2>1
  <1>9. ASSUME NEW x \in Agents, NEW result \in Reports, DeployDoneStale(x, result) PROVE Goal
    <2>1. PICK r \in Resources, m \in Models, handler \in HandlerResults :
            /\ send_events(m, deploying_latest, r, TRUE, recovered(model, r, result))
            /\ StaleRecorded(model, m, r, handler)
      BY <1>9, StaleReport
    <2>2. PICK rec : rec = recovered(model, r, result)
      OBVIOUS
    <2>3. deploying_latest \in SUBSET deploying_latest /\ send_events(m, deploying_latest, r, TRUE, rec)
      BY <2>1, <2>2, Zenon
    <2>4. /\ m.intent = model.intent /\ m.requires = model.requires
          /\ m.resource_state[r].blocked = model.resource_state[r].blocked
          /\ m.resource_state[r].last_handler_run_compliant = model.resource_state[r].last_handler_run_compliant
          /\ \A y \in Resources \ {r} : m.resource_state[y] = model.resource_state[y]
      BY <2>1 DEF StaleRecorded
    <2>5. /\ m.resource_state[r].blocked = "TEMPORARILY_BLOCKED" =>
               \/ model.resource_state[r].blocked = "TEMPORARILY_BLOCKED"
               \/ should_skip_for_dependencies(model, r)
          /\ ((/\ model.resource_state[r].last_handler_run_compliant = FALSE
               /\ m.resource_state[r].last_handler_run_compliant # FALSE)
              => rec /\ m.resource_state[r].blocked # "TEMPORARILY_BLOCKED")
      BY <2>4
    <2> QED BY <2>3, <2>4, <2>5, ReportSkipped DEF Goal
  <1>10. ASSUME NEW x \in Agents, NEW result \in Reports, DeployDoneLatest(x, result) PROVE Goal
    <2>1. PICK r \in Resources, m \in Models :
            /\ send_events(m, deploying_latest \ {r}, r, FALSE, recovered(model, r, result))
            /\ Reported(model, m, r, result)
      BY <1>10, LatestReport
    <2>2. PICK rec : rec = recovered(model, r, result)
      OBVIOUS
    <2>3. PICK deploying \in SUBSET deploying_latest : deploying = deploying_latest \ {r}
      OBVIOUS
    <2>4. send_events(m, deploying, r, FALSE, rec)
      BY <2>1, <2>2, <2>3, Zenon
    <2>5. /\ m.intent = model.intent /\ m.requires = model.requires
          /\ \A y \in Resources \ {r} : m.resource_state[y] = model.resource_state[y]
          /\ m.resource_state[r].last_handler_run_compliant = (result = "deployed")
      BY <2>1 DEF Reported
    <2>6. m.resource_state[r].blocked = "TEMPORARILY_BLOCKED" =>
             \/ model.resource_state[r].blocked = "TEMPORARILY_BLOCKED"
             \/ should_skip_for_dependencies(model, r)
      BY <2>1 DEF Reported
    <2>7. (/\ model.resource_state[r].last_handler_run_compliant = FALSE
           /\ m.resource_state[r].last_handler_run_compliant # FALSE)
            => rec /\ m.resource_state[r].blocked # "TEMPORARILY_BLOCKED"
      <3> SUFFICES ASSUME model.resource_state[r].last_handler_run_compliant = FALSE,
                          m.resource_state[r].last_handler_run_compliant # FALSE
                   PROVE  rec /\ m.resource_state[r].blocked # "TEMPORARILY_BLOCKED"
        OBVIOUS
      <3>1. result = "deployed"
        BY <2>5
      <3>2. rec
        BY <2>2, <3>1 DEF recovered
      <3>3. from_handler_resource_state(result) = "SUCCESSFUL"
        BY <3>1 DEF from_handler_resource_state
      <3>4. m.resource_state[r].blocked # "TEMPORARILY_BLOCKED"
        BY <2>1, <3>1, <3>3 DEF Reported
      <3> QED BY <3>2, <3>4
    <2> QED BY <2>4, <2>5, <2>6, <2>7, ReportSkipped DEF Goal
  <1>11. ASSUME NEW x \in Agents, NEW result \in Reports, DeployDoneRaises(x, result) PROVE Goal
    <2>1. PICK r \in Resources, k \in {"COMPLIANT", "NON_COMPLIANT"} :
            model' = [model EXCEPT !.resource_state[r].compliance = k]
      BY <1>11, ManagedType DEF DeployDoneRaises
    <2>2. /\ model'.intent = model.intent /\ model'.requires = model.requires
          /\ model'.resource_state = [model.resource_state EXCEPT ![r].compliance = k]
      BY <1>0, <2>1 DEF Models
    <2>3. \A y \in Resources :
             /\ model'.resource_state[y].blocked = model.resource_state[y].blocked
             /\ model'.resource_state[y].last_handler_run_compliant = model.resource_state[y].last_handler_run_compliant
      BY <1>0, <2>2 DEF Models, ResourceStates
    <2> QED BY <1>s, <2>2, <2>3
  <1>12. Goal
    <2>1. ASSUME NEW S \in SUBSET Resources, Deploy(S) \/ Repair(S) PROVE Goal
      BY <1>u, <1>2, <2>1 DEF Deploy
    <2>2. ASSUME NEW r \in Resources, TimerFires(r) \/ DeployResource(r) PROVE Goal
      BY <1>u, <2>2 DEF TimerFires, DeployResource
    <2>3. ASSUME NEW x \in Agents, RunnerStep(x) PROVE Goal
      BY <1>u, <1>9, <1>10, <1>11, <2>3
      DEF RunnerStep, QueueGet, DeployStart, DeployStartStale, DeployStartRaises, DeployDoneUnmanaged, FinishDeploy
    <2>4. ASSUME PlainVersionStep PROVE Goal
      BY <2>4, NewVersionSkipped DEF Goal, PlainVersionStep
    <2>5. ASSUME UNCHANGED vars PROVE Goal
      BY <1>u, <2>5 DEF vars
    <2> QED BY <2>1, <2>2, <2>3, <2>4, <2>5 DEF PlainStep, OtherStep
  <1> QED BY <1>12 DEF Goal

(***************************************************************************)
(* A resource skips for a dependency only while one of them is bad: the    *)
(* recovery of the last bad one, by whichever deploy, and the removal of   *)
(* its edge both end TEMPORARILY_BLOCKED, so nobody waits for a recovery   *)
(* that has come already.  (A batch that re-creates a bad dependency drops *)
(* its edges; what _new_version then resets is not claimed here.)          *)
(***************************************************************************)
THEOREM SkippingHasReason ==
    ASSUME ~AllowBatches, ClosedReleases
    PROVE  Spec => []SkippedHasBadDependency
  <1> DEFINE Inv == TypeOK /\ Follows(model) /\ SkippedHasBadDependency
  <1>1. Init => Inv
    <2>1. Init => SkippedHasBadDependency
      BY DEF Init, EmptyModel, SkippedHasBadDependency, managed
    <2> QED BY <2>1, InitCompliance, InitFollows DEF ComplianceInvariant
  <1>2. Inv /\ [PlainStep]_vars => Inv'
    BY TypeStep, FollowsStep, SkippedStep, PlainNext
  <1>3. Inv => SkippedHasBadDependency
    OBVIOUS
  <1> HIDE DEF Inv
  <1> QED BY <1>1, <1>2, <1>3, PlainNext, TypeCorrect, PTL DEF Spec
-----------------------------------------------------------------------------
(* _deploying_latest *)

(***************************************************************************)
(* DeployingIsLatest is inductive together with the counterpart for        *)
(* _deploying_unmanaged, whose deploys are orphaned, and with the fact     *)
(* that a deploy is not orphaned before it starts: the two sets never      *)
(* claim the same deploy.                                                  *)
(***************************************************************************)
DeployingInvariant ==
    /\ \A x \in Agents : runner[x].pc # "idle" =>
         runner[x].resource \in Resources /\ AgentOf[runner[x].resource] = x
    /\ \A x \in Agents : runner[x].pc = "picked" => ~runner[x].orphaned
    /\ \A r \in deploying_latest :
         /\ r \in managed(model)
         /\ runner[AgentOf[r]].pc = "deploying" /\ runner[AgentOf[r]].resource = r
         /\ runner[AgentOf[r]].hash = model.intent[r] /\ ~runner[AgentOf[r]].orphaned
    /\ \A r \in deploying_unmanaged :
         /\ runner[AgentOf[r]].pc = "deploying" /\ runner[AgentOf[r]].resource = r
         /\ runner[AgentOf[r]].orphaned

\* A step that changes one runner, which is not that of a deploy in either set unless it
\* is taken off them, or starts the latest deploy, keeps it.
LEMMA OneRunner ==
    ASSUME TypeOK, DeployingInvariant, NEW x \in Agents, NEW new,
           model'.intent = model.intent,
           runner' = [runner EXCEPT ![x] = new],
           new.pc # "idle" => new.resource \in Resources /\ AgentOf[new.resource] = x,
           new.pc = "picked" => ~new.orphaned,
           \A r \in deploying_latest' :
             \/ r \in deploying_latest /\ AgentOf[r] # x
             \/ /\ AgentOf[r] = x /\ r \in managed(model)
                /\ new.pc = "deploying" /\ new.resource = r /\ new.hash = model.intent[r] /\ ~new.orphaned,
           \A r \in deploying_unmanaged' : r \in deploying_unmanaged /\ AgentOf[r] # x,
           deploying_latest' \subseteq Resources, deploying_unmanaged' \subseteq Resources
    PROVE  DeployingInvariant'
  <1>1. runner' \in [Agents -> {runner'[y] : y \in Agents}] /\ runner'[x] = new
        /\ \A y \in Agents \ {x} : runner'[y] = runner[y]
    BY DEF TypeOK
  <1>2. managed(model') = managed(model)
    BY DEF managed
  <1>3. \A r \in Resources : AgentOf[r] \in Agents
    BY ConstantsAssumption
  <1> QED BY <1>1, <1>2, <1>3 DEF DeployingInvariant

\* A step that changes no runner and adds to neither set keeps it too.
LEMMA SameRunners ==
    ASSUME DeployingInvariant, model'.intent = model.intent, runner' = runner,
           deploying_latest' \subseteq deploying_latest, deploying_unmanaged' \subseteq deploying_unmanaged
    PROVE  DeployingInvariant'
  BY DEF DeployingInvariant, managed

\* A new version takes off _deploying_latest what it changes, and records the deploys of
\* resources that it deletes as orphaned.
LEMMA NewVersionDeploying ==
    ASSUME TypeOK, DeployingInvariant, NEW v \in Releases,
           NEW recreated \in SUBSET Resources, NEW reverted,
           ProcessVersions(v, recreated, reverted)
    PROVE  DeployingInvariant'
  <1>1. PICK c : c = intent_changes(model, v, recreated, reverted)
    OBVIOUS
  <1>2. /\ model \in Models /\ v \in ModelVersions /\ c \in IntentChanges
        /\ \E n \in Models :
             \E o \in update_transitive_state(n, became_undefined(model, v, c), Added(model, v),
                                              became_defined(model, v, c) \cup Dropped(model, v)) :
               /\ \E F \in SUBSET Resources : RequiresDone(model, v, c, n, F)
               /\ VersionDone(v, recreated, c, n, o)
    BY <1>1, NewVersionEffect
  <1>3. PICK n, o, F : RequiresDone(model, v, c, n, F) /\ VersionDone(v, recreated, c, n, o)
    BY <1>2, Zenon
  <1>4. /\ \A r \in Resources : r \notin c.new \cup c.updated => n.intent[r] = model.intent[r]
        /\ \A r \in Resources \ c.deleted : model'.intent[r] = n.intent[r]
        /\ deploying_latest' = deploying_latest \ (c.deleted \cup c.new \cup c.updated \cup o.blocked)
        /\ deploying_unmanaged' = deploying_unmanaged \cup (deploying_latest \cap (c.new \cup c.deleted))
        /\ runner' = [x \in Agents |->
                        IF runner[x].pc = "deploying" /\ runner[x].resource \in c.new \cup c.deleted
                        THEN [runner[x] EXCEPT !.orphaned = TRUE] ELSE runner[x]]
    BY <1>3 DEF RequiresDone, VersionDone
  <1>5. \A x \in Agents :
          /\ runner'[x].pc = runner[x].pc /\ runner'[x].resource = runner[x].resource
          /\ runner'[x].hash = runner[x].hash
          /\ (runner[x].pc = "deploying" /\ runner[x].resource \in c.new \cup c.deleted)
               => runner'[x].orphaned = TRUE
          /\ ~(runner[x].pc = "deploying" /\ runner[x].resource \in c.new \cup c.deleted)
               => runner'[x].orphaned = runner[x].orphaned
    <2> TAKE x \in Agents
    <2>1. runner[x] \in Runners
      BY DEF TypeOK
    <2>2. CASE runner[x].pc = "deploying" /\ runner[x].resource \in c.new \cup c.deleted
      <3>1. runner'[x] = [runner[x] EXCEPT !.orphaned = TRUE]
        BY <1>4, <2>2
      <3> QED BY <2>1, <2>2, <3>1 DEF Runners
    <2>3. CASE ~(runner[x].pc = "deploying" /\ runner[x].resource \in c.new \cup c.deleted)
      <3>1. runner'[x] = runner[x]
        BY <1>4, <2>3
      <3> QED BY <2>1, <2>3, <3>1 DEF Runners
    <2> QED BY <2>2, <2>3
  <1>6. \A r \in Resources : AgentOf[r] \in Agents
    BY ConstantsAssumption
  <1>7. deploying_latest \subseteq Resources /\ deploying_unmanaged \subseteq Resources
    BY DEF TypeOK
  <1>8. \A x \in Agents : /\ runner'[x].pc # "idle" =>
                               runner'[x].resource \in Resources /\ AgentOf[runner'[x].resource] = x
                          /\ runner'[x].pc = "picked" => ~runner'[x].orphaned
    BY <1>5 DEF DeployingInvariant
  <1>9. ASSUME NEW r \in deploying_latest'
        PROVE  /\ r \in managed(model')
               /\ runner'[AgentOf[r]].pc = "deploying" /\ runner'[AgentOf[r]].resource = r
               /\ runner'[AgentOf[r]].hash = model'.intent[r] /\ ~runner'[AgentOf[r]].orphaned
    <2>1. /\ r \in deploying_latest /\ r \in Resources
          /\ r \notin c.deleted /\ r \notin c.new /\ r \notin c.updated
      BY <1>4, <1>7
    <2>2. model'.intent[r] = model.intent[r]
      BY <1>4, <2>1
    <2>3. AgentOf[r] \in Agents
      BY <1>6, <2>1
    <2>4. /\ r \in managed(model)
          /\ runner[AgentOf[r]].pc = "deploying" /\ runner[AgentOf[r]].resource = r
          /\ runner[AgentOf[r]].hash = model.intent[r] /\ ~runner[AgentOf[r]].orphaned
      BY <2>1 DEF DeployingInvariant
    <2> QED BY <1>5, <2>1, <2>2, <2>3, <2>4 DEF managed
  <1>10. ASSUME NEW r \in deploying_unmanaged'
         PROVE  /\ runner'[AgentOf[r]].pc = "deploying" /\ runner'[AgentOf[r]].resource = r
                /\ runner'[AgentOf[r]].orphaned
    <2>1. r \in Resources /\ AgentOf[r] \in Agents
      BY <1>4, <1>6, <1>7
    <2>2. CASE r \in deploying_unmanaged
      <3>1. /\ runner[AgentOf[r]].pc = "deploying" /\ runner[AgentOf[r]].resource = r
            /\ runner[AgentOf[r]].orphaned
        BY <2>2 DEF DeployingInvariant
      <3> QED BY <1>5, <2>1, <3>1
    <2>3. CASE r \in deploying_latest /\ r \in c.new \cup c.deleted
      <3>1. runner[AgentOf[r]].pc = "deploying" /\ runner[AgentOf[r]].resource = r
        BY <2>3 DEF DeployingInvariant
      <3> QED BY <1>5, <2>1, <2>3, <3>1
    <2> QED BY <1>4, <2>2, <2>3
  <1> QED BY <1>8, <1>9, <1>10 DEF DeployingInvariant

\* Every step keeps it, unless the write of deploy_start fails: that leaves a resource in
\* _deploying_latest which nobody deploys.
LEMMA DeployingStep ==
    ASSUME TypeOK, ~DbMayFail, BlockedInvariant, DeployingInvariant, [SchedulerStep]_vars
    PROVE  DeployingInvariant'
  <1> DEFINE Goal == DeployingInvariant'
  <1> HIDE DEF Goal
  <1>0. /\ model \in Models /\ runner \in [Agents -> Runners]
        /\ deploying_latest \subseteq Resources /\ deploying_unmanaged \subseteq Resources
        /\ TypeOK'
    BY TypeStep DEF TypeOK
  <1>1. /\ \A x \in Agents : runner[x].pc # "idle" =>
             runner[x].resource \in Resources /\ AgentOf[runner[x].resource] = x
        /\ \A r \in deploying_latest : runner[AgentOf[r]].resource = r /\ runner[AgentOf[r]].pc = "deploying"
        /\ \A r \in deploying_unmanaged : runner[AgentOf[r]].resource = r /\ runner[AgentOf[r]].pc = "deploying"
    BY DEF DeployingInvariant
  <1>t. deploying_latest' \subseteq Resources /\ deploying_unmanaged' \subseteq Resources
    BY <1>0 DEF TypeOK
  \* The runner x, which is not deploying, is idle or picked afterwards.
  <1>n. ASSUME NEW x \in Agents, NEW new, runner[x].pc # "deploying", runner' = [runner EXCEPT ![x] = new],
               model'.intent = model.intent,
               new.pc # "idle" => new.resource \in Resources /\ AgentOf[new.resource] = x,
               new.pc = "picked" => ~new.orphaned,
               deploying_latest' = deploying_latest, deploying_unmanaged' = deploying_unmanaged
        PROVE Goal
    <2>1. /\ \A r \in deploying_latest' : r \in deploying_latest /\ AgentOf[r] # x
          /\ \A r \in deploying_unmanaged' : r \in deploying_unmanaged /\ AgentOf[r] # x
      BY <1>1, <1>n
    <2> QED BY <1>n, <1>t, <2>1, OneRunner DEF Goal
  \* The deploy of the runner x is over, and neither set claims it any more.
  <1>d. ASSUME NEW x \in Agents, NEW p \in {"reporting", "raised"}, runner[x].pc = "deploying",
               runner' = [runner EXCEPT ![x].pc = p], model'.intent = model.intent,
               deploying_latest' \subseteq deploying_latest \ {runner[x].resource},
               deploying_unmanaged' \subseteq deploying_unmanaged \ {runner[x].resource}
        PROVE Goal
    <2>1. PICK new : new = [runner[x] EXCEPT !.pc = p]
      OBVIOUS
    <2>2. runner' = [runner EXCEPT ![x] = new] /\ new.pc = p /\ new.resource = runner[x].resource
      BY <1>0, <1>d, <2>1 DEF Runners
    <2>3. /\ \A r \in deploying_latest' : r \in deploying_latest /\ AgentOf[r] # x
          /\ \A r \in deploying_unmanaged' : r \in deploying_unmanaged /\ AgentOf[r] # x
      BY <1>1, <1>d
    <2>4. new.resource \in Resources /\ AgentOf[new.resource] = x
      BY <1>1, <1>d, <2>2
    <2>5. model'.intent = model.intent /\ new.pc # "picked"
      BY <1>d, <2>2
    <2>6. \A r \in deploying_latest' :
            \/ r \in deploying_latest /\ AgentOf[r] # x
            \/ /\ AgentOf[r] = x /\ r \in managed(model)
               /\ new.pc = "deploying" /\ new.resource = r /\ new.hash = model.intent[r] /\ ~new.orphaned
      BY <2>3
    <2> QED BY <1>t, <2>2, <2>3, <2>4, <2>5, <2>6, OneRunner DEF Goal
  <1>u. ASSUME model'.intent = model.intent, runner' = runner,
               deploying_latest' = deploying_latest, deploying_unmanaged' = deploying_unmanaged
        PROVE Goal
    BY <1>u, SameRunners DEF Goal
  <1>2. ASSUME NEW S \in SUBSET Resources, Deploy(S) \/ Repair(S) PROVE Goal
    BY <1>0, <1>2, <1>u DEF Deploy, Repair, Models
  <1>3. ASSUME NEW r \in Resources, TimerFires(r) \/ DeployResource(r) PROVE Goal
    BY <1>3, <1>u DEF TimerFires, DeployResource
  <1>4. ASSUME NewVersionStep PROVE Goal
    BY <1>4, NewVersionDeploying DEF Goal, NewVersionStep
  <1>5. ASSUME NEW x \in Agents, NEW r \in Resources, QueueGet(x, r) PROVE Goal
    <2>1. PICK new : new = [IdleRunner EXCEPT !.pc = "picked", !.resource = r]
      OBVIOUS
    <2>2. new.pc = "picked" /\ new.resource = r /\ ~new.orphaned
      BY <2>1 DEF IdleRunner
    <2>3. /\ runner' = [runner EXCEPT ![x] = new] /\ AgentOf[r] = x /\ runner[x].pc # "deploying"
          /\ model' = model /\ deploying_latest' = deploying_latest /\ deploying_unmanaged' = deploying_unmanaged
      BY <1>5, <2>1 DEF QueueGet
    <2> QED BY <1>n, <2>2, <2>3
  <1>6. ASSUME NEW x \in Agents, DeployStartStale(x) \/ DeployStartRaises(x) \/ FinishDeploy(x) PROVE Goal
    <2>1. /\ runner' = [runner EXCEPT ![x] = IdleRunner] /\ runner[x].pc # "deploying"
          /\ model' = model /\ deploying_latest' = deploying_latest /\ deploying_unmanaged' = deploying_unmanaged
      BY <1>6 DEF DeployStartStale, DeployStartRaises, FinishDeploy
    <2>2. IdleRunner.pc = "idle"
      BY DEF IdleRunner
    <2> QED BY <1>n, <2>1, <2>2
  <1>7. ASSUME NEW x \in Agents, DeployStart(x) PROVE Goal
    <2>1. PICK r : r = runner[x].resource
      OBVIOUS
    <2>2. /\ runner[x].pc = "picked" /\ r \in managed(model)
          /\ deploying_latest' = deploying_latest \cup {r} /\ deploying_unmanaged' = deploying_unmanaged
          /\ runner' = [runner EXCEPT ![x].pc = "deploying", ![x].hash = model.intent[r]]
          /\ model' = model
      BY <1>7, <2>1 DEF DeployStart
    <2>3. PICK new : new = [runner[x] EXCEPT !.pc = "deploying", !.hash = model.intent[r]]
      OBVIOUS
    <2>4. /\ runner' = [runner EXCEPT ![x] = new]
          /\ new.pc = "deploying" /\ new.resource = r /\ new.hash = model.intent[r]
          /\ new.orphaned = runner[x].orphaned
      BY <1>0, <2>1, <2>2, <2>3 DEF Runners
    <2>5. ~new.orphaned /\ r \in Resources /\ AgentOf[r] = x
      BY <1>1, <2>1, <2>2, <2>4 DEF DeployingInvariant
    <2>6. /\ \A y \in deploying_latest' :
               \/ y \in deploying_latest /\ AgentOf[y] # x
               \/ /\ AgentOf[y] = x /\ y \in managed(model)
                  /\ new.pc = "deploying" /\ new.resource = y /\ new.hash = model.intent[y] /\ ~new.orphaned
          /\ \A y \in deploying_unmanaged' : y \in deploying_unmanaged /\ AgentOf[y] # x
      BY <1>1, <2>2, <2>4, <2>5
    <2> QED BY <1>t, <2>2, <2>4, <2>5, <2>6, OneRunner DEF Goal
  <1>8. ASSUME NEW x \in Agents, NEW result \in Reports, DeployDoneUnmanaged(x, result) PROVE Goal
    <2>1. PICK r : r = runner[x].resource
      OBVIOUS
    <2>2. /\ runner[x].pc = "deploying" /\ (r \notin managed(model) \/ r \in deploying_unmanaged)
          /\ deploying_unmanaged' = deploying_unmanaged \ {r}
          /\ runner' = [runner EXCEPT ![x].pc = "reporting"]
          /\ model' = model /\ deploying_latest' = deploying_latest
      BY <1>8, <2>1 DEF DeployDoneUnmanaged
    <2>3. r \notin deploying_latest
      BY <2>2 DEF DeployingInvariant
    <2> QED BY <1>d, <2>1, <2>2, <2>3
  <1>9. ASSUME NEW x \in Agents, NEW result \in Reports, DeployDoneStale(x, result) PROVE Goal
    <2>1. PICK r : r = runner[x].resource
      OBVIOUS
    <2>2. /\ runner[x].pc = "deploying" /\ r \in managed(model) /\ r \notin deploying_unmanaged
          /\ is_stale(model, r, runner[x].hash)
          /\ runner' = [runner EXCEPT ![x].pc = "reporting"]
          /\ deploying_latest' = deploying_latest /\ deploying_unmanaged' = deploying_unmanaged
      BY <1>9, <2>1 DEF DeployDoneStale
    <2>3. r \notin deploying_latest
      <3> SUFFICES ASSUME r \in deploying_latest PROVE FALSE
        OBVIOUS
      <3>1. r \notin is_undefined(model)
        BY DEF BlockedInvariant
      <3>2. runner[x].hash = model.intent[r]
        BY <1>1, <2>1, <2>2 DEF DeployingInvariant
      <3> QED BY <2>2, <3>1, <3>2 DEF is_stale
    <2>4. model'.intent = model.intent
      <3>1. PICK s \in Resources, m \in Models, handler \in HandlerResults :
              /\ send_events(m, deploying_latest, s, TRUE, recovered(model, s, result))
              /\ StaleRecorded(model, m, s, handler)
        BY <1>9, StaleReport
      <3> QED BY <1>0, <3>1 DEF StaleRecorded, send_events, Models
    <2> QED BY <1>d, <2>1, <2>2, <2>3, <2>4
  <1>10. ASSUME NEW x \in Agents, NEW result \in Reports, DeployDoneLatest(x, result) PROVE Goal
    <2>1. PICK r : r = runner[x].resource
      OBVIOUS
    <2>2. /\ runner[x].pc = "deploying" /\ r \notin deploying_unmanaged
          /\ runner' = [runner EXCEPT ![x].pc = "reporting"]
          /\ deploying_latest' = deploying_latest \ {r} /\ deploying_unmanaged' = deploying_unmanaged
      BY <1>10, <2>1 DEF DeployDoneLatest
    <2>3. model'.intent = model.intent
      <3>1. PICK s \in Resources, m \in Models :
              /\ send_events(m, deploying_latest \ {s}, s, FALSE, recovered(model, s, result))
              /\ Reported(model, m, s, result)
        BY <1>10, LatestReport
      <3> QED BY <1>0, <3>1 DEF Reported, send_events, Models
    <2> QED BY <1>d, <2>1, <2>2, <2>3
  <1>11. ASSUME NEW x \in Agents, NEW result \in Reports, DeployDoneRaises(x, result) PROVE Goal
    <2>1. /\ runner[x].pc = "deploying"
          /\ runner[x].resource \notin deploying_latest /\ runner[x].resource \notin deploying_unmanaged
          /\ runner' = [runner EXCEPT ![x].pc = "raised"]
          /\ deploying_latest' = deploying_latest /\ deploying_unmanaged' = deploying_unmanaged
          /\ model'.intent = model.intent
      BY <1>0, <1>11 DEF DeployDoneRaises, Models
    <2> QED BY <1>d, <2>1
  <1>12. Goal
    <2>1. ASSUME NEW x \in Agents, RunnerStep(x) PROVE Goal
      BY <1>5, <1>6, <1>7, <1>8, <1>9, <1>10, <1>11, <2>1 DEF RunnerStep
    <2>2. ASSUME UNCHANGED vars PROVE Goal
      BY <1>u, <2>2 DEF vars
    <2> QED BY <1>2, <1>3, <1>4, <2>1, <2>2 DEF SchedulerStep, OtherStep
  <1> QED BY <1>12 DEF Goal

(***************************************************************************)
(* _deploying_latest is what its comment says, the in-progress deploys for *)
(* the latest intent of a resource that may be deployed, as long as the    *)
(* write of deploy_start does not fail after the resource was added.       *)
(***************************************************************************)
THEOREM DeployingLatestIsLatest ==
    ASSUME ~DbMayFail
    PROVE  Spec => []DeployingIsLatest
  <1> DEFINE Inv == TypeOK /\ BlockedInvariant /\ DeployingInvariant
  <1>1. Init => Inv
    <2>1. Init => BlockedInvariant
      <3>1. Init => is_blocked(model) = {} /\ is_undefined(model) = {}
        BY DEF Init, EmptyModel, is_blocked, is_undefined, managed
      <3> QED BY <3>1 DEF BlockedInvariant, BlockedNotScheduled
    <2>2. Init => \A x \in Agents : runner[x].pc = "idle"
      BY DEF Init, IdleRunner
    <2>3. Init => DeployingInvariant
      BY <2>2 DEF Init, DeployingInvariant
    <2> QED BY <2>1, <2>3, InitCompliance DEF ComplianceInvariant
  <1>2. Inv /\ [SchedulerStep]_vars => Inv'
    BY TypeStep, BlockedStep, DeployingStep
  <1>3. Inv => DeployingIsLatest
    BY DEF BlockedInvariant, DeployingInvariant, DeployingIsLatest
  <1> HIDE DEF Inv
  <1> QED BY <1>1, <1>2, <1>3, NextIsStep, TypeCorrect, PTL DEF Spec
-----------------------------------------------------------------------------
(* What is blocked *)

\* The resources of the version v that are undefined or depend, directly or not, on one.
Undeployable(v) ==
    LeastClosed(Present(v), LAMBDA T : {r \in Present(v) : r \in v.undefined \/ v.requires[r] \cap T # {}})

(***************************************************************************)
(* The requires of a version have no cycle: every set of its resources has *)
(* one that requires none of them (export.py:317 refuses a cycle).         *)
(***************************************************************************)
AcyclicReleases ==
    \A v \in Releases : \A U \in SUBSET Present(v) :
        U # {} => \E r \in U : v.requires[r] \cap U = {}

(***************************************************************************)
(* No version requires a resource that an earlier one leaves undeployable, *)
(* unless that earlier one requires it as well.  Without this, stage 3 of  *)
(* update_transitive_state may leave a resource unblocked: it looks at the *)
(* resources with a new require in an arbitrary order, and never again at  *)
(* one that it found to have no blocked dependency yet (verified_blocked). *)
(***************************************************************************)
NoneRequiresUndeployable ==
    \A v, w \in Releases : \A r \in Present(w) :
        w.requires[r] \cap Undeployable(v) \subseteq IF r \in Present(v) THEN v.requires[r] ELSE {}

\* Undeployable is the least set that is closed, and therefore a fixpoint.
LEMMA UndeployableClosed ==
    ASSUME NEW v
    PROVE  /\ Undeployable(v) \subseteq Present(v)
           /\ \A r \in Present(v) :
                r \in Undeployable(v) <=> r \in v.undefined \/ v.requires[r] \cap Undeployable(v) # {}
           /\ \A W \in SUBSET Present(v) :
                (\A r \in Present(v) : r \in v.undefined \/ v.requires[r] \cap W # {} => r \in W)
                => Undeployable(v) \subseteq W
  <1> DEFINE S == Present(v)
             P(T) == {r \in S : r \in v.undefined \/ v.requires[r] \cap T # {}}
             D == {r \in S : \A U \in SUBSET S : P(U) \cap S \subseteq U => r \in U}
  <1>1. D = Undeployable(v)
    BY DEF Undeployable, LeastClosed
  <1>2. \A T, U : T \subseteq U => P(T) \subseteq P(U)
    OBVIOUS
  <1>3. \A T : \A r \in S : r \in P(T) <=> r \in v.undefined \/ v.requires[r] \cap T # {}
    OBVIOUS
  <1> HIDE DEF S, P
  <1>4. \A U \in SUBSET S : P(U) \cap S \subseteq U => D \subseteq U
    OBVIOUS
  <1>5. D \subseteq S
    OBVIOUS
  <1>6. P(D) \cap S \subseteq D
    <2> SUFFICES ASSUME NEW r \in P(D), r \in S, NEW U \in SUBSET S, P(U) \cap S \subseteq U PROVE r \in U
      OBVIOUS
    <2>1. D \subseteq U
      BY <1>4
    <2> QED BY <1>2, <2>1
  <1>7. D \subseteq P(D) \cap S
    <2>1. P(P(D) \cap S) \subseteq P(D)
      BY <1>2, <1>6
    <2> HIDE DEF D
    <2>2. PICK U \in SUBSET S : U = P(D) \cap S
      OBVIOUS
    <2>3. P(U) \cap S \subseteq U
      BY <2>1, <2>2
    <2> QED BY <1>4, <2>2, <2>3
  <1> HIDE DEF D
  <1>8. \A r \in S : r \in D <=> r \in v.undefined \/ v.requires[r] \cap D # {}
    BY <1>3, <1>6, <1>7
  <1>9. \A W \in SUBSET S : (\A r \in S : r \in v.undefined \/ v.requires[r] \cap W # {} => r \in W) => D \subseteq W
    BY <1>3, <1>4
  <1> QED BY <1>1, <1>5, <1>8, <1>9 DEF S

\* In a model that represents the version, these are the resources that depend on an
\* undefined one.
LEMMA UndeployableDepends ==
    ASSUME NEW m, NEW v, Represents(m, v)
    PROVE  DependsOnUndefined(m) = Undeployable(v)
  <1> DEFINE P(T) == {r \in Present(v) : r \in v.undefined \/ v.requires[r] \cap T # {}}
             Q(T) == is_undefined(m) \cup dependants(m, T)
  <1>1. managed(m) = Present(v)
    BY DEF managed, Present, Represents
  <1>2. \A T : Q(T) = P(T)
    <2>1. is_undefined(m) = {r \in Present(v) : r \in v.undefined}
      BY DEF Represents, Present, is_undefined, managed
    <2>2. \A T : dependants(m, T) = {r \in Present(v) : v.requires[r] \cap T # {}}
      BY <1>1 DEF Represents, Present, dependants
    <2> QED BY <2>1, <2>2
  <1>3. Undeployable(v) = {r \in Present(v) : \A U \in SUBSET Present(v) : P(U) \cap Present(v) \subseteq U => r \in U}
    BY DEF Undeployable, LeastClosed
  <1>4. DependsOnUndefined(m) = {r \in managed(m) : \A U \in SUBSET managed(m) : Q(U) \cap managed(m) \subseteq U => r \in U}
    BY DEF DependsOnUndefined, LeastClosed
  <1> HIDE DEF P, Q
  <1> QED BY <1>1, <1>2, <1>3, <1>4

\* The model before update_transitive_state has the intent and the requires of the version,
\* except for the resources that are deleted only afterwards.  What was blocked and is not
\* new is blocked in it, and so is what is undefined; nothing else is.
LEMMA BeforeTransitiveState ==
    ASSUME TypeOK, ClosedReleases, Follows(model), NEW v \in Releases, NEW c, NEW n, NEW F,
           is_undefined(model) \subseteq is_blocked(model),
           PlainChanges(v, c), RequiresDone(model, v, c, n, F)
    PROVE  /\ managed(n) = managed(model) \cup Present(v)
           /\ \A r \in Present(v) :
                /\ n.requires[r] = v.requires[r]
                /\ r \in is_undefined(n) <=> r \in v.undefined
                /\ r \in is_blocked(n) <=> r \in is_blocked(model) \/ r \in v.undefined
                /\ r \in v.undefined => r \in is_undefined(model) \cup became_undefined(model, v, c)
           /\ \A r \in managed(model) \ Present(v) : r \in is_blocked(n) <=> r \in is_blocked(model)
           /\ became_undefined(model, v, c) \subseteq Present(v) \cap is_blocked(n)
           /\ \A r \in Present(v) : r \in is_undefined(model) \ v.undefined => r \in became_defined(model, v, c)
           /\ \A r \in Present(v) : ~(model.requires[r] \subseteq v.requires[r]) => r \in Dropped(model, v)
  <1> DEFINE S == Added(model, v) \cup Dropped(model, v)
             changed == c.new \cup c.updated
             U == became_undefined(model, v, c)
  <1>1. managed(model) \subseteq Resources /\ Present(v) \subseteq Resources
    BY DEF managed, Present
  <1>2. \A r \in Resources :
          /\ n.intent[r] = IF r \in changed THEN v.intent[r] ELSE model.intent[r]
          /\ n.requires[r] = IF r \in S THEN v.requires[r] ELSE drop_edges(model.requires, c.new)[r]
          /\ n.resource_state[r].compliance =
               IF r \in changed THEN IF r \in v.undefined THEN "UNDEFINED" ELSE "HAS_UPDATE"
               ELSE model.resource_state[r].compliance
          /\ r \in c.new => n.resource_state[r].blocked = IF r \in v.undefined THEN "BLOCKED" ELSE "NOT_BLOCKED"
          /\ r \in c.updated \ c.new =>
               n.resource_state[r].blocked = IF r \in v.undefined \/ model.resource_state[r].blocked = "BLOCKED"
                                             THEN "BLOCKED" ELSE "NOT_BLOCKED"
          /\ r \notin changed => n.resource_state[r].blocked = IF r \in F THEN "NOT_BLOCKED"
                                                               ELSE model.resource_state[r].blocked
          /\ r \in F => model.resource_state[r].blocked = "TEMPORARILY_BLOCKED"
    BY ZenonT(40) DEF RequiresDone, SameButBlocked
  <1>3. c.new \cap managed(model) = {} /\ c.updated \subseteq managed(model)
        /\ \A r \in changed : r \in Present(v)
    BY DEF PlainChanges
  <1>4. \A r \in Resources : drop_edges(model.requires, c.new)[r] = model.requires[r]
    <2>1. \A r \in Resources : drop_edges(model.requires, c.new)[r] =
                                 IF r \in c.new THEN {} ELSE model.requires[r] \ c.new
      BY DEF drop_edges
    <2>2. \A r \in Resources : /\ r \in c.new => model.requires[r] = {}
                               /\ model.requires[r] \cap c.new = {}
      BY <1>3, FollowsClosed
    <2> HIDE DEF S, changed
    <2> TAKE r \in Resources
    <2>3. PICK e : e = model.requires[r]
      OBVIOUS
    <2>4. drop_edges(model.requires, c.new)[r] = IF r \in c.new THEN {} ELSE e \ c.new
      BY <2>1, <2>3
    <2> QED BY <2>2, <2>3, <2>4
  <1>5. \A r \in Present(v) : r \notin S => v.requires[r] = model.requires[r]
    BY <1>1 DEF Added, Dropped, added_requires, dropped_requires, Present
  <1>6. \A r \in U : r \in changed /\ r \in v.undefined
    BY DEF became_undefined
  <1>7. \A r \in Present(v) : ~(model.requires[r] \subseteq v.requires[r]) => r \in Dropped(model, v)
    BY DEF Dropped, dropped_requires, Present
  <1>8. \A r \in Present(v) :
          /\ r \notin changed => /\ r \in managed(model) /\ v.intent[r] = model.intent[r]
                                 /\ r \in v.undefined <=> r \in is_undefined(model)
          /\ r \in v.undefined => r \in is_undefined(model) \cup U
          /\ r \in is_undefined(model) \ v.undefined => r \in became_defined(model, v, c)
    <2> TAKE r \in Present(v)
    <2>1. r \notin changed => /\ r \in managed(model) /\ v.intent[r] = model.intent[r]
                              /\ r \in v.undefined <=> r \in is_undefined(model)
      BY DEF PlainChanges
    <2>2. r \in v.undefined /\ r \in changed => r \in is_undefined(model) \cup U
      BY DEF became_undefined
    <2>3. r \in changed /\ r \in is_undefined(model) \ v.undefined => r \in became_defined(model, v, c)
      BY DEF became_defined
    <2> QED BY <2>1, <2>2, <2>3
  <1> HIDE DEF S, changed, U
  <1>9. managed(n) = managed(model) \cup Present(v)
    <2>1. \A r \in Resources : n.intent[r] # None <=> r \in managed(model) \cup Present(v)
      <3> TAKE r \in Resources
      <3>1. CASE r \in changed
        BY <1>2, <1>3, <3>1 DEF Present
      <3>2. CASE r \notin changed
        BY <1>2, <1>8, <3>2 DEF Present, managed
      <3> QED BY <3>1, <3>2
    <2> QED BY <1>1, <2>1 DEF managed
  <1>10. ASSUME NEW r \in Present(v)
         PROVE  /\ n.requires[r] = v.requires[r]
                /\ r \in is_undefined(n) <=> r \in v.undefined
                /\ r \in is_blocked(n) <=> r \in is_blocked(model) \/ r \in v.undefined
    <2>1. r \in Resources /\ r \in managed(n)
      BY <1>1, <1>9
    <2>2. n.requires[r] = v.requires[r]
      <3>1. n.requires[r] = IF r \in S THEN v.requires[r] ELSE drop_edges(model.requires, c.new)[r]
        BY <1>2, <2>1
      <3>2. drop_edges(model.requires, c.new)[r] = model.requires[r]
        BY <1>4, <2>1
      <3>3. r \notin S => v.requires[r] = model.requires[r]
        BY <1>5
      <3> QED BY <3>1, <3>2, <3>3
    <2>3. CASE r \in c.new
      <3>1. r \in changed /\ r \notin managed(model) /\ r \notin is_blocked(model)
        BY <1>3, <2>3 DEF changed, is_blocked
      <3> QED BY <1>2, <2>1, <2>2, <2>3, <3>1 DEF is_undefined, is_blocked
    <2>4. CASE r \in c.updated \ c.new
      <3>1. r \in changed /\ r \in managed(model)
        BY <1>3, <2>4 DEF changed
      <3> QED BY <1>2, <2>1, <2>2, <2>4, <3>1 DEF is_undefined, is_blocked
    <2>5. CASE r \notin changed
      <3>1. r \in managed(model) /\ (r \in v.undefined <=> r \in is_undefined(model))
        BY <1>8, <2>5
      <3>2. r \in is_undefined(n) <=> r \in is_undefined(model)
        BY <1>2, <2>1, <2>5, <3>1 DEF is_undefined
      <3>3. r \in is_blocked(n) <=> r \in is_blocked(model)
        BY <1>2, <2>1, <2>5, <3>1 DEF is_blocked
      <3> QED BY <2>2, <3>1, <3>2, <3>3
    <2> QED BY <2>3, <2>4, <2>5 DEF changed
  <1>11. ASSUME NEW r \in managed(model) \ Present(v)
         PROVE  r \in is_blocked(n) <=> r \in is_blocked(model)
    <2>1. r \in Resources /\ r \notin changed /\ r \in managed(n)
      BY <1>1, <1>3, <1>9
    <2> QED BY <1>2, <2>1 DEF is_blocked
  <1>12. U \subseteq Present(v) \cap is_blocked(n)
    BY <1>3, <1>6, <1>10
  <1> QED BY <1>7, <1>8, <1>9, <1>10, <1>11, <1>12 DEF U

\* A new version blocks exactly its undeployable resources, if exactly those of the version
\* before it were blocked.  Stage 3 has nothing to add to what stage 2 finds; what is left
\* after stage 4 is closed, and a resource in it that is not undeployable would have one
\* among its requires, and so on without an end.  For the same reason the sets that
\* update_transitive_state returns have no resource of the version in common.
LEMMA NewVersionUndeployable ==
    ASSUME TypeOK, ClosedReleases, AcyclicReleases, NoneRequiresUndeployable,
           NEW before \in Releases \cup {EmptyVersion}, Represents(model, before),
           is_blocked(model) = Undeployable(before), NEW v \in Releases,
           NEW reverted \in SUBSET Resources, ProcessVersions(v, {}, reverted)
    PROVE  /\ is_blocked(model') = Undeployable(v)
           /\ \E c, n, o, F : /\ c = intent_changes(model, v, {}, reverted)
                             /\ RequiresDone(model, v, c, n, F) /\ VersionDone(v, {}, c, n, o)
                             /\ Present(v) \cap o.blocked \cap o.unblocked = {}
  <1>1. PICK c : c = intent_changes(model, v, {}, reverted)
    OBVIOUS
  <1>2. /\ model \in Models /\ v \in ModelVersions /\ c \in IntentChanges
        /\ \E n \in Models :
             \E o \in update_transitive_state(n, became_undefined(model, v, c), Added(model, v),
                                              became_defined(model, v, c) \cup Dropped(model, v)) :
               /\ \E F \in SUBSET Resources : RequiresDone(model, v, c, n, F)
               /\ VersionDone(v, {}, c, n, o)
    BY <1>1, NewVersionEffect
  <1>3. PICK U, A, V : /\ U = became_undefined(model, v, c) /\ A = Added(model, v)
                       /\ V = became_defined(model, v, c) \cup Dropped(model, v)
    OBVIOUS
  <1>4. PICK n, o, F : /\ n \in Models /\ o \in update_transitive_state(n, U, A, V)
                       /\ RequiresDone(model, v, c, n, F) /\ VersionDone(v, {}, c, n, o)
    BY <1>2, <1>3, Zenon
  <1>5. Follows(model) /\ Represents(model', v)
    <2>1. Follows(model)
      BY DEF Follows
    <2> QED BY <2>1, NewVersionFollows
  <1>6. \A r \in Present(before) :
           r \in Undeployable(before) <=> r \in before.undefined \/ before.requires[r] \cap Undeployable(before) # {}
    BY UndeployableClosed
  <1>7. managed(model) = Present(before) /\ is_undefined(model) \subseteq is_blocked(model)
    <2>1. \A r \in is_undefined(model) : r \in Present(before) /\ r \in before.undefined
      BY DEF Represents, is_undefined, managed
    <2>2. managed(model) = Present(before)
      BY DEF Represents, Present, managed
    <2> QED BY <1>6, <2>1, <2>2
  <1>8. /\ PlainChanges(v, c)
        /\ c.deleted = managed(model) \ Present(v) /\ c.new = Present(v) \ managed(model)
        /\ c.updated \subseteq managed(model) \cap Present(v)
    BY <1>1, PlainVersion DEF PlainChanges
  <1>9. /\ managed(n) = managed(model) \cup Present(v)
        /\ \A r \in Present(v) :
             /\ n.requires[r] = v.requires[r]
             /\ r \in is_undefined(n) <=> r \in v.undefined
             /\ r \in is_blocked(n) <=> r \in is_blocked(model) \/ r \in v.undefined
             /\ r \in v.undefined => r \in is_undefined(model) \cup U
        /\ U \subseteq Present(v) \cap is_blocked(n)
        /\ \A r \in Present(v) : r \in is_undefined(model) \ v.undefined => r \in V
        /\ \A r \in Present(v) : ~(model.requires[r] \subseteq v.requires[r]) => r \in V
    <2>1. /\ managed(n) = managed(model) \cup Present(v)
          /\ \A r \in Present(v) :
               /\ n.requires[r] = v.requires[r]
               /\ r \in is_undefined(n) <=> r \in v.undefined
               /\ r \in is_blocked(n) <=> r \in is_blocked(model) \/ r \in v.undefined
               /\ r \in v.undefined => r \in is_undefined(model) \cup became_undefined(model, v, c)
          /\ became_undefined(model, v, c) \subseteq Present(v) \cap is_blocked(n)
          /\ \A r \in Present(v) : r \in is_undefined(model) \ v.undefined => r \in became_defined(model, v, c)
          /\ \A r \in Present(v) : ~(model.requires[r] \subseteq v.requires[r]) => r \in Dropped(model, v)
      BY <1>4, <1>5, <1>7, <1>8, BeforeTransitiveState
    <2> QED BY <1>3, <2>1
  <1>10. Present(v) \subseteq Resources /\ \A r \in Present(v) : v.requires[r] \subseteq Present(v)
    BY DEF Present, ClosedReleases
  \* A resource that requires something that is blocked already is blocked already.
  <1>11. ASSUME NEW r \in Present(v), v.requires[r] \cap is_blocked(model) # {} PROVE r \in is_blocked(model)
    <2>1. before \in Releases
      <3>1. Undeployable(before) \subseteq Present(before) /\ Present(EmptyVersion) = {}
        BY UndeployableClosed DEF Present, EmptyVersion
      <3> QED BY <1>11, <3>1
    <2>2. v.requires[r] \cap Undeployable(before) \subseteq
            IF r \in Present(before) THEN before.requires[r] ELSE {}
      BY <2>1 DEF NoneRequiresUndeployable
    <2>3. r \in Present(before) /\ before.requires[r] \cap Undeployable(before) # {}
      BY <1>11, <2>2
    <2> QED BY <1>6, <2>3
  <1>12. PICK stage2 : stage2 = propagate_undefined(n, U)
    OBVIOUS
  <1>13. /\ stage2 \subseteq managed(n) \ is_blocked(n)
         /\ \A r \in managed(n) \ is_blocked(n) : r \in stage2 <=> n.requires[r] \cap (U \cup stage2) # {}
    BY <1>12, PropagateUndefinedScope, PropagateUndefinedResult
  <1> DEFINE B == is_blocked(n) \cup stage2
  <1>14. ASSUME NEW r \in Present(v), v.requires[r] \cap B # {} PROVE r \in B
    <2>1. PICK d \in v.requires[r] : d \in B /\ d \in Present(v)
      BY <1>10, <1>14
    <2>2. CASE d \in U \cup stage2
      BY <1>9, <1>13, <2>1, <2>2
    <2>3. CASE d \in is_blocked(model)
      BY <1>9, <1>11, <2>1, <2>3
    <2> QED BY <1>7, <1>9, <2>1, <2>2, <2>3
  <1>15. PICK stage3 \in verified_blocked(n, B, A) :
           /\ o.blocked = stage2 \cup stage3 \cup propagate_blocked(n, B \cup stage3, stage3)
           /\ o.unblocked = propagate_unblocked(n, B \cup stage3, V)
    <2>1. A \in SUBSET Resources
      BY <1>3 DEF Added
    <2>2. StagesFound(n, U, A, V, o)
      BY <1>4, <2>1, TransitiveStateResult
    <2>3. BlockedAfterStage2(n, U) = B
      BY <1>12 DEF BlockedAfterStage2
    <2> QED BY <1>12, <2>2, <2>3 DEF StagesFound
  <1>16. stage3 = {}
    <2>1. /\ stage3 \subseteq A /\ stage3 \cap B = {}
          /\ \A r \in stage3 : n.requires[r] \cap (B \cup stage3) # {}
      BY DEF verified_blocked
    <2>2. stage3 \subseteq Present(v)
      BY <1>3, <2>1 DEF Added, added_requires, Present
    <2> HIDE DEF B
    <2>3. \A r \in stage3 : v.requires[r] \cap stage3 # {}
      BY <1>9, <1>14, <2>1, <2>2
    <2> QED BY <2>2, <2>3 DEF AcyclicReleases
  <1>17. o.blocked = stage2 /\ o.unblocked = propagate_unblocked(n, B, V)
    <2>1. propagate_blocked(n, B, {}) = {}
      BY PropagateBlockedNothing
    <2>2. B \cup stage3 = B
      BY <1>16
    <2> HIDE DEF B
    <2> QED BY <1>15, <1>16, <2>1, <2>2
  <1>18. PICK T : T = o.unblocked
    OBVIOUS
  <1> HIDE DEF B
  <1>19. /\ T \subseteq B \ is_undefined(n)
         /\ \A r \in T : n.requires[r] \cap B \subseteq T
         /\ \A r \in B \ is_undefined(n) :
              (r \in V \cup dependants(n, T) /\ n.requires[r] \cap B \subseteq T) => r \in T
    BY <1>17, <1>18, PropagateUnblockedResult
  <1> DEFINE W == Present(v) \cap (B \ T)
  <1>20. is_blocked(model') = W
    <2>1. managed(model') = Present(v)
      BY <1>5 DEF Represents, Present, managed
    <2>2. ASSUME NEW r \in Present(v)
          PROVE  model'.resource_state[r].blocked = "BLOCKED" <=> r \in B \ T
      <3>1. r \in Resources \ c.deleted
        BY <1>8, <1>10
      <3>2. model'.resource_state[r].blocked = BlockedBy(n, o, r)
        BY <1>4, <1>8, <3>1 DEF VersionDone
      <3>3. r \in is_blocked(n) <=> n.resource_state[r].blocked = "BLOCKED"
        BY <1>9 DEF is_blocked
      <3> QED BY <1>17, <1>18, <3>2, <3>3 DEF BlockedBy, B
    <2> QED BY <2>1, <2>2 DEF is_blocked
  <1>21. Undeployable(v) \subseteq W
    <2>1. ASSUME NEW r \in Present(v), r \in v.undefined PROVE r \in W
      BY <1>9, <1>19, <2>1 DEF B
    <2>2. ASSUME NEW r \in Present(v), v.requires[r] \cap W # {} PROVE r \in W
      BY <1>9, <1>14, <1>19, <2>2
    <2>3. PICK X \in SUBSET Present(v) : X = W
      OBVIOUS
    <2> HIDE DEF W
    <2>4. \A r \in Present(v) : r \in v.undefined \/ v.requires[r] \cap X # {} => r \in X
      BY <2>1, <2>2, <2>3
    <2> QED BY <2>3, <2>4, UndeployableClosed
  <1>22. W \subseteq Undeployable(v)
    <2> SUFFICES ASSUME W \ Undeployable(v) # {} PROVE FALSE
      OBVIOUS
    <2>1. PICK r \in W \ Undeployable(v) : v.requires[r] \cap (W \ Undeployable(v)) = {}
      <3>1. W \ Undeployable(v) \in SUBSET Present(v)
        OBVIOUS
      <3> HIDE DEF W
      <3> QED BY <3>1 DEF AcyclicReleases
    <2>2. r \in Present(v) /\ r \in B /\ r \notin T
      OBVIOUS
    <2>3. r \notin v.undefined /\ v.requires[r] \cap Undeployable(v) = {}
      BY <2>1, <2>2, UndeployableClosed
    <2>4. v.requires[r] \cap B \subseteq T
      BY <1>10, <2>1, <2>2, <2>3
    <2>5. r \notin is_undefined(n) /\ n.requires[r] = v.requires[r] /\ r \in managed(n)
      BY <1>9, <2>2, <2>3
    <2>6. r \notin V /\ r \notin dependants(n, T)
      BY <1>19, <2>2, <2>4, <2>5
    <2>7. v.requires[r] \cap B = {}
      <3>1. v.requires[r] \cap T = {}
        BY <2>5, <2>6 DEF dependants
      <3> QED BY <2>4, <3>1
    <2>8. r \notin stage2
      BY <1>9, <1>13, <2>5, <2>7 DEF B
    <2>9. r \in is_blocked(model)
      BY <1>9, <2>2, <2>3, <2>8 DEF B
    <2>10. r \in Present(before) /\ model.requires[r] = before.requires[r] /\ model.requires[r] \subseteq v.requires[r]
      BY <1>7, <1>9, <1>10, <2>2, <2>6, <2>9 DEF Represents, is_blocked
    <2>11. r \notin before.undefined
      BY <1>9, <1>10, <2>2, <2>3, <2>6, <2>10 DEF Represents
    <2>12. PICK d \in v.requires[r] : d \in is_blocked(model)
      BY <1>6, <2>9, <2>10, <2>11
    <2> QED BY <1>9, <1>10, <2>2, <2>7, <2>12 DEF B
  <1>23. Present(v) \cap o.blocked \cap o.unblocked = {}
    <2> DEFINE X == Present(v) \cap stage2 \cap T
    <2>1. ASSUME NEW r \in X PROVE v.requires[r] \cap X # {}
      <3>1. PICK d \in v.requires[r] : d \in U \cup stage2
        BY <1>9, <1>13
      <3>2. d \in Present(v) /\ d \in T
        BY <1>9, <1>10, <1>19, <3>1 DEF B
      <3>3. d \notin U
        BY <1>3, <1>9, <1>19, <3>2 DEF became_undefined
      <3> QED BY <3>1, <3>2, <3>3
    <2>2. X \in SUBSET Present(v)
      OBVIOUS
    <2>3. X = {}
      <3> HIDE DEF X
      <3> QED BY <2>1, <2>2 DEF AcyclicReleases
    <2> QED BY <1>17, <1>18, <2>3
  <1>24. \E cc, nn, oo, FF : /\ cc = intent_changes(model, v, {}, reverted)
                            /\ RequiresDone(model, v, cc, nn, FF) /\ VersionDone(v, {}, cc, nn, oo)
                            /\ Present(v) \cap oo.blocked \cap oo.unblocked = {}
    BY <1>1, <1>4, <1>23, Zenon
  <1> QED BY <1>20, <1>21, <1>22, <1>24

(***************************************************************************)
(* BlockedIsUndefined in terms of the version that the model represents:   *)
(* the inductive form.                                                     *)
(***************************************************************************)
BlockedIsUndeployable ==
    \E v \in Releases \cup {EmptyVersion} :
        Represents(model, v) /\ is_blocked(model) = Undeployable(v)

\* The empty version has nothing to block.
LEMMA InitUndeployable == Init => BlockedIsUndeployable
  <1> SUFFICES ASSUME Init PROVE BlockedIsUndeployable
    OBVIOUS
  <1>1. managed(model) = {} /\ is_blocked(model) = {}
    BY DEF Init, EmptyModel, managed, is_blocked
  <1>2. PICK v \in Releases \cup {EmptyVersion} : Represents(model, v)
    BY InitFollows DEF Follows
  <1>3. Present(v) = {}
    BY <1>1, <1>2 DEF Represents, Present, managed
  <1>4. Undeployable(v) = {}
    BY <1>3, UndeployableClosed
  <1> QED BY <1>1, <1>2, <1>4 DEF BlockedIsUndeployable

\* Every step keeps it.
LEMMA UndeployableStep ==
    ASSUME ClosedReleases, AcyclicReleases, NoneRequiresUndeployable,
           TypeOK, BlockedIsUndeployable, [PlainStep]_vars
    PROVE  BlockedIsUndeployable'
  <1>1. PICK before \in Releases \cup {EmptyVersion} :
          Represents(model, before) /\ is_blocked(model) = Undeployable(before)
    BY DEF BlockedIsUndeployable
  <1>2. CASE PlainVersionStep
    <2>1. PICK v \in Releases : \E reverted \in SUBSET Resources : ProcessVersions(v, {}, reverted)
      BY <1>2 DEF PlainVersionStep
    <2>2. Follows(model)
      BY <1>1 DEF Follows
    <2>3. Represents(model', v)
      BY <2>1, <2>2, NewVersionFollows
    <2>4. is_blocked(model') = Undeployable(v)
      BY <1>1, <2>1, NewVersionUndeployable
    <2> QED BY <2>3, <2>4 DEF BlockedIsUndeployable
  <1>3. CASE SameVersion
    <2>1. Represents(model', before) /\ is_blocked(model') = Undeployable(before)
      BY <1>1, <1>3 DEF Represents, SameVersion
    <2> QED BY <2>1 DEF BlockedIsUndeployable
  <1> QED BY <1>2, <1>3, OtherStepModel DEF PlainStep

(***************************************************************************)
(* Whatever the requests, events and deploys in between, the blocked       *)
(* resources are those that depend, directly or not, on an undefined one   *)
(* of the last version: update_transitive_state, which only looks at what  *)
(* changed, agrees with a computation from nothing.                        *)
(***************************************************************************)
THEOREM BlockedMeansUndeployable ==
    ASSUME ~AllowBatches, ClosedReleases, AcyclicReleases, NoneRequiresUndeployable
    PROVE  Spec => []BlockedIsUndefined
  <1> DEFINE Inv == TypeOK /\ BlockedIsUndeployable
  <1>1. Init => Inv
    BY InitCompliance, InitUndeployable DEF ComplianceInvariant
  <1>2. Inv /\ [PlainStep]_vars => Inv'
    BY TypeStep, UndeployableStep, PlainNext
  <1>3. Inv => BlockedIsUndefined
    BY UndeployableDepends DEF BlockedIsUndefined, BlockedIsUndeployable
  <1> HIDE DEF Inv
  <1> QED BY <1>1, <1>2, <1>3, PlainNext, TypeCorrect, PTL DEF Spec
=============================================================================
