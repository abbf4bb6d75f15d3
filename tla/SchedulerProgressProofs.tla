---------------------- MODULE SchedulerProgressProofs ----------------------
(***************************************************************************)
(* Nothing is forgotten by the resource scheduler: the dirty set holds     *)
(* whatever a deploy request should deploy, each update is scheduled or    *)
(* being deployed, each waiting task waits for one that will finish, and   *)
(* no resource drops out of the periodic repair.  The theorems are about   *)
(* the behaviours in which no report of a deploy raises (ReportedSpec):    *)
(* after one, _update_scheduler_state_for_finished_deploy has assigned the *)
(* compliance of a resource and nothing else.                              *)
(***************************************************************************)
EXTENDS ResourceSchedulerProofs

\* A step in which no report raises, and no version re-creates a resource.
ReportedStep == PlainStep /\ \A x \in Agents : runner'[x].pc # "raised"

\* Without batches, the behaviours of ReportedSpec consist of such steps.
LEMMA ReportedSteps ==
    ASSUME ~AllowBatches
    PROVE  ReportedSpec => Init /\ [][ReportedStep]_vars
  <1>1. TypeOK /\ [Next /\ \A x \in Agents : runner'[x].pc # "raised"]_vars => [ReportedStep]_vars
    BY PlainNext DEF ReportedStep
  <1>2. ReportedSpec => Spec
    <2>1. [Next /\ \A x \in Agents : runner'[x].pc # "raised"]_vars => [Next]_vars
      OBVIOUS
    <2> QED BY <2>1, PTL DEF ReportedSpec, Spec
  <1> QED BY <1>1, <1>2, TypeCorrect, PTL DEF ReportedSpec

-----------------------------------------------------------------------------
(* What is known of a resource, and the dirty set *)

(***************************************************************************)
(* What the state of r says of its last deploy: a compliant resource was   *)
(* deployed, one that never was deployed has an update or is undefined,    *)
(* and one that may be deployed and has an update, or was not deployed     *)
(* with success, is dirty.                                                 *)
(***************************************************************************)
KnownState(m, r) ==
    LET s == m.resource_state[r]
    IN  /\ s.compliance = "COMPLIANT" => s.last_handler_run # "NEW" /\ s.last_deployed
        /\ ~s.last_deployed => s.compliance \in {"HAS_UPDATE", "UNDEFINED"}
        /\ s.blocked # "BLOCKED" /\ s.compliance = "HAS_UPDATE" => r \in m.dirty
        /\ (/\ s.blocked = "NOT_BLOCKED"
            /\ s.compliance = "NON_COMPLIANT" /\ s.last_handler_run # "SUCCESSFUL")
           => r \in m.dirty

\* DirtyIsComplete is inductive with that, and with the fact that the resource of a stale
\* deploy has an update, or is undefined: what such a deploy reports says nothing of it.
DirtyInvariant ==
    /\ \A r \in managed(model) : KnownState(model, r)
    /\ \A x \in Agents : \A r \in managed(model) :
         runner[x].pc = "deploying" /\ runner[x].resource = r /\ runner[x].hash # model.intent[r]
         => model.resource_state[r].compliance \in {"HAS_UPDATE", "UNDEFINED"}
    /\ \A x \in Agents : runner[x].pc # "raised"

\* That is what DirtyIsComplete says.
LEMMA KnownIsComplete == DirtyInvariant => DirtyIsComplete
  BY DEF DirtyInvariant, DirtyIsComplete, KnownState, is_dirty

\* The events of a report, and the recovery of those that skip, keep what is known.
LEMMA SendEventsKnown ==
    ASSUME TypeOK, NEW m \in Models, NEW deploying \in SUBSET deploying_latest,
           NEW q, NEW stale, NEW rec, send_events(m, deploying, q, stale, rec),
           NEW r \in Resources, KnownState(m, r)
    PROVE  KnownState(model', r)
  <1>1. deploying \in SUBSET Resources /\ work \in Works
    BY DEF TypeOK
  <1>2. /\ model'.dirty = m.dirty \cup Recovering(m, q, rec)
        /\ SameButBlocked(m.resource_state[r], model'.resource_state[r])
        /\ model'.resource_state[r].blocked = IF r \in Recovering(m, q, rec) THEN "NOT_BLOCKED"
                                              ELSE m.resource_state[r].blocked
    BY <1>1, SendEventsEffect, SMTT(30)
  <1> QED BY <1>2 DEF SameButBlocked, KnownState

\* So does the record of a stale report.
LEMMA StaleKnown ==
    ASSUME NEW m, NEW n, NEW r, NEW handler, StaleRecorded(m, n, r, handler),
           m.resource_state[r].compliance \in {"HAS_UPDATE", "UNDEFINED"},
           NEW y \in Resources, KnownState(m, y)
    PROVE  KnownState(n, y)
  <1>1. CASE y = r
    BY <1>1 DEF StaleRecorded, KnownState
  <1>2. CASE y # r
    BY <1>2 DEF StaleRecorded, KnownState
  <1> QED BY <1>1, <1>2

\* And so does the report of the latest intent.
LEMMA LatestKnown ==
    ASSUME NEW m, NEW n, NEW r, NEW result, Reported(m, n, r, result),
           NEW y \in Resources, KnownState(m, y)
    PROVE  KnownState(n, y)
  <1>1. CASE y = r
    <2>1. result = "deployed" => from_handler_resource_state(result) = "SUCCESSFUL"
      BY DEF from_handler_resource_state
    <2> QED BY <1>1, <2>1 DEF Reported, KnownState
  <1>2. CASE y # r
    BY <1>2 DEF Reported, KnownState
  <1> QED BY <1>1, <1>2

(***************************************************************************)
(* What a version that re-creates nothing leaves of the state of a         *)
(* resource r: it keeps what is known of r, it makes r dirty if it changes *)
(* it or unblocks it with a pending deploy, and it deletes the task of r   *)
(* only if r is blocked, or was both blocked and unblocked in one go.      *)
(***************************************************************************)
VersionOutcome(v, c, n, o, r) ==
    LET changed == c.new \cup c.updated
        dirty == (n.dirty \ o.blocked) \cup {x \in o.unblocked : is_dirty(n.resource_state[x])}
        s == model.resource_state[r]
        t == model'.resource_state[r]
    IN  /\ r \notin c.deleted
        /\ r \in changed => t.compliance \in {"HAS_UPDATE", "UNDEFINED"}
        /\ r \notin changed =>
             /\ r \in managed(model) /\ model'.intent[r] = model.intent[r]
             /\ SameButBlocked(s, t)
        /\ t.compliance = "HAS_UPDATE" /\ r \in changed /\ t.blocked # "BLOCKED" => r \in dirty
        /\ r \notin changed /\ s.blocked = "BLOCKED" /\ t.blocked # "BLOCKED" => r \in o.unblocked
        /\ r \in o.unblocked /\ is_dirty(t) => r \in dirty
        /\ r \in o.blocked /\ t.blocked # "BLOCKED" => r \in o.unblocked
        /\ KnownState(model, r) \/ r \in changed => KnownState(model', r)

\* What update_requires and update_resource have left says what becomes of each resource.
LEMMA NewVersionOutcome ==
    ASSUME model \in Models, NEW v, NEW c, NEW n, NEW o, NEW F,
           RequiresDone(model, v, c, n, F), VersionDone(v, {}, c, n, o),
           NEW r \in managed(model')
    PROVE  VersionOutcome(v, c, n, o, r)
  <1> DEFINE changed == c.new \cup c.updated
             dirty == (n.dirty \ o.blocked) \cup {x \in o.unblocked : is_dirty(n.resource_state[x])}
             s == model.resource_state[r]
             u == n.resource_state[r]
             t == model'.resource_state[r]
  <1>1. r \in Resources /\ model'.intent[r] # None
    BY DEF managed
  <1>2. r \notin c.deleted
    BY <1>1 DEF VersionDone
  <1>3. /\ model'.dirty = dirty \ c.deleted
        /\ model'.intent[r] = n.intent[r]
        /\ SameButBlocked(u, t)
        /\ t.blocked = BlockedBy(n, o, r)
    BY <1>1, <1>2 DEF VersionDone
  <1>4. /\ n.dirty = (model.dirty \ changed) \cup F
                       \cup {x \in changed : x \notin v.undefined
                               /\ (x \in c.new \/ model.resource_state[x].blocked # "BLOCKED")}
        /\ n.intent[r] = IF r \in changed THEN v.intent[r] ELSE model.intent[r]
        /\ r \in changed => u.compliance = IF r \in v.undefined THEN "UNDEFINED" ELSE "HAS_UPDATE"
        /\ r \in c.new =>
             /\ u.blocked = IF r \in v.undefined THEN "BLOCKED" ELSE "NOT_BLOCKED"
             /\ u.last_handler_run = "NEW" /\ u.last_deployed = FALSE
        /\ r \in c.updated \ c.new =>
             u.blocked = IF r \in v.undefined \/ s.blocked = "BLOCKED" THEN "BLOCKED" ELSE "NOT_BLOCKED"
        /\ r \notin changed =>
             /\ SameButBlocked(s, u)
             /\ u.blocked = IF r \in F THEN "NOT_BLOCKED" ELSE s.blocked
        /\ r \in F => s.blocked = "TEMPORARILY_BLOCKED"
    BY <1>1 DEF RequiresDone
  <1>5. r \in changed => t.compliance \in {"HAS_UPDATE", "UNDEFINED"}
    BY <1>3, <1>4 DEF SameButBlocked
  <1>6. r \notin changed => /\ r \in managed(model) /\ model'.intent[r] = model.intent[r]
                            /\ SameButBlocked(s, t)
    BY <1>1, <1>3, <1>4 DEF SameButBlocked, managed
  <1>7. r \in o.unblocked /\ is_dirty(t) => r \in dirty
    BY <1>3 DEF SameButBlocked, is_dirty
  <1>8. r \in o.blocked /\ t.blocked # "BLOCKED" => r \in o.unblocked
    BY <1>3 DEF BlockedBy
  <1>9. r \notin changed /\ s.blocked = "BLOCKED" /\ t.blocked # "BLOCKED" => r \in o.unblocked
    BY <1>3, <1>4 DEF BlockedBy
  <1>10. ASSUME r \in changed, t.compliance = "HAS_UPDATE", t.blocked # "BLOCKED" PROVE r \in dirty
    <2>1. CASE r \in o.unblocked
      BY <1>7, <1>10, <2>1 DEF is_dirty
    <2>2. CASE r \notin o.unblocked
      <3>1. r \notin o.blocked /\ u.blocked # "BLOCKED"
        BY <1>3, <1>10, <2>2 DEF BlockedBy
      <3>2. r \notin v.undefined
        BY <1>3, <1>4, <1>10 DEF SameButBlocked
      <3>3. r \in c.new \/ s.blocked # "BLOCKED"
        BY <1>4, <1>10, <3>1
      <3> QED BY <1>4, <1>10, <3>1, <3>2, <3>3
    <2> QED BY <2>1, <2>2
  <1>11. ASSUME r \in changed PROVE KnownState(model', r)
    BY <1>2, <1>3, <1>5, <1>10, <1>11 DEF KnownState
  <1>12. ASSUME r \notin changed, KnownState(model, r) PROVE KnownState(model', r)
    <2>1. t.compliance = s.compliance /\ t.last_handler_run = s.last_handler_run
          /\ t.last_deployed = s.last_deployed
      BY <1>6, <1>12 DEF SameButBlocked
    <2>2. ASSUME \/ t.blocked # "BLOCKED" /\ t.compliance = "HAS_UPDATE"
                 \/ /\ t.blocked = "NOT_BLOCKED"
                    /\ t.compliance = "NON_COMPLIANT" /\ t.last_handler_run # "SUCCESSFUL"
          PROVE  r \in dirty
      <3>1. CASE r \in o.unblocked
        BY <1>7, <2>2, <3>1 DEF is_dirty
      <3>2. CASE r \notin o.unblocked
        <4>1. r \notin o.blocked /\ u.blocked = t.blocked
          BY <1>3, <2>2, <3>2 DEF BlockedBy
        <4>2. r \in F \/ s.blocked = t.blocked
          BY <1>4, <1>12, <4>1
        <4>3. r \in F \/ r \in model.dirty
          BY <1>12, <2>1, <2>2, <4>2 DEF KnownState
        <4> QED BY <1>4, <1>12, <4>1, <4>3
      <3> QED BY <3>1, <3>2
    <2>3. KnownState(model, r)
      BY <1>12
    <2>4. (\/ t.blocked # "BLOCKED" /\ t.compliance = "HAS_UPDATE"
           \/ /\ t.blocked = "NOT_BLOCKED"
              /\ t.compliance = "NON_COMPLIANT" /\ t.last_handler_run # "SUCCESSFUL")
          => r \in model'.dirty
      BY <1>2, <1>3, <2>2
    <2> QED BY <2>1, <2>3, <2>4 DEF KnownState
  <1>13. KnownState(model, r) \/ r \in changed => KnownState(model', r)
    BY <1>11, <1>12
  <1>14. t.compliance = "HAS_UPDATE" /\ r \in changed /\ t.blocked # "BLOCKED" => r \in dirty
    BY <1>10
  <1> QED BY <1>2, <1>5, <1>6, <1>7, <1>8, <1>9, <1>13, <1>14 DEF VersionOutcome

\* A version that re-creates nothing has that outcome for every resource that is left.
LEMMA PlainVersionEffect ==
    ASSUME TypeOK, NEW v \in Releases,
           NEW reverted \in SUBSET Resources, ProcessVersions(v, {}, reverted)
    PROVE  \E c, n, o, F : /\ c = intent_changes(model, v, {}, reverted)
                           /\ RequiresDone(model, v, c, n, F) /\ VersionDone(v, {}, c, n, o)
                           /\ \A r \in managed(model') : VersionOutcome(v, c, n, o, r)
  <1>1. PICK c : c = intent_changes(model, v, {}, reverted)
    OBVIOUS
  <1>2. model \in Models
    BY DEF TypeOK
  <1>3. PICK n, o, F : RequiresDone(model, v, c, n, F) /\ VersionDone(v, {}, c, n, o)
    BY <1>1, NewVersionEffect
  <1>4. \A r \in managed(model') : VersionOutcome(v, c, n, o, r)
    BY <1>2, <1>3, NewVersionOutcome
  <1> QED BY <1>1, <1>3, <1>4

\* It keeps the dirty invariant.
LEMMA NewVersionDirty ==
    ASSUME TypeOK, DirtyInvariant, NEW v \in Releases,
           NEW reverted \in SUBSET Resources, ProcessVersions(v, {}, reverted)
    PROVE  DirtyInvariant'
  <1>1. PICK c, n, o, F : /\ RequiresDone(model, v, c, n, F) /\ VersionDone(v, {}, c, n, o)
                          /\ \A r \in managed(model') : VersionOutcome(v, c, n, o, r)
    BY PlainVersionEffect
  <1>2. \A r \in managed(model') : KnownState(model', r)
    BY <1>1 DEF VersionOutcome, DirtyInvariant
  <1>3. \A x \in Agents : /\ runner'[x].pc = runner[x].pc /\ runner'[x].resource = runner[x].resource
                          /\ runner'[x].hash = runner[x].hash
    <2> SUFFICES ASSUME NEW x \in Agents
                 PROVE  /\ runner'[x].pc = runner[x].pc /\ runner'[x].resource = runner[x].resource
                        /\ runner'[x].hash = runner[x].hash
      OBVIOUS
    <2>1. runner'[x] = runner[x] \/ runner'[x] = [runner[x] EXCEPT !.orphaned = TRUE]
      BY <1>1 DEF VersionDone
    <2>2. runner[x] \in Runners
      BY DEF TypeOK
    <2> QED BY <2>1, <2>2 DEF Runners
  <1>4. ASSUME NEW x \in Agents, NEW r \in managed(model'),
               runner'[x].pc = "deploying", runner'[x].resource = r, runner'[x].hash # model'.intent[r]
        PROVE  model'.resource_state[r].compliance \in {"HAS_UPDATE", "UNDEFINED"}
    <2>1. CASE r \in c.new \cup c.updated
      BY <1>1, <2>1 DEF VersionOutcome
    <2>2. CASE r \notin c.new \cup c.updated
      <3>1. /\ r \in managed(model) /\ model'.intent[r] = model.intent[r]
            /\ model'.resource_state[r].compliance = model.resource_state[r].compliance
        BY <1>1, <2>2 DEF VersionOutcome, SameButBlocked
      <3> QED BY <1>3, <1>4, <3>1 DEF DirtyInvariant
    <2> QED BY <2>1, <2>2
  <1>5. \A x \in Agents : runner'[x].pc # "raised"
    BY <1>3 DEF DirtyInvariant
  <1> QED BY <1>2, <1>4, <1>5 DEF DirtyInvariant

\* So does every other step in which no report raises.
LEMMA DirtyStep ==
    ASSUME TypeOK, DirtyInvariant, [ReportedStep]_vars,
           \A x \in Agents : runner[x].pc # "idle" => AgentOf[runner[x].resource] = x
    PROVE  DirtyInvariant'
  <1> DEFINE Goal == DirtyInvariant'
  <1> HIDE DEF Goal
  <1>0. model \in Models /\ runner \in [Agents -> Runners]
    BY DEF TypeOK
  <1>1. \A x \in Agents : runner'[x].pc # "raised"
    BY DEF ReportedStep, DirtyInvariant, vars
  <1>2. \A x \in Agents : \A r \in managed(model) :
           runner[x].pc = "deploying" /\ runner[x].resource = r /\ runner[x].hash # model.intent[r]
           => model.resource_state[r].compliance \in {"HAS_UPDATE", "UNDEFINED"}
    BY DEF DirtyInvariant
  <1>3. \A r \in managed(model) : KnownState(model, r)
    BY DEF DirtyInvariant
  <1>s. ASSUME model'.intent = model.intent,
               \A r \in managed(model) : KnownState(model', r),
               \A x \in Agents : runner'[x].pc = "deploying" =>
                 \/ runner'[x].hash = model.intent[runner'[x].resource]
                 \/ /\ runner'[x] = runner[x]
                    /\ runner[x].resource \in managed(model) => model'.resource_state[runner[x].resource].compliance
                                          = model.resource_state[runner[x].resource].compliance
        PROVE  Goal
    <2>1. managed(model') = managed(model)
      BY <1>s DEF managed
    <2>2. ASSUME NEW x \in Agents, NEW r \in managed(model),
                 runner'[x].pc = "deploying", runner'[x].resource = r, runner'[x].hash # model'.intent[r]
          PROVE  model'.resource_state[r].compliance \in {"HAS_UPDATE", "UNDEFINED"}
      BY <1>2, <1>s, <2>2
    <2> QED BY <1>1, <1>s, <2>1, <2>2 DEF Goal, DirtyInvariant
  <1>u. ASSUME model' = model,
               \A x \in Agents : runner'[x].pc = "deploying" =>
                 \/ runner'[x].hash = model.intent[runner'[x].resource]
                 \/ runner'[x] = runner[x]
        PROVE  Goal
    BY <1>3, <1>s, <1>u
  <1>4. ASSUME NEW S \in SUBSET Resources, Deploy(S) \/ Repair(S) PROVE Goal
    <2>1. CASE Deploy(S)
      BY <1>u, <2>1 DEF Deploy
    <2>2. CASE Repair(S)
      <3>1. /\ model'.intent = model.intent /\ model'.resource_state = model.resource_state
            /\ model.dirty \subseteq model'.dirty /\ runner' = runner
        BY <1>0, <2>2 DEF Repair, Models
      <3>2. \A r \in managed(model) : KnownState(model', r)
        BY <1>3, <3>1 DEF KnownState
      <3> QED BY <1>s, <3>1, <3>2
    <2> QED BY <1>4, <2>1, <2>2
  <1>5. ASSUME NEW r \in Resources, TimerFires(r) \/ DeployResource(r) PROVE Goal
    BY <1>u, <1>5 DEF TimerFires, DeployResource
  <1>6. ASSUME PlainVersionStep PROVE Goal
    BY <1>6, NewVersionDirty DEF Goal, PlainVersionStep
  <1>7. ASSUME NEW x \in Agents, NEW r \in Resources, QueueGet(x, r) PROVE Goal
    BY <1>0, <1>7, <1>u DEF QueueGet
  <1>8. ASSUME NEW x \in Agents, DeployStart(x) \/ DeployStartStale(x) \/ DeployStartRaises(x) PROVE Goal
    <2>1. model' = model
      BY <1>8 DEF DeployStart, DeployStartStale, DeployStartRaises
    <2>2. \A y \in Agents : runner'[y].pc = "deploying" =>
             \/ runner'[y].hash = model.intent[runner'[y].resource]
             \/ runner'[y] = runner[y]
      BY <1>0, <1>8 DEF DeployStart, DeployStartStale, DeployStartRaises, IdleRunner, Runners
    <2> QED BY <1>u, <2>1, <2>2
  <1>9. ASSUME NEW x \in Agents, NEW result \in Reports, DeployDoneUnmanaged(x, result) PROVE Goal
    BY <1>0, <1>9, <1>u DEF DeployDoneUnmanaged
  <1>10. ASSUME NEW x \in Agents, NEW result \in Reports, DeployDoneStale(x, result) PROVE Goal
    <2>1. PICK m \in Models, handler \in HandlerResults :
            LET r == runner[x].resource
            IN  /\ r \in Resources /\ r \in managed(model) /\ is_stale(model, r, runner[x].hash)
                /\ send_events(m, deploying_latest, r, TRUE, recovered(model, r, result))
                /\ StaleRecorded(model, m, r, handler)
      BY <1>10, StaleReport
    <2>2. PICK r : r = runner[x].resource
      OBVIOUS
    <2>3. PICK rec : rec = recovered(model, r, result)
      OBVIOUS
    <2>4. /\ r \in managed(model) /\ is_stale(model, r, runner[x].hash) /\ r \in Resources
          /\ send_events(m, deploying_latest, r, TRUE, rec) /\ StaleRecorded(model, m, r, handler)
      BY <2>1, <2>2, <2>3
    <2>5. runner' = [runner EXCEPT ![x].pc = "reporting"] /\ runner[x].pc = "deploying"
      BY <1>10 DEF DeployDoneStale
    <2>6. model.resource_state[r].compliance \in {"HAS_UPDATE", "UNDEFINED"}
      <3>1. CASE model.intent[r] # runner[x].hash
        BY <1>2, <2>2, <2>4, <2>5, <3>1
      <3>2. CASE r \in is_undefined(model)
        BY <3>2 DEF is_undefined
      <3> QED BY <2>4, <3>1, <3>2 DEF is_stale
    <2>7. \A y \in managed(model) : y \in Resources
      BY DEF managed
    <2>8. \A y \in managed(model) : KnownState(m, y)
      BY <1>3, <2>4, <2>6, <2>7, StaleKnown
    <2>9. PICK deploying \in SUBSET deploying_latest : deploying = deploying_latest
      OBVIOUS
    <2>10. send_events(m, deploying, r, TRUE, rec)
      BY <2>4, <2>9, Zenon
    <2>11. \A y \in managed(model) : KnownState(model', y)
      BY <2>7, <2>8, <2>10, SendEventsKnown
    <2>12. \A y \in Resources : model'.resource_state[y].compliance = model.resource_state[y].compliance
      <3>1. deploying_latest \in SUBSET Resources /\ work \in Works
        BY DEF TypeOK
      <3>2. \A y \in Resources : SameButBlocked(m.resource_state[y], model'.resource_state[y])
        BY <2>4, <3>1, SendEventsEffect
      <3>3. \A y \in Resources : m.resource_state[y].compliance = model.resource_state[y].compliance
        BY <2>4 DEF StaleRecorded
      <3> QED BY <3>2, <3>3 DEF SameButBlocked
    <2>13. model'.intent = model.intent
      <3>1. deploying_latest \in SUBSET Resources /\ work \in Works
        BY DEF TypeOK
      <3>2. model'.intent = m.intent
        BY <2>4, <3>1, SendEventsEffect
      <3> QED BY <2>4, <3>2 DEF StaleRecorded
    <2>14. \A y \in Agents : runner'[y].pc = "deploying" => runner'[y] = runner[y]
      BY <1>0, <2>5 DEF Runners
    <2> QED BY <1>s, <2>7, <2>11, <2>12, <2>13, <2>14
  <1>11. ASSUME NEW x \in Agents, NEW result \in Reports, DeployDoneLatest(x, result) PROVE Goal
    <2>1. PICK m \in Models :
            LET r == runner[x].resource
            IN  /\ r \in Resources /\ r \in managed(model)
                /\ send_events(m, deploying_latest \ {r}, r, FALSE, recovered(model, r, result))
                /\ Reported(model, m, r, result)
      BY <1>11, LatestReport
    <2>2. PICK r : r = runner[x].resource
      OBVIOUS
    <2>3. PICK rec : rec = recovered(model, r, result)
      OBVIOUS
    <2>4. PICK deploying \in SUBSET deploying_latest : deploying = deploying_latest \ {r}
      OBVIOUS
    <2>5. /\ r \in Resources /\ r \in managed(model) /\ Reported(model, m, r, result)
      BY <2>1, <2>2
    <2>6. send_events(m, deploying, r, FALSE, rec)
      BY <2>1, <2>2, <2>3, <2>4, Zenon
    <2>7. runner' = [runner EXCEPT ![x].pc = "reporting"] /\ runner[x].pc = "deploying"
      BY <1>11 DEF DeployDoneLatest
    <2>8. \A y \in managed(model) : y \in Resources
      BY DEF managed
    <2>9. \A y \in managed(model) : KnownState(m, y)
      BY <1>3, <2>5, <2>8, LatestKnown
    <2>10. \A y \in managed(model) : KnownState(model', y)
      BY <2>6, <2>8, <2>9, SendEventsKnown
    <2>11. deploying \in SUBSET Resources /\ work \in Works
      BY DEF TypeOK
    <2>12. /\ \A y \in Resources : SameButBlocked(m.resource_state[y], model'.resource_state[y])
           /\ model'.intent = m.intent
      BY <2>6, <2>11, SendEventsEffect
    <2>13. /\ \A y \in Resources \ {r} : model'.resource_state[y].compliance = model.resource_state[y].compliance
           /\ model'.intent = model.intent
      BY <2>5, <2>12 DEF SameButBlocked, Reported
    <2>14. \A y \in Agents : runner'[y].pc = "deploying" => runner'[y] = runner[y] /\ y # x
      BY <1>0, <2>7 DEF Runners
    <2>15. \A y \in Agents : runner[y].pc = "deploying" /\ runner[y].resource = r => y = x
      BY <2>2, <2>7
    <2> QED BY <1>s, <2>8, <2>10, <2>13, <2>14, <2>15
  <1>12. ASSUME NEW x \in Agents, NEW result \in Reports, DeployDoneRaises(x, result) PROVE Goal
    <2>1. runner'[x].pc = "raised"
      BY <1>0, <1>12 DEF DeployDoneRaises, Runners
    <2> QED BY <1>1, <2>1
  <1>13. ASSUME NEW x \in Agents, FinishDeploy(x) PROVE Goal
    BY <1>0, <1>13, <1>u DEF FinishDeploy, IdleRunner
  <1>14. ASSUME UNCHANGED vars PROVE Goal
    BY <1>14, <1>u DEF vars
  <1>15. Goal
    BY <1>4, <1>5, <1>6, <1>7, <1>8, <1>9, <1>10, <1>11, <1>12, <1>13, <1>14
    DEF ReportedStep, PlainStep, OtherStep, RunnerStep
  <1> QED BY <1>15 DEF Goal

\* The empty model has no resource to know anything of.
LEMMA InitDirty == Init => DirtyInvariant
  <1> SUFFICES ASSUME Init PROVE DirtyInvariant
    OBVIOUS
  <1>1. managed(model) = {}
    BY DEF Init, EmptyModel, managed
  <1>2. \A x \in Agents : runner[x].pc # "raised"
    BY DEF Init, IdleRunner
  <1> QED BY <1>1, <1>2 DEF DirtyInvariant

(***************************************************************************)
(* A user's deploy request misses no resource that needs it: every         *)
(* resource that is not blocked and whose last deploy did not bring it to  *)
(* its desired state is in the dirty set, whatever stale deploys, events,  *)
(* recoveries and new versions came in between.                            *)
(***************************************************************************)
THEOREM DirtySetIsComplete ==
    ASSUME ~AllowBatches
    PROVE  ReportedSpec => []DirtyIsComplete
  <1> DEFINE Inv == ComplianceInvariant /\ DirtyInvariant
  <1>1. Init => Inv
    BY InitCompliance, InitDirty
  <1>2. Inv /\ [ReportedStep]_vars => Inv'
    <2> SUFFICES ASSUME Inv, [ReportedStep]_vars PROVE Inv'
      OBVIOUS
    <2>1. [SchedulerStep]_vars
      BY PlainIsStep DEF ReportedStep
    <2>2. ComplianceInvariant'
      BY <2>1, ComplianceStep
    <2>3. DirtyInvariant'
      BY DirtyStep DEF ComplianceInvariant
    <2> QED BY <2>2, <2>3
  <1>3. Inv => DirtyIsComplete
    BY KnownIsComplete
  <1>4. ReportedSpec => Init /\ [][ReportedStep]_vars
    BY ReportedSteps
  <1> HIDE DEF Inv
  <1> QED BY <1>1, <1>2, <1>3, <1>4, PTL

-----------------------------------------------------------------------------
(* What the other theorems start from *)

\* Versions are as the theorem about what is blocked assumes.
OrderlyReleases == ClosedReleases /\ AcyclicReleases /\ NoneRequiresUndeployable

\* The invariants of which those below need a part each.
Foundation ==
    /\ TypeOK /\ BlockedInvariant /\ DeployingInvariant /\ DirtyInvariant
    /\ BlockedIsUndeployable

\* They hold together.
LEMMA InitFoundation == Init => Foundation
  <1> SUFFICES ASSUME Init PROVE Foundation
    OBVIOUS
  <1>1. is_blocked(model) = {} /\ is_undefined(model) = {}
    BY DEF Init, EmptyModel, is_blocked, is_undefined, managed
  <1>2. BlockedInvariant
    BY <1>1 DEF BlockedInvariant, BlockedNotScheduled, Init
  <1>3. DeployingInvariant
    BY DEF DeployingInvariant, Init, IdleRunner
  <1> QED BY <1>2, <1>3, InitCompliance, InitDirty, InitUndeployable DEF Foundation, ComplianceInvariant

\* Every step keeps them, if no database write fails and no report raises.
LEMMA FoundationStep ==
    ASSUME ~DbMayFail, OrderlyReleases, Foundation, [ReportedStep]_vars
    PROVE  Foundation'
  <1>1. [PlainStep]_vars /\ [SchedulerStep]_vars /\ TypeOK
    BY PlainIsStep DEF ReportedStep, Foundation
  <1>2. TypeOK' /\ BlockedInvariant'
    BY <1>1, TypeStep, BlockedStep DEF Foundation
  <1>3. \A x \in Agents : runner[x].pc # "idle" => AgentOf[runner[x].resource] = x
    BY DEF Foundation, DeployingInvariant
  <1>4. DeployingInvariant' /\ DirtyInvariant'
    BY <1>1, <1>3, DeployingStep, DirtyStep DEF Foundation
  <1>5. BlockedIsUndeployable'
    BY <1>1, UndeployableStep DEF Foundation, OrderlyReleases
  <1> QED BY <1>2, <1>4, <1>5 DEF Foundation

\* The model follows a closed version, so that only managed resources are required.
LEMMA FoundationFollows ==
    ASSUME OrderlyReleases, BlockedIsUndeployable
    PROVE  /\ Follows(model)
           /\ \A r \in Resources : model.requires[r] \subseteq managed(model)
  <1>1. Follows(model)
    BY DEF BlockedIsUndeployable, Follows
  <1> QED BY <1>1, FollowsClosed DEF OrderlyReleases

\* Nothing can raise in deploy_start: each dependency has an intent, and a compliant one
\* has a handler state.
LEMMA NoStartRaises ==
    ASSUME ~DbMayFail, OrderlyReleases, Foundation, NEW x \in Agents
    PROVE  ~DeployStartRaises(x)
  <1> SUFFICES ASSUME DeployStartRaises(x) PROVE FALSE
    OBVIOUS
  <1>1. PICK r : r = runner[x].resource
    OBVIOUS
  <1>2. r \in managed(model) /\ r \in Resources
    BY <1>1 DEF DeployStartRaises, managed
  <1>3. PICK d \in model.requires[r] : ~has_handler_state(model.resource_state[d])
    BY <1>1 DEF DeployStartRaises
  <1>4. d \in managed(model)
    BY <1>2, <1>3, FoundationFollows DEF Foundation
  <1>5. KnownState(model, d)
    BY <1>4 DEF Foundation, DirtyInvariant
  <1> QED BY <1>3, <1>5 DEF KnownState, has_handler_state

\* A new version changes no runner, except that it records orphaned deploys.
LEMMA VersionRunners ==
    ASSUME TypeOK, NEW v, NEW recreated, NEW c, NEW n, NEW o, VersionDone(v, recreated, c, n, o),
           NEW x \in Agents
    PROVE  /\ runner'[x].pc = runner[x].pc /\ runner'[x].resource = runner[x].resource
           /\ runner'[x].hash = runner[x].hash
           /\ runner[x].resource \notin c.new \cup c.deleted => runner'[x] = runner[x]
  <1>1. \/ runner'[x] = runner[x]
        \/ runner'[x] = [runner[x] EXCEPT !.orphaned = TRUE] /\ runner[x].resource \in c.new \cup c.deleted
    BY DEF VersionDone
  <1>2. runner[x] \in Runners
    BY DEF TypeOK
  <1> QED BY <1>1, <1>2 DEF Runners

\* The resources whose tasks and timers _new_version removes all are blocked, or deleted.
StopsOnlyBlocked(v, c, o) ==
    \A r \in managed(model') \ is_blocked(model') :
        r \notin c.deleted \cup became_undefined(model, v, c) \cup o.blocked

\* A version of an orderly release stops no resource but those that are gone or blocked.
LEMMA NewVersionStops ==
    ASSUME OrderlyReleases, Foundation, Foundation', NEW v \in Releases,
           NEW reverted \in SUBSET Resources, ProcessVersions(v, {}, reverted)
    PROVE  /\ Represents(model', v)
           /\ \E c, n, o, F : /\ c = intent_changes(model, v, {}, reverted)
                              /\ RequiresDone(model, v, c, n, F) /\ VersionDone(v, {}, c, n, o)
                              /\ StopsOnlyBlocked(v, c, o)
                              /\ \A r \in managed(model') : VersionOutcome(v, c, n, o, r)
  <1>1. TypeOK /\ TypeOK' /\ Follows(model) /\ model \in Models
    BY FoundationFollows DEF Foundation, TypeOK
  <1>2. ClosedReleases /\ AcyclicReleases /\ NoneRequiresUndeployable
    BY DEF OrderlyReleases
  <1>3. Represents(model', v)
    BY <1>1, <1>2, NewVersionFollows
  <1>4. PICK before \in Releases \cup {EmptyVersion} :
          Represents(model, before) /\ is_blocked(model) = Undeployable(before)
    BY DEF Foundation, BlockedIsUndeployable
  <1>5. PICK c, n, o, F : /\ c = intent_changes(model, v, {}, reverted)
                          /\ RequiresDone(model, v, c, n, F) /\ VersionDone(v, {}, c, n, o)
                          /\ Present(v) \cap o.blocked \cap o.unblocked = {}
    BY <1>1, <1>2, <1>4, NewVersionUndeployable
  <1>7. \A r \in managed(model') : VersionOutcome(v, c, n, o, r)
    BY <1>1, <1>5, NewVersionOutcome
  <1>8. ASSUME NEW r \in managed(model') \ is_blocked(model')
        PROVE  r \notin c.deleted \cup became_undefined(model, v, c) \cup o.blocked
    <2>1. r \in Present(v) /\ r \in Resources
      BY <1>3, <1>8 DEF Represents, Present, managed
    <2>2. r \notin c.deleted
      BY <1>7, <1>8 DEF VersionOutcome
    <2>3. r \notin v.undefined
      BY <1>3, <1>8, <2>1 DEF Represents, Foundation, BlockedInvariant
    <2>4. r \in o.blocked => r \in o.unblocked
      BY <1>7, <1>8, <2>1 DEF VersionOutcome, is_blocked
    <2>5. r \notin o.blocked
      BY <1>5, <2>1, <2>4
    <2> QED BY <2>2, <2>3, <2>5 DEF became_undefined
  <1>9. StopsOnlyBlocked(v, c, o)
    BY <1>8 DEF StopsOnlyBlocked
  <1> QED BY <1>3, <1>5, <1>5, <1>7, <1>9

(***************************************************************************)
(* What becomes of a resource r that may be deployed after a new version:  *)
(* it has a task, or the version did not concern it, or it was unblocked   *)
(* and its last deploy was compliant.                                      *)
(***************************************************************************)
Unconcerned(r) ==
    /\ r \in managed(model) \ is_blocked(model) /\ r \notin scheduled(work)
    /\ model'.intent[r] = model.intent[r]
    /\ model'.resource_state[r].compliance = model.resource_state[r].compliance
    /\ \A x \in Agents : runner[x].resource = r => runner'[x] = runner[x]
    /\ PeriodicRepair /\ r \in timers => r \in timers' \cup deploying_latest'

VersionFate(r) ==
    \/ r \in scheduled(work')
    \/ Unconcerned(r)
    \/ /\ model'.resource_state[r].compliance = "COMPLIANT"
       /\ PeriodicRepair => r \in timers'

\* Each resource that is not blocked is scheduled, goes on as it was, or is compliant.
LEMMA NewVersionFate ==
    ASSUME OrderlyReleases, Foundation, Foundation', NEW v \in Releases,
           NEW reverted \in SUBSET Resources, ProcessVersions(v, {}, reverted),
           NEW r \in managed(model') \ is_blocked(model')
    PROVE  VersionFate(r)
  <1>1. PICK c, n, o, F : /\ RequiresDone(model, v, c, n, F) /\ VersionDone(v, {}, c, n, o)
                          /\ StopsOnlyBlocked(v, c, o)
                          /\ \A y \in managed(model') : VersionOutcome(v, c, n, o, y)
    BY NewVersionStops
  <1> DEFINE dirty == (n.dirty \ o.blocked) \cup {x \in o.unblocked : is_dirty(n.resource_state[x])}
             stopped == c.deleted \cup became_undefined(model, v, c) \cup o.blocked
             changed == c.new \cup c.updated
             s == model.resource_state[r]
             t == model'.resource_state[r]
  <1>2. r \in Resources /\ r \in managed(model') /\ t.blocked # "BLOCKED"
    BY DEF managed, is_blocked
  <1>3. r \notin stopped
    BY <1>1 DEF StopsOnlyBlocked
  <1>4. /\ (scheduled(work) \cup (dirty \ deploying_latest')) \ stopped \subseteq scheduled(work')
        /\ deploying_latest' = deploying_latest \ (c.deleted \cup c.new \cup c.updated \cup o.blocked)
    BY <1>1 DEF VersionDone
  <1>5. /\ PeriodicRepair /\ r \in timers \ (dirty \cup stopped) => r \in timers'
        /\ PeriodicRepair /\ r \in o.unblocked \ dirty /\ t.last_deployed => r \in timers'
    BY <1>1, <1>2, <1>3 DEF VersionDone
  <1>6. /\ r \notin c.deleted
        /\ r \in changed => t.compliance \in {"HAS_UPDATE", "UNDEFINED"}
        /\ r \notin changed => r \in managed(model) /\ model'.intent[r] = model.intent[r] /\ SameButBlocked(s, t)
        /\ t.compliance = "HAS_UPDATE" /\ r \in changed /\ t.blocked # "BLOCKED" => r \in dirty
        /\ r \notin changed /\ s.blocked = "BLOCKED" /\ t.blocked # "BLOCKED" => r \in o.unblocked
        /\ r \in o.unblocked /\ is_dirty(t) => r \in dirty
    BY <1>1, <1>2 DEF VersionOutcome
  <1>7. \A x \in Agents : runner[x].resource \notin c.new \cup c.deleted => runner'[x] = runner[x]
    BY <1>1, VersionRunners DEF Foundation
  <1>8. t.compliance # "UNDEFINED"
    BY <1>2 DEF is_undefined, Foundation, BlockedInvariant
  <1>9. t.compliance = "COMPLIANT" => t.last_deployed
    BY <1>2 DEF Foundation, DirtyInvariant, KnownState
  <1>10. t \in ResourceStates
    BY <1>2 DEF Foundation, TypeOK, Models
  <1> HIDE DEF dirty, stopped
  <1>11. CASE r \in changed
    <2>1. r \in dirty \ deploying_latest'
      BY <1>2, <1>4, <1>6, <1>8, <1>11
    <2> QED BY <1>3, <1>4, <2>1 DEF VersionFate
  <1>12. CASE r \notin changed /\ r \in is_blocked(model)
    <2>1. r \in o.unblocked /\ r \notin deploying_latest
      BY <1>2, <1>6, <1>12 DEF is_blocked, Foundation, BlockedInvariant
    <2>2. CASE r \in dirty
      BY <1>3, <1>4, <2>1, <2>2 DEF VersionFate
    <2>3. CASE r \notin dirty
      <3>1. t.compliance = "COMPLIANT"
        BY <1>6, <1>8, <1>10, <2>1, <2>3 DEF is_dirty, ResourceStates, ComplianceStates
      <3> QED BY <1>5, <1>9, <2>1, <2>3, <3>1 DEF VersionFate
    <2> QED BY <2>2, <2>3
  <1>13. CASE r \notin changed /\ r \notin is_blocked(model) /\ r \notin scheduled(work')
    <2>1. r \notin scheduled(work) /\ (r \in dirty => r \in deploying_latest')
      BY <1>3, <1>4, <1>13
    <2>2. PeriodicRepair /\ r \in timers => r \in timers' \cup deploying_latest'
      BY <1>3, <1>5, <2>1
    <2>3. \A x \in Agents : runner[x].resource = r => runner'[x] = runner[x]
      BY <1>6, <1>7, <1>13
    <2> QED BY <1>6, <1>13, <2>1, <2>2, <2>3 DEF Unconcerned, VersionFate, SameButBlocked
  <1>14. CASE r \in scheduled(work')
    BY <1>14 DEF VersionFate
  <1> QED BY <1>11, <1>12, <1>13, <1>14

-----------------------------------------------------------------------------
(* What requests and reports do to the work *)

\* A step makes tasks wait only for what they waited for already, or for what they require
\* and that is scheduled, or being deployed with its latest intent.
WaitsForScheduled ==
    \A r \in work'.waiting : \A d \in work'.blocked_on[r] :
        \/ r \in work.waiting /\ d \in work.blocked_on[r]
        \/ d \in model.requires[r] \cap (scheduled(work') \cup deploying_latest')

\* So do a request and the events of a report.
LEMMA PlainRequestBlockers ==
    ASSUME TypeOK, NEW requires, requires = model.requires, NEW S \in SUBSET Resources,
           NEW q \in Requests, q.resources = S, q.deploying \subseteq deploying_latest',
           q.added_requires = NoEdges,
           S \subseteq scheduled(work') \cup deploying_latest', scheduled(work) \subseteq scheduled(work'),
           work' = deploy_with_context(work, requires, q)
    PROVE  WaitsForScheduled
  <1>1. work \in Works /\ requires \in Edges
    BY DEF TypeOK, Models
  <1>2. ASSUME NEW r \in work'.waiting, NEW d \in work'.blocked_on[r]
        PROVE  \/ r \in work.waiting /\ d \in work.blocked_on[r]
               \/ d \in model.requires[r] \cap (scheduled(work') \cup deploying_latest')
    <2>1. \/ r \in work.waiting /\ d \in work.blocked_on[r] \ q.dropped_requires[r]
          \/ /\ d \in requires[r] \cup q.added_requires[r]
             /\ d \in scheduled(work) \cup q.resources \cup q.deploying
      BY <1>1, <1>2, DeployWithContextBlockers
    <2>2. r \in Resources
      BY <1>1, <1>2, DeployWithContextType DEF Works
    <2>3. q.added_requires[r] = {}
      BY <2>2 DEF NoEdges
    <2> QED BY <2>1, <2>3
  <1> QED BY <1>2 DEF WaitsForScheduled

\* A request schedules what it is for, unless its latest intent is being deployed.
LEMMA RequestEffect ==
    ASSUME TypeOK, deploying_latest' = deploying_latest, NEW S \in SUBSET Resources,
           work' = deploy_with_context(work, model.requires, DeployRequest(S, deploying_latest))
    PROVE  /\ scheduled(work) \subseteq scheduled(work')
           /\ S \subseteq scheduled(work') \cup deploying_latest'
           /\ WaitsForScheduled
  <1>1. /\ scheduled(work) \subseteq scheduled(work')
        /\ S \subseteq scheduled(work') \cup deploying_latest'
    BY RequestScheduled
  <1>2. PICK q : q = DeployRequest(S, deploying_latest)
    OBVIOUS
  <1>3. deploying_latest \in SUBSET Resources
    BY DEF TypeOK
  <1>4. /\ q \in Requests /\ q.resources = S /\ q.deploying = deploying_latest
        /\ q.added_requires = NoEdges
    BY <1>2, <1>3, DeployRequestType DEF DeployRequest
  <1>5. PICK requires : requires = model.requires
    OBVIOUS
  <1>6. work' = deploy_with_context(work, requires, q)
    BY <1>2, <1>5, Zenon
  <1>7. WaitsForScheduled
    BY <1>1, <1>4, <1>5, <1>6, PlainRequestBlockers
  <1> QED BY <1>1, <1>7

\* The events of a report make tasks wait for scheduled ones only.
LEMMA SendEventsBlockers ==
    ASSUME TypeOK, NEW m \in Models, m.requires = model.requires,
           NEW r, NEW stale, NEW rec, deploying_latest' \in SUBSET Resources,
           send_events(m, deploying_latest', r, stale, rec)
    PROVE  WaitsForScheduled
  <1> DEFINE listeners == Listening(m, r, stale, rec)
             q == [DeployRequest(listeners, deploying_latest') EXCEPT !.force_deploy = TRUE]
  <1>0. PICK deploying \in SUBSET Resources : deploying = deploying_latest'
    OBVIOUS
  <1>1. work' = IF listeners = {} THEN work ELSE deploy_with_context(work, m.requires, q)
    BY DEF send_events, Listening, Recovering
  <1>2. work \in Works
    BY DEF TypeOK
  <1>3. send_events(m, deploying, r, stale, rec)
    BY <1>0, Zenon
  <1>4. /\ listeners \subseteq managed(m)
        /\ scheduled(work) \subseteq scheduled(work') /\ listeners \subseteq scheduled(work')
    BY <1>2, <1>3, SendEventsEffect
  <1> HIDE DEF listeners
  <1>5. PICK S \in SUBSET Resources : S = listeners
    BY <1>4 DEF managed
  <1>6. q \in Requests
    BY <1>5, DeployRequestType
  <1>7. q.resources = S /\ q.deploying = deploying_latest' /\ q.added_requires = NoEdges
    BY <1>5 DEF DeployRequest
  <1> HIDE DEF q
  <1>8. CASE listeners = {}
    BY <1>1, <1>8 DEF WaitsForScheduled
  <1>9. CASE listeners # {}
    <2>1. PICK requires : requires = m.requires
      OBVIOUS
    <2>2. work' = deploy_with_context(work, requires, q)
      BY <1>1, <1>9, <2>1, Zenon
    <2> QED BY <1>4, <1>5, <1>6, <1>7, <2>1, <2>2, PlainRequestBlockers
  <1> QED BY <1>8, <1>9

(***************************************************************************)
(* What the report of a deploy leaves of the rest of the state: it         *)
(* schedules more, resets timers of what it schedules only, and a resource *)
(* that has an update afterwards had it before, and is not the one that    *)
(* was deployed with its latest intent.                                    *)
(***************************************************************************)
ReportDone(x) ==
    /\ runner[x].pc = "deploying" /\ runner' = [runner EXCEPT ![x].pc = "reporting"]
    /\ deploying_latest' \subseteq deploying_latest
    /\ scheduled(work) \subseteq scheduled(work')
    /\ timers \subseteq timers' \cup scheduled(work')
    /\ triggers' = triggers
    /\ WaitsForScheduled
    /\ \A r \in managed(model) : model'.resource_state[r].compliance = "HAS_UPDATE" =>
         /\ model.resource_state[r].compliance = "HAS_UPDATE"
         /\ ~(runner[x].resource = r /\ runner[x].hash = model.intent[r])

\* The report of a stale deploy drops nothing that is scheduled, and makes no update.
LEMMA StaleReportDone ==
    ASSUME TypeOK, NEW x \in Agents, NEW result \in Reports, DeployDoneStale(x, result)
    PROVE  ReportDone(x)
  <1>1. PICK m \in Models, handler \in HandlerResults :
          LET r == runner[x].resource
          IN  /\ is_stale(model, r, runner[x].hash) /\ r \in Resources
              /\ send_events(m, deploying_latest, r, TRUE, recovered(model, r, result))
              /\ StaleRecorded(model, m, r, handler)
    BY StaleReport
  <1>2. PICK r : r = runner[x].resource
    OBVIOUS
  <1>3. PICK rec : rec = recovered(model, r, result)
    OBVIOUS
  <1>4. /\ is_stale(model, r, runner[x].hash) /\ send_events(m, deploying_latest, r, TRUE, rec)
        /\ StaleRecorded(model, m, r, handler) /\ r \in Resources
    BY <1>1, <1>2, <1>3
  <1>5. /\ deploying_latest' = deploying_latest /\ triggers' = triggers
        /\ runner[x].pc = "deploying" /\ runner' = [runner EXCEPT ![x].pc = "reporting"]
    BY DEF DeployDoneStale
  <1>6. work \in Works /\ deploying_latest \in SUBSET Resources
    BY DEF TypeOK
  <1>7. /\ scheduled(work) \subseteq scheduled(work')
        /\ timers' = timers \ Listening(m, r, TRUE, rec) /\ Listening(m, r, TRUE, rec) \subseteq scheduled(work')
        /\ \A d \in Resources : SameButBlocked(m.resource_state[d], model'.resource_state[d])
    BY <1>4, <1>6, SendEventsEffect
  <1>8. send_events(m, deploying_latest', r, TRUE, rec) /\ deploying_latest' \in SUBSET Resources
    BY <1>4, <1>5, <1>6, Zenon
  <1>9. m.requires = model.requires
    BY <1>4 DEF StaleRecorded
  <1>10. WaitsForScheduled
    BY <1>8, <1>9, SendEventsBlockers
  <1>11. ASSUME NEW d \in managed(model), model'.resource_state[d].compliance = "HAS_UPDATE"
         PROVE  /\ model.resource_state[d].compliance = "HAS_UPDATE"
                /\ ~(runner[x].resource = d /\ runner[x].hash = model.intent[d])
    <2>1. d \in Resources
      BY DEF managed
    <2>2. model.resource_state[d].compliance = "HAS_UPDATE"
      BY <1>4, <1>7, <1>11, <2>1 DEF StaleRecorded, SameButBlocked
    <2>3. d \notin is_undefined(model)
      BY <2>2 DEF is_undefined
    <2> QED BY <1>2, <1>4, <2>2, <2>3 DEF is_stale
  <1> QED BY <1>5, <1>7, <1>10, <1>11 DEF ReportDone

\* Nor does that of a deploy of the latest intent, whose resource has no update any more.
LEMMA LatestReportDone ==
    ASSUME TypeOK, NEW x \in Agents, NEW result \in Reports, DeployDoneLatest(x, result)
    PROVE  ReportDone(x)
  <1>1. PICK m \in Models :
          LET r == runner[x].resource
          IN  /\ r \in Resources
              /\ deploying_latest' = deploying_latest \ {r}
              /\ send_events(m, deploying_latest \ {r}, r, FALSE, recovered(model, r, result))
              /\ Reported(model, m, r, result)
    BY LatestReport
  <1>2. PICK r : r = runner[x].resource
    OBVIOUS
  <1>3. PICK rec : rec = recovered(model, r, result)
    OBVIOUS
  <1>4. /\ r \in Resources /\ Reported(model, m, r, result)
        /\ deploying_latest' = deploying_latest \ {r}
        /\ send_events(m, deploying_latest \ {r}, r, FALSE, rec)
    BY <1>1, <1>2, <1>3
  <1>5. /\ triggers' = triggers
        /\ runner[x].pc = "deploying" /\ runner' = [runner EXCEPT ![x].pc = "reporting"]
    BY DEF DeployDoneLatest
  <1>6. work \in Works /\ deploying_latest \ {r} \in SUBSET Resources
    BY DEF TypeOK
  <1>7. PICK deploying \in SUBSET Resources : deploying = deploying_latest \ {r}
    BY <1>6
  <1>8. send_events(m, deploying, r, FALSE, rec)
    BY <1>4, <1>7, Zenon
  <1>9. /\ scheduled(work) \subseteq scheduled(work')
        /\ timers' = timers \ Listening(m, r, FALSE, rec) /\ Listening(m, r, FALSE, rec) \subseteq scheduled(work')
        /\ \A d \in Resources : SameButBlocked(m.resource_state[d], model'.resource_state[d])
    BY <1>6, <1>8, SendEventsEffect
  <1>10. send_events(m, deploying_latest', r, FALSE, rec) /\ deploying_latest' \in SUBSET Resources
    BY <1>4, <1>7, <1>8, Zenon
  <1>11. m.requires = model.requires
    BY <1>4 DEF Reported
  <1>12. WaitsForScheduled
    BY <1>10, <1>11, SendEventsBlockers
  <1>13. ASSUME NEW d \in managed(model), model'.resource_state[d].compliance = "HAS_UPDATE"
         PROVE  model.resource_state[d].compliance = "HAS_UPDATE" /\ d # r
    <2>1. d \in Resources
      BY DEF managed
    <2> QED BY <1>4, <1>9, <1>13, <2>1 DEF Reported, SameButBlocked
  <1>14. deploying_latest' \subseteq deploying_latest
    BY <1>4
  <1>15. timers \subseteq timers' \cup scheduled(work')
    BY <1>9
  <1> QED BY <1>2, <1>5, <1>9, <1>12, <1>13, <1>14, <1>15 DEF ReportDone

\* What requests and timers leave of the rest of the state.
RequestDone ==
    /\ runner' = runner /\ deploying_latest' = deploying_latest
    /\ scheduled(work) \subseteq scheduled(work')
    /\ timers \cup triggers \subseteq timers' \cup triggers' \cup scheduled(work') \cup deploying_latest
                                        \cup (Resources \ (managed(model) \ is_blocked(model)))
    /\ WaitsForScheduled
    /\ \A r \in managed(model) : model'.resource_state[r].compliance = model.resource_state[r].compliance

\* Requests and timers only add to the work, and a stutter adds nothing.
LEMMA AnyRequestDone ==
    ASSUME TypeOK,
           \/ \E S \in SUBSET Resources : Deploy(S) \/ Repair(S)
           \/ \E r \in Resources : TimerFires(r) \/ DeployResource(r)
           \/ UNCHANGED vars
    PROVE  RequestDone
  <1> DEFINE Goal == RequestDone
  <1> HIDE DEF Goal
  <1>0. model \in Models /\ timers \in SUBSET Resources /\ triggers \in SUBSET Resources
    BY DEF TypeOK
  <1>q. ASSUME NEW T \in SUBSET Resources, deploying_latest' = deploying_latest, runner' = runner,
               work' = deploy_with_context(work, model.requires, DeployRequest(T, deploying_latest)),
               timers' = timers \ T, triggers \subseteq triggers' \cup T,
               model'.resource_state = model.resource_state
        PROVE  Goal
    <2>1. /\ scheduled(work) \subseteq scheduled(work')
          /\ T \subseteq scheduled(work') \cup deploying_latest'
          /\ WaitsForScheduled
      BY <1>q, RequestEffect
    <2> QED BY <1>q, <2>1 DEF Goal, RequestDone
  <1>i. ASSUME runner' = runner, deploying_latest' = deploying_latest, work' = work, model' = model,
               timers \cup triggers \subseteq timers' \cup triggers'
                                        \cup (Resources \ (managed(model) \ is_blocked(model)))
        PROVE  Goal
    BY <1>i DEF Goal, RequestDone, WaitsForScheduled
  <1>1. ASSUME NEW S \in SUBSET Resources, Deploy(S) PROVE Goal
    <2>1. PICK T \in SUBSET Resources : T = model.dirty \cap S
      BY <1>0 DEF Models
    <2>2. /\ deploying_latest' = deploying_latest /\ runner' = runner
          /\ work' = deploy_with_context(work, model.requires, DeployRequest(T, deploying_latest))
          /\ timers' = timers \ T /\ triggers' = triggers /\ model' = model
      BY <1>1, <2>1 DEF Deploy
    <2> QED BY <1>q, <2>2
  <1>2. ASSUME NEW S \in SUBSET Resources, Repair(S) PROVE Goal
    <2>1. PICK T \in SUBSET Resources : T = (managed(model) \ is_blocked(model)) \cap S
      BY ManagedType
    <2>2. /\ deploying_latest' = deploying_latest /\ runner' = runner
          /\ work' = deploy_with_context(work, model.requires, DeployRequest(T, deploying_latest))
          /\ timers' = timers \ T /\ triggers' = triggers
          /\ model' = [model EXCEPT !.dirty = @ \cup T]
      BY <1>2, <2>1 DEF Repair
    <2>3. model'.resource_state = model.resource_state
      BY <1>0, <2>2 DEF Models
    <2> QED BY <1>q, <2>2, <2>3
  <1>3. ASSUME NEW r \in Resources, TimerFires(r) PROVE Goal
    BY <1>i, <1>3 DEF TimerFires
  <1>4. ASSUME NEW r \in Resources, DeployResource(r) PROVE Goal
    <2>1. CASE r \in managed(model) \ is_blocked(model)
      <3>1. PICK T \in SUBSET Resources : T = {r}
        OBVIOUS
      <3>2. /\ deploying_latest' = deploying_latest /\ runner' = runner
            /\ work' = deploy_with_context(work, model.requires, DeployRequest(T, deploying_latest))
            /\ timers' = timers \ T /\ triggers' = triggers \ {r} /\ model' = model
        BY <1>4, <2>1, <3>1 DEF DeployResource
      <3> QED BY <1>q, <3>1, <3>2
    <2>2. CASE r \notin managed(model) \ is_blocked(model)
      BY <1>0, <1>4, <1>i, <2>2 DEF DeployResource
    <2> QED BY <2>1, <2>2
  <1>5. ASSUME UNCHANGED vars PROVE Goal
    BY <1>5, <1>i DEF vars
  <1>6. Goal
    BY <1>1, <1>2, <1>3, <1>4, <1>5
  <1> QED BY <1>6 DEF Goal

\* The steps that are no new version: in these behaviours, no deploy raises.
LEMMA OtherSteps ==
    ASSUME ~DbMayFail, OrderlyReleases, Foundation, [ReportedStep]_vars
    PROVE  \/ PlainVersionStep
           \/ /\ SameVersion
              /\ \/ RequestDone
                 \/ \E x \in Agents :
                      \/ \E r \in Resources : QueueGet(x, r)
                      \/ DeployStart(x) \/ DeployStartStale(x)
                      \/ \E result \in Reports : DeployDoneUnmanaged(x, result)
                      \/ ReportDone(x) \/ FinishDeploy(x)
  <1>1. TypeOK /\ [PlainStep]_vars /\ runner \in [Agents -> Runners]
    BY DEF ReportedStep, Foundation, TypeOK
  <1>2. PlainVersionStep \/ SameVersion
    BY <1>1, OtherStepModel DEF PlainStep
  <1>3. ASSUME NEW x \in Agents, NEW result \in Reports, DeployDoneRaises(x, result) PROVE FALSE
    <2>1. runner'[x].pc = "raised"
      BY <1>1, <1>3 DEF DeployDoneRaises, Runners
    <2>2. ~UNCHANGED vars
      BY <1>3, <2>1 DEF vars, DeployDoneRaises
    <2> QED BY <2>1, <2>2 DEF ReportedStep
  <1>4. ASSUME NEW x \in Agents, RunnerStep(x)
        PROVE  \/ \E r \in Resources : QueueGet(x, r)
               \/ DeployStart(x) \/ DeployStartStale(x)
               \/ \E result \in Reports : DeployDoneUnmanaged(x, result)
               \/ ReportDone(x) \/ FinishDeploy(x)
    BY <1>1, <1>3, <1>4, NoStartRaises, StaleReportDone, LatestReportDone DEF RunnerStep
  <1>5. \/ PlainVersionStep
        \/ \E S \in SUBSET Resources : Deploy(S) \/ Repair(S)
        \/ \E r \in Resources : TimerFires(r) \/ DeployResource(r)
        \/ UNCHANGED vars
        \/ \E x \in Agents : RunnerStep(x)
    BY <1>1 DEF PlainStep, OtherStep
  <1> QED BY <1>1, <1>2, <1>4, <1>5, AnyRequestDone

-----------------------------------------------------------------------------
(* Updates *)

\* The runner of agent x will deploy, or is deploying, the latest intent of r.
Commits(x, r) ==
    /\ runner[x].resource = r
    /\ \/ runner[x].pc = "picked"
       \/ runner[x].pc = "deploying" /\ ~runner[x].orphaned /\ runner[x].hash = model.intent[r]

\* No update is missed, in these terms.
LEMMA UpdatesByRunner ==
    UpdatesGetDeployed <=>
      \A r \in managed(model) \ is_blocked(model) :
        model.resource_state[r].compliance = "HAS_UPDATE" =>
          r \in scheduled(work) \/ \E x \in Agents : Commits(x, r)
  BY DEF UpdatesGetDeployed, committed, Commits

\* After a new version none is missed: it schedules all that is dirty and not being deployed
\* with its latest intent.
LEMMA NewVersionUpdates ==
    ASSUME OrderlyReleases, Foundation, Foundation', PlainVersionStep
    PROVE  UpdatesGetDeployed'
  <1>1. ASSUME NEW r \in managed(model') \ is_blocked(model'),
               model'.resource_state[r].compliance = "HAS_UPDATE"
        PROVE  r \in scheduled(work') \/ \E x \in Agents : Commits(x, r)'
    <2>1. PICK v, c, n, o : VersionDone(v, {}, c, n, o) /\ StopsOnlyBlocked(v, c, o)
      BY NewVersionStops DEF PlainVersionStep
    <2>2. r \in Resources /\ model'.resource_state[r].blocked # "BLOCKED"
      BY DEF managed, is_blocked
    <2>3. r \in model'.dirty
      BY <1>1, <2>2 DEF Foundation, DirtyInvariant, KnownState
    <2>4. r \in scheduled(work') \/ r \in deploying_latest'
      BY <2>1, <2>3 DEF VersionDone, StopsOnlyBlocked
    <2>5. r \in deploying_latest' => \E x \in Agents : Commits(x, r)'
      BY <2>2, ConstantsAssumption DEF Foundation, DeployingInvariant, Commits
    <2> QED BY <2>4, <2>5
  <1> QED BY <1>1 DEF UpdatesGetDeployed, committed, Commits

\* Nor does any other step: a runner leaves a task or a deploy of the latest intent only
\* when its resource has no update any more.
LEMMA UpdatesStep ==
    ASSUME ~DbMayFail, OrderlyReleases, Foundation, Foundation', UpdatesGetDeployed, [ReportedStep]_vars
    PROVE  UpdatesGetDeployed'
  <1> DEFINE Goal == UpdatesGetDeployed'
  <1> HIDE DEF Goal
  <1>0. /\ TypeOK /\ runner \in [Agents -> Runners] /\ work \in Works
    BY DEF Foundation, TypeOK
  <1>s. ASSUME SameVersion,
               \A r \in managed(model) \ is_blocked(model) :
                 model'.resource_state[r].compliance = "HAS_UPDATE" =>
                   /\ model.resource_state[r].compliance = "HAS_UPDATE"
                   /\ r \in scheduled(work) => r \in scheduled(work') \/ \E x \in Agents : Commits(x, r)'
                   /\ \A x \in Agents : Commits(x, r) => Commits(x, r)'
        PROVE  Goal
    <2>1. managed(model') = managed(model) /\ is_blocked(model') = is_blocked(model)
      BY <1>s DEF SameVersion, managed
    <2>2. \A r \in managed(model') \ is_blocked(model') :
             model'.resource_state[r].compliance = "HAS_UPDATE" =>
               r \in scheduled(work') \/ \E x \in Agents : Commits(x, r)'
      BY <1>s, <2>1, UpdatesByRunner
    <2> QED BY <2>2 DEF Goal, UpdatesGetDeployed, committed, Commits
  <1>1. ASSUME SameVersion, RequestDone PROVE Goal
    <2>1. \A r \in managed(model), x \in Agents : Commits(x, r) => Commits(x, r)'
      BY <1>1 DEF RequestDone, Commits, SameVersion
    <2> QED BY <1>1, <1>s, <2>1 DEF RequestDone
  <1>m. ASSUME SameVersion, model' = model, NEW x \in Agents,
               scheduled(work) \subseteq scheduled(work') \cup {r \in Resources : Commits(x, r)'},
               \A y \in Agents \ {x} : runner'[y] = runner[y],
               \A r \in managed(model) \ is_blocked(model) : Commits(x, r) => Commits(x, r)'
        PROVE  Goal
    <2>1. ASSUME NEW r \in managed(model) \ is_blocked(model), NEW y \in Agents, Commits(y, r)
          PROVE  Commits(y, r)'
      <3>1. CASE y = x
        BY <1>m, <2>1, <3>1
      <3>2. CASE y # x
        <4>1. runner'[y] = runner[y] /\ model' = model
          BY <1>m, <3>2
        <4> QED BY <2>1, <4>1 DEF Commits
      <3> QED BY <3>1, <3>2
    <2>2. \A r \in scheduled(work) : r \in scheduled(work') \/ \E y \in Agents : Commits(y, r)'
      BY <1>m
    <2> QED BY <1>m, <1>s, <2>1, <2>2
  <1>2. ASSUME SameVersion, NEW x \in Agents, NEW r \in Resources, QueueGet(x, r) PROVE Goal
    <2>1. /\ work' = queue_get(work, r) /\ model' = model /\ runner[x].pc = "idle"
          /\ runner' = [runner EXCEPT ![x] = [IdleRunner EXCEPT !.pc = "picked", !.resource = r]]
      BY <1>2 DEF QueueGet
    <2>2. /\ runner'[x].pc = "picked" /\ runner'[x].resource = r
          /\ \A y \in Agents \ {x} : runner'[y] = runner[y]
      BY <1>0, <2>1 DEF IdleRunner
    <2>3. scheduled(work) \subseteq scheduled(work') \cup {r}
      BY <1>0, <2>1, OtherScheduled
    <2>4. Commits(x, r)'
      BY <2>2 DEF Commits
    <2>5. \A y \in managed(model) : ~Commits(x, y)
      BY <2>1 DEF Commits
    <2> QED BY <1>2, <1>m, <2>1, <2>2, <2>3, <2>4, <2>5
  <1>3. ASSUME SameVersion, NEW x \in Agents, DeployStart(x) PROVE Goal
    <2>1. /\ model' = model /\ work' = work /\ runner[x].pc = "picked"
          /\ runner'[x].pc = "deploying" /\ runner'[x].resource = runner[x].resource
          /\ runner'[x].orphaned = runner[x].orphaned
          /\ runner'[x].hash = model.intent[runner[x].resource]
          /\ \A y \in Agents \ {x} : runner'[y] = runner[y]
      BY <1>0, <1>3 DEF DeployStart, Runners
    <2>2. ~runner[x].orphaned
      BY <2>1 DEF Foundation, DeployingInvariant
    <2>3. \A r \in managed(model) : Commits(x, r) => Commits(x, r)'
      BY <2>1, <2>2 DEF Commits
    <2> QED BY <1>3, <1>m, <2>1, <2>3
  <1>4. ASSUME SameVersion, NEW x \in Agents, DeployStartStale(x) PROVE Goal
    <2>1. /\ model' = model /\ work' = work
          /\ runner[x].resource \notin managed(model) \ is_blocked(model)
          /\ \A y \in Agents \ {x} : runner'[y] = runner[y]
      BY <1>0, <1>4 DEF DeployStartStale
    <2>2. \A r \in managed(model) \ is_blocked(model) : ~Commits(x, r)
      BY <2>1 DEF Commits
    <2> QED BY <1>4, <1>m, <2>1, <2>2
  <1>5. ASSUME SameVersion, NEW x \in Agents, NEW result \in Reports, DeployDoneUnmanaged(x, result) PROVE Goal
    <2>1. /\ model' = model /\ work' = work /\ runner[x].pc = "deploying"
          /\ runner[x].resource \notin managed(model) \/ runner[x].resource \in deploying_unmanaged
          /\ \A y \in Agents \ {x} : runner'[y] = runner[y]
      BY <1>0, <1>5 DEF DeployDoneUnmanaged
    <2>2. AgentOf[runner[x].resource] = x
      BY <2>1 DEF Foundation, DeployingInvariant
    <2>3. runner[x].resource \in deploying_unmanaged => runner[x].orphaned
      BY <2>2 DEF Foundation, DeployingInvariant
    <2>4. \A r \in managed(model) : ~Commits(x, r)
      BY <2>1, <2>3 DEF Commits
    <2> QED BY <1>5, <1>m, <2>1, <2>4
  <1>6. ASSUME SameVersion, NEW x \in Agents, ReportDone(x) PROVE Goal
    <2>1. /\ runner[x].pc = "deploying" /\ \A y \in Agents \ {x} : runner'[y] = runner[y]
          /\ scheduled(work) \subseteq scheduled(work')
          /\ \A r \in managed(model) : model'.resource_state[r].compliance = "HAS_UPDATE" =>
               /\ model.resource_state[r].compliance = "HAS_UPDATE"
               /\ ~(runner[x].resource = r /\ runner[x].hash = model.intent[r])
      BY <1>0, <1>6 DEF ReportDone
    <2>2. ASSUME NEW r \in managed(model), model'.resource_state[r].compliance = "HAS_UPDATE",
                 NEW y \in Agents, Commits(y, r)
          PROVE  Commits(y, r)'
      <3>1. y # x
        BY <2>1, <2>2 DEF Commits
      <3>2. runner'[y] = runner[y] /\ model'.intent = model.intent
        BY <1>6, <2>1, <3>1 DEF SameVersion
      <3> QED BY <2>2, <3>2 DEF Commits
    <2> QED BY <1>6, <1>s, <2>1, <2>2
  <1>7. ASSUME SameVersion, NEW x \in Agents, FinishDeploy(x) PROVE Goal
    <2>1. /\ model' = model /\ runner[x].pc \in {"reporting", "raised"}
          /\ \A y \in Agents \ {x} : runner'[y] = runner[y]
          /\ work' = finished_deploy(work, model.requires, runner[x].resource)
      BY <1>0, <1>7 DEF FinishDeploy
    <2>2. scheduled(work') = scheduled(work)
      BY <1>0, <2>1, OtherScheduled
    <2>3. \A r \in managed(model) : ~Commits(x, r)
      BY <2>1 DEF Commits
    <2> QED BY <1>7, <1>m, <2>1, <2>2, <2>3
  <1>8. ASSUME PlainVersionStep PROVE Goal
    BY <1>8, NewVersionUpdates DEF Goal
  <1>9. Goal
    BY <1>1, <1>2, <1>3, <1>4, <1>5, <1>6, <1>7, <1>8, OtherSteps
  <1> QED BY <1>9 DEF Goal

(***************************************************************************)
(* No update is missed: each resource that may be deployed and has one is  *)
(* scheduled, or a runner is committed to its latest intent, whatever      *)
(* versions, requests, events and stale deploys interleave.  _new_version  *)
(* relies on this when it leaves the resources in _deploying_latest out.   *)
(***************************************************************************)
THEOREM NoUpdateIsMissed ==
    ASSUME ~AllowBatches, ~DbMayFail, OrderlyReleases
    PROVE  ReportedSpec => []UpdatesGetDeployed
  <1> DEFINE Inv == Foundation /\ UpdatesGetDeployed
  <1>1. Init => Inv
    <2>1. Init => UpdatesGetDeployed
      BY DEF Init, EmptyModel, UpdatesGetDeployed, managed
    <2> QED BY <2>1, InitFoundation
  <1>2. Inv /\ [ReportedStep]_vars => Inv'
    BY FoundationStep, UpdatesStep
  <1>3. Inv => UpdatesGetDeployed
    OBVIOUS
  <1>4. ReportedSpec => Init /\ [][ReportedStep]_vars
    BY ReportedSteps
  <1> HIDE DEF Inv
  <1> QED BY <1>1, <1>2, <1>3, <1>4, PTL

-----------------------------------------------------------------------------
(* Periodic repair *)

\* What counts as being deployed with its latest intent is in progress.
LEMMA LatestInProgress ==
    /\ Foundation => deploying_latest \subseteq in_progress
    /\ Foundation' => deploying_latest' \subseteq in_progress'
  <1>1. Foundation => deploying_latest \subseteq in_progress
    <2> SUFFICES ASSUME Foundation, NEW r \in deploying_latest PROVE r \in in_progress
      OBVIOUS
    <2>1. r \in Resources
      BY DEF Foundation, TypeOK
    <2>2. AgentOf[r] \in Agents
      BY <2>1, ConstantsAssumption
    <2>3. runner[AgentOf[r]].pc = "deploying" /\ runner[AgentOf[r]].resource = r
      BY DEF Foundation, DeployingInvariant
    <2> QED BY <2>2, <2>3 DEF in_progress
  <1>2. Foundation' => deploying_latest' \subseteq in_progress'
    <2> SUFFICES ASSUME Foundation', NEW r \in deploying_latest' PROVE r \in in_progress'
      OBVIOUS
    <2>1. r \in Resources
      BY DEF Foundation, TypeOK
    <2>2. AgentOf[r] \in Agents
      BY <2>1, ConstantsAssumption
    <2>3. runner'[AgentOf[r]].pc = "deploying" /\ runner'[AgentOf[r]].resource = r
      BY DEF Foundation, DeployingInvariant
    <2> QED BY <2>2, <2>3 DEF in_progress
  <1> QED BY <1>1, <1>2

\* A step of the runner of x alone leaves what others have in progress.
LEMMA OthersInProgress ==
    ASSUME NEW x \in Agents, \A y \in Agents \ {x} : runner'[y] = runner[y]
    PROVE  /\ in_progress \subseteq in_progress' \cup {runner[x].resource}
           /\ (/\ runner'[x].pc # "idle"
               /\ runner'[x].resource = runner[x].resource \/ runner[x].pc = "idle")
              => in_progress \subseteq in_progress'
  BY DEF in_progress

\* A new version keeps what is in progress.
LEMMA VersionInProgress ==
    ASSUME Foundation, NEW v, NEW c, NEW n, NEW o, VersionDone(v, {}, c, n, o)
    PROVE  in_progress \subseteq in_progress'
  <1>1. \A x \in Agents : runner'[x].pc = runner[x].pc /\ runner'[x].resource = runner[x].resource
    BY VersionRunners DEF Foundation
  <1> QED BY <1>1 DEF in_progress

\* A new version lets no resource drop out of the periodic repair: a timer that it stops is
\* that of a resource that it schedules, and it sets the timers of those that it unblocks.
LEMMA NewVersionCoverage ==
    ASSUME OrderlyReleases, Foundation, Foundation', TimerCoverage, PlainVersionStep
    PROVE  TimerCoverage'
  <1> SUFFICES ASSUME PeriodicRepair, NEW r \in managed(model') \ is_blocked(model')
               PROVE  r \in timers' \cup triggers' \cup scheduled(work') \cup in_progress'
    BY DEF TimerCoverage
  <1>1. VersionFate(r)
    BY NewVersionFate DEF PlainVersionStep
  <1>2. in_progress \subseteq in_progress' /\ triggers' = triggers
    <2>1. PICK v, c, n, o : VersionDone(v, {}, c, n, o)
      BY NewVersionStops DEF PlainVersionStep
    <2> QED BY <2>1, VersionInProgress DEF VersionDone
  <1>3. CASE Unconcerned(r)
    <2>1. r \in managed(model) \ is_blocked(model) /\ r \notin scheduled(work)
          /\ (r \in timers => r \in timers' \cup deploying_latest')
      BY <1>3 DEF Unconcerned
    <2>2. r \in timers \cup triggers \cup scheduled(work) \cup in_progress
      BY <2>1 DEF TimerCoverage
    <2> QED BY <1>2, <2>1, <2>2, LatestInProgress
  <1> QED BY <1>1, <1>3 DEF VersionFate

\* Nor does any other step: update_timer sets the timer of a resource whose deploy is done,
\* unless it never was deployed, and then it has an update and is scheduled.
LEMMA CoverageStep ==
    ASSUME ~DbMayFail, OrderlyReleases, Foundation, Foundation', UpdatesGetDeployed, TimerCoverage,
           [ReportedStep]_vars
    PROVE  TimerCoverage'
  <1> DEFINE Goal == TimerCoverage'
  <1> HIDE DEF Goal
  <1>0. /\ TypeOK /\ runner \in [Agents -> Runners] /\ work \in Works
    BY DEF Foundation, TypeOK
  <1>s. ASSUME SameVersion,
               ASSUME PeriodicRepair, NEW r \in managed(model) \ is_blocked(model),
                      r \in timers \cup triggers \cup scheduled(work) \cup in_progress
               PROVE  r \in timers' \cup triggers' \cup scheduled(work') \cup in_progress'
        PROVE  Goal
    <2>1. managed(model') = managed(model) /\ is_blocked(model') = is_blocked(model)
      BY <1>s DEF SameVersion, managed
    <2> QED BY <1>s, <2>1 DEF Goal, TimerCoverage
  <1>1. ASSUME SameVersion, RequestDone PROVE Goal
    <2>1. in_progress' = in_progress /\ deploying_latest \subseteq in_progress
      BY <1>1, LatestInProgress DEF in_progress, RequestDone
    <2>2. /\ timers \cup triggers \subseteq timers' \cup triggers' \cup scheduled(work') \cup deploying_latest
                                        \cup (Resources \ (managed(model) \ is_blocked(model)))
          /\ scheduled(work) \subseteq scheduled(work')
      BY <1>1 DEF RequestDone
    <2> QED BY <1>1, <1>s, <2>1, <2>2
  <1>2. ASSUME SameVersion, NEW x \in Agents, NEW r \in Resources, QueueGet(x, r) PROVE Goal
    <2>1. /\ work' = queue_get(work, r) /\ runner[x].pc = "idle"
          /\ timers' = timers /\ triggers' = triggers
          /\ runner' = [runner EXCEPT ![x] = [IdleRunner EXCEPT !.pc = "picked", !.resource = r]]
      BY <1>2 DEF QueueGet
    <2>2. /\ runner'[x].pc = "picked" /\ runner'[x].resource = r
          /\ \A y \in Agents \ {x} : runner'[y] = runner[y]
      BY <1>0, <2>1 DEF IdleRunner
    <2>3. scheduled(work) \subseteq scheduled(work') \cup {r}
      BY <1>0, <2>1, OtherScheduled
    <2>4. r \in in_progress' /\ in_progress \subseteq in_progress'
      BY <2>1, <2>2, OthersInProgress DEF in_progress
    <2> QED BY <1>2, <1>s, <2>1, <2>3, <2>4
  <1>m. ASSUME SameVersion, work' = work, timers' = timers, triggers' = triggers,
               in_progress \subseteq in_progress' \cup (Resources \ (managed(model) \ is_blocked(model)))
        PROVE  Goal
    BY <1>m, <1>s
  <1>3. ASSUME SameVersion, NEW x \in Agents, DeployStart(x) PROVE Goal
    <2>1. /\ work' = work /\ timers' = timers /\ triggers' = triggers
          /\ runner'[x].pc = "deploying" /\ runner'[x].resource = runner[x].resource
          /\ \A y \in Agents \ {x} : runner'[y] = runner[y]
      BY <1>0, <1>3 DEF DeployStart, Runners
    <2>2. in_progress \subseteq in_progress'
      BY <2>1, OthersInProgress
    <2> QED BY <1>3, <1>m, <2>1, <2>2
  <1>4. ASSUME SameVersion, NEW x \in Agents, DeployStartStale(x) PROVE Goal
    <2>1. /\ work' = work /\ timers' = timers /\ triggers' = triggers /\ runner[x].pc = "picked"
          /\ runner[x].resource \notin managed(model) \ is_blocked(model)
          /\ \A y \in Agents \ {x} : runner'[y] = runner[y]
      BY <1>0, <1>4 DEF DeployStartStale
    <2>2. runner[x].resource \in Resources
      BY <2>1 DEF Foundation, DeployingInvariant
    <2>3. in_progress \subseteq in_progress' \cup {runner[x].resource}
      BY <2>1, OthersInProgress
    <2> QED BY <1>4, <1>m, <2>1, <2>2, <2>3
  <1>5. ASSUME SameVersion, NEW x \in Agents, NEW result \in Reports, DeployDoneUnmanaged(x, result) PROVE Goal
    <2>1. /\ work' = work /\ timers' = timers /\ triggers' = triggers
          /\ runner'[x].pc = "reporting" /\ runner'[x].resource = runner[x].resource
          /\ \A y \in Agents \ {x} : runner'[y] = runner[y]
      BY <1>0, <1>5 DEF DeployDoneUnmanaged, Runners
    <2>2. in_progress \subseteq in_progress'
      BY <2>1, OthersInProgress
    <2> QED BY <1>5, <1>m, <2>1, <2>2
  <1>6. ASSUME SameVersion, NEW x \in Agents, ReportDone(x) PROVE Goal
    <2>1. /\ scheduled(work) \subseteq scheduled(work') /\ timers \subseteq timers' \cup scheduled(work')
          /\ triggers' = triggers
          /\ runner'[x].pc = "reporting" /\ runner'[x].resource = runner[x].resource
          /\ \A y \in Agents \ {x} : runner'[y] = runner[y]
      BY <1>0, <1>6 DEF ReportDone, Runners
    <2>2. in_progress \subseteq in_progress'
      BY <2>1, OthersInProgress
    <2> QED BY <1>6, <1>s, <2>1, <2>2
  <1>7. ASSUME SameVersion, NEW x \in Agents, FinishDeploy(x) PROVE Goal
    <2>1. PICK q : q = runner[x].resource
      OBVIOUS
    <2>2. PICK T : T = {q} \cap managed(model)
      OBVIOUS
    <2>3. /\ runner[x].pc \in {"reporting", "raised"} /\ triggers' = triggers
          /\ \A y \in Agents \ {x} : runner'[y] = runner[y]
          /\ work' = finished_deploy(work, model.requires, q)
          /\ timers' = update_timers(timers, model, T)
      BY <1>0, <1>7, <2>1, <2>2 DEF FinishDeploy
    <2>4. scheduled(work') = scheduled(work)
      BY <1>0, <2>3, OtherScheduled
    <2>5. in_progress \subseteq in_progress' \cup {q}
      BY <2>1, <2>3, OthersInProgress
    <2>6. ASSUME PeriodicRepair, NEW r \in managed(model) \ is_blocked(model),
                 r \in timers \cup triggers \cup scheduled(work) \cup in_progress
          PROVE  r \in timers' \cup triggers' \cup scheduled(work') \cup in_progress'
      <3>1. model.resource_state[r].blocked # "BLOCKED"
        BY <2>6 DEF is_blocked
      <3>2. CASE r \in timers
        BY <2>3, <2>6, <3>1, <3>2, UpdateTimersCovers
      <3>3. CASE r \notin timers /\ r # q
        BY <2>3, <2>4, <2>5, <2>6, <3>3
      <3>4. CASE r = q /\ model.resource_state[r].last_deployed
        <4>1. r \in T
          BY <2>2, <2>6, <3>4
        <4> QED BY <2>3, <2>6, <3>1, <3>4, <4>1, UpdateTimersCovers
      <3>5. CASE r = q /\ ~model.resource_state[r].last_deployed
        <4>1. model.resource_state[r].compliance \in {"HAS_UPDATE", "UNDEFINED"}
          BY <2>6, <3>5 DEF Foundation, DirtyInvariant, KnownState
        <4>2. model.resource_state[r].compliance = "HAS_UPDATE"
          BY <2>6, <4>1 DEF Foundation, BlockedInvariant, is_undefined
        <4>3. \A y \in Agents : ~Commits(y, r)
          <5> SUFFICES ASSUME NEW y \in Agents, Commits(y, r) PROVE FALSE
            OBVIOUS
          <5>1. runner[y].resource = r /\ runner[y].pc \in {"picked", "deploying"}
            BY DEF Commits
          <5>2. AgentOf[r] = y /\ AgentOf[r] = x
            BY <2>1, <2>3, <3>5, <5>1 DEF Foundation, DeployingInvariant
          <5> QED BY <2>3, <5>1, <5>2
        <4>4. r \in scheduled(work)
          BY <2>6, <4>2, <4>3, UpdatesByRunner
        <4> QED BY <2>4, <4>4
      <3> QED BY <3>2, <3>3, <3>4, <3>5
    <2> QED BY <1>7, <1>s, <2>6
  <1>8. ASSUME PlainVersionStep PROVE Goal
    BY <1>8, NewVersionCoverage DEF Goal
  <1>9. Goal
    BY <1>1, <1>2, <1>3, <1>4, <1>5, <1>6, <1>7, <1>8, OtherSteps
  <1> QED BY <1>9 DEF Goal

(***************************************************************************)
(* With a repair interval, no resource that may be deployed drops out of   *)
(* the periodic repair: its timer is set or has just fired, or a deploy is *)
(* scheduled or in progress that will set it.                              *)
(***************************************************************************)
THEOREM TimersCoverAll ==
    ASSUME ~AllowBatches, ~DbMayFail, OrderlyReleases
    PROVE  ReportedSpec => []TimerCoverage
  <1> DEFINE Inv == Foundation /\ UpdatesGetDeployed /\ TimerCoverage
  <1>1. Init => Inv
    <2>1. Init => UpdatesGetDeployed /\ TimerCoverage
      BY DEF Init, EmptyModel, UpdatesGetDeployed, TimerCoverage, managed
    <2> QED BY <2>1, InitFoundation
  <1>2. Inv /\ [ReportedStep]_vars => Inv'
    BY FoundationStep, UpdatesStep, CoverageStep
  <1>3. Inv => TimerCoverage
    OBVIOUS
  <1>4. ReportedSpec => Init /\ [][ReportedStep]_vars
    BY ReportedSteps
  <1> HIDE DEF Inv
  <1> QED BY <1>1, <1>2, <1>3, <1>4, PTL

-----------------------------------------------------------------------------
(* Waiting tasks *)

\* What requires a blocked resource is blocked itself, and has no task.
LEMMA DependantsStayIdle ==
    ASSUME OrderlyReleases, BlockedIsUndeployable, BlockedNotScheduled,
           NEW r \in Resources, NEW d \in model.requires[r], d \in is_blocked(model)
    PROVE  r \notin scheduled(work)
  <1>1. PICK v \in Releases \cup {EmptyVersion} :
          Represents(model, v) /\ is_blocked(model) = Undeployable(v)
    BY DEF BlockedIsUndeployable
  <1>2. r \in Present(v) /\ model.requires[r] = v.requires[r]
    BY <1>1 DEF Represents
  <1>3. v.requires[r] \cap Undeployable(v) # {}
    BY <1>1, <1>2
  <1>4. r \in Undeployable(v)
    BY <1>2, <1>3, UndeployableClosed
  <1> QED BY <1>1, <1>4 DEF BlockedNotScheduled

\* A new version keeps the requires of the tasks that wait, except those that it drops. A
\* dependency whose task it deletes is blocked, or left the model, and so did the task.
LEMMA NewVersionBlockers ==
    ASSUME OrderlyReleases, Foundation, Foundation', BlockersPending, PlainVersionStep
    PROVE  BlockersPending'
  <1>0. /\ TypeOK /\ model \in Models /\ work \in Works
        /\ TypeOK' /\ work' \in Works /\ Follows(model) /\ BlockedNotScheduled' /\ BlockedIsUndeployable'
        /\ is_undefined(model) \subseteq is_blocked(model)
        /\ ClosedReleases
    BY FoundationFollows DEF Foundation, TypeOK, OrderlyReleases, BlockedInvariant
  <1>1. PICK v \in Releases : \E reverted \in SUBSET Resources : ProcessVersions(v, {}, reverted)
    BY DEF PlainVersionStep
  <1>2. PICK reverted \in SUBSET Resources : ProcessVersions(v, {}, reverted)
    BY <1>1
  <1>3. PlainChanges(v, intent_changes(model, v, {}, reverted))
    BY PlainVersion
  <1>4. Represents(model', v)
    BY <1>2, NewVersionStops
  <1>5. PICK c, n, o, F : /\ c = intent_changes(model, v, {}, reverted)
                          /\ RequiresDone(model, v, c, n, F) /\ VersionDone(v, {}, c, n, o)
                          /\ StopsOnlyBlocked(v, c, o)
    BY <1>2, NewVersionStops
  <1>6. \A r \in Present(v) : n.requires[r] = v.requires[r]
    BY <1>0, <1>3, <1>5, BeforeTransitiveState
  <1> DEFINE dirty == (n.dirty \ o.blocked) \cup {x \in o.unblocked : is_dirty(n.resource_state[x])}
             stopped == c.deleted \cup became_undefined(model, v, c) \cup o.blocked
  <1>7. /\ (scheduled(work) \cup (dirty \ deploying_latest')) \ stopped \subseteq scheduled(work')
        /\ scheduled(work') \cap stopped = {}
        /\ \A r \in work'.waiting : \A d \in work'.blocked_on[r] :
             \/ r \in work.waiting /\ d \in work.blocked_on[r] \ dropped_requires(model, v)[r]
             \/ /\ d \in n.requires[r] \cup added_requires(model, v)[r]
                /\ d \in scheduled(work) \cup dirty \cup deploying_latest'
    BY <1>5 DEF VersionDone
  <1>8. \A d \in managed(model') \ is_blocked(model') : d \notin stopped
    BY <1>5 DEF StopsOnlyBlocked
  <1>9. c.deleted = managed(model) \ Present(v)
    BY <1>3, <1>5 DEF PlainChanges
  <1>10. in_progress \subseteq in_progress' /\ deploying_latest' \subseteq in_progress'
    BY <1>5, VersionInProgress, LatestInProgress
  <1> HIDE DEF dirty
  <1>11. ASSUME NEW r \in work'.waiting, NEW d \in work'.blocked_on[r]
         PROVE  d \in model'.requires[r] \cap (scheduled(work') \cup in_progress')
    <2>1. r \in Resources /\ r \in scheduled(work') /\ r \notin c.deleted
      BY <1>0, <1>7, <1>11 DEF Works, scheduled
    <2>2. \/ r \in work.waiting /\ d \in work.blocked_on[r] \ dropped_requires(model, v)[r]
          \/ /\ d \in n.requires[r] \cup added_requires(model, v)[r]
             /\ d \in scheduled(work) \cup dirty \cup deploying_latest'
      BY <1>7, <1>11
    <2>3. r \in Present(v)
      <3> SUFFICES ASSUME r \notin Present(v) PROVE FALSE
        OBVIOUS
      <3>1. r \notin managed(model) /\ v.intent[r] = None
        BY <1>9, <2>1 DEF Present
      <3>2. model.requires[r] = {}
        BY <1>0, <2>1, <3>1, FollowsClosed
      <3>3. added_requires(model, v)[r] = {} /\ dropped_requires(model, v)[r] = {}
        BY <2>1, <3>1 DEF added_requires, dropped_requires
      <3>4. r \notin Added(model, v) \cup Dropped(model, v)
        BY <3>3 DEF Added, Dropped
      <3>5. n.requires[r] = drop_edges(model.requires, c.new)[r]
        BY <1>5, <2>1, <3>4 DEF RequiresDone
      <3>6. n.requires[r] = {}
        BY <2>1, <3>2, <3>5 DEF drop_edges
      <3>7. ~(r \in work.waiting /\ d \in work.blocked_on[r])
        BY <3>2 DEF BlockersPending
      <3> QED BY <2>2, <3>3, <3>6, <3>7
    <2>4. model'.requires[r] = v.requires[r] /\ v.intent[r] # None
      BY <1>4, <2>1, <2>3 DEF Represents, Present
    <2>5. d \in model'.requires[r] /\ d \in scheduled(work) \cup in_progress \cup dirty \cup deploying_latest'
      <3>1. CASE r \in work.waiting /\ d \in work.blocked_on[r] \ dropped_requires(model, v)[r]
        <4>1. d \in model.requires[r] /\ d \in scheduled(work) \cup in_progress
          BY <3>1 DEF BlockersPending
        <4>2. dropped_requires(model, v)[r] = model.requires[r] \ v.requires[r]
          BY <2>1, <2>4 DEF dropped_requires
        <4> QED BY <2>4, <3>1, <4>1, <4>2
      <3>2. CASE /\ d \in n.requires[r] \cup added_requires(model, v)[r]
                 /\ d \in scheduled(work) \cup dirty \cup deploying_latest'
        <4>1. added_requires(model, v)[r] = v.requires[r] \ model.requires[r]
          BY <2>1, <2>4 DEF added_requires
        <4> QED BY <1>6, <2>3, <2>4, <3>2, <4>1
      <3> QED BY <2>2, <3>1, <3>2
    <2>6. d \in managed(model')
      <3>1. d \in Present(v)
        BY <1>0, <2>3, <2>4, <2>5 DEF ClosedReleases
      <3> QED BY <1>4, <3>1 DEF Represents, Present, managed
    <2>7. d \notin is_blocked(model')
      <3> SUFFICES ASSUME d \in is_blocked(model') PROVE FALSE
        OBVIOUS
      <3>1. PICK w \in Releases \cup {EmptyVersion} :
              Represents(model', w) /\ is_blocked(model') = Undeployable(w)
        BY <1>0 DEF BlockedIsUndeployable
      <3>2. r \in Present(w) /\ model'.requires[r] = w.requires[r]
        BY <2>1, <2>5, <3>1 DEF Represents
      <3>3. r \in Undeployable(w)
        BY <2>5, <3>1, <3>2, UndeployableClosed
      <3> QED BY <1>0, <2>1, <3>1, <3>3 DEF BlockedNotScheduled
    <2>8. d \notin stopped
      BY <1>8, <2>6, <2>7
    <2> QED BY <1>7, <1>10, <2>5, <2>8
  <1> QED BY <1>11 DEF BlockersPending

\* Every other step keeps it: a task that leaves the work or the runners is taken off the
\* blockers of its dependants, or was that of a blocked resource and had none.
LEMMA BlockersStep ==
    ASSUME ~DbMayFail, OrderlyReleases, Foundation, Foundation', BlockersPending, [ReportedStep]_vars
    PROVE  BlockersPending'
  <1> DEFINE Goal == BlockersPending'
  <1> HIDE DEF Goal
  <1>0. /\ TypeOK /\ runner \in [Agents -> Runners] /\ work \in Works /\ model.requires \in Edges
        /\ BlockedIsUndeployable /\ BlockedNotScheduled
    BY DEF Foundation, TypeOK, BlockedInvariant, Models
  <1>s. ASSUME SameVersion,
               \A r \in work'.waiting : \A d \in work'.blocked_on[r] :
                 \/ r \in work.waiting /\ d \in work.blocked_on[r]
                 \/ d \in model.requires[r] \cap (scheduled(work') \cup in_progress'),
               ASSUME NEW r \in work'.waiting, NEW d \in work'.blocked_on[r],
                      r \in work.waiting, d \in work.blocked_on[r],
                      d \in model.requires[r], d \in scheduled(work) \cup in_progress
               PROVE  d \in scheduled(work') \cup in_progress'
        PROVE  Goal
    <2>1. ASSUME NEW r \in work'.waiting, NEW d \in work'.blocked_on[r]
          PROVE  d \in model'.requires[r] \cap (scheduled(work') \cup in_progress')
      <3>1. model'.requires = model.requires
        BY <1>s DEF SameVersion
      <3>2. CASE r \in work.waiting /\ d \in work.blocked_on[r]
        <4>1. d \in model.requires[r] /\ d \in scheduled(work) \cup in_progress
          BY <3>2 DEF BlockersPending
        <4> QED BY <1>s, <2>1, <3>1, <3>2, <4>1
      <3> QED BY <1>s, <2>1, <3>1, <3>2
    <2> QED BY <2>1 DEF Goal, BlockersPending
  <1>w. ASSUME SameVersion, WaitsForScheduled, scheduled(work) \subseteq scheduled(work'),
               in_progress \subseteq in_progress'
        PROVE  Goal
    <2>1. \A r \in work'.waiting : \A d \in work'.blocked_on[r] :
             \/ r \in work.waiting /\ d \in work.blocked_on[r]
             \/ d \in model.requires[r] \cap (scheduled(work') \cup in_progress')
      BY <1>w, LatestInProgress DEF WaitsForScheduled
    <2> QED BY <1>s, <1>w, <2>1
  <1>m. ASSUME SameVersion, work' = work, in_progress \subseteq in_progress' PROVE Goal
    BY <1>m, <1>w DEF WaitsForScheduled
  <1>1. ASSUME SameVersion, RequestDone PROVE Goal
    <2>1. in_progress' = in_progress
      BY <1>1 DEF in_progress, RequestDone
    <2> QED BY <1>1, <1>w, <2>1 DEF RequestDone
  <1>2. ASSUME SameVersion, NEW x \in Agents, NEW r \in Resources, QueueGet(x, r) PROVE Goal
    <2>1. /\ work' = queue_get(work, r) /\ runner[x].pc = "idle"
          /\ runner' = [runner EXCEPT ![x] = [IdleRunner EXCEPT !.pc = "picked", !.resource = r]]
      BY <1>2 DEF QueueGet
    <2>2. /\ runner'[x].pc = "picked" /\ runner'[x].resource = r
          /\ \A y \in Agents \ {x} : runner'[y] = runner[y]
      BY <1>0, <2>1 DEF IdleRunner
    <2>3. /\ scheduled(work) \subseteq scheduled(work') \cup {r}
          /\ work'.waiting = work.waiting /\ work'.blocked_on = work.blocked_on
      BY <1>0, <2>1, OtherScheduled
    <2>4. r \in in_progress' /\ in_progress \subseteq in_progress'
      BY <2>1, <2>2, OthersInProgress DEF in_progress
    <2> QED BY <1>2, <1>s, <2>3, <2>4
  <1>3. ASSUME SameVersion, NEW x \in Agents, DeployStart(x) PROVE Goal
    <2>1. /\ work' = work
          /\ runner'[x].pc = "deploying" /\ runner'[x].resource = runner[x].resource
          /\ \A y \in Agents \ {x} : runner'[y] = runner[y]
      BY <1>0, <1>3 DEF DeployStart, Runners
    <2> QED BY <1>3, <1>m, <2>1, OthersInProgress
  <1>4. ASSUME SameVersion, NEW x \in Agents, DeployStartStale(x) PROVE Goal
    <2>1. PICK q : q = runner[x].resource
      OBVIOUS
    <2>2. /\ work' = work /\ q \notin managed(model) \ is_blocked(model)
          /\ \A y \in Agents \ {x} : runner'[y] = runner[y]
      BY <1>0, <1>4, <2>1 DEF DeployStartStale
    <2>3. in_progress \subseteq in_progress' \cup {q}
      BY <2>1, <2>2, OthersInProgress
    <2>4. ASSUME NEW r \in work.waiting, q \in model.requires[r] PROVE FALSE
      <3>1. r \in Resources /\ r \in scheduled(work)
        BY <1>0, <2>4 DEF Works, scheduled
      <3>2. q \in managed(model)
        BY <1>0, <2>4, <3>1, FoundationFollows
      <3>3. q \in is_blocked(model)
        BY <2>2, <3>2
      <3> QED BY <1>0, <2>4, <3>1, <3>3, DependantsStayIdle
    <2> QED BY <1>4, <1>s, <2>2, <2>3, <2>4
  <1>5. ASSUME SameVersion, NEW x \in Agents, NEW result \in Reports, DeployDoneUnmanaged(x, result) PROVE Goal
    <2>1. /\ work' = work
          /\ runner'[x].pc = "reporting" /\ runner'[x].resource = runner[x].resource
          /\ \A y \in Agents \ {x} : runner'[y] = runner[y]
      BY <1>0, <1>5 DEF DeployDoneUnmanaged, Runners
    <2> QED BY <1>5, <1>m, <2>1, OthersInProgress
  <1>6. ASSUME SameVersion, NEW x \in Agents, ReportDone(x) PROVE Goal
    <2>1. /\ scheduled(work) \subseteq scheduled(work') /\ WaitsForScheduled
          /\ runner'[x].pc = "reporting" /\ runner'[x].resource = runner[x].resource
          /\ \A y \in Agents \ {x} : runner'[y] = runner[y]
      BY <1>0, <1>6 DEF ReportDone, Runners
    <2>2. in_progress \subseteq in_progress'
      BY <2>1, OthersInProgress
    <2> QED BY <1>6, <1>w, <2>1, <2>2
  <1>7. ASSUME SameVersion, NEW x \in Agents, FinishDeploy(x) PROVE Goal
    <2>1. PICK q : q = runner[x].resource
      OBVIOUS
    <2>2. PICK requires \in Edges : requires = model.requires
      BY <1>0
    <2>3. /\ \A y \in Agents \ {x} : runner'[y] = runner[y]
          /\ work' = finished_deploy(work, requires, q) /\ runner[x].pc \in {"reporting", "raised"}
      BY <1>0, <1>7, <2>1, <2>2 DEF FinishDeploy
    <2>4. q \in Resources
      BY <2>1, <2>3 DEF Foundation, DeployingInvariant
    <2>5. scheduled(work') = scheduled(work)
      BY <1>0, <2>3, OtherScheduled
    <2>6. in_progress \subseteq in_progress' \cup {q}
      BY <2>1, <2>3, OthersInProgress
    <2>7. ASSUME NEW r \in work'.waiting, NEW d \in work'.blocked_on[r]
          PROVE  /\ r \in work.waiting /\ d \in work.blocked_on[r]
                 /\ d = q => q \in scheduled(work) \/ q \notin requires[r]
      BY <1>0, <2>3, <2>4, <2>7, FinishedDeployBlockers
    <2> QED BY <1>7, <1>s, <2>2, <2>5, <2>6, <2>7
  <1>8. ASSUME PlainVersionStep PROVE Goal
    BY <1>8, NewVersionBlockers DEF Goal
  <1>9. Goal
    BY <1>1, <1>2, <1>3, <1>4, <1>5, <1>6, <1>7, <1>8, OtherSteps
  <1> QED BY <1>9 DEF Goal

(***************************************************************************)
(* No task waits in vain: whatever a waiting task is blocked on is a       *)
(* dependency of it that is scheduled or in progress, so that its          *)
(* finished_deploy will come, also after versions that drop requires,      *)
(* delete tasks or block resources.                                        *)
(***************************************************************************)
THEOREM NoTaskWaitsInVain ==
    ASSUME ~AllowBatches, ~DbMayFail, OrderlyReleases
    PROVE  ReportedSpec => []BlockersPending
  <1> DEFINE Inv == Foundation /\ BlockersPending
  <1>1. Init => Inv
    <2>1. Init => work.waiting = {}
      BY DEF Init, EmptyWork
    <2>2. Init => BlockersPending
      BY <2>1 DEF BlockersPending
    <2> QED BY <2>2, InitFoundation
  <1>2. Inv /\ [ReportedStep]_vars => Inv'
    BY FoundationStep, BlockersStep
  <1>3. Inv => BlockersPending
    OBVIOUS
  <1>4. ReportedSpec => Init /\ [][ReportedStep]_vars
    BY ReportedSteps
  <1> HIDE DEF Inv
  <1> QED BY <1>1, <1>2, <1>3, <1>4, PTL
=============================================================================
