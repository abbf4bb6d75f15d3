----------------------- MODULE CompilerServiceProofs -----------------------
(***************************************************************************)
(* One compile at a time, listeners before the next compile, notifications *)
(* that are not lost, and merges that lose nothing: for any number of      *)
(* requests, merge keys, environment operations and restarts.              *)
(*                                                                         *)
(* BusyInv says who may be running, and why a run that was taken off the   *)
(* map is alone; DebtInv who still owes a compile its blocking listeners;  *)
(* MergeInv what holds of a run and of the requests it stands in for.      *)
(***************************************************************************)
EXTENDS CompilerService, SequenceTheorems, FiniteSetTheorems, WellFoundedInduction, TLAPS

RowStates   == {"row", "uncommitted", "deleted"}
Rows        == [row : RowStates, key : Keys, force : BOOLEAN, started : BOOLEAN, completed : Nat,
                handled : BOOLEAN, substitute : Nat, used : SUBSET Nat,
                result : {"none", "compiled", "updated", "failed"}]
RunPhases   == {"backoff", "compiling", "completed", "merging", "notifying", "finishing"}
Runs        == [compile : Nat, restarted : BOOLEAN, merged : SUBSET Nat,
                pc : RunPhases \cup {"done", "cancelled", "raised"}, cancelled : BOOLEAN]
Calls       == [kind : {"none", "request", "recover", "resume", "finish"}, id : Nat]
Flows       == [pc : {"idle", "notifying", "processing", "reading", "comparing"}, todo : SUBSET Nat,
                expected : Nat, server_compile : BOOLEAN]
Operations  == [kind : {"none", "resume", "clear"},
                pc : {"none", "resuming", "cancel", "join", "rows", "recount", "cleared"},
                initial : BOOLEAN, run : Nat]

TypeOK ==
    /\ db \in Seq(Rows) /\ halted \in BOOLEAN /\ settings \in Settings
    /\ ready \in BOOLEAN /\ stopping \in BOOLEAN
    /\ tasks \in Seq(Runs) /\ active \in Nat /\ active <= Len(tasks)
    /\ uncounted \in SUBSET Nat
    /\ calls \in SUBSET Calls
    /\ holder \in [call : Calls, next : Nat, halted : BOOLEAN]
    /\ notifying \in SUBSET [compile : Nat, blocking : BOOLEAN]
    /\ flow \in [recover : Flows, resume : Flows]
    /\ operation \in Operations /\ clearRequest \in [waiting : BOOLEAN, initial : BOOLEAN]
    /\ cancelledLive \in BOOLEAN

-----------------------------------------------------------------------------
(* Numbers and sequences *)

\* A set of numbers that is not empty has a least element.
LEMMA NatMin ==
    ASSUME NEW S \in SUBSET Nat, S # {}
    PROVE  \E m \in S : \A x \in S : m <= x
  <1> DEFINE Less == OpToRel(<, Nat)
  <1>1. IsWellFoundedOn(Less, Nat)
    BY NatLessThanWellFounded, Zenon
  <1>2. \A x, m \in Nat : <<x, m>> \notin Less => m <= x
    BY DEF OpToRel
  <1> HIDE DEF Less
  <1>3. \E m \in S : \A x \in S : <<x, m>> \notin Less
    BY <1>1, WFMin
  <1> QED BY <1>2, <1>3

\* Min of such a set is one of its elements.
LEMMA MinIsElement ==
    ASSUME NEW S \in SUBSET Nat, S # {}
    PROVE  Min(S) \in S
  <1>1. \E m \in S : \A x \in S : m =< x
    BY NatMin
  <1> QED BY <1>1 DEF Min

\* The numbers of a finite list have an upper bound.
LEMMA ListIsBounded ==
    ASSUME NEW n \in Nat, NEW f, \A i \in 1..n : f[i] \in Nat
    PROVE  \E u \in Nat : \A i \in 1..n : f[i] <= u
  <1> DEFINE bounded(k, u) == \A i \in 1..k : f[i] <= u
             B == {k \in 0..n : \A u \in Nat : ~bounded(k, u)}
  <1>1. B \in SUBSET Nat /\ \A k \in B : k <= n
    OBVIOUS
  <1>2. ASSUME NEW k \in 0..n, k \notin B PROVE \E u \in Nat : bounded(k, u)
    BY <1>2
  <1>3. bounded(0, 0) /\ 0 \notin B
    OBVIOUS
  <1>4. ASSUME NEW k \in 1..n, NEW u \in Nat, bounded(k - 1, u)
        PROVE  k \notin B
    <2>1. f[k] \in Nat
      OBVIOUS
    <2>2. bounded(k, IF f[k] <= u THEN u ELSE f[k])
      <3> SUFFICES ASSUME NEW i \in 1..k PROVE f[i] <= (IF f[k] <= u THEN u ELSE f[k])
        OBVIOUS
      <3>1. CASE i = k
        BY <2>1, <3>1
      <3>2. CASE i # k
        <4>1. i \in 1..(k - 1) /\ f[i] \in Nat
          BY <3>2
        <4>2. f[i] <= u
          BY <1>4, <4>1
        <4> QED BY <2>1, <4>1, <4>2
      <3> QED BY <3>1, <3>2
    <2>3. (IF f[k] <= u THEN u ELSE f[k]) \in Nat
      BY <2>1
    <2> HIDE DEF bounded
    <2> QED BY <2>2, <2>3
  <1> HIDE DEF bounded, B
  <1>5. B = {}
    <2> SUFFICES ASSUME B # {} PROVE FALSE
      OBVIOUS
    <2>1. PICK m \in B : \A x \in B : m <= x
      BY <1>1, NatMin
    <2>2. m \in 1..n /\ m - 1 \in 0..n /\ m - 1 \notin B
      BY <1>1, <1>3, <2>1
    <2> QED BY <1>2, <1>4, <2>1, <2>2
  <1>6. \E u \in Nat : bounded(n, u)
    BY <1>2, <1>5
  <1> QED BY <1>6 DEF bounded

\* The completion time that a compile gets.
LEMMA NowIsPositive ==
    ASSUME TypeOK
    PROVE  Now \in Nat /\ Now # 0
  <1> DEFINE f == [i \in Compiles |-> db[i].completed]
             S == {0} \cup {db[c].completed : c \in Compiles}
  <1>1. Len(db) \in Nat /\ \A i \in 1..Len(db) : db[i] \in Rows /\ db[i].completed \in Nat
    <2>1. db \in Seq(Rows)
      BY DEF TypeOK
    <2>2. \A i \in 1..Len(db) : db[i] \in Rows
      BY <2>1
    <2> QED BY <2>1, <2>2 DEF Rows
  <1>2. \A i \in 1..Len(db) : f[i] = db[i].completed
    BY DEF Compiles
  <1> HIDE DEF f
  <1>2a. PICK u \in Nat : \A i \in 1..Len(db) : f[i] <= u
    BY <1>1, <1>2, ListIsBounded
  <1>3. S \in SUBSET Nat /\ \A x \in S : x <= u
    BY <1>1, <1>2, <1>2a DEF Compiles
  <1> HIDE DEF S
  <1> DEFINE D == {u - x : x \in S}
  <1>4. D \in SUBSET Nat /\ D # {}
    <2>1. 0 \in S
      BY DEF S
    <2> QED BY <1>3, <2>1
  <1>5. PICK d \in D : \A y \in D : d <= y
    BY <1>4, NatMin
  <1>6. PICK x \in S : d = u - x
    BY <1>5
  <1>7. \A y \in S : x >= y
    <2> TAKE y \in S
    <2>1. d <= u - y
      BY <1>5
    <2> QED BY <1>3, <1>6, <2>1
  <1>8. Max(S) \in S
    BY <1>7 DEF Max
  <1> QED BY <1>3, <1>8 DEF Now, S

-----------------------------------------------------------------------------
(* What the steps do to the compile table and to the runs *)

\* What the types say, without the set that an element comes from.
LEMMA Typing ==
    ASSUME TypeOK
    PROVE  /\ db \in Seq(Rows) /\ tasks \in Seq(Runs)
           /\ Len(db) \in Nat /\ Compiles = 1..Len(db) /\ \A c \in Compiles : db[c] \in Rows
           /\ Len(tasks) \in Nat /\ Tasks = 1..Len(tasks) /\ \A t \in Tasks : tasks[t] \in Runs
           /\ Incomplete \subseteq Nat /\ Unhandled \subseteq Nat
  <1>1. db \in Seq(Rows) /\ tasks \in Seq(Runs)
    BY DEF TypeOK
  <1>2. Compiles = 1..Len(db) /\ Tasks = 1..Len(tasks)
    BY DEF Compiles, Tasks
  <1>3. Len(db) \in Nat /\ Len(tasks) \in Nat
    BY <1>1
  <1>4. (\A c \in Compiles : db[c] \in Rows) /\ (\A t \in Tasks : tasks[t] \in Runs)
    BY <1>1, <1>2
  <1> QED BY <1>1, <1>2, <1>3, <1>4 DEF Incomplete, Unhandled

\* The columns of a row that no statement changes.
SameRequest(c) ==
    /\ db'[c].row = db[c].row /\ db'[c].key = db[c].key /\ db'[c].force = db[c].force

\* An update changes one row, if it is there.
LEMMA UpdatedEffect ==
    ASSUME TypeOK, NEW c, NEW new, Row(c) => new \in Rows, db' = Updated(c, new)
    PROVE  /\ db' \in Seq(Rows) /\ Len(db') = Len(db) /\ Compiles' = Compiles
           /\ \A d \in Compiles : d # c => db'[d] = db[d]
           /\ Row(c) => c \in Compiles /\ db'[c] = new
           /\ ~Row(c) => db' = db
  <1>1. CASE Row(c)
    <2>1. db' = [db EXCEPT ![c] = new] /\ c \in Compiles /\ new \in Rows
      BY <1>1 DEF Updated, Row
    <2>2. db \in Seq(Rows) /\ c \in 1..Len(db)
      BY <2>1, Typing
    <2>3. db' \in Seq(Rows) /\ Len(db') = Len(db)
      BY <2>1, <2>2
    <2>4. \A d \in Compiles : d # c => db'[d] = db[d]
      BY <2>1, <2>2, Typing
    <2>5. db'[c] = new
      BY <2>1, <2>2
    <2> QED BY <1>1, <2>1, <2>3, <2>4, <2>5 DEF Compiles
  <1>2. CASE ~Row(c)
    BY <1>2, Typing DEF Updated, Compiles
  <1> QED BY <1>1, <1>2

\* Nobody else's run changes.
OnlyRun(t) ==
    /\ tasks' \in Seq(Runs) /\ Len(tasks') = Len(tasks) /\ Tasks' = Tasks
    /\ \A u \in Tasks : u # t => tasks'[u] = tasks[u]

\* A new record for a run.
LEMMA RunEffect ==
    ASSUME TypeOK, NEW t \in Tasks, NEW r \in Runs, tasks' = [tasks EXCEPT ![t] = r]
    PROVE  OnlyRun(t) /\ tasks'[t] = r
  <1>1. tasks \in Seq(Runs) /\ t \in 1..Len(tasks)
    BY Typing
  <1>2. tasks' \in Seq(Runs) /\ Len(tasks') = Len(tasks) /\ tasks'[t] = r
    BY <1>1
  <1>3. \A u \in Tasks : u # t => tasks'[u] = tasks[u]
    BY <1>1, Typing
  <1> QED BY <1>2, <1>3 DEF OnlyRun, Tasks

\* A run that goes on to its next phase stays what it is.
LEMMA GoToEffect ==
    ASSUME TypeOK, NEW t \in Tasks, NEW pc \in RunPhases, GoTo(t, pc)
    PROVE  /\ OnlyRun(t) /\ tasks'[t].pc = pc
           /\ tasks'[t].compile = tasks[t].compile /\ tasks'[t].merged = tasks[t].merged
           /\ tasks'[t].restarted = tasks[t].restarted
  <1> DEFINE r == [tasks[t] EXCEPT !.pc = pc]
  <1>1. tasks[t] \in Runs
    BY Typing
  <1>2. r \in Runs /\ r.pc = pc /\ r.compile = tasks[t].compile /\ r.merged = tasks[t].merged
        /\ r.restarted = tasks[t].restarted
    BY <1>1 DEF Runs
  <1>3. tasks' = [tasks EXCEPT ![t] = r]
    BY DEF GoTo
  <1> HIDE DEF r
  <1> QED BY <1>2, <1>3, RunEffect

\* A run that is over is forgotten.
LEMMA OverEffect ==
    ASSUME TypeOK, NEW t \in Tasks, NEW pc \in {"done", "cancelled", "raised"}, tasks' = Over(tasks, t, pc)
    PROVE  OnlyRun(t) /\ Ended(t)'
  <1> DEFINE r == [compile |-> 0, restarted |-> FALSE, merged |-> {}, pc |-> pc, cancelled |-> FALSE]
  <1>1. r \in Runs /\ r.pc = pc
    BY DEF Runs
  <1>2. tasks' = [tasks EXCEPT ![t] = r]
    BY DEF Over
  <1> HIDE DEF r
  <1> QED BY <1>1, <1>2, RunEffect DEF Ended

\* A run that begins marks its compile as started, and takes its merge candidates.
LEMMA BeginRunEffect ==
    ASSUME TypeOK, NEW t \in Tasks, BeginRun(t)
    PROVE  LET c == tasks[t].compile
           IN  /\ OnlyRun(t) /\ tasks[t].pc = "backoff" /\ tasks'[t].pc = "compiling"
               /\ tasks'[t].compile = c /\ tasks'[t].merged = MergeCandidates(t)
               /\ db' \in Seq(Rows) /\ Len(db') = Len(db) /\ Compiles' = Compiles
               /\ \A d \in Compiles : /\ SameRequest(d) /\ (d # c => db'[d] = db[d])
                                      /\ db'[d].completed = db[d].completed /\ db'[d].handled = db[d].handled
                                      /\ db'[d].substitute = db[d].substitute /\ db'[d].result = db[d].result
               /\ Row(c) => db'[c].used = {c} \cup MergeCandidates(t)
               /\ ~Row(c) => db' = db
  <1> DEFINE c == tasks[t].compile
             M == MergeCandidates(t)
             r == [tasks[t] EXCEPT !.merged = M, !.pc = "compiling"]
             new == [db[c] EXCEPT !.started = TRUE, !.used = {c} \cup M]
  <1>1. tasks[t] \in Runs /\ c \in Nat /\ M \in SUBSET Nat
    BY Typing DEF Runs, MergeCandidates
  <1>2. tasks' = [tasks EXCEPT ![t] = r] /\ db' = Updated(c, new) /\ tasks[t].pc = "backoff"
    <2>1. tasks' = [tasks EXCEPT ![t].merged = M, ![t].pc = "compiling"]
      BY DEF BeginRun
    <2>2. tasks' = [tasks EXCEPT ![t] = r]
      BY <1>1, <2>1, Typing DEF Runs
    <2> QED BY <2>2 DEF BeginRun, At
  <1> HIDE DEF M
  <1>3. r \in Runs /\ r.pc = "compiling" /\ r.compile = c /\ r.merged = M
    BY <1>1 DEF Runs, RunPhases
  <1>4. ASSUME Row(c)
        PROVE  /\ new \in Rows /\ new.row = db[c].row /\ new.key = db[c].key /\ new.force = db[c].force
               /\ new.completed = db[c].completed /\ new.handled = db[c].handled
               /\ new.substitute = db[c].substitute /\ new.result = db[c].result /\ new.used = {c} \cup M
    <2>1. db[c] \in Rows
      BY <1>4, Typing DEF Row
    <2>2. {c} \cup M \in SUBSET Nat
      BY <1>1
    <2> HIDE DEF c
    <2> QED BY <2>1, <2>2 DEF Rows
  <1> HIDE DEF r, new
  <1>5. OnlyRun(t) /\ tasks'[t] = r
    BY <1>2, <1>3, RunEffect
  <1>6. /\ db' \in Seq(Rows) /\ Len(db') = Len(db) /\ Compiles' = Compiles
        /\ \A d \in Compiles : d # c => db'[d] = db[d]
        /\ Row(c) => c \in Compiles /\ db'[c] = new
        /\ ~Row(c) => db' = db
    BY <1>2, <1>4, UpdatedEffect
  <1>7. \A d \in Compiles : /\ SameRequest(d) /\ (d # c => db'[d] = db[d])
                            /\ db'[d].completed = db[d].completed /\ db'[d].handled = db[d].handled
                            /\ db'[d].substitute = db[d].substitute /\ db'[d].result = db[d].result
    BY <1>4, <1>6 DEF SameRequest
  <1>8. Row(c) => db'[c].used = {c} \cup M
    BY <1>4, <1>6
  <1>9. tasks'[t].pc = "compiling" /\ tasks'[t].compile = c /\ tasks'[t].merged = M
    BY <1>3, <1>5
  <1> QED BY <1>2, <1>5, <1>6, <1>7, <1>8, <1>9 DEF M

\* The compiler leaves a completed compile, whose result covers every request it ran for.
LEMMA RunCompilerEffect ==
    ASSUME TypeOK, NEW t \in Tasks, RunCompiler(t)
    PROVE  LET c == tasks[t].compile
           IN  /\ OnlyRun(t) /\ tasks[t].pc = "compiling" /\ tasks'[t].pc = "completed"
               /\ tasks'[t].compile = c /\ tasks'[t].merged = tasks[t].merged
               /\ db' \in Seq(Rows) /\ Len(db') = Len(db) /\ Compiles' = Compiles
               /\ \A d \in Compiles : /\ SameRequest(d) /\ (d # c => db'[d] = db[d])
                                      /\ db'[d].handled = db[d].handled /\ db'[d].used = db[d].used
                                      /\ db'[d].substitute = db[d].substitute
               /\ Row(c) => /\ db'[c].completed # 0
                            /\ (\E d \in Group(t) : db[d].force) => db'[c].result \in {"updated", "failed"}
               /\ ~Row(c) => db' = db
  <1> DEFINE c == tasks[t].compile
             update == \E d \in Group(t) : db[d].force
             result == CASE tasks[t].cancelled -> "failed"
                         [] ~tasks[t].cancelled /\ update -> "updated"
                         [] OTHER -> "compiled"
             new == [db[c] EXCEPT !.completed = Now, !.result = result]
  <1>1. tasks[t] \in Runs /\ tasks[t].pc = "compiling"
    BY Typing DEF RunCompiler, At
  <1>2. db' = Updated(c, new) /\ GoTo(t, "completed")
    BY DEF RunCompiler
  <1>3. OnlyRun(t) /\ tasks'[t].pc = "completed" /\ tasks'[t].compile = c /\ tasks'[t].merged = tasks[t].merged
    BY <1>2, GoToEffect DEF RunPhases
  <1>4. Now \in Nat /\ Now # 0
    BY NowIsPositive
  <1>5. result \in {"compiled", "updated", "failed"} /\ (update => result \in {"updated", "failed"})
    <2> HIDE DEF update
    <2>1. CASE tasks[t].cancelled
      BY <2>1
    <2>2. CASE ~tasks[t].cancelled /\ update
      BY <2>2
    <2>3. CASE ~tasks[t].cancelled /\ ~update
      BY <2>3
    <2> QED BY <2>1, <2>2, <2>3
  <1> HIDE DEF result
  <1>6. ASSUME Row(c)
        PROVE  /\ new \in Rows /\ new.row = db[c].row /\ new.key = db[c].key /\ new.force = db[c].force
               /\ new.handled = db[c].handled /\ new.used = db[c].used
               /\ new.substitute = db[c].substitute /\ new.completed = Now /\ new.result = result
    <2>1. db[c] \in Rows
      BY <1>6, Typing DEF Row
    <2> HIDE DEF c
    <2> QED BY <2>1, <1>4, <1>5 DEF Rows
  <1> HIDE DEF new
  <1>7. /\ db' \in Seq(Rows) /\ Len(db') = Len(db) /\ Compiles' = Compiles
        /\ \A d \in Compiles : d # c => db'[d] = db[d]
        /\ Row(c) => c \in Compiles /\ db'[c] = new
        /\ ~Row(c) => db' = db
    BY <1>2, <1>6, UpdatedEffect
  <1>8. \A d \in Compiles : /\ SameRequest(d) /\ (d # c => db'[d] = db[d])
                            /\ db'[d].handled = db[d].handled /\ db'[d].used = db[d].used
                            /\ db'[d].substitute = db[d].substitute
    BY <1>6, <1>7 DEF SameRequest
  <1>9. Row(c) => db'[c].completed # 0 /\ (update => db'[c].result \in {"updated", "failed"})
    BY <1>4, <1>5, <1>6, <1>7
  <1> QED BY <1>1, <1>3, <1>7, <1>8, <1>9

\* A merged compile is completed in the name of the one that ran; if that one is gone, the
\* run ends there.
LEMMA CompleteMergedEffect ==
    ASSUME TypeOK, NEW t \in Tasks, NEW d \in Compiles, CompleteMerged(t, d)
    PROVE  LET c == tasks[t].compile
           IN  /\ tasks[t].pc = "merging" /\ d \in tasks[t].merged /\ Row(d) /\ db[d].substitute # c
               /\ db' \in Seq(Rows) /\ Len(db') = Len(db) /\ Compiles' = Compiles
               /\ \A e \in Compiles : /\ SameRequest(e) /\ (e # d => db'[e] = db[e])
                                      /\ db'[e].handled = db[e].handled /\ db'[e].result = db[e].result
               /\ IF Row(c) THEN /\ tasks' = tasks /\ db'[d].substitute = c
                                 /\ db'[d].completed = db[c].completed /\ db'[d].used = db[c].used
                  ELSE OnlyRun(t) /\ Ended(t)' /\ db' = db
  <1> DEFINE c == tasks[t].compile
             new == [db[d] EXCEPT !.started = TRUE, !.completed = db[c].completed,
                                  !.used = db[c].used, !.substitute = c]
  <1>1. tasks[t] \in Runs /\ tasks[t].pc = "merging" /\ d \in tasks[t].merged /\ c \in Nat
    BY Typing DEF CompleteMerged, At, Runs
  <1>2. Row(d) /\ db[d].substitute # c
    BY DEF CompleteMerged, Merged
  <1>3. CASE Row(c)
    <2>1. db' = Updated(d, new) /\ tasks' = tasks
      BY <1>3 DEF CompleteMerged
    <2>2. db[d] \in Rows /\ db[c] \in Rows
      BY <1>3, Typing DEF Row
    <2> HIDE DEF c
    <2>3. /\ new \in Rows /\ new.row = db[d].row /\ new.key = db[d].key /\ new.force = db[d].force
          /\ new.handled = db[d].handled /\ new.result = db[d].result
          /\ new.substitute = c /\ new.completed = db[c].completed /\ new.used = db[c].used
      BY <1>1, <2>2 DEF Rows
    <2> HIDE DEF new
    <2>4. /\ db' \in Seq(Rows) /\ Len(db') = Len(db) /\ Compiles' = Compiles
          /\ \A e \in Compiles : e # d => db'[e] = db[e]
          /\ db'[d] = new
      BY <1>2, <2>1, <2>3, UpdatedEffect
    <2>5. \A e \in Compiles : /\ SameRequest(e) /\ (e # d => db'[e] = db[e])
                              /\ db'[e].handled = db[e].handled /\ db'[e].result = db[e].result
      BY <2>3, <2>4 DEF SameRequest
    <2> QED BY <1>1, <1>2, <1>3, <2>1, <2>3, <2>4, <2>5 DEF c
  <1>4. CASE ~Row(c)
    <2>1. tasks' = Over(tasks, t, "raised") /\ db' = db
      BY <1>4 DEF CompleteMerged
    <2>2. OnlyRun(t) /\ Ended(t)'
      BY <2>1, OverEffect
    <2> QED BY <1>1, <1>2, <1>4, <2>1, <2>2, Typing DEF SameRequest, Compiles
  <1> QED BY <1>3, <1>4

\* The end of a notification sets "handled", and nothing else.
LEMMA MarkHandledEffect ==
    ASSUME TypeOK, NEW n \in notifying, MarkHandled(n)
    PROVE  /\ n.blocking
           /\ db' \in Seq(Rows) /\ Len(db') = Len(db) /\ Compiles' = Compiles
           /\ \A d \in Compiles : /\ SameRequest(d) /\ (d # n.compile => db'[d] = db[d])
                                  /\ db'[d].completed = db[d].completed /\ db'[d].used = db[d].used
                                  /\ db'[d].substitute = db[d].substitute /\ db'[d].result = db[d].result
                                  /\ db'[d].started = db[d].started /\ (db[d].handled => db'[d].handled)
           /\ ~Row(n.compile) => db' = db
  <1> DEFINE c == n.compile
             new == [db[c] EXCEPT !.handled = TRUE]
  <1>1. db' = Updated(c, new) /\ n.blocking
    BY DEF MarkHandled, may_be_handled
  <1>2. ASSUME Row(c)
        PROVE  /\ new \in Rows /\ new.row = db[c].row /\ new.key = db[c].key /\ new.force = db[c].force
               /\ new.completed = db[c].completed /\ new.used = db[c].used /\ new.handled
               /\ new.started = db[c].started
               /\ new.substitute = db[c].substitute /\ new.result = db[c].result
    <2>1. db[c] \in Rows
      BY <1>2, Typing DEF Row
    <2> HIDE DEF c
    <2> QED BY <2>1 DEF Rows
  <1> HIDE DEF new
  <1>3. /\ db' \in Seq(Rows) /\ Len(db') = Len(db) /\ Compiles' = Compiles
        /\ \A d \in Compiles : d # c => db'[d] = db[d]
        /\ Row(c) => c \in Compiles /\ db'[c] = new
        /\ ~Row(c) => db' = db
    BY <1>1, <1>2, UpdatedEffect
  <1> QED BY <1>1, <1>2, <1>3 DEF SameRequest

\* A new request is well formed.
LEMMA RequestIsRow ==
    ASSUME NEW k \in Keys, NEW f \in BOOLEAN, NEW row \in RowStates
    PROVE  LET r == Request(k, f, row)
           IN  /\ r \in Rows /\ r.row = row /\ r.completed = 0 /\ ~r.handled /\ r.substitute = 0 /\ ~r.started
               /\ r.key = k /\ r.force = f
  BY DEF Request, Rows

\* It comes at the end of the table.
LEMMA AppendEffect ==
    ASSUME TypeOK, NEW r \in Rows, db' = Append(db, r)
    PROVE  /\ db' \in Seq(Rows) /\ Len(db') = Len(db) + 1 /\ Compiles' = Compiles \cup {Len(db) + 1}
           /\ Len(db) + 1 \notin Compiles /\ db'[Len(db) + 1] = r
           /\ \A d \in Compiles : db'[d] = db[d]
  <1>1. db \in Seq(Rows) /\ Len(db) \in Nat
    BY Typing
  <1>2. db' \in Seq(Rows) /\ Len(db') = Len(db) + 1 /\ db'[Len(db) + 1] = r
    BY <1>1
  <1>3. \A d \in 1..Len(db) : db'[d] = db[d]
    BY <1>1
  <1> QED BY <1>1, <1>2, <1>3 DEF Compiles

\* Some rows are deleted, the others stay.
LEMMA DeleteEffect ==
    ASSUME TypeOK, NEW gone, db' = [c \in Compiles |-> IF c \in gone THEN NoRow ELSE db[c]]
    PROVE  /\ db' \in Seq(Rows) /\ Compiles' = Compiles /\ Len(db') = Len(db)
           /\ \A c \in Compiles : IF c \in gone THEN db'[c] = NoRow ELSE db'[c] = db[c]
           /\ NoRow.row = "deleted" /\ ~NoRow.handled /\ NoRow.completed = 0 /\ NoRow.substitute = 0
           /\ ~NoRow.started
  <1>1. /\ NoRow \in Rows /\ NoRow.row = "deleted" /\ ~NoRow.handled /\ NoRow.completed = 0
        /\ NoRow.substitute = 0 /\ ~NoRow.started
    BY CompilerAssumption, RequestIsRow DEF NoRow, RowStates
  <1>2. \A c \in Compiles : db[c] \in Rows
    BY Typing
  <1>3. db' \in [1..Len(db) -> Rows] /\ Len(db) \in Nat
    BY <1>1, <1>2, Typing
  <1>4. db' \in Seq(Rows) /\ Len(db') = Len(db)
    BY <1>3
  <1> QED BY <1>1, <1>4 DEF Compiles

FinishCall(t) == [kind |-> "finish", id |-> t]

\* Task.cancel ends the run where it waits, with what it waited for, unless the compiler is
\* running.
LEMMA CancelRunEffect ==
    ASSUME TypeOK, NEW t \in Tasks, CancelRun(t)
    PROVE  /\ OnlyRun(t)
           /\ \/ /\ Ended(t)'
                 /\ calls' = calls \ {FinishCall(t)}
                 /\ holder' = IF holder.call = FinishCall(t) THEN Free ELSE holder
                 /\ notifying' \subseteq notifying
                 /\ \A n \in notifying \ notifying' : tasks[t].pc = "notifying" /\ n.compile \in Group(t)
              \/ /\ tasks[t].pc = "compiling" /\ tasks'[t].pc = "compiling"
                 /\ tasks'[t].compile = tasks[t].compile /\ tasks'[t].merged = tasks[t].merged
                 /\ UNCHANGED <<calls, holder, notifying>>
  <1>1. tasks[t] \in Runs /\ tasks \in Seq(Runs)
    BY Typing
  <1>2. CASE EndHere(t)
    <2>1. OnlyRun(t) /\ Ended(t)'
      <3>1. CASE Ended(t)
        BY <1>1, <1>2, <3>1 DEF EndHere, OnlyRun, Tasks, Ended
      <3>2. CASE ~Ended(t)
        BY <1>2, <3>2, OverEffect DEF EndHere
      <3> QED BY <3>1, <3>2
    <2> QED BY <1>2, <2>1 DEF EndHere, FinishCall
  <1>3. CASE tasks[t].pc = "compiling" /\ tasks' = [tasks EXCEPT ![t].cancelled = TRUE]
             /\ UNCHANGED <<calls, holder, notifying>>
    <2> DEFINE r == [tasks[t] EXCEPT !.cancelled = TRUE]
    <2>1. r \in Runs /\ r.pc = tasks[t].pc /\ r.compile = tasks[t].compile /\ r.merged = tasks[t].merged
      BY <1>1 DEF Runs
    <2>2. tasks' = [tasks EXCEPT ![t] = r]
      BY <1>3
    <2> HIDE DEF r
    <2> QED BY <1>3, <2>1, <2>2, RunEffect
  <1> QED BY <1>2, <1>3 DEF CancelRun

\* A run that starts comes at the end of the list.
LEMMA NewTaskEffect ==
    ASSUME TypeOK, NEW c \in Nat
    PROVE  LET ts == Append(tasks, NewTask(c))
               r  == ts[Len(tasks) + 1]
           IN  /\ ts \in Seq(Runs) /\ Len(ts) = Len(tasks) + 1
               /\ \A u \in Tasks : ts[u] = tasks[u]
               /\ r.compile = c /\ r.pc = "backoff" /\ r.merged = {}
  <1> DEFINE r  == NewTask(c)
             ts == Append(tasks, NewTask(c))
  <1>1. Row(c) => db[c].started \in BOOLEAN
    BY Typing DEF Row, Rows
  <1>2. r \in Runs /\ r.compile = c /\ r.pc = "backoff" /\ r.merged = {}
    <2>1. (Row(c) /\ db[c].started) \in BOOLEAN
      OBVIOUS
    <2> QED BY <2>1 DEF NewTask, Runs, RunPhases
  <1> HIDE DEF r
  <1>3. tasks \in Seq(Runs) /\ Tasks = 1..Len(tasks) /\ Len(tasks) \in Nat
    BY Typing
  <1>4. ts = Append(tasks, r)
    BY DEF r
  <1> HIDE DEF ts
  <1>5. ts \in Seq(Runs) /\ Len(ts) = Len(tasks) + 1 /\ ts[Len(tasks) + 1] = r
    BY <1>2, <1>3, <1>4
  <1>6. \A u \in Tasks : ts[u] = tasks[u]
    BY <1>3, <1>4
  <1> QED BY <1>2, <1>5, <1>6 DEF ts

-----------------------------------------------------------------------------
(* The inductive invariants *)

\* Every delivery is recorded before "handled" is.
HandledInv ==
    /\ HandledIsDelivered
    /\ \A n \in notifying : n.blocking => <<n.compile, "blocking">> \in delivered

\* A call for the next compile that comes from a run is made once, by a run that waits for it.
FinishesRun(call) ==
    call.kind = "finish" => call.id \in Tasks /\ tasks[call.id].pc = "finishing" /\ call = FinishCall(call.id)

CallsInv ==
    /\ \A call \in calls : call.kind # "none" /\ FinishesRun(call)
    /\ FinishesRun(holder.call) /\ (holder.call.kind = "finish" => holder.call \notin calls)
    /\ holder.call.kind = "none" => holder = Free
    /\ ~ready => /\ tasks = <<>> /\ holder = Free /\ flow.recover.pc = "notifying"
                 /\ \A call \in calls : call.kind # "recover"

\* Who may be running: the entry of the map, or the run that a clear of the halted environment
\* took off the map and waits for; in that time no run can start.
Cancelling == operation.pc \in {"join", "rows"}

BusyInv ==
    ~cancelledLive =>
        /\ Cancelling => halted /\ active = 0 /\ (holder # Free => holder.halted)
        /\ \A t \in Tasks : ~Ended(t) => t = active \/ (operation.pc = "join" /\ operation.run = t)

\* No outcome is recorded for a row that is not there.
NoOutcome(c) == db[c].completed = 0 /\ ~db[c].handled /\ db[c].substitute = 0 /\ ~db[c].started
Outcomes     == \A c \in Compiles : db[c].row # "row" => NoOutcome(c)

\* The rows that a run works on are there.
RowsInv ==
    /\ Outcomes
    /\ ~cancelledLive =>
        /\ \A t \in Tasks : ~Ended(t) => Row(tasks[t].compile)
        /\ holder # Free /\ ~holder.halted => Row(holder.next)

\* A compile whose blocking listeners were not told, and who is going to tell them: recovery,
\* the run that completed it, the next server, or a clear that deletes it.
Debt(c)    == c \in Unhandled /\ <<c, "blocking">> \notin delivered
Pending(c) == [compile |-> c, blocking |-> FALSE] \in notifying

Debtor(c) ==
    \/ ~ready /\ (c \in flow.recover.todo \/ Pending(c))
    \/ /\ active # 0 /\ c \in Group(active)
       /\ tasks[active].pc \in {"completed", "merging"} \/ (tasks[active].pc = "notifying" /\ Pending(c))
    \/ stopping /\ active # 0 /\ Ended(active)
    \/ Cancelling

DebtInv ==
    ~cancelledLive =>
        /\ \A c \in Compiles : Debt(c) => Debtor(c)
        /\ \A t \in Tasks : tasks[t].pc \in {"backoff", "compiling"} => \A c \in Compiles : ~Debt(c)

\* What holds of a merged request, and of a run and the requests it stands in for.
StandsIn(s, c) ==
    /\ Row(s) /\ s \in Compiles /\ db[s].completed # 0 /\ db[s].completed = db[c].completed
    /\ db[s].key = db[c].key /\ c \in db[s].used
    /\ db[c].force => db[s].result \in {"updated", "failed"}

WillStandIn(t, d) ==
    LET c == tasks[t].compile
    IN  /\ Row(d) /\ d # c /\ db[d].key = db[c].key /\ d \in db[c].used
        /\ tasks[t].pc \in {"compiling", "completed"} => db[d].completed = 0
        /\ tasks[t].pc = "merging" => db[d].completed = 0 \/ db[d].substitute = c
        /\ tasks[t].pc \in {"completed", "merging"} =>
               (db[d].force => db[c].result \in {"updated", "failed"})

MergeInv ==
    ~cancelledLive =>
        /\ \A c \in Compiles : Row(c) /\ db[c].substitute # 0 => StandsIn(db[c].substitute, c)
        /\ \A t \in Tasks :
               /\ tasks[t].pc \in {"backoff", "compiling"} => db[tasks[t].compile].completed = 0
               /\ tasks[t].pc \in {"completed", "merging"} => db[tasks[t].compile].completed # 0
               /\ tasks[t].pc \in {"compiling", "completed", "merging"} =>
                      \A d \in tasks[t].merged : WillStandIn(t, d)
        /\ holder # Free /\ ~holder.halted =>
               db[holder.next].completed = 0 \/ (active # 0 /\ holder.call.kind # "finish")

-----------------------------------------------------------------------------
(* Types *)

RequestCall(c) == [kind |-> "request", id |-> c]

\* A request that is inserted is a new row without an outcome, and asks for the next compile.
LEMMA InsertEffect ==
    ASSUME TypeOK, NEW k \in Keys, NEW f \in BOOLEAN, InsertAndProcess(k, f)
    PROVE  /\ db' \in Seq(Rows) /\ Len(db') = Len(db) + 1 /\ Compiles' = Compiles \cup {Len(db) + 1}
           /\ Len(db) + 1 \notin Compiles
           /\ LET r == db'[Len(db) + 1]
              IN  r.row = "row" /\ r.completed = 0 /\ ~r.handled /\ r.substitute = 0 /\ ~r.started
           /\ \A d \in Compiles : db'[d] = db[d]
           /\ calls' = calls \cup {RequestCall(Len(db) + 1)} /\ RequestCall(Len(db) + 1) \in Calls
  <1> DEFINE r == Request(k, f, "row")
  <1>1. r \in Rows /\ r.row = "row" /\ r.completed = 0 /\ ~r.handled /\ r.substitute = 0 /\ ~r.started
    BY RequestIsRow DEF RowStates
  <1>2. db' = Append(db, r) /\ calls' = calls \cup {RequestCall(Len(db) + 1)}
    BY DEF InsertAndProcess, RequestCall
  <1>3. RequestCall(Len(db) + 1) \in Calls
    BY Typing DEF RequestCall, Calls
  <1> HIDE DEF r
  <1> QED BY <1>1, <1>2, <1>3, AppendEffect

\* A request that is not committed yet is a row that nobody sees.
LEMMA InsertHiddenEffect ==
    ASSUME TypeOK, NEW kind \in InTransaction, RequestInTransaction(kind)
    PROVE  /\ db' \in Seq(Rows) /\ Len(db') = Len(db) + 1 /\ Compiles' = Compiles \cup {Len(db) + 1}
           /\ Len(db) + 1 \notin Compiles
           /\ LET r == db'[Len(db) + 1]
              IN  r.row = "uncommitted" /\ r.completed = 0 /\ ~r.handled /\ r.substitute = 0 /\ ~r.started
           /\ \A d \in Compiles : db'[d] = db[d]
  <1> DEFINE r == Request(kind[1], kind[2], "uncommitted")
  <1>1. kind[1] \in Keys /\ kind[2] \in BOOLEAN
    BY CompilerAssumption
  <1>2. r \in Rows /\ r.row = "uncommitted" /\ r.completed = 0 /\ ~r.handled /\ r.substitute = 0 /\ ~r.started
    BY <1>1, RequestIsRow DEF RowStates
  <1>3. db' = Append(db, r)
    BY DEF RequestInTransaction
  <1> HIDE DEF r
  <1> QED BY <1>2, <1>3, AppendEffect

\* A commit makes the row visible.
LEMMA CommitEffect ==
    ASSUME TypeOK, NEW c \in Compiles, CommitRequest(c)
    PROVE  /\ db[c].row = "uncommitted"
           /\ db' \in Seq(Rows) /\ Len(db') = Len(db) /\ Compiles' = Compiles
           /\ \A d \in Compiles : d # c => db'[d] = db[d]
           /\ LET r == db'[c]
              IN  /\ r.row = "row" /\ r.completed = db[c].completed /\ r.handled = db[c].handled
                  /\ r.substitute = db[c].substitute /\ r.started = db[c].started
  <1> DEFINE new == [db[c] EXCEPT !.row = "row"]
  <1>1. db[c] \in Rows /\ db \in Seq(Rows) /\ c \in 1..Len(db)
    BY Typing
  <1>2. db[c].row = "uncommitted" /\ db' = [db EXCEPT ![c] = new]
    BY DEF CommitRequest
  <1>3. new \in Rows /\ new.row = "row" /\ new.completed = db[c].completed
        /\ new.handled = db[c].handled /\ new.substitute = db[c].substitute /\ new.started = db[c].started
    BY <1>1 DEF Rows, RowStates
  <1> HIDE DEF new
  <1>4. db' \in Seq(Rows) /\ Len(db') = Len(db) /\ db'[c] = new
    BY <1>1, <1>2, <1>3
  <1>5. \A d \in 1..Len(db) : d # c => db'[d] = db[d]
    BY <1>1, <1>2
  <1> QED BY <1>2, <1>3, <1>4, <1>5 DEF Compiles

\* The reader of the last run changes one flow, to another well-formed one.
LEMMA FlowEffect ==
    ASSUME TypeOK, NEW w \in {"recover", "resume"}, NEW x \in Flows, flow' = [flow EXCEPT ![w] = x]
    PROVE  flow' \in [recover : Flows, resume : Flows] /\ flow'[w] = x
           /\ \A v \in {"recover", "resume"} : v # w => flow'[v] = flow[v]
  <1>1. flow \in [recover : Flows, resume : Flows]
    BY DEF TypeOK
  <1> QED BY <1>1

\* What a call leaves behind when it returns: its run is over, its flow reads the last run.
LEMMA ReturnEffect ==
    ASSUME TypeOK, NEW call \in Calls, NEW ts \in Seq(Runs), Return(call, ts),
           call.kind = "finish" => call.id \in 1..Len(ts)
    PROVE  /\ tasks' \in Seq(Runs) /\ Len(tasks') = Len(ts)
           /\ call.kind # "finish" => tasks' = ts
           /\ call.kind = "finish" => /\ Ended(call.id)'
                                      /\ \A u \in 1..Len(ts) : u # call.id => tasks'[u] = ts[u]
           /\ flow' \in [recover : Flows, resume : Flows]
           /\ flow'.recover = flow.recover \/ (call.kind = "recover" /\ flow'.recover.pc = "reading")
  <1>1. /\ tasks' \in Seq(Runs) /\ Len(tasks') = Len(ts)
        /\ call.kind # "finish" => tasks' = ts
        /\ call.kind = "finish" => /\ Ended(call.id)'
                                   /\ \A u \in 1..Len(ts) : u # call.id => tasks'[u] = ts[u]
    <2>1. CASE call.kind = "finish"
      <3> DEFINE r == [compile |-> 0, restarted |-> FALSE, merged |-> {}, pc |-> "done", cancelled |-> FALSE]
      <3>1. r \in Runs /\ r.pc = "done"
        BY DEF Runs
      <3>2. tasks' = [ts EXCEPT ![call.id] = r]
        BY <2>1 DEF Return, Over
      <3> HIDE DEF r
      <3>3. tasks' \in Seq(Runs) /\ Len(tasks') = Len(ts) /\ tasks'[call.id] = r
        BY <2>1, <3>1, <3>2
      <3>4. \A u \in 1..Len(ts) : u # call.id => tasks'[u] = ts[u]
        BY <2>1, <3>2
      <3>5. Ended(call.id)'
        BY <3>1, <3>3 DEF Ended
      <3> QED BY <2>1, <3>3, <3>4, <3>5
    <2>2. CASE call.kind # "finish"
      BY <2>2 DEF Return
    <2> QED BY <2>1, <2>2
  <1>2. /\ flow' \in [recover : Flows, resume : Flows]
        /\ flow'.recover = flow.recover \/ (call.kind = "recover" /\ flow'.recover.pc = "reading")
    <2>1. CASE call.kind \in {"recover", "resume"}
      <3> DEFINE x == [flow[call.kind] EXCEPT !.pc = "reading"]
      <3>0. flow \in [recover : Flows, resume : Flows]
        BY DEF TypeOK
      <3>1. x \in Flows /\ x.pc = "reading"
        BY <2>1, <3>0 DEF Flows
      <3>2. flow' = [flow EXCEPT ![call.kind] = x]
        BY <2>1 DEF Return
      <3> HIDE DEF x
      <3> QED BY <2>1, <3>1, <3>2, FlowEffect
    <2>2. CASE call.kind \notin {"recover", "resume"}
      BY <2>2 DEF Return, TypeOK
    <2> QED BY <2>1, <2>2
  <1> QED BY <1>1, <1>2

\* The run of a call that returns is over, and no other.
ReturnsTo(call, u) == call.kind = "finish" /\ call.id = u

\* A call that has the lock returns at once ...
Returned(call) ==
    /\ holder' = holder /\ (~ready \/ stopping \/ Incomplete = {})
    /\ active' = (IF call.kind = "finish" THEN 0 ELSE active)
    /\ tasks' \in Seq(Runs) /\ Len(tasks') = Len(tasks) /\ Tasks' = Tasks
    /\ \A u \in Tasks : IF ReturnsTo(call, u) THEN Ended(u)' ELSE tasks'[u] = tasks[u]
    /\ flow' \in [recover : Flows, resume : Flows]
    /\ flow'.recover = flow.recover \/ (call.kind = "recover" /\ flow'.recover.pc = "reading")

\* ... or has fetched the oldest incomplete compile.
Fetched(call) ==
    /\ ready /\ ~stopping
    /\ holder' \in [call : Calls, next : Nat, halted : BOOLEAN]
    /\ holder'.call = call /\ holder'.next \in Incomplete /\ holder'.halted = halted
    /\ UNCHANGED <<active, tasks, flow>>

\* One of the two happens when the lock is acquired.
LEMMA AcquireEffect ==
    ASSUME TypeOK, CallsInv, NEW call \in calls, AcquireAndFetch(call)
    PROVE  /\ calls' = calls \ {call} /\ call \in Calls /\ holder = Free
           /\ Returned(call) \/ Fetched(call)
  <1> DEFINE idle == ~ready \/ stopping \/ Incomplete = {}
  <1>1. call \in Calls /\ calls' = calls \ {call} /\ holder = Free
    BY DEF AcquireAndFetch, TypeOK
  <1>2. tasks \in Seq(Runs) /\ Len(tasks) \in Nat /\ Tasks = 1..Len(tasks)
    BY Typing
  <1>3. CASE idle
    <2>1. /\ active' = IF call.kind = "finish" THEN 0 ELSE active
          /\ Return(call, tasks) /\ holder' = holder
      BY <1>3 DEF AcquireAndFetch
    <2>2. call.kind = "finish" => call.id \in 1..Len(tasks)
      BY <1>2 DEF CallsInv, FinishesRun
    <2>3. /\ tasks' \in Seq(Runs) /\ Len(tasks') = Len(tasks)
          /\ call.kind # "finish" => tasks' = tasks
          /\ call.kind = "finish" => /\ Ended(call.id)'
                                     /\ \A u \in 1..Len(tasks) : u # call.id => tasks'[u] = tasks[u]
          /\ flow' \in [recover : Flows, resume : Flows]
          /\ flow'.recover = flow.recover \/ (call.kind = "recover" /\ flow'.recover.pc = "reading")
      BY <1>1, <1>2, <2>1, <2>2, ReturnEffect
    <2>4. Tasks' = Tasks
      BY <2>3 DEF Tasks
    <2>5. \A u \in Tasks : IF ReturnsTo(call, u) THEN Ended(u)' ELSE tasks'[u] = tasks[u]
      BY <1>2, <2>3 DEF ReturnsTo
    <2> QED BY <1>1, <1>3, <2>1, <2>3, <2>4, <2>5 DEF Returned
  <1>4. CASE ~idle
    <2>1. /\ holder' = [call |-> call, next |-> Min(Incomplete), halted |-> halted]
          /\ UNCHANGED <<active, tasks, flow>>
      BY <1>4 DEF AcquireAndFetch
    <2>2. Min(Incomplete) \in Incomplete /\ Incomplete \subseteq Nat
      BY <1>4, Typing, MinIsElement
    <2>3. ready /\ ~stopping /\ halted \in BOOLEAN
      BY <1>4 DEF TypeOK
    <2> QED BY <1>1, <2>1, <2>2, <2>3 DEF Fetched
  <1> QED BY <1>3, <1>4

\* A call that has fetched a compile starts its run ...
Started(new) ==
    /\ ~holder.halted /\ (holder.call.kind = "finish" \/ active = 0)
    /\ active' = new /\ Tasks' = Tasks \cup {new} /\ new \notin Tasks /\ Len(tasks') = new
    /\ tasks'[new].compile = holder.next /\ tasks'[new].pc = "backoff" /\ tasks'[new].merged = {}

\* ... or leaves the map, without an entry if it comes from a run that finishes.
Left ==
    /\ holder.halted \/ (holder.call.kind # "finish" /\ active # 0)
    /\ active' = (IF holder.call.kind = "finish" THEN 0 ELSE active)
    /\ Tasks' = Tasks /\ Len(tasks') = Len(tasks)

\* One of the two happens when it releases the lock.
LEMMA StartEffect ==
    ASSUME TypeOK, CallsInv, StartOrLeave
    PROVE  /\ holder' = Free /\ holder # Free /\ holder.call \in Calls /\ ready
           /\ tasks' \in Seq(Runs)
           /\ \A u \in Tasks : IF ReturnsTo(holder.call, u) THEN Ended(u)' ELSE tasks'[u] = tasks[u]
           /\ flow' \in [recover : Flows, resume : Flows]
           /\ flow'.recover = flow.recover \/ (holder.call.kind = "recover" /\ flow'.recover.pc = "reading")
           /\ Started(Len(tasks) + 1) \/ Left
  <1>0. PICK call : call = holder.call
    OBVIOUS
  <1> DEFINE new    == Len(tasks) + 1
             go     == ~holder.halted /\ (call.kind = "finish" \/ active = 0)
             ts     == IF go THEN Append(tasks, NewTask(holder.next)) ELSE tasks
  <1>1. holder \in [call : Calls, next : Nat, halted : BOOLEAN] /\ active \in Nat /\ call \in Calls
    BY <1>0 DEF TypeOK
  <1>2. /\ holder' = Free /\ call # NoCall /\ Return(call, ts)
        /\ active' = CASE go -> new [] ~go /\ call.kind = "finish" -> 0 [] OTHER -> active
    BY <1>0 DEF StartOrLeave, starts, active_after
  <1>3. holder # Free /\ ready
    BY <1>0, <1>2 DEF Free, CallsInv, NoCall
  <1>4. tasks \in Seq(Runs) /\ Len(tasks) \in Nat /\ Tasks = 1..Len(tasks) /\ new \in Nat /\ new \notin Tasks
    BY Typing
  <1>5. call.kind = "finish" => call.id \in Tasks
    BY <1>0 DEF CallsInv, FinishesRun
  <1>6. go <=> ~holder.halted /\ (call.kind = "finish" \/ active = 0)
    BY Zenon
  <1> HIDE DEF new, go, ts
  <1>7. CASE go
    <2>1. ts = Append(tasks, NewTask(holder.next)) /\ active' = new
      BY <1>2, <1>7 DEF ts
    <2>2. /\ ts \in Seq(Runs) /\ Len(ts) = new /\ \A u \in Tasks : ts[u] = tasks[u]
          /\ ts[new].compile = holder.next /\ ts[new].pc = "backoff" /\ ts[new].merged = {}
      <3>1. PICK n \in Nat : n = holder.next
        BY <1>1
      <3>2. ts = Append(tasks, NewTask(n))
        BY <2>1, <3>1
      <3>3. /\ ts \in Seq(Runs) /\ Len(ts) = Len(tasks) + 1 /\ \A u \in Tasks : ts[u] = tasks[u]
            /\ LET r == ts[Len(tasks) + 1]
               IN  r.compile = n /\ r.pc = "backoff" /\ r.merged = {}
        <4>1. Append(tasks, NewTask(n)) \in Seq(Runs)
          BY NewTaskEffect
        <4>2. Len(Append(tasks, NewTask(n))) = Len(tasks) + 1
          BY NewTaskEffect
        <4>3. \A u \in Tasks : Append(tasks, NewTask(n))[u] = tasks[u]
          BY NewTaskEffect
        <4> QED BY <3>2, <4>1, <4>2, <4>3, NewTaskEffect
      <3> QED BY <3>1, <3>3 DEF new
    <2>3. 1..Len(ts) = Tasks \cup {new}
      BY <1>4, <2>2 DEF new
    <2>4. /\ tasks' \in Seq(Runs) /\ Len(tasks') = Len(ts)
          /\ call.kind # "finish" => tasks' = ts
          /\ call.kind = "finish" => /\ Ended(call.id)'
                                     /\ \A u \in 1..Len(ts) : u # call.id => tasks'[u] = ts[u]
          /\ flow' \in [recover : Flows, resume : Flows]
          /\ flow'.recover = flow.recover \/ (call.kind = "recover" /\ flow'.recover.pc = "reading")
      BY <1>1, <1>2, <1>5, <2>2, <2>3, ReturnEffect
    <2>5. ASSUME NEW u \in Tasks
          PROVE  IF ReturnsTo(call, u) THEN Ended(u)' ELSE tasks'[u] = tasks[u]
      <3>1. ts[u] = tasks[u] /\ u \in 1..Len(ts)
        BY <2>2, <2>3
      <3>2. call.kind = "finish" /\ call.id = u => Ended(u)'
        BY <2>4
      <3>3. ~(call.kind = "finish" /\ call.id = u) => tasks'[u] = ts[u]
        BY <2>4, <3>1
      <3> QED BY <3>1, <3>2, <3>3 DEF ReturnsTo
    <2>6. Tasks' = Tasks \cup {new} /\ Len(tasks') = new
      BY <2>2, <2>3, <2>4 DEF Tasks
    <2>7. tasks'[new] = ts[new]
      BY <1>4, <1>5, <2>3, <2>4
    <2>8. ~holder.halted /\ (call.kind = "finish" \/ active = 0)
      BY <1>6, <1>7
    <2> QED BY <1>0, <1>1, <1>2, <1>3, <1>4, <2>1, <2>2, <2>4, <2>5, <2>6, <2>7, <2>8 DEF new, Started
  <1>8. CASE ~go
    <2>1. ts = tasks /\ active' = IF call.kind = "finish" THEN 0 ELSE active
      BY <1>2, <1>8 DEF ts
    <2>2. /\ tasks' \in Seq(Runs) /\ Len(tasks') = Len(tasks)
          /\ call.kind # "finish" => tasks' = tasks
          /\ call.kind = "finish" => /\ Ended(call.id)'
                                     /\ \A u \in 1..Len(tasks) : u # call.id => tasks'[u] = tasks[u]
          /\ flow' \in [recover : Flows, resume : Flows]
          /\ flow'.recover = flow.recover \/ (call.kind = "recover" /\ flow'.recover.pc = "reading")
      BY <1>1, <1>2, <1>4, <1>5, <2>1, ReturnEffect
    <2>3. \A u \in Tasks : IF ReturnsTo(call, u) THEN Ended(u)' ELSE tasks'[u] = tasks[u]
      BY <1>4, <2>2 DEF ReturnsTo
    <2>4. Tasks' = Tasks
      BY <1>4, <2>2 DEF Tasks
    <2>5. holder.halted \/ (call.kind # "finish" /\ active # 0)
      BY <1>1, <1>6, <1>8
    <2> QED BY <1>0, <1>1, <1>2, <1>3, <2>1, <2>2, <2>3, <2>4, <2>5 DEF Left
  <1> QED BY <1>7, <1>8

\* A run that is not waiting for a call may go on.
LEMMA CallsStay ==
    ASSUME TypeOK, CallsInv, NEW t \in Tasks, OnlyRun(t), tasks[t].pc # "finishing",
           UNCHANGED <<calls, holder, ready>>
    PROVE  CallsInv'
  <1>1. ready
    BY DEF CallsInv, Tasks
  <1>2. \A call : FinishesRun(call) => FinishesRun(call)'
    BY DEF FinishesRun, OnlyRun
  <1>3. (\A call \in calls : call.kind # "none" /\ FinishesRun(call))'
    BY <1>2 DEF CallsInv
  <1>4. FinishesRun(holder.call)'
    <2>1. PICK call : call = holder.call
      OBVIOUS
    <2>2. call = holder'.call
      BY <2>1
    <2>3. FinishesRun(call)'
      BY <1>2, <2>1 DEF CallsInv
    <2> QED BY <2>2, <2>3 DEF FinishesRun
  <1> QED BY <1>1, <1>3, <1>4 DEF CallsInv

\* Nothing changes for the calls.
LEMMA CallsSame ==
    ASSUME TypeOK, CallsInv, UNCHANGED <<tasks, calls, holder, ready>>,
           ~ready => flow'.recover.pc = "notifying"
    PROVE  CallsInv'
  BY DEF CallsInv, FinishesRun, Tasks

\* A call that is not a run's is added.
LEMMA CallsAdd ==
    ASSUME TypeOK, CallsInv, NEW call \in Calls, call.kind \in {"request", "recover", "resume"},
           calls' = calls \cup {call}, UNCHANGED <<tasks, holder>>,
           ~ready' => ~ready /\ flow'.recover = flow.recover,
           call.kind = "recover" => ready'
    PROVE  CallsInv'
  <1>1. FinishesRun(call)' /\ call.kind # "none"
    BY DEF FinishesRun
  <1>2. (\A x \in calls : x.kind # "none" /\ FinishesRun(x))'
    BY <1>1 DEF CallsInv, FinishesRun, Tasks
  <1>3. FinishesRun(holder.call)' /\ (holder.call.kind = "finish" => holder.call \notin calls)'
    BY DEF CallsInv, FinishesRun, Tasks
  <1>4. (~ready => /\ tasks = <<>> /\ holder = Free /\ flow.recover.pc = "notifying"
                   /\ \A x \in calls : x.kind # "recover")'
    BY DEF CallsInv, Free
  <1>5. (holder.call.kind = "none" => holder = Free)'
    BY DEF CallsInv, Free
  <1> QED BY <1>2, <1>3, <1>4, <1>5 DEF CallsInv

\* The steps of a run.
LEMMA RunTypes ==
    ASSUME TypeOK, CallsInv, NEW t \in Tasks, RunStep(t)
    PROVE  TypeOK' /\ CallsInv'
  <1>0. tasks[t] \in Runs
    BY Typing
  <1>1. CASE BeginRun(t)
    <2>1. OnlyRun(t) /\ tasks[t].pc = "backoff" /\ db' \in Seq(Rows)
      BY <1>1, BeginRunEffect
    <2>2. UNCHANGED <<settings, halted, ready, stopping, active, uncounted, calls, holder, notifying, flow,
                      operation, clearRequest, cancelledLive>>
      BY <1>1 DEF BeginRun, envService, history
    <2> QED BY <2>1, <2>2, CallsStay DEF TypeOK, OnlyRun
  <1>2. CASE RunCompiler(t)
    <2>1. OnlyRun(t) /\ tasks[t].pc = "compiling" /\ db' \in Seq(Rows)
      BY <1>2, RunCompilerEffect
    <2>2. UNCHANGED <<settings, halted, ready, stopping, active, uncounted, calls, holder, notifying, flow,
                      operation, clearRequest, cancelledLive>>
      BY <1>2 DEF RunCompiler, envService, history
    <2> QED BY <2>1, <2>2, CallsStay DEF TypeOK, OnlyRun
  <1>3. CASE WriteLastCompileMarker(t)
    <2>1. tasks[t].pc = "completed" /\ GoTo(t, "merging")
      BY <1>3 DEF WriteLastCompileMarker, At
    <2>2. OnlyRun(t)
      BY <2>1, GoToEffect DEF RunPhases
    <2>3. UNCHANGED <<settings, db, halted, ready, stopping, active, uncounted, calls, holder, notifying, flow,
                      operation, clearRequest, cancelledLive>>
      BY <1>3 DEF WriteLastCompileMarker, envService, history
    <2> QED BY <2>1, <2>2, <2>3, CallsStay DEF TypeOK, OnlyRun
  <1>4. CASE NotifyListeners(t)
    <2>1. tasks[t].pc = "merging"
      BY <1>4 DEF NotifyListeners, At
    <2>2. OnlyRun(t) /\ notifying' \in SUBSET [compile : Nat, blocking : BOOLEAN]
      <3>1. CASE stopping
        BY <1>4, <3>1, OverEffect DEF NotifyListeners, TypeOK
      <3>2. CASE ~stopping
        <4>1. GoTo(t, "notifying")
              /\ notifying' = notifying \cup {[compile |-> c, blocking |-> FALSE] : c \in Group(t)}
          BY <1>4, <3>2 DEF NotifyListeners
        <4>2. Group(t) \subseteq Nat
          BY <1>0 DEF Group, Runs
        <4>3. OnlyRun(t)
          BY <4>1, GoToEffect DEF RunPhases
        <4>4. notifying \in SUBSET [compile : Nat, blocking : BOOLEAN]
          BY DEF TypeOK
        <4>5. \A c \in Group(t) : [compile |-> c, blocking |-> FALSE] \in [compile : Nat, blocking : BOOLEAN]
          BY <4>2
        <4> QED BY <4>1, <4>3, <4>4, <4>5
      <3> QED BY <3>1, <3>2
    <2>3. UNCHANGED <<settings, db, halted, ready, stopping, active, uncounted, calls, holder, flow,
                      operation, clearRequest, cancelledLive>>
      BY <1>4 DEF NotifyListeners, envService, history, persistent
    <2> QED BY <2>1, <2>2, <2>3, CallsStay DEF TypeOK, OnlyRun
  <1>5. CASE FinishRun(t)
    <2>1. tasks[t].pc = "notifying" /\ GoTo(t, "finishing") /\ calls' = calls \cup {FinishCall(t)}
      BY <1>5 DEF FinishRun, At, FinishCall
    <2>2. OnlyRun(t) /\ tasks'[t].pc = "finishing"
      BY <2>1, GoToEffect DEF RunPhases
    <2>3. UNCHANGED <<settings, db, halted, ready, stopping, active, uncounted, holder, notifying, flow,
                      operation, clearRequest, cancelledLive>>
      BY <1>5 DEF FinishRun, envService, history, persistent
    <2>4. FinishCall(t) \in Calls /\ FinishCall(t).kind = "finish" /\ FinishCall(t).id = t
      BY Typing DEF FinishCall, Calls
    <2>5. FinishesRun(FinishCall(t))'
      BY <2>2, <2>4 DEF FinishesRun, OnlyRun
    <2>6. \A call : FinishesRun(call) => FinishesRun(call)'
      BY <2>1, <2>2 DEF FinishesRun, OnlyRun
    <2>7. (\A call \in calls : call.kind # "none" /\ FinishesRun(call))'
      BY <2>1, <2>4, <2>5, <2>6 DEF CallsInv
    <2>8. (FinishesRun(holder.call) /\ (holder.call.kind = "finish" => holder.call \notin calls))'
      <3>1. PICK call : call = holder.call
        OBVIOUS
      <3>2. holder'.call = call /\ FinishesRun(call) /\ FinishesRun(call)'
        BY <2>3, <2>6, <3>1 DEF CallsInv
      <3>3. call.kind = "finish" => call \notin calls /\ call # FinishCall(t)
        BY <2>1, <2>4, <3>1, <3>2 DEF CallsInv, FinishesRun
      <3> QED BY <2>1, <3>2, <3>3 DEF FinishesRun
    <2>9. ready
      BY DEF CallsInv, Tasks
    <2> QED BY <2>1, <2>2, <2>3, <2>4, <2>7, <2>8, <2>9 DEF TypeOK, OnlyRun, CallsInv, Free
  <1>6. ASSUME NEW d \in Compiles, CompleteMerged(t, d)
        PROVE  TypeOK' /\ CallsInv'
    <2>1. tasks[t].pc = "merging" /\ db' \in Seq(Rows) /\ OnlyRun(t)
      BY <1>6, CompleteMergedEffect, Typing DEF OnlyRun, Tasks
    <2>2. UNCHANGED <<settings, halted, ready, stopping, active, uncounted, calls, holder, notifying, flow,
                      operation, clearRequest, cancelledLive>>
      BY <1>6 DEF CompleteMerged, envService, history
    <2> QED BY <2>1, <2>2, CallsStay DEF TypeOK, OnlyRun
  <1> QED BY <1>1, <1>2, <1>3, <1>4, <1>5, <1>6 DEF RunStep

\* Returning from the queue.
LEMMA QueueTypes ==
    ASSUME TypeOK, CallsInv, (\E call \in calls : AcquireAndFetch(call)) \/ StartOrLeave
    PROVE  TypeOK' /\ CallsInv'
  <1>1. ASSUME NEW call \in calls, AcquireAndFetch(call)
        PROVE  TypeOK' /\ CallsInv'
    <2>1. UNCHANGED <<settings, db, halted, ready, stopping, uncounted, notifying, operation, clearRequest, cancelledLive>>
      BY <1>1 DEF AcquireAndFetch, persistent, envService, history
    <2>2. calls' = calls \ {call} /\ call \in Calls /\ holder = Free
      BY <1>1, AcquireEffect
    <2>3. CASE Returned(call)
      <3>1. TypeOK'
        BY <2>1, <2>2, <2>3 DEF TypeOK, Returned
      <3>2. \A x \in calls' : x.kind # "none" /\ FinishesRun(x)'
        BY <2>2, <2>3 DEF CallsInv, FinishesRun, ReturnsTo, Calls, Returned
      <3>3. ~ready => tasks' = <<>> /\ flow'.recover.pc = "notifying"
        <4> SUFFICES ASSUME ~ready PROVE tasks' = <<>> /\ flow'.recover.pc = "notifying"
          OBVIOUS
        <4>1. Len(tasks') = 0 /\ tasks' \in Seq(Runs)
          BY <2>3 DEF CallsInv, Returned
        <4>2. flow'.recover = flow.recover
          BY <2>3 DEF CallsInv, Returned
        <4> QED BY <4>1, <4>2 DEF CallsInv
      <3> QED BY <2>1, <2>2, <2>3, <3>1, <3>2, <3>3 DEF CallsInv, FinishesRun, Free, NoCall, Returned
    <2>4. CASE Fetched(call)
      <3>1. TypeOK'
        BY <2>1, <2>2, <2>4 DEF TypeOK, Fetched
      <3> QED BY <2>1, <2>2, <2>4, <3>1 DEF CallsInv, FinishesRun, Tasks, Fetched
    <2> QED BY <1>1, <2>3, <2>4, AcquireEffect
  <1>2. CASE StartOrLeave
    <2>1. UNCHANGED <<settings, db, halted, ready, stopping, uncounted, calls, notifying, operation, clearRequest, cancelledLive>>
      BY <1>2 DEF StartOrLeave, persistent, envService, history
    <2>2. /\ holder' = Free /\ ready /\ tasks' \in Seq(Runs) /\ Tasks \subseteq Tasks'
          /\ \A u \in Tasks : IF ReturnsTo(holder.call, u) THEN Ended(u)' ELSE tasks'[u] = tasks[u]
          /\ flow' \in [recover : Flows, resume : Flows]
          /\ active' \in Nat /\ active' <= Len(tasks')
      <3>1. active \in Nat /\ active <= Len(tasks) /\ Len(tasks) \in Nat
        BY Typing DEF TypeOK
      <3> QED BY <1>2, <3>1, StartEffect DEF Started, Left
    <2>3. TypeOK'
      BY <2>1, <2>2 DEF TypeOK, Free, NoCall, Calls
    <2>4. \A x \in calls : FinishesRun(x)'
      <3> SUFFICES ASSUME NEW x \in calls, x.kind = "finish"
                   PROVE  x.id \in Tasks' /\ tasks'[x.id].pc = "finishing" /\ x = FinishCall(x.id)
        BY DEF FinishesRun
      <3>1. x.id \in Tasks /\ tasks[x.id].pc = "finishing" /\ x = FinishCall(x.id)
        BY DEF CallsInv, FinishesRun
      <3>2. ~ReturnsTo(holder.call, x.id)
        BY <3>1 DEF CallsInv, FinishesRun, ReturnsTo
      <3> QED BY <2>2, <3>1, <3>2
    <2> QED BY <2>1, <2>2, <2>3, <2>4 DEF CallsInv, FinishesRun, Free, NoCall
  <1> QED BY <1>1, <1>2

\* The listeners, and the recovery of the service.
LEMMA RecoveryTypes ==
    ASSUME TypeOK, CallsInv,
           \/ \E n \in notifying : DeliverBlocking(n) \/ MarkHandled(n)
           \/ RecoverNotify \/ RecoverReady
           \/ \E w \in {"recover", "resume"} : ReadLastRun(w) \/ CompareMarker(w)
    PROVE  TypeOK' /\ CallsInv'
  <1> USE DEF persistent, envService, history
  <1>0. flow \in [recover : Flows, resume : Flows] /\ notifying \in SUBSET [compile : Nat, blocking : BOOLEAN]
    BY DEF TypeOK
  <1>1. ASSUME NEW n \in notifying, DeliverBlocking(n)
        PROVE  TypeOK' /\ CallsInv'
    <2>1. UNCHANGED <<settings, db, halted, ready, stopping, tasks, active, uncounted, calls, holder, flow,
                      operation, clearRequest, cancelledLive>>
      BY <1>1 DEF DeliverBlocking
    <2>2. [n EXCEPT !.blocking = TRUE] \in [compile : Nat, blocking : BOOLEAN]
      BY <1>0
    <2>3. notifying' \in SUBSET [compile : Nat, blocking : BOOLEAN]
      BY <1>0, <1>1, <2>2 DEF DeliverBlocking
    <2>4. ~ready => flow'.recover.pc = "notifying"
      BY <2>1 DEF CallsInv
    <2> QED BY <2>1, <2>3, <2>4, CallsSame DEF TypeOK
  <1>2. ASSUME NEW n \in notifying, MarkHandled(n)
        PROVE  TypeOK' /\ CallsInv'
    <2>1. UNCHANGED <<settings, halted, ready, stopping, tasks, active, uncounted, calls, holder, flow,
                      operation, clearRequest, cancelledLive>>
      BY <1>2 DEF MarkHandled
    <2>2. notifying' \in SUBSET [compile : Nat, blocking : BOOLEAN] /\ db' \in Seq(Rows)
      BY <1>0, <1>2, MarkHandledEffect DEF MarkHandled
    <2>3. ~ready => flow'.recover.pc = "notifying"
      BY <2>1 DEF CallsInv
    <2> QED BY <2>1, <2>2, <2>3, CallsSame DEF TypeOK
  <1>3. CASE RecoverNotify
    <2>1. UNCHANGED <<settings, db, halted, ready, stopping, tasks, active, uncounted, calls, holder,
                      operation, clearRequest, cancelledLive>>
      BY <1>3 DEF RecoverNotify
    <2>2. PICK c : /\ c = Min(flow.recover.todo)
                   /\ notifying' = notifying \cup {[compile |-> c, blocking |-> FALSE]}
                   /\ flow' = [flow EXCEPT !.recover.todo = @ \ {c}]
      BY <1>3 DEF RecoverNotify
    <2>3. flow.recover.todo \in SUBSET Nat /\ flow.recover.todo # {}
      BY <1>0, <1>3 DEF RecoverNotify, Flows
    <2>4. c \in Nat
      BY <2>2, <2>3, MinIsElement
    <2>5. flow' \in [recover : Flows, resume : Flows] /\ flow'.recover.pc = flow.recover.pc
      <3> DEFINE x == [flow.recover EXCEPT !.todo = flow.recover.todo \ {c}]
      <3>1. x \in Flows /\ x.pc = flow.recover.pc
        BY <1>0, <2>3 DEF Flows
      <3>2. flow' = [flow EXCEPT !["recover"] = x]
        BY <1>0, <2>2
      <3> HIDE DEF x
      <3> QED BY <3>1, <3>2, FlowEffect
    <2>6. notifying' \in SUBSET [compile : Nat, blocking : BOOLEAN]
      <3>1. [compile |-> c, blocking |-> FALSE] \in [compile : Nat, blocking : BOOLEAN]
        BY <2>4
      <3>2. notifying' = notifying \cup {[compile |-> c, blocking |-> FALSE]}
        BY <2>2
      <3> QED BY <1>0, <3>1, <3>2
    <2>7. ~ready => flow'.recover.pc = "notifying"
      BY <2>5 DEF CallsInv
    <2> QED BY <2>1, <2>5, <2>6, <2>7, CallsSame DEF TypeOK
  <1>4. CASE RecoverReady
    <2> DEFINE call == [kind |-> "recover", id |-> 0]
    <2>1. UNCHANGED <<settings, db, halted, stopping, tasks, active, uncounted, holder, notifying,
                      operation, clearRequest, cancelledLive>>
      BY <1>4 DEF RecoverReady
    <2>2. ready' = TRUE /\ calls' = calls \cup {call} /\ flow' = [flow EXCEPT !.recover.pc = "processing"]
      BY <1>4 DEF RecoverReady
    <2>3. call \in Calls /\ call.kind = "recover"
      BY DEF Calls
    <2>4. flow' \in [recover : Flows, resume : Flows]
      BY <1>0, <2>2 DEF Flows
    <2> HIDE DEF call
    <2>5. CallsInv'
      BY <2>1, <2>2, <2>3, CallsAdd
    <2> QED BY <2>1, <2>2, <2>3, <2>4, <2>5 DEF TypeOK
  <1>5. ASSUME NEW w \in {"recover", "resume"}, ReadLastRun(w)
        PROVE  TypeOK' /\ CallsInv'
    <2>1. UNCHANGED <<settings, db, halted, ready, stopping, tasks, active, uncounted, calls, holder, notifying,
                      operation, clearRequest, cancelledLive>>
      BY <1>5 DEF ReadLastRun
    <2>2. flow[w].pc = "reading" /\ \E x \in Flows : flow' = [flow EXCEPT ![w] = x]
      <3>1. IdleFlow \in Flows
        BY DEF IdleFlow, Flows
      <3>2. ASSUME NEW c \in LastRuns
            PROVE  [IdleFlow EXCEPT !.pc = "comparing", !.expected = RanAs(c),
                                    !.server_compile = settings.server_compile] \in Flows
        <4>1. c \in Nat /\ db[c] \in Rows
          BY Typing DEF LastRuns
        <4>2. RanAs(c) \in Nat
          BY <4>1 DEF RanAs, Rows
        <4>3. settings.server_compile \in BOOLEAN
          BY DEF TypeOK, Settings
        <4> QED BY <4>2, <4>3 DEF IdleFlow, Flows
      <3> QED BY <1>5, <3>1, <3>2 DEF ReadLastRun
    <2>3. PICK x \in Flows : flow' = [flow EXCEPT ![w] = x]
      BY <2>2
    <2>4. /\ flow' \in [recover : Flows, resume : Flows]
          /\ \A v \in {"recover", "resume"} : v # w => flow'[v] = flow[v]
      BY <2>3, FlowEffect
    <2>5. ~ready => flow'.recover.pc = "notifying"
      BY <2>2, <2>4 DEF CallsInv
    <2> QED BY <2>1, <2>4, <2>5, CallsSame DEF TypeOK
  <1>6. ASSUME NEW w \in {"recover", "resume"}, CompareMarker(w)
        PROVE  TypeOK' /\ CallsInv'
    <2>1. UNCHANGED <<settings, halted, ready, stopping, tasks, active, uncounted, holder, notifying,
                      operation, clearRequest, cancelledLive>>
      BY <1>6 DEF CompareMarker
    <2>2. IdleFlow \in Flows /\ flow' = [flow EXCEPT ![w] = IdleFlow] /\ flow[w].pc = "comparing"
      BY <1>6 DEF IdleFlow, Flows, CompareMarker
    <2>3. /\ flow' \in [recover : Flows, resume : Flows]
          /\ \A v \in {"recover", "resume"} : v # w => flow'[v] = flow[v]
      BY <2>2, FlowEffect
    <2>4. ~ready => flow'.recover = flow.recover
      BY <2>2, <2>3 DEF CallsInv
    <2>5. CASE InsertAndProcess(RecoveryKey, TRUE)
      <3>1. PICK call \in Calls : calls' = calls \cup {call} /\ call.kind = "request"
        BY <2>5, InsertEffect, CompilerAssumption DEF RequestCall
      <3>2. db' \in Seq(Rows)
        BY <2>5, InsertEffect, CompilerAssumption
      <3>3. CallsInv'
        BY <2>1, <2>4, <3>1, CallsAdd
      <3> QED BY <2>1, <2>3, <3>1, <3>2, <3>3 DEF TypeOK
    <2>6. CASE UNCHANGED <<db, queueCount, calls>>
      <3>1. CallsInv'
        BY <2>1, <2>4, <2>6, CallsSame DEF CallsInv
      <3> QED BY <2>1, <2>3, <2>6, <3>1 DEF TypeOK
    <2> QED BY <1>6, <2>5, <2>6 DEF CompareMarker
  <1> QED BY <1>1, <1>2, <1>3, <1>4, <1>5, <1>6

\* The requests.
LEMMA RequestTypes ==
    ASSUME TypeOK, CallsInv,
           \/ \E kind \in Kinds : RequestRecompile(kind)
           \/ \E kind \in InTransaction : RequestInTransaction(kind)
           \/ \E c \in Compiles : CommitRequest(c) \/ NotifyCompileRequestCommitted(c)
    PROVE  TypeOK' /\ CallsInv'
  <1> USE DEF persistent, envService, history, service
  <1>1. ASSUME NEW kind \in Kinds, RequestRecompile(kind)
        PROVE  TypeOK' /\ CallsInv'
    <2>1. UNCHANGED <<settings, halted, ready, stopping, tasks, active, uncounted, holder, notifying, flow,
                      operation, clearRequest, cancelledLive>>
      BY <1>1 DEF RequestRecompile
    <2>2. kind[1] \in Keys /\ kind[2] \in BOOLEAN /\ InsertAndProcess(kind[1], kind[2])
      BY <1>1, CompilerAssumption DEF RequestRecompile
    <2>3. PICK call \in Calls : calls' = calls \cup {call} /\ call.kind = "request"
      BY <2>2, InsertEffect DEF RequestCall
    <2>4. db' \in Seq(Rows)
      BY <2>2, InsertEffect
    <2>5. CallsInv'
      BY <2>1, <2>3, CallsAdd
    <2> QED BY <2>1, <2>3, <2>4, <2>5 DEF TypeOK
  <1>2. ASSUME NEW kind \in InTransaction, RequestInTransaction(kind)
        PROVE  TypeOK' /\ CallsInv'
    <2>1. UNCHANGED <<settings, halted, ready, stopping, tasks, active, uncounted, calls, holder, notifying, flow,
                      operation, clearRequest, cancelledLive>>
      BY <1>2 DEF RequestInTransaction
    <2>2. db' \in Seq(Rows)
      BY <1>2, InsertHiddenEffect
    <2>3. CallsInv'
      BY <2>1, CallsSame DEF CallsInv
    <2> QED BY <2>1, <2>2, <2>3 DEF TypeOK
  <1>3. ASSUME NEW c \in Compiles, CommitRequest(c)
        PROVE  TypeOK' /\ CallsInv'
    <2>1. UNCHANGED <<settings, halted, ready, stopping, tasks, active, calls, holder, notifying, flow,
                      operation, clearRequest, cancelledLive>>
      BY <1>3 DEF CommitRequest
    <2>2. db' \in Seq(Rows) /\ uncounted' \in SUBSET Nat
      <3>1. db' \in Seq(Rows)
        BY <1>3, CommitEffect
      <3>2. c \in Nat /\ uncounted' = uncounted \cup {c}
        BY <1>3, Typing DEF CommitRequest
      <3> QED BY <3>1, <3>2 DEF TypeOK
    <2>3. CallsInv'
      BY <2>1, CallsSame DEF CallsInv
    <2> QED BY <2>1, <2>2, <2>3 DEF TypeOK
  <1>4. ASSUME NEW c \in Compiles, NotifyCompileRequestCommitted(c)
        PROVE  TypeOK' /\ CallsInv'
    <2>1. UNCHANGED <<settings, db, halted, ready, stopping, tasks, active, holder, notifying, flow,
                      operation, clearRequest, cancelledLive>>
      BY <1>4 DEF NotifyCompileRequestCommitted
    <2>2. uncounted' \in SUBSET Nat
      BY <1>4 DEF NotifyCompileRequestCommitted, TypeOK
    <2>3. calls' = calls \cup {RequestCall(c)} \/ calls' = calls
      BY <1>4 DEF NotifyCompileRequestCommitted, RequestCall
    <2>4. RequestCall(c) \in Calls /\ RequestCall(c).kind = "request"
      BY Typing DEF RequestCall, Calls
    <2>5. CallsInv'
      <3>1. CASE calls' = calls \cup {RequestCall(c)}
        BY <2>1, <2>4, <3>1, CallsAdd
      <3>2. CASE calls' = calls
        BY <2>1, <3>2, CallsSame DEF CallsInv
      <3> QED BY <2>3, <3>1, <3>2
    <2> QED BY <2>1, <2>2, <2>3, <2>4, <2>5 DEF TypeOK
  <1> QED BY <1>1, <1>2, <1>3, <1>4

\* A cancelled run leaves with the call it waits for.
LEMMA CancelTypes ==
    ASSUME TypeOK, CallsInv, NEW t \in Tasks, CancelRun(t), UNCHANGED <<ready, flow>>
    PROVE  /\ CallsInv' /\ tasks' \in Seq(Runs) /\ Len(tasks') = Len(tasks) /\ calls' \in SUBSET Calls
           /\ holder' \in [call : Calls, next : Nat, halted : BOOLEAN]
           /\ notifying' \in SUBSET [compile : Nat, blocking : BOOLEAN]
  <1> USE CancelRunEffect
  <1>1. OnlyRun(t) /\ ready
    BY DEF CallsInv, Tasks
  <1>2. Free \in [call : Calls, next : Nat, halted : BOOLEAN] /\ Free.call = NoCall /\ NoCall.kind = "none"
    BY DEF Free, NoCall, Calls
  <1>3. FinishCall(t).kind = "finish" /\ FinishCall(t).id = t
    BY DEF FinishCall
  <1>4. CASE /\ calls' = calls \ {FinishCall(t)}
             /\ holder' = (IF holder.call = FinishCall(t) THEN Free ELSE holder)
             /\ notifying' \subseteq notifying
    <2>1. calls' \in SUBSET Calls /\ holder' \in [call : Calls, next : Nat, halted : BOOLEAN]
          /\ notifying' \in SUBSET [compile : Nat, blocking : BOOLEAN]
      BY <1>2, <1>4 DEF TypeOK
    <2>2. \A call : FinishesRun(call) /\ call # FinishCall(t) => FinishesRun(call)'
      BY <1>1 DEF FinishesRun, OnlyRun
    <2>3. (\A call \in calls : call.kind # "none" /\ FinishesRun(call))'
      BY <1>4, <2>2 DEF CallsInv
    <2>4. (FinishesRun(holder.call) /\ (holder.call.kind = "finish" => holder.call \notin calls))'
      <3>1. CASE holder.call = FinishCall(t)
        BY <1>2, <1>4, <3>1 DEF FinishesRun
      <3>2. CASE holder.call # FinishCall(t)
        <4>1. PICK call : call = holder.call
          OBVIOUS
        <4>2. call = holder'.call /\ FinishesRun(call)' /\ (call.kind = "finish" => call \notin calls')
          BY <1>4, <2>2, <3>2, <4>1 DEF CallsInv
        <4> QED BY <4>2 DEF FinishesRun
      <3> QED BY <3>1, <3>2
    <2>5. (holder.call.kind = "none" => holder = Free)'
      BY <1>4 DEF CallsInv, Free
    <2> QED BY <1>1, <2>1, <2>3, <2>4, <2>5 DEF CallsInv, OnlyRun
  <1>5. CASE tasks[t].pc = "compiling" /\ UNCHANGED <<calls, holder, notifying>>
    BY <1>1, <1>5, CallsStay DEF TypeOK, OnlyRun
  <1> QED BY <1>4, <1>5

\* A resume, if there is anything to resume.
LEMMA ResumeTypes ==
    ASSUME TypeOK, CallsInv, NEW op \in Operations, ResumeWith(op),
           UNCHANGED <<settings, db, ready, stopping, tasks, active, uncounted, holder, notifying, clearRequest,
                     cancelledLive>>
    PROVE  TypeOK' /\ CallsInv'
  <1>1. CASE halted
    <2> DEFINE call == [kind |-> "resume", id |-> 0]
    <2>1. /\ halted' = FALSE /\ calls' = calls \cup {call}
          /\ flow' = [flow EXCEPT !.resume.pc = "processing"]
          /\ operation' = [op EXCEPT !.pc = "resuming"]
      BY <1>1 DEF ResumeWith
    <2>2. call \in Calls /\ call.kind = "resume"
      BY DEF Calls
    <2>3. flow' \in [recover : Flows, resume : Flows] /\ flow'.recover = flow.recover
      BY <2>1 DEF TypeOK, Flows
    <2>4. operation' \in Operations
      BY <2>1 DEF Operations
    <2> HIDE DEF call
    <2>5. CallsInv'
      BY <2>1, <2>2, <2>3, CallsAdd
    <2> QED BY <2>1, <2>2, <2>3, <2>4, <2>5 DEF TypeOK
  <1>2. CASE ~halted
    <2>1. operation' = NoOperation /\ UNCHANGED <<halted, calls, flow>>
      BY <1>2 DEF ResumeWith
    <2>2. CallsInv'
      BY <2>1, CallsSame DEF CallsInv
    <2> QED BY <2>1, <2>2 DEF TypeOK, NoOperation, Operations
  <1> QED BY <1>1, <1>2 DEF TypeOK

\* The environment operations.
LEMMA OperationTypes ==
    ASSUME TypeOK, CallsInv,
           \/ Halt \/ Resume \/ EndResume \/ RequestClear \/ EnterClear \/ ChangeSettings \/ CancelCompile
           \/ DeleteEnvironmentDir \/ ClearRows \/ RecalculateQueueCount \/ EndClear
    PROVE  TypeOK' /\ CallsInv'
  <1> USE DEF persistent, envService, history, service
  <1>0. operation \in Operations /\ NoOperation \in Operations /\ halted \in BOOLEAN
    BY DEF TypeOK, NoOperation, Operations
  <1>1. CASE Halt \/ EndResume \/ RequestClear \/ EnterClear \/ DeleteEnvironmentDir \/ RecalculateQueueCount
    <2>1. UNCHANGED <<settings, db, ready, stopping, tasks, active, uncounted, calls, holder, notifying, flow,
                      cancelledLive>>
      BY <1>1 DEF Halt, EndResume, RequestClear, EnterClear, DeleteEnvironmentDir, RecalculateQueueCount
    <2>2. halted' \in BOOLEAN
      BY <1>0, <1>1 DEF Halt, EndResume, RequestClear, EnterClear, DeleteEnvironmentDir, RecalculateQueueCount
    <2>3. operation' \in Operations
      <3>1. CASE EnterClear
        BY <3>1 DEF EnterClear, Operations, TypeOK
      <3>2. CASE Halt \/ EndResume \/ RequestClear
        BY <1>0, <3>2 DEF Halt, EndResume, RequestClear
      <3>3. CASE DeleteEnvironmentDir \/ RecalculateQueueCount
        BY <1>0, <3>3 DEF DeleteEnvironmentDir, RecalculateQueueCount, Operations
      <3> QED BY <1>1, <3>1, <3>2, <3>3
    <2>4. CallsInv'
      BY <2>1, CallsSame DEF CallsInv
    <2>5. clearRequest' \in [waiting : BOOLEAN, initial : BOOLEAN]
      <3>1. clearRequest \in [waiting : BOOLEAN, initial : BOOLEAN]
        BY DEF TypeOK
      <3>2. CASE RequestClear \/ EnterClear
        <4>1. CASE RequestClear
          BY <1>0, <4>1 DEF RequestClear
        <4>2. CASE EnterClear
          BY <4>2 DEF EnterClear, NoRequest
        <4> QED BY <3>2, <4>1, <4>2
      <3>3. CASE Halt \/ EndResume \/ DeleteEnvironmentDir \/ RecalculateQueueCount
        BY <3>1, <3>3 DEF Halt, EndResume, DeleteEnvironmentDir, RecalculateQueueCount
      <3> QED BY <1>1, <3>2, <3>3
    <2> QED BY <2>1, <2>2, <2>3, <2>4, <2>5 DEF TypeOK
  <1>2. CASE Resume
    <2>1. UNCHANGED <<settings, db, ready, stopping, tasks, active, uncounted, holder, notifying, clearRequest,
                     cancelledLive>>
      BY <1>2 DEF Resume
    <2>2. PICK op : op = [NoOperation EXCEPT !.kind = "resume"]
      OBVIOUS
    <2>3. op \in Operations /\ ResumeWith(op)
      BY <1>2, <2>2 DEF Resume, NoOperation, Operations
    <2> QED BY <2>1, <2>3, ResumeTypes
  <1>3. CASE EndClear
    <2>1. UNCHANGED <<settings, db, ready, stopping, tasks, active, uncounted, holder, notifying, clearRequest,
                     cancelledLive>>
      BY <1>3 DEF EndClear
    <2>2. CASE operation' = NoOperation /\ UNCHANGED <<halted, calls, flow>>
      <3>1. CallsInv'
        BY <2>1, <2>2, CallsSame DEF CallsInv
      <3> QED BY <1>0, <2>1, <2>2, <3>1 DEF TypeOK
    <2>3. CASE ResumeWith(operation)
      <3>1. PICK op : op = operation
        OBVIOUS
      <3>2. op \in Operations /\ ResumeWith(op)
        BY <1>0, <2>3, <3>1 DEF ResumeWith
      <3> QED BY <2>1, <3>2, ResumeTypes
    <2> QED BY <1>3, <2>2, <2>3 DEF EndClear
  <1>4. CASE CancelCompile
    <2>1. UNCHANGED <<settings, db, halted, ready, stopping, uncounted, flow, clearRequest>>
      BY <1>4 DEF CancelCompile
    <2>2. active' = 0 /\ operation' = [operation EXCEPT !.pc = "join", !.run = active]
          /\ cancelledLive' \in BOOLEAN /\ active \in Nat
      BY <1>4 DEF CancelCompile, TypeOK
    <2>3. operation' \in Operations
      BY <1>0, <2>2 DEF Operations
    <2>4. CASE active = 0 /\ UNCHANGED <<tasks, calls, holder, notifying>>
      <3>1. CallsInv'
        BY <2>1, <2>4, CallsSame DEF CallsInv
      <3> QED BY <2>1, <2>2, <2>3, <2>4, <3>1, Typing DEF TypeOK
    <2>5. CASE active # 0 /\ CancelRun(active)
      <3>1. PICK t : t = active
        OBVIOUS
      <3>2. t \in Tasks /\ CancelRun(t)
        BY <2>2, <2>5, <3>1, Typing DEF TypeOK, CancelRun, EndHere
      <3>3. /\ CallsInv' /\ tasks' \in Seq(Runs) /\ Len(tasks') = Len(tasks) /\ calls' \in SUBSET Calls
            /\ holder' \in [call : Calls, next : Nat, halted : BOOLEAN]
            /\ notifying' \in SUBSET [compile : Nat, blocking : BOOLEAN]
        BY <2>1, <3>2, CancelTypes
      <3> QED BY <2>1, <2>2, <2>3, <3>3, Typing DEF TypeOK
    <2> QED BY <1>4, <2>4, <2>5 DEF CancelCompile
  <1>5. CASE ClearRows
    <2>1. UNCHANGED <<settings, halted, ready, stopping, tasks, active, uncounted, calls, holder, notifying, flow,
                      clearRequest, cancelledLive>>
      BY <1>5 DEF ClearRows
    <2>2. operation' \in Operations
      BY <1>0, <1>5 DEF ClearRows, Operations
    <2>3. PICK gone : gone = {c \in Compiles : Row(c)}
      OBVIOUS
    <2>4. db' = [c \in Compiles |-> IF c \in gone THEN NoRow ELSE db[c]]
      BY <1>5, <2>3 DEF ClearRows
    <2>5. CallsInv'
      BY <2>1, CallsSame DEF CallsInv
    <2> QED BY <2>1, <2>2, <2>4, <2>5, DeleteEffect DEF TypeOK
  <1>6. CASE ChangeSettings
    <2>1. UNCHANGED <<db, halted, ready, stopping, tasks, active, uncounted, calls, holder, notifying, flow,
                      operation, clearRequest, cancelledLive>>
      BY <1>6 DEF ChangeSettings
    <2>2. settings' \in Settings
      BY <1>6 DEF ChangeSettings, TypeOK, Settings
    <2>3. CallsInv'
      BY <2>1, CallsSame DEF CallsInv
    <2> QED BY <2>1, <2>2, <2>3 DEF TypeOK
  <1> QED BY <1>1, <1>2, <1>3, <1>4, <1>5, <1>6

\* The end of the server process, and the start of the next.
LEMMA StopTypes ==
    ASSUME TypeOK, CallsInv, Stop \/ Restart \/ \E t \in Tasks : CancelOnStop(t)
    PROVE  TypeOK' /\ CallsInv'
  <1> USE DEF persistent, envService, history
  <1>1. CASE Stop
    <2>1. UNCHANGED <<settings, db, halted, ready, tasks, active, uncounted, calls, holder, notifying, flow,
                      operation, clearRequest, cancelledLive>> /\ stopping' = TRUE
      BY <1>1 DEF Stop
    <2>2. CallsInv'
      BY <2>1, CallsSame DEF CallsInv
    <2> QED BY <2>1, <2>2 DEF TypeOK
  <1>2. CASE Restart
    <2>1. UNCHANGED <<settings, halted, cancelledLive>>
      BY <1>2 DEF Restart
    <2>2. /\ ready' = FALSE /\ stopping' = FALSE /\ tasks' = <<>> /\ active' = 0 /\ uncounted' = {}
          /\ calls' = {} /\ holder' = Free /\ notifying' = {}
          /\ operation' = NoOperation /\ clearRequest' = NoRequest
      BY <1>2 DEF Restart
    <2>3. flow' \in [recover : Flows, resume : Flows] /\ flow'.recover.pc = "notifying"
      <3> DEFINE x == [IdleFlow EXCEPT !.pc = "notifying", !.todo = Unhandled]
      <3>1. x \in Flows /\ x.pc = "notifying" /\ IdleFlow \in Flows
        BY Typing DEF IdleFlow, Flows
      <3>2. flow' = [recover |-> x, resume |-> IdleFlow]
        BY <1>2 DEF Restart
      <3> HIDE DEF x
      <3> QED BY <3>1, <3>2
    <2>4. PICK gone : gone = {c \in Compiles : db[c].row = "uncommitted"}
      OBVIOUS
    <2>5. db' = [c \in Compiles |-> IF c \in gone THEN NoRow ELSE db[c]]
      BY <1>2, <2>4 DEF Restart
    <2>6. db' \in Seq(Rows)
      BY <2>5, DeleteEffect
    <2>7. TypeOK'
      <3>1. tasks' \in Seq(Runs) /\ Len(tasks') = 0
        BY <2>2
      <3>2. holder' \in [call : Calls, next : Nat, halted : BOOLEAN]
        BY <2>2 DEF Free, NoCall, Calls
      <3>3. operation' \in Operations /\ clearRequest' \in [waiting : BOOLEAN, initial : BOOLEAN]
        BY <2>2 DEF NoOperation, Operations, NoRequest
      <3>4. active' \in Nat /\ active' <= Len(tasks')
        BY <2>2, <3>1
      <3>5. settings' \in Settings /\ halted' \in BOOLEAN /\ cancelledLive' \in BOOLEAN
            /\ ready' \in BOOLEAN /\ stopping' \in BOOLEAN
        BY <2>1, <2>2 DEF TypeOK
      <3> QED BY <2>2, <2>3, <2>6, <3>1, <3>2, <3>3, <3>4, <3>5 DEF TypeOK
    <2> QED BY <2>2, <2>3, <2>7 DEF CallsInv, FinishesRun, Free, NoCall
  <1>3. ASSUME NEW t \in Tasks, CancelOnStop(t)
        PROVE  TypeOK' /\ CallsInv'
    <2>1. UNCHANGED <<settings, db, halted, ready, stopping, active, uncounted, flow, operation, clearRequest, cancelledLive>>
      BY <1>3 DEF CancelOnStop
    <2>2. CancelRun(t)
      BY <1>3 DEF CancelOnStop
    <2>3. /\ CallsInv' /\ tasks' \in Seq(Runs) /\ Len(tasks') = Len(tasks) /\ calls' \in SUBSET Calls
          /\ holder' \in [call : Calls, next : Nat, halted : BOOLEAN]
          /\ notifying' \in SUBSET [compile : Nat, blocking : BOOLEAN]
      BY <2>1, <2>2, CancelTypes
    <2> QED BY <2>1, <2>3 DEF TypeOK
  <1> QED BY <1>1, <1>2, <1>3

\* A state that stays.
LEMMA StutterTypes ==
    ASSUME TypeOK, CallsInv, UNCHANGED vars
    PROVE  TypeOK' /\ CallsInv'
  <1>1. UNCHANGED <<settings, db, halted, ready, stopping, tasks, active, uncounted, calls, holder, notifying, flow,
                    operation, clearRequest, cancelledLive>>
    BY DEF vars, persistent, service, envService, history
  <1>2. CallsInv'
    BY <1>1, CallsSame DEF CallsInv
  <1> QED BY <1>1, <1>2 DEF TypeOK

\* Every step keeps the types.
LEMMA NextTypes ==
    ASSUME TypeOK, CallsInv, [Next]_vars
    PROVE  TypeOK' /\ CallsInv'
  BY RunTypes, QueueTypes, RecoveryTypes, RequestTypes, OperationTypes, StopTypes, StutterTypes
  DEF Next, ServiceStep

\* The server starts with an empty table or with one compile that is done.
LEMMA InitTypes ==
    ASSUME Init
    PROVE  TypeOK /\ CallsInv
  <1>1. /\ tasks = <<>> /\ active = 0 /\ uncounted = {} /\ calls = {} /\ holder = Free /\ notifying = {}
        /\ operation = NoOperation /\ clearRequest = NoRequest
        /\ ready = FALSE /\ stopping = FALSE /\ cancelledLive = FALSE /\ halted \in BOOLEAN
        /\ settings \in Settings
    BY DEF Init
  <1>2. FinishedCompile \in Rows
    <2>1. PICK r : r = Request(RecoveryKey, FALSE, "row")
      OBVIOUS
    <2>2. r \in Rows
      BY <2>1, CompilerAssumption, RequestIsRow DEF RowStates
    <2>3. FinishedCompile = [r EXCEPT !.started = TRUE, !.completed = 1, !.handled = TRUE,
                                      !.used = {1}, !.result = "compiled"]
      BY <2>1 DEF FinishedCompile
    <2>4. {1} \in SUBSET Nat
      OBVIOUS
    <2> QED BY <2>2, <2>3, <2>4 DEF Rows
  <1>3. db \in Seq(Rows)
    <2>1. db = <<>> \/ db = <<FinishedCompile>>
      BY DEF Init
    <2>2. PICK f : f = FinishedCompile
      OBVIOUS
    <2>3. CASE db = <<f>>
      <3>1. db = [i \in 1..1 |-> f]
        BY <2>3
      <3>2. f \in Rows
        BY <1>2, <2>2
      <3>3. db \in [1..1 -> Rows]
        BY <3>1, <3>2
      <3>4. \A n \in Nat : [1..n -> Rows] \subseteq Seq(Rows)
        OBVIOUS
      <3> QED BY <3>3, <3>4
    <2>4. CASE db = <<>>
      BY <2>4
    <2> QED BY <2>1, <2>2, <2>3, <2>4
  <1>4. flow \in [recover : Flows, resume : Flows] /\ flow.recover.pc = "notifying"
    BY DEF Init, IdleFlow, Flows
  <1>5. tasks \in Seq(Runs) /\ Len(tasks) = 0
    BY <1>1
  <1>6. holder \in [call : Calls, next : Nat, halted : BOOLEAN]
    BY <1>1 DEF Free, NoCall, Calls
  <1>7. operation \in Operations /\ clearRequest \in [waiting : BOOLEAN, initial : BOOLEAN]
    BY <1>1 DEF NoOperation, Operations, NoRequest
  <1>8. TypeOK
    <2>1. active \in Nat /\ active <= Len(tasks)
      BY <1>1, <1>5
    <2> QED BY <1>1, <1>3, <1>4, <1>5, <1>6, <1>7, <2>1 DEF TypeOK
  <1> QED BY <1>1, <1>4, <1>8 DEF CallsInv, FinishesRun, Free, NoCall

\* The state of the compiler service is well formed.
THEOREM CompilerTypeCorrect == Spec => [](TypeOK /\ CallsInv)
  <1>1. Init => TypeOK /\ CallsInv
    BY InitTypes
  <1>2. (TypeOK /\ CallsInv) /\ [Next]_vars => (TypeOK /\ CallsInv)'
    BY NextTypes
  <1> QED BY <1>1, <1>2, PTL DEF Spec

-----------------------------------------------------------------------------
(* Notifications are delivered *)

\* Nothing is handled, and no blocking listener returns, in a step.
LEMMA HandledStays ==
    ASSUME HandledInv, delivered' = delivered,
           \A c \in Compiles' : db'[c].handled => c \in Compiles /\ db[c].handled,
           \A n \in notifying' : n.blocking => n \in notifying
    PROVE  HandledInv'
  BY DEF HandledInv, HandledIsDelivered

\* The steps of a run handle nothing.
LEMMA RunHandled ==
    ASSUME TypeOK, CallsInv, HandledInv, NEW t \in Tasks, RunStep(t)
    PROVE  HandledInv'
  <1> USE DEF history, persistent
  <1>1. CASE BeginRun(t)
    <2>1. Compiles' = Compiles /\ \A d \in Compiles : db'[d].handled = db[d].handled
      BY <1>1, BeginRunEffect
    <2>2. UNCHANGED <<delivered, notifying>>
      BY <1>1 DEF BeginRun
    <2> QED BY <2>1, <2>2, HandledStays
  <1>2. CASE RunCompiler(t)
    <2>1. Compiles' = Compiles /\ \A d \in Compiles : db'[d].handled = db[d].handled
      BY <1>2, RunCompilerEffect
    <2>2. UNCHANGED <<delivered, notifying>>
      BY <1>2 DEF RunCompiler
    <2> QED BY <2>1, <2>2, HandledStays
  <1>3. CASE WriteLastCompileMarker(t) \/ FinishRun(t)
    <2>1. UNCHANGED <<db, delivered, notifying>>
      BY <1>3 DEF WriteLastCompileMarker, FinishRun
    <2> QED BY <2>1, HandledStays DEF Compiles
  <1>4. CASE NotifyListeners(t)
    <2>1. UNCHANGED <<db, delivered>>
      BY <1>4 DEF NotifyListeners
    <2>2. \A n \in notifying' : n.blocking => n \in notifying
      BY <1>4 DEF NotifyListeners
    <2> QED BY <2>1, <2>2, HandledStays DEF Compiles
  <1>5. ASSUME NEW d \in Compiles, CompleteMerged(t, d)
        PROVE  HandledInv'
    <2>1. Compiles' = Compiles /\ \A e \in Compiles : db'[e].handled = db[e].handled
      BY <1>5, CompleteMergedEffect
    <2>2. UNCHANGED <<delivered, notifying>>
      BY <1>5 DEF CompleteMerged
    <2> QED BY <2>1, <2>2, HandledStays
  <1> QED BY <1>1, <1>2, <1>3, <1>4, <1>5 DEF RunStep

\* The listeners that return: each is recorded before the next.
LEMMA NotificationHandled ==
    ASSUME TypeOK, HandledInv, NEW n \in notifying, DeliverBlocking(n) \/ MarkHandled(n)
    PROVE  HandledInv'
  <1>0. n \in [compile : Nat, blocking : BOOLEAN]
    BY DEF TypeOK
  <1>1. CASE DeliverBlocking(n)
    <2>1. /\ notifying' = (notifying \ {n}) \cup {[n EXCEPT !.blocking = TRUE]}
          /\ delivered' = delivered \cup {<<n.compile, "blocking">>} /\ db' = db
      BY <1>1 DEF DeliverBlocking, persistent
    <2>2. [n EXCEPT !.blocking = TRUE].compile = n.compile
      BY <1>0
    <2>3. \A m \in notifying' : m.blocking => <<m.compile, "blocking">> \in delivered'
      BY <2>1, <2>2 DEF HandledInv
    <2> QED BY <2>1, <2>3 DEF HandledInv, HandledIsDelivered, Compiles
  <1>2. CASE MarkHandled(n)
    <2>1. /\ notifying' = notifying \ {n} /\ delivered' = delivered \cup {<<n.compile, "async">>}
      BY <1>2 DEF MarkHandled
    <2>2. n.blocking /\ Compiles' = Compiles
      BY <1>2, MarkHandledEffect
    <2>3. \A d \in Compiles : d # n.compile => db'[d] = db[d]
      BY <1>2, MarkHandledEffect
    <2>4. <<n.compile, "blocking">> \in delivered
      BY <2>2 DEF HandledInv
    <2> QED BY <2>1, <2>2, <2>3, <2>4 DEF HandledInv, HandledIsDelivered
  <1> QED BY <1>1, <1>2

\* A cancelled run takes notifications with it, and adds none.
LEMMA CancelHandled ==
    ASSUME TypeOK, HandledInv, NEW t \in Tasks, CancelRun(t), UNCHANGED <<db, delivered>>
    PROVE  HandledInv'
  <1>1. notifying' \subseteq notifying
    BY CancelRunEffect
  <1> QED BY <1>1, HandledStays DEF Compiles

\* The other steps of the service handle nothing either.
LEMMA ServiceHandled ==
    ASSUME TypeOK, CallsInv, HandledInv,
           \/ \E call \in calls : AcquireAndFetch(call)
           \/ StartOrLeave \/ RecoverNotify \/ RecoverReady
           \/ \E w \in {"recover", "resume"} : ReadLastRun(w) \/ CompareMarker(w)
           \/ \E kind \in Kinds : RequestRecompile(kind)
           \/ \E kind \in InTransaction : RequestInTransaction(kind)
           \/ \E c \in Compiles : CommitRequest(c) \/ NotifyCompileRequestCommitted(c)
    PROVE  HandledInv'
  <1> USE DEF history, persistent, service
  <1>1. CASE \/ \E call \in calls : AcquireAndFetch(call)
             \/ StartOrLeave \/ RecoverReady \/ \E w \in {"recover", "resume"} : ReadLastRun(w)
             \/ \E c \in Compiles : NotifyCompileRequestCommitted(c)
    <2>1. UNCHANGED <<db, delivered, notifying>>
      BY <1>1 DEF AcquireAndFetch, StartOrLeave, RecoverReady, ReadLastRun, NotifyCompileRequestCommitted
    <2> QED BY <2>1, HandledStays DEF Compiles
  <1>2. CASE RecoverNotify
    <2>1. UNCHANGED <<db, delivered>> /\ \A n \in notifying' : n.blocking => n \in notifying
      BY <1>2 DEF RecoverNotify
    <2> QED BY <2>1, HandledStays DEF Compiles
  <1>3. ASSUME NEW k \in Keys, NEW f \in BOOLEAN, InsertAndProcess(k, f), UNCHANGED <<delivered, notifying>>
        PROVE  HandledInv'
    BY <1>3, InsertEffect, HandledStays
  <1>4. ASSUME NEW w \in {"recover", "resume"}, CompareMarker(w)
        PROVE  HandledInv'
    <2>1. UNCHANGED <<delivered, notifying>>
      BY <1>4 DEF CompareMarker
    <2>2. CASE InsertAndProcess(RecoveryKey, TRUE)
      BY <1>3, <2>1, <2>2, CompilerAssumption
    <2>3. CASE db' = db
      BY <2>1, <2>3, HandledStays DEF Compiles
    <2> QED BY <1>4, <2>2, <2>3 DEF CompareMarker
  <1>5. ASSUME NEW kind \in Kinds, RequestRecompile(kind)
        PROVE  HandledInv'
    <2>1. kind[1] \in Keys /\ kind[2] \in BOOLEAN /\ InsertAndProcess(kind[1], kind[2])
          /\ UNCHANGED <<delivered, notifying>>
      BY <1>5, CompilerAssumption DEF RequestRecompile
    <2> QED BY <1>3, <2>1
  <1>6. ASSUME NEW kind \in InTransaction, RequestInTransaction(kind)
        PROVE  HandledInv'
    <2>1. UNCHANGED <<delivered, notifying>>
      BY <1>6 DEF RequestInTransaction
    <2> QED BY <1>6, <2>1, InsertHiddenEffect, HandledStays
  <1>7. ASSUME NEW c \in Compiles, CommitRequest(c)
        PROVE  HandledInv'
    <2>1. UNCHANGED <<delivered, notifying>>
      BY <1>7 DEF CommitRequest
    <2>2. Compiles' = Compiles /\ \A d \in Compiles : db'[d].handled = db[d].handled
      BY <1>7, CommitEffect
    <2> QED BY <2>1, <2>2, HandledStays
  <1> QED BY <1>1, <1>2, <1>4, <1>5, <1>6, <1>7

\* Nor do the environment operations, a stop and a restart.
LEMMA OperationHandled ==
    ASSUME TypeOK, CallsInv, HandledInv,
           \/ Halt \/ Resume \/ EndResume \/ RequestClear \/ ChangeSettings \/ EnterClear \/ CancelCompile
           \/ DeleteEnvironmentDir \/ ClearRows \/ RecalculateQueueCount \/ EndClear
           \/ Stop \/ Restart \/ \E t \in Tasks : CancelOnStop(t)
    PROVE  HandledInv'
  <1> USE DEF history, persistent, service
  <1>1. CASE \/ Halt \/ Resume \/ EndResume \/ RequestClear \/ ChangeSettings \/ EnterClear
             \/ DeleteEnvironmentDir \/ RecalculateQueueCount \/ EndClear \/ Stop
    <2>1. UNCHANGED <<db, delivered, notifying>>
      BY <1>1 DEF Halt, Resume, EndResume, RequestClear, ChangeSettings, EnterClear, DeleteEnvironmentDir,
                  RecalculateQueueCount, EndClear, Stop
    <2> QED BY <2>1, HandledStays DEF Compiles
  <1>2. CASE CancelCompile
    <2>1. UNCHANGED <<db, delivered>>
      BY <1>2 DEF CancelCompile
    <2>2. CASE notifying' = notifying
      BY <2>1, <2>2, HandledStays DEF Compiles
    <2>3. CASE active # 0 /\ CancelRun(active)
      <3>1. PICK t : t = active
        OBVIOUS
      <3>2. t \in Tasks /\ CancelRun(t)
        BY <2>3, <3>1, Typing DEF TypeOK, CancelRun, EndHere
      <3> QED BY <2>1, <3>2, CancelHandled
    <2> QED BY <1>2, <2>2, <2>3 DEF CancelCompile
  <1>3. CASE ClearRows
    <2>1. PICK gone : gone = {c \in Compiles : Row(c)}
      OBVIOUS
    <2>2. db' = [c \in Compiles |-> IF c \in gone THEN NoRow ELSE db[c]] /\ UNCHANGED <<delivered, notifying>>
      BY <1>3, <2>1 DEF ClearRows
    <2> QED BY <2>2, DeleteEffect, HandledStays
  <1>4. CASE Restart
    <2>1. PICK gone : gone = {c \in Compiles : db[c].row = "uncommitted"}
      OBVIOUS
    <2>2. /\ db' = [c \in Compiles |-> IF c \in gone THEN NoRow ELSE db[c]]
          /\ delivered' = delivered /\ notifying' = {}
      BY <1>4, <2>1 DEF Restart
    <2> QED BY <2>2, DeleteEffect, HandledStays
  <1>5. ASSUME NEW t \in Tasks, CancelOnStop(t)
        PROVE  HandledInv'
    BY <1>5, CancelHandled DEF CancelOnStop
  <1> QED BY <1>1, <1>2, <1>3, <1>4, <1>5

\* A compile that starts as handled was delivered before.
LEMMA InitHandled == Init => HandledInv
  <1> SUFFICES ASSUME Init PROVE HandledInv
    OBVIOUS
  <1>1. notifying = {} /\ delivered = LastRuns \X {"blocking", "async"}
    BY DEF Init
  <1>2. CASE db = <<>>
    BY <1>1, <1>2 DEF HandledInv, HandledIsDelivered, Compiles
  <1>3. CASE db = <<FinishedCompile>>
    <2>1. PICK f : f = FinishedCompile
      OBVIOUS
    <2>2. f.row = "row" /\ f.completed = 1
      BY <2>1 DEF FinishedCompile, Request
    <2>3. Compiles = {1} /\ db[1] = f
      BY <1>3, <2>1 DEF Compiles
    <2>4. LastRuns = {1}
      BY <2>2, <2>3 DEF LastRuns, Row
    <2> QED BY <1>1, <2>3, <2>4 DEF HandledInv, HandledIsDelivered
  <1> QED BY <1>2, <1>3 DEF Init

\* Every step keeps HandledInv.
LEMMA NextHandled == TypeOK /\ CallsInv /\ HandledInv /\ [Next]_vars => HandledInv'
  <1> SUFFICES ASSUME TypeOK, CallsInv, HandledInv, [Next]_vars PROVE HandledInv'
    OBVIOUS
  <1>1. CASE UNCHANGED vars
    BY <1>1, HandledStays DEF vars, persistent, service, history, Compiles
  <1> QED BY <1>1, RunHandled, NotificationHandled, ServiceHandled, OperationHandled DEF Next, ServiceStep

\* "Notifications are delivered at least once": handled is not set before every listener was
\* told, for any interleaving of runs, cancellations and restarts.
THEOREM NotificationsAreDelivered == Spec => []HandledIsDelivered
  <1>1. (TypeOK /\ CallsInv) /\ HandledInv /\ [Next]_vars => HandledInv'
    BY NextHandled
  <1>2. HandledInv => HandledIsDelivered
    BY DEF HandledInv
  <1> QED BY <1>1, <1>2, InitHandled, CompilerTypeCorrect, PTL DEF Spec

-----------------------------------------------------------------------------
(* One run at a time *)

\* At most one run has not ended.
LEMMA Alone ==
    ASSUME TypeOK, BusyInv, ~cancelledLive, NEW t \in Tasks, NEW u \in Tasks, ~Ended(t), ~Ended(u)
    PROVE  t = u
  <1>1. t # 0 /\ u # 0
    BY Typing
  <1>2. operation.pc = "join" => active = 0
    BY DEF BusyInv, Cancelling
  <1> QED BY <1>1, <1>2 DEF BusyInv

\* Runs may end, and go on otherwise.
LEMMA BusyStays ==
    ASSUME BusyInv, UNCHANGED <<cancelledLive, operation, halted, active>>,
           holder' = holder \/ holder' = Free,
           Tasks' = Tasks, \A u \in Tasks : Ended(u) => Ended(u)'
    PROVE  BusyInv'
  <1>1. ASSUME ~cancelledLive, Cancelling
        PROVE  halted' /\ active' = 0 /\ (holder' # Free => holder'.halted)
    BY <1>1 DEF BusyInv, Free, NoCall
  <1>2. ASSUME ~cancelledLive, NEW u \in Tasks', ~(Ended(u)')
        PROVE  u = active' \/ (operation'.pc = "join" /\ operation'.run = u)
    BY <1>2 DEF BusyInv
  <1> QED BY <1>1, <1>2 DEF BusyInv, Cancelling, Free, NoCall

\* While no run is being cancelled, an environment operation changes nothing for the runs.
LEMMA BusyOperation ==
    ASSUME BusyInv, UNCHANGED <<cancelledLive, tasks, active>>, ~Cancelling, ~(Cancelling')
    PROVE  BusyInv'
  BY DEF BusyInv, Cancelling, Tasks, Ended

\* The step of a run concerns that run: it goes on with its compile, or ends.
LEMMA RunStepEffect ==
    ASSUME TypeOK, NEW t \in Tasks, RunStep(t)
    PROVE  OnlyRun(t) /\ ~Ended(t) /\ (Ended(t)' \/ tasks'[t].compile = tasks[t].compile)
  <1>1. CASE BeginRun(t)
    BY <1>1, BeginRunEffect DEF Ended
  <1>2. CASE RunCompiler(t)
    BY <1>2, RunCompilerEffect DEF Ended
  <1>3. CASE WriteLastCompileMarker(t)
    BY <1>3, GoToEffect DEF WriteLastCompileMarker, RunPhases, Ended, At
  <1>4. CASE NotifyListeners(t)
    <2>1. tasks[t].pc = "merging"
      BY <1>4 DEF NotifyListeners, At
    <2>2. CASE stopping
      BY <1>4, <2>1, <2>2, OverEffect DEF NotifyListeners, Ended
    <2>3. CASE ~stopping
      <3>1. GoTo(t, "notifying")
        BY <1>4, <2>3 DEF NotifyListeners
      <3> QED BY <2>1, <3>1, GoToEffect DEF RunPhases, Ended
    <2> QED BY <2>2, <2>3
  <1>5. CASE FinishRun(t)
    BY <1>5, GoToEffect DEF FinishRun, RunPhases, Ended, At
  <1>6. ASSUME NEW d \in Compiles, CompleteMerged(t, d)
        PROVE  OnlyRun(t) /\ ~Ended(t) /\ (Ended(t)' \/ tasks'[t].compile = tasks[t].compile)
    <2>1. tasks[t].pc = "merging" /\ (tasks' = tasks \/ (OnlyRun(t) /\ Ended(t)'))
      BY <1>6, CompleteMergedEffect
    <2>2. OnlyRun(t)
      BY <2>1, Typing DEF OnlyRun, Tasks
    <2> QED BY <2>1, <2>2 DEF Ended
  <1> QED BY <1>1, <1>2, <1>3, <1>4, <1>5, <1>6 DEF RunStep

\* So a run keeps BusyInv.
LEMMA RunBusy ==
    ASSUME TypeOK, CallsInv, BusyInv, NEW t \in Tasks, RunStep(t)
    PROVE  BusyInv'
  <1>1. OnlyRun(t) /\ ~Ended(t)
    BY RunStepEffect
  <1>2. UNCHANGED <<cancelledLive, operation, halted, active, holder>>
    BY DEF RunStep, BeginRun, RunCompiler, WriteLastCompileMarker, NotifyListeners, FinishRun, CompleteMerged,
           history, persistent, envService
  <1>3. Tasks' = Tasks /\ \A u \in Tasks : Ended(u) => Ended(u)'
    BY <1>1 DEF OnlyRun, Ended
  <1> QED BY <1>2, <1>3, BusyStays

\* A run that asked for the next compile is the only one.
LEMMA FinisherIsAlone ==
    ASSUME TypeOK, BusyInv, ~cancelledLive, NEW call, call.kind = "finish", FinishesRun(call)
    PROVE  \A u \in Tasks : u # call.id => Ended(u)
  <1>1. call.id \in Tasks /\ ~Ended(call.id)
    BY DEF FinishesRun, Ended
  <1> QED BY <1>1, Alone

\* Taking the next compile from the queue.
LEMMA AcquireBusy ==
    ASSUME TypeOK, CallsInv, BusyInv, NEW call \in calls, AcquireAndFetch(call)
    PROVE  BusyInv'
  <1>1. UNCHANGED <<cancelledLive, operation, halted>> /\ holder = Free
    BY AcquireEffect DEF AcquireAndFetch, persistent, envService, history
  <1>2. CASE Returned(call)
    <2>1. CASE call.kind = "finish"
      <3>1. FinishesRun(call) /\ active' = 0 /\ holder' = holder
        BY <1>2, <2>1 DEF Returned, CallsInv
      <3>2. ~cancelledLive => \A u \in Tasks' : Ended(u)'
        <4> SUFFICES ASSUME ~cancelledLive, NEW u \in Tasks' PROVE Ended(u)'
          OBVIOUS
        <4>1. CASE ReturnsTo(call, u)
          BY <1>2, <4>1 DEF Returned
        <4>2. CASE ~ReturnsTo(call, u)
          BY <1>2, <2>1, <3>1, <4>2, FinisherIsAlone DEF Returned, ReturnsTo, Ended
        <4> QED BY <4>1, <4>2
      <3> QED BY <1>1, <3>1, <3>2 DEF BusyInv, Cancelling, Free, NoCall
    <2>2. CASE call.kind # "finish"
      <3>1. active' = active /\ holder' = holder /\ Tasks' = Tasks
        BY <1>2, <2>2 DEF Returned
      <3>2. \A u \in Tasks : tasks'[u] = tasks[u]
        BY <1>2, <2>2 DEF Returned, ReturnsTo
      <3>3. \A u \in Tasks : Ended(u) => Ended(u)'
        BY <3>2 DEF Ended
      <3> QED BY <1>1, <3>1, <3>3, BusyStays
    <2> QED BY <2>1, <2>2
  <1>3. CASE Fetched(call)
    <2>1. UNCHANGED <<active, tasks>> /\ holder'.halted = halted
      BY <1>3 DEF Fetched
    <2> QED BY <1>1, <2>1 DEF BusyInv, Cancelling, Tasks, Ended, Free, NoCall
  <1> QED BY <1>2, <1>3, AcquireEffect

\* Starting a run, or leaving.
LEMMA StartBusy ==
    ASSUME TypeOK, CallsInv, BusyInv, StartOrLeave
    PROVE  BusyInv'
  <1>1. UNCHANGED <<cancelledLive, operation, halted>>
    BY DEF StartOrLeave, persistent, envService, history
  <1>2. PICK call : call = holder.call
    OBVIOUS
  <1>3. /\ holder' = Free /\ holder # Free /\ FinishesRun(call)
        /\ \A u \in Tasks : IF ReturnsTo(call, u) THEN Ended(u)' ELSE tasks'[u] = tasks[u]
        /\ Started(Len(tasks) + 1) \/ Left
    BY <1>2, StartEffect DEF CallsInv
  <1>4. \A u \in Tasks : Ended(u) => Ended(u)'
    BY <1>3 DEF Ended
  <1>5. ASSUME ~cancelledLive, call.kind = "finish"
        PROVE  \A u \in Tasks : Ended(u)'
    <2> TAKE u \in Tasks
    <2>1. CASE ReturnsTo(call, u)
      BY <1>3, <2>1
    <2>2. CASE ~ReturnsTo(call, u)
      BY <1>3, <1>4, <1>5, <2>2, FinisherIsAlone DEF ReturnsTo
    <2> QED BY <2>1, <2>2
  <1>6. CASE Started(Len(tasks) + 1)
    <2>1. PICK new : new = Len(tasks) + 1
      OBVIOUS
    <2>2. ~holder.halted /\ (call.kind = "finish" \/ active = 0) /\ active' = new /\ Tasks' = Tasks \cup {new}
      BY <1>2, <1>6, <2>1 DEF Started
    <2>3. ~cancelledLive => ~Cancelling
      BY <1>3, <2>2 DEF BusyInv
    <2>4. ~cancelledLive => \A u \in Tasks : Ended(u)'
      <3>1. CASE call.kind = "finish"
        BY <1>5, <3>1
      <3>2. CASE active = 0
        <4>1. ~cancelledLive => \A u \in Tasks : Ended(u)
          BY <2>3, <3>2, Typing DEF BusyInv, Cancelling
        <4> QED BY <1>4, <4>1
      <3> QED BY <2>2, <3>1, <3>2
    <2> QED BY <1>1, <2>2, <2>3, <2>4 DEF BusyInv, Cancelling
  <1>7. CASE Left
    <2>1. Tasks' = Tasks /\ active' = (IF call.kind = "finish" THEN 0 ELSE active)
      BY <1>2, <1>7 DEF Left
    <2>2. CASE call.kind = "finish"
      BY <1>1, <1>3, <1>5, <2>1, <2>2 DEF BusyInv, Cancelling
    <2>3. CASE call.kind # "finish"
      BY <1>1, <1>3, <1>4, <2>1, <2>3, BusyStays
    <2> QED BY <2>2, <2>3
  <1> QED BY <1>3, <1>6, <1>7

\* The environment operations.
LEMMA OperationBusy ==
    ASSUME TypeOK, CallsInv, BusyInv,
           \/ Halt \/ Resume \/ EndResume \/ RequestClear \/ ChangeSettings \/ EnterClear \/ CancelCompile
           \/ DeleteEnvironmentDir \/ ClearRows \/ RecalculateQueueCount \/ EndClear
    PROVE  BusyInv'
  <1> USE DEF persistent, envService, history, service
  <1>0. operation \in Operations /\ active \in Nat
    BY DEF TypeOK
  <1>1. CASE Halt \/ Resume \/ EndResume \/ EnterClear \/ RecalculateQueueCount \/ EndClear
    <2>1. UNCHANGED <<cancelledLive, tasks, active>>
      BY <1>1 DEF Halt, Resume, EndResume, EnterClear, RecalculateQueueCount, EndClear
    <2>2. ~Cancelling
      BY <1>1 DEF Halt, Resume, EndResume, EnterClear, RecalculateQueueCount, EndClear, NoOperation, Cancelling
    <2>3. operation'.pc \notin {"join", "rows"}
      <3>1. CASE Halt \/ EndResume \/ EnterClear \/ RecalculateQueueCount
        BY <1>0, <3>1 DEF Halt, EndResume, EnterClear, RecalculateQueueCount, NoOperation, Operations
      <3>2. ASSUME NEW op \in Operations, ResumeWith(op)
            PROVE  operation'.pc \notin {"join", "rows"}
        BY <3>2 DEF ResumeWith, NoOperation, Operations
      <3>3. CASE Resume
        <4>1. PICK op : op = [NoOperation EXCEPT !.kind = "resume"]
          OBVIOUS
        <4>2. op \in Operations /\ ResumeWith(op)
          BY <3>3, <4>1 DEF Resume, NoOperation, Operations
        <4> QED BY <3>2, <4>2
      <3>4. CASE EndClear
        <4>1. CASE operation' = NoOperation
          BY <4>1 DEF NoOperation
        <4>2. CASE ResumeWith(operation)
          <5>1. PICK op : op = operation
            OBVIOUS
          <5>2. op \in Operations /\ ResumeWith(op)
            BY <1>0, <4>2, <5>1 DEF ResumeWith
          <5> QED BY <3>2, <5>2
        <4> QED BY <3>4, <4>1, <4>2 DEF EndClear
      <3> QED BY <1>1, <3>1, <3>3, <3>4
    <2> QED BY <2>1, <2>2, <2>3, BusyOperation DEF Cancelling
  <1>2. CASE RequestClear \/ ChangeSettings
    <2>1. UNCHANGED <<cancelledLive, operation, halted, active, holder, tasks>>
      BY <1>2 DEF RequestClear, ChangeSettings
    <2> QED BY <2>1, BusyStays DEF Tasks, Ended
  <1>3. CASE CancelCompile
    <2>1. /\ holder = Free /\ operation.pc = "cancel" /\ halted' = halted
          /\ cancelledLive' = (cancelledLive \/ ~halted) /\ active' = 0
          /\ operation' = [operation EXCEPT !.pc = "join", !.run = active]
      BY <1>3 DEF CancelCompile
    <2>2. operation'.pc = "join" /\ operation'.run = active
      BY <1>0, <2>1 DEF Operations
    <2>3. holder' = Free /\ Tasks' = Tasks /\ \A u \in Tasks : u # active => tasks'[u] = tasks[u]
      <3>1. CASE active = 0 /\ UNCHANGED <<tasks, calls, holder, notifying>>
        BY <2>1, <3>1 DEF Tasks
      <3>2. CASE active # 0 /\ CancelRun(active)
        <4>1. PICK t : t = active
          OBVIOUS
        <4>2. t \in Tasks /\ CancelRun(t)
          BY <1>0, <3>2, <4>1, Typing DEF TypeOK, CancelRun, EndHere
        <4>3. OnlyRun(t) /\ holder' = Free
          BY <2>1, <4>2, CancelRunEffect
        <4> QED BY <4>1, <4>3 DEF OnlyRun
      <3> QED BY <1>3, <3>1, <3>2 DEF CancelCompile
    <2>4. ASSUME ~cancelledLive', NEW u \in Tasks', ~(Ended(u)')
          PROVE  u = active
      <3>1. CASE u = active
        BY <3>1
      <3>2. CASE u # active
        <4>1. ~cancelledLive /\ u \in Tasks /\ tasks'[u] = tasks[u]
          BY <2>1, <2>3, <2>4, <3>2
        <4>2. ~Ended(u)
          BY <2>4, <4>1 DEF Ended
        <4> QED BY <2>1, <4>1, <4>2 DEF BusyInv
      <3> QED BY <3>1, <3>2
    <2> QED BY <2>1, <2>2, <2>3, <2>4 DEF BusyInv, TypeOK
  <1>4. CASE DeleteEnvironmentDir
    <2>1. /\ UNCHANGED <<cancelledLive, halted, active, holder, tasks>>
          /\ operation.pc = "join" /\ (operation.run # 0 => Ended(operation.run))
          /\ operation' = [operation EXCEPT !.pc = "rows"]
      BY <1>4 DEF DeleteEnvironmentDir
    <2>2. ~cancelledLive => \A u \in Tasks : Ended(u)
      <3> SUFFICES ASSUME ~cancelledLive, NEW u \in Tasks, ~Ended(u) PROVE FALSE
        OBVIOUS
      <3>1. u # 0 /\ active = 0
        BY <2>1, Typing DEF BusyInv, Cancelling
      <3> QED BY <2>1, <3>1 DEF BusyInv
    <2>3. operation'.pc = "rows"
      BY <1>0, <2>1 DEF Operations
    <2> QED BY <2>1, <2>2, <2>3 DEF BusyInv, Cancelling, Tasks, Ended
  <1>5. CASE ClearRows
    <2>1. UNCHANGED <<cancelledLive, halted, active, holder, tasks>> /\ operation.pc = "rows"
          /\ operation' = [operation EXCEPT !.pc = "recount"]
      BY <1>5 DEF ClearRows
    <2>2. operation'.pc = "recount"
      BY <1>0, <2>1 DEF Operations
    <2> QED BY <2>1, <2>2 DEF BusyInv, Cancelling, Tasks, Ended
  <1> QED BY <1>1, <1>2, <1>3, <1>4, <1>5

\* The other steps.
LEMMA OtherBusy ==
    ASSUME TypeOK, CallsInv, BusyInv,
           \/ \E n \in notifying : DeliverBlocking(n) \/ MarkHandled(n)
           \/ RecoverNotify \/ RecoverReady
           \/ \E w \in {"recover", "resume"} : ReadLastRun(w) \/ CompareMarker(w)
           \/ \E kind \in Kinds : RequestRecompile(kind)
           \/ \E kind \in InTransaction : RequestInTransaction(kind)
           \/ \E c \in Compiles : CommitRequest(c) \/ NotifyCompileRequestCommitted(c)
           \/ Stop \/ Restart \/ (\E t \in Tasks : CancelOnStop(t)) \/ UNCHANGED vars
    PROVE  BusyInv'
  <1> USE DEF persistent, envService, history, service
  <1>1. CASE Restart
    <2>1. tasks' = <<>> /\ operation' = NoOperation
      BY <1>1 DEF Restart
    <2> QED BY <2>1 DEF BusyInv, Cancelling, NoOperation, Tasks
  <1>2. ASSUME NEW t \in Tasks, CancelOnStop(t)
        PROVE  BusyInv'
    <2>1. UNCHANGED <<cancelledLive, operation, halted, active>> /\ CancelRun(t) /\ ~Ended(t)
      BY <1>2 DEF CancelOnStop
    <2>2. OnlyRun(t) /\ (holder' = holder \/ holder' = Free)
      BY <2>1, CancelRunEffect
    <2>3. Tasks' = Tasks /\ \A u \in Tasks : Ended(u) => Ended(u)'
      BY <2>1, <2>2 DEF OnlyRun, Ended
    <2> QED BY <2>1, <2>2, <2>3, BusyStays
  <1>3. CASE \/ \E n \in notifying : DeliverBlocking(n) \/ MarkHandled(n)
             \/ RecoverNotify \/ RecoverReady
             \/ \E w \in {"recover", "resume"} : ReadLastRun(w) \/ CompareMarker(w)
             \/ \E kind \in Kinds : RequestRecompile(kind)
             \/ \E kind \in InTransaction : RequestInTransaction(kind)
             \/ \E c \in Compiles : CommitRequest(c) \/ NotifyCompileRequestCommitted(c)
             \/ ChangeSettings \/ Stop \/ UNCHANGED vars
    <2>1. UNCHANGED <<cancelledLive, operation, halted, active, holder, tasks>>
      BY <1>3 DEF DeliverBlocking, MarkHandled, RecoverNotify, RecoverReady, ReadLastRun, CompareMarker,
                  RequestRecompile, RequestInTransaction, CommitRequest, NotifyCompileRequestCommitted, ChangeSettings,
                  Stop, vars
    <2> QED BY <2>1, BusyStays DEF Tasks, Ended
  <1> QED BY <1>1, <1>2, <1>3

\* Every step keeps BusyInv.
LEMMA NextBusy == TypeOK /\ CallsInv /\ BusyInv /\ [Next]_vars => BusyInv'
  BY RunBusy, AcquireBusy, StartBusy, OperationBusy, OtherBusy DEF Next, ServiceStep

\* At most one compile of an environment is under way, whatever requests, restarts and
\* environment operations come in between, unless a compile of an environment that was not
\* halted was cancelled.
THEOREM OneCompileAtATime == Spec => []OneCompilePerEnvironment
  <1>1. (TypeOK /\ CallsInv) /\ BusyInv /\ [Next]_vars => BusyInv'
    BY NextBusy
  <1>2. TypeOK /\ BusyInv => OneCompilePerEnvironment
    BY Alone DEF OneCompilePerEnvironment, Live
  <1>3. Init => BusyInv
    BY DEF Init, BusyInv, Tasks, Cancelling, NoOperation
  <1> QED BY <1>1, <1>2, <1>3, CompilerTypeCorrect, PTL DEF Spec

-----------------------------------------------------------------------------
(* The rows of the compile table *)

\* What every step but the deletion of the rows keeps: the rows that are there stay, as the
\* requests they are, and a row that is not there has no outcome.
Keeps ==
    /\ Compiles \subseteq Compiles' /\ \A c \in Compiles : Row(c) => Row(c)'
    /\ \A c \in Compiles : db'[c].row = "uncommitted" => db[c].row = "uncommitted"
    /\ \A c \in Compiles' : db'[c].row # "row" => NoOutcome(c)'
    /\ \A c \in Compiles' \ Compiles : NoOutcome(c)'

\* Nothing happens to the table.
LEMMA KeepsSame ==
    ASSUME Outcomes, db' = db
    PROVE  Keeps
  BY DEF Keeps, Outcomes, NoOutcome, Compiles, Row

\* Rows change, other than by being deleted.
LEMMA KeepsRows ==
    ASSUME Outcomes, Compiles' = Compiles, NEW x,
           \A c \in Compiles : SameRequest(c) /\ (c # x => db'[c] = db[c]),
           ~Row(x) => db' = db
    PROVE  Keeps
  <1>1. CASE ~Row(x)
    BY <1>1, KeepsSame
  <1>2. CASE Row(x)
    <2>1. \A c \in Compiles : db'[c].row # "row" => db'[c] = db[c]
      BY <1>2 DEF SameRequest, Row
    <2> QED BY <2>1 DEF Keeps, Outcomes, NoOutcome, SameRequest, Row
  <1> QED BY <1>1, <1>2

\* A row is added.
LEMMA KeepsAdd ==
    ASSUME Outcomes, NEW x, x \notin Compiles, Compiles' = Compiles \cup {x}, NoOutcome(x)',
           \A c \in Compiles : db'[c] = db[c]
    PROVE  Keeps
  BY DEF Keeps, Outcomes, NoOutcome, Row

\* The steps of the service and of the environment, but one.
LEMMA NextKeeps ==
    ASSUME TypeOK, CallsInv, Outcomes, [Next]_vars, ~ClearRows
    PROVE  Keeps
  <1> USE DEF persistent, envService, history, service
  <1>1. ASSUME NEW t \in Tasks, RunStep(t)
        PROVE  Keeps
    <2>1. CASE BeginRun(t)
      <3>1. PICK c : c = tasks[t].compile
        OBVIOUS
      <3>2. /\ Compiles' = Compiles /\ (~Row(c) => db' = db)
            /\ \A d \in Compiles : SameRequest(d) /\ (d # c => db'[d] = db[d])
        BY <2>1, <3>1, BeginRunEffect
      <3> QED BY <3>2, KeepsRows
    <2>2. CASE RunCompiler(t)
      <3>1. PICK c : c = tasks[t].compile
        OBVIOUS
      <3>2. /\ Compiles' = Compiles /\ (~Row(c) => db' = db)
            /\ \A d \in Compiles : SameRequest(d) /\ (d # c => db'[d] = db[d])
        BY <2>2, <3>1, RunCompilerEffect
      <3> QED BY <3>2, KeepsRows
    <2>3. CASE WriteLastCompileMarker(t) \/ NotifyListeners(t) \/ FinishRun(t)
      <3>1. db' = db
        BY <2>3 DEF WriteLastCompileMarker, NotifyListeners, FinishRun
      <3> QED BY <3>1, KeepsSame
    <2>4. ASSUME NEW d \in Compiles, CompleteMerged(t, d)
          PROVE  Keeps
      <3>1. /\ Compiles' = Compiles /\ Row(d)
            /\ \A e \in Compiles : SameRequest(e) /\ (e # d => db'[e] = db[e])
        BY <2>4, CompleteMergedEffect
      <3> QED BY <3>1, KeepsRows
    <2> QED BY <1>1, <2>1, <2>2, <2>3, <2>4 DEF RunStep
  <1>2. ASSUME NEW n \in notifying, MarkHandled(n)
        PROVE  Keeps
    <2>1. PICK c : c = n.compile
      OBVIOUS
    <2>2. /\ Compiles' = Compiles /\ (~Row(c) => db' = db)
          /\ \A d \in Compiles : SameRequest(d) /\ (d # c => db'[d] = db[d])
      BY <1>2, <2>1, MarkHandledEffect
    <2> QED BY <2>2, KeepsRows
  <1>3. ASSUME NEW k \in Keys, NEW f \in BOOLEAN, InsertAndProcess(k, f)
        PROVE  Keeps
    <2>1. PICK x : x = Len(db) + 1
      OBVIOUS
    <2>2. /\ x \notin Compiles /\ Compiles' = Compiles \cup {x} /\ NoOutcome(x)'
          /\ \A c \in Compiles : db'[c] = db[c]
      BY <1>3, <2>1, InsertEffect DEF NoOutcome
    <2> QED BY <2>2, KeepsAdd
  <1>4. CASE \/ \E w \in {"recover", "resume"} : CompareMarker(w)
             \/ \E kind \in Kinds : RequestRecompile(kind)
    <2>1. ASSUME NEW kind \in Kinds, RequestRecompile(kind)
          PROVE  Keeps
      <3>1. kind[1] \in Keys /\ kind[2] \in BOOLEAN /\ InsertAndProcess(kind[1], kind[2])
        BY <2>1, CompilerAssumption DEF RequestRecompile
      <3> QED BY <1>3, <3>1
    <2>2. ASSUME NEW w \in {"recover", "resume"}, CompareMarker(w)
          PROVE  Keeps
      <3>1. CASE InsertAndProcess(RecoveryKey, TRUE)
        BY <1>3, <3>1, CompilerAssumption
      <3>2. CASE db' = db
        BY <3>2, KeepsSame
      <3> QED BY <2>2, <3>1, <3>2 DEF CompareMarker
    <2> QED BY <1>4, <2>1, <2>2
  <1>5. ASSUME NEW kind \in InTransaction, RequestInTransaction(kind)
        PROVE  Keeps
    <2>1. PICK x : x = Len(db) + 1
      OBVIOUS
    <2>2. /\ x \notin Compiles /\ Compiles' = Compiles \cup {x} /\ NoOutcome(x)'
          /\ \A c \in Compiles : db'[c] = db[c]
      BY <1>5, <2>1, InsertHiddenEffect DEF NoOutcome
    <2> QED BY <2>2, KeepsAdd
  <1>6. ASSUME NEW c \in Compiles, CommitRequest(c)
        PROVE  Keeps
    <2>1. /\ Compiles' = Compiles /\ \A d \in Compiles : d # c => db'[d] = db[d]
          /\ db'[c].row = "row"
      BY <1>6, CommitEffect
    <2> QED BY <2>1 DEF Keeps, Outcomes, NoOutcome, Row
  <1>7. CASE Restart
    <2>1. PICK gone : gone = {c \in Compiles : db[c].row = "uncommitted"}
      OBVIOUS
    <2>2. db' = [c \in Compiles |-> IF c \in gone THEN NoRow ELSE db[c]]
      BY <1>7, <2>1 DEF Restart
    <2>3. /\ Compiles' = Compiles
          /\ \A c \in Compiles : IF c \in gone THEN db'[c] = NoRow ELSE db'[c] = db[c]
          /\ NoRow.row = "deleted" /\ ~NoRow.handled /\ NoRow.completed = 0 /\ NoRow.substitute = 0
          /\ ~NoRow.started
      BY <2>2, DeleteEffect
    <2> QED BY <2>1, <2>3 DEF Keeps, Outcomes, NoOutcome, Row
  <1>8. CASE \/ \E n \in notifying : DeliverBlocking(n)
             \/ \E call \in calls : AcquireAndFetch(call)
             \/ StartOrLeave \/ RecoverNotify \/ RecoverReady
             \/ \E w \in {"recover", "resume"} : ReadLastRun(w)
             \/ \E c \in Compiles : NotifyCompileRequestCommitted(c)
             \/ EndResume \/ EnterClear \/ CancelCompile \/ DeleteEnvironmentDir
             \/ RecalculateQueueCount \/ EndClear \/ Halt \/ Resume \/ RequestClear \/ ChangeSettings
             \/ Stop \/ (\E t \in Tasks : CancelOnStop(t)) \/ UNCHANGED vars
    <2>1. db' = db
      BY <1>8 DEF DeliverBlocking, AcquireAndFetch, StartOrLeave, RecoverNotify, RecoverReady, ReadLastRun,
                  NotifyCompileRequestCommitted, EndResume, EnterClear, CancelCompile, DeleteEnvironmentDir,
                  RecalculateQueueCount, EndClear, Halt, Resume, RequestClear, ChangeSettings, Stop, CancelOnStop, vars
    <2> QED BY <2>1, KeepsSame
  <1> QED BY <1>1, <1>2, <1>4, <1>5, <1>6, <1>7, <1>8 DEF Next, ServiceStep

\* A run goes on with its compile.
Continues(t) ==
    /\ t \in Tasks /\ ~Ended(t) /\ tasks'[t].compile = tasks[t].compile
    /\ RunStep(t) \/ (tasks'[t].pc = tasks[t].pc /\ tasks'[t].merged = tasks[t].merged)

\* A run that is under way after a step was so before, or has just started.
LEMMA RunFrame ==
    ASSUME TypeOK, CallsInv, [Next]_vars, NEW t \in Tasks', ~(Ended(t)')
    PROVE  Continues(t) \/ (StartOrLeave /\ t = Len(tasks) + 1 /\ Started(t))
  <1> USE DEF persistent, envService, history, service
  <1>1. ASSUME NEW u \in Tasks, RunStep(u)
        PROVE  Continues(t)
    <2>1. OnlyRun(u) /\ ~Ended(u) /\ (Ended(u)' \/ tasks'[u].compile = tasks[u].compile)
      BY <1>1, RunStepEffect
    <2>2. t \in Tasks /\ (t # u => tasks'[t] = tasks[t])
      BY <2>1 DEF OnlyRun
    <2> QED BY <1>1, <2>1, <2>2 DEF Continues, Ended
  <1>1a. ASSUME NEW u \in Tasks, CancelRun(u)
         PROVE  Continues(t)
    <2>1. /\ OnlyRun(u)
          /\ \/ Ended(u)'
             \/ /\ tasks[u].pc = "compiling" /\ tasks'[u].pc = "compiling"
                /\ tasks'[u].compile = tasks[u].compile /\ tasks'[u].merged = tasks[u].merged
      BY <1>1a, CancelRunEffect
    <2>2. t \in Tasks /\ (t # u => tasks'[t] = tasks[t])
      BY <2>1 DEF OnlyRun
    <2> QED BY <2>1, <2>2 DEF Continues, Ended
  <1>2. ASSUME NEW call \in calls, AcquireAndFetch(call)
        PROVE  Continues(t)
    <2>1. CASE Returned(call)
      <3>1. t \in Tasks /\ ~ReturnsTo(call, t) /\ tasks'[t] = tasks[t]
        BY <2>1 DEF Returned
      <3> QED BY <3>1 DEF Continues, Ended
    <2>2. CASE Fetched(call)
      BY <2>2 DEF Fetched, Continues, Ended, Tasks
    <2> QED BY <1>2, <2>1, <2>2, AcquireEffect
  <1>3. CASE StartOrLeave
    <2>1. /\ \A u \in Tasks : IF ReturnsTo(holder.call, u) THEN Ended(u)' ELSE tasks'[u] = tasks[u]
          /\ Started(Len(tasks) + 1) \/ Left
      BY <1>3, StartEffect
    <2>2. CASE t \in Tasks
      BY <2>1, <2>2 DEF Continues, Ended
    <2>3. CASE t \notin Tasks
      <3>1. PICK new : new = Len(tasks) + 1
        OBVIOUS
      <3>2. Started(new)
        BY <2>1, <2>3, <3>1 DEF Left
      <3>3. t = new
        BY <2>3, <3>2 DEF Started
      <3> QED BY <1>3, <3>1, <3>2, <3>3
    <2> QED BY <2>2, <2>3
  <1>4. CASE CancelCompile
    <2>1. CASE tasks' = tasks
      BY <2>1 DEF Continues, Ended, Tasks
    <2>2. CASE active # 0 /\ CancelRun(active)
      <3>1. PICK u : u = active
        OBVIOUS
      <3>2. u \in Tasks /\ CancelRun(u)
        BY <2>2, <3>1, Typing DEF TypeOK, CancelRun, EndHere
      <3> QED BY <1>1a, <3>2
    <2> QED BY <1>4, <2>1, <2>2 DEF CancelCompile
  <1>5. CASE Restart
    BY <1>5 DEF Restart, Tasks
  <1>6. CASE \/ \E n \in notifying : DeliverBlocking(n) \/ MarkHandled(n)
             \/ RecoverNotify \/ RecoverReady
             \/ \E w \in {"recover", "resume"} : ReadLastRun(w) \/ CompareMarker(w)
             \/ \E kind \in Kinds : RequestRecompile(kind)
             \/ \E kind \in InTransaction : RequestInTransaction(kind)
             \/ \E c \in Compiles : CommitRequest(c) \/ NotifyCompileRequestCommitted(c)
             \/ EndResume \/ EnterClear \/ DeleteEnvironmentDir \/ ClearRows
             \/ RecalculateQueueCount \/ EndClear \/ Halt \/ Resume \/ RequestClear \/ ChangeSettings
             \/ Stop \/ UNCHANGED vars
    <2>1. tasks' = tasks
      BY <1>6 DEF DeliverBlocking, MarkHandled, RecoverNotify, RecoverReady, ReadLastRun, CompareMarker,
                  RequestRecompile, RequestInTransaction, CommitRequest, NotifyCompileRequestCommitted,
                  EndResume, EnterClear, DeleteEnvironmentDir, ClearRows, RecalculateQueueCount, EndClear,
                  Halt, Resume, RequestClear, ChangeSettings, Stop, vars
    <2> QED BY <2>1 DEF Continues, Ended, Tasks
  <1>7. ASSUME NEW u \in Tasks, CancelOnStop(u)
        PROVE  Continues(t)
    BY <1>1a, <1>7 DEF CancelOnStop
  <1> QED BY <1>1, <1>7, <1>2, <1>3, <1>4, <1>5, <1>6 DEF Next, ServiceStep

\* The lock is kept, released, or taken by a call that fetches the oldest compile.
LEMMA HolderFrame ==
    ASSUME TypeOK, CallsInv, [Next]_vars
    PROVE  holder' \in {holder, Free} \/ \E call \in calls : Fetched(call) /\ AcquireAndFetch(call)
  <1> USE DEF persistent, envService, history, service
  <1>1. ASSUME NEW call \in calls, AcquireAndFetch(call)
        PROVE  holder' = holder \/ Fetched(call)
    BY <1>1, AcquireEffect DEF Returned
  <1>2. CASE StartOrLeave \/ Restart
    BY <1>2 DEF StartOrLeave, Restart
  <1>3. ASSUME NEW t \in Tasks, CancelRun(t)
        PROVE  holder' \in {holder, Free}
    BY <1>3, CancelRunEffect
  <1>4. CASE CancelCompile
    <2>1. CASE holder' = holder
      BY <2>1
    <2>2. CASE active # 0 /\ CancelRun(active)
      <3>1. PICK u : u = active
        OBVIOUS
      <3>2. u \in Tasks /\ CancelRun(u)
        BY <2>2, <3>1, Typing DEF TypeOK, CancelRun, EndHere
      <3> QED BY <1>3, <3>2
    <2> QED BY <1>4, <2>1, <2>2 DEF CancelCompile
  <1>5. ASSUME NEW t \in Tasks, CancelOnStop(t)
        PROVE  holder' \in {holder, Free}
    BY <1>3, <1>5 DEF CancelOnStop
  <1>6. ASSUME NEW t \in Tasks, RunStep(t)
        PROVE  holder' = holder
    BY <1>6 DEF RunStep, BeginRun, RunCompiler, WriteLastCompileMarker, NotifyListeners, FinishRun, CompleteMerged
  <1>7. CASE \/ \E n \in notifying : DeliverBlocking(n) \/ MarkHandled(n)
             \/ RecoverNotify \/ RecoverReady
             \/ \E w \in {"recover", "resume"} : ReadLastRun(w) \/ CompareMarker(w)
             \/ \E kind \in Kinds : RequestRecompile(kind)
             \/ \E kind \in InTransaction : RequestInTransaction(kind)
             \/ \E c \in Compiles : CommitRequest(c) \/ NotifyCompileRequestCommitted(c)
             \/ EndResume \/ EnterClear \/ DeleteEnvironmentDir \/ ClearRows
             \/ RecalculateQueueCount \/ EndClear \/ Halt \/ Resume \/ RequestClear \/ ChangeSettings
             \/ Stop \/ UNCHANGED vars
    BY <1>7 DEF DeliverBlocking, MarkHandled, RecoverNotify, RecoverReady, ReadLastRun, CompareMarker,
                RequestRecompile, RequestInTransaction, CommitRequest, NotifyCompileRequestCommitted,
                EndResume, EnterClear, DeleteEnvironmentDir, ClearRows, RecalculateQueueCount, EndClear,
                Halt, Resume, RequestClear, ChangeSettings, Stop, vars
  <1> QED BY <1>1, <1>2, <1>4, <1>5, <1>6, <1>7 DEF Next, ServiceStep

\* Only cancel_compile tells whether the environment was halted.
LEMMA CancelledStays ==
    ASSUME TypeOK, [Next]_vars, ~cancelledLive'
    PROVE  ~cancelledLive
  <1> USE DEF persistent, envService, history, service
  <1>1. CASE CancelCompile
    BY <1>1 DEF CancelCompile
  <1>2. CASE \/ \E n \in notifying : DeliverBlocking(n) \/ MarkHandled(n)
             \/ RecoverNotify \/ RecoverReady
             \/ \E w \in {"recover", "resume"} : ReadLastRun(w) \/ CompareMarker(w)
             \/ \E kind \in Kinds : RequestRecompile(kind)
             \/ \E kind \in InTransaction : RequestInTransaction(kind)
             \/ \E c \in Compiles : CommitRequest(c) \/ NotifyCompileRequestCommitted(c)
             \/ EndResume \/ EnterClear \/ DeleteEnvironmentDir \/ ClearRows
             \/ RecalculateQueueCount \/ EndClear \/ Halt \/ Resume \/ RequestClear \/ ChangeSettings
             \/ Stop \/ UNCHANGED vars
    BY <1>2 DEF DeliverBlocking, MarkHandled, RecoverNotify, RecoverReady, ReadLastRun, CompareMarker,
                RequestRecompile, RequestInTransaction, CommitRequest, NotifyCompileRequestCommitted,
                EndResume, EnterClear, DeleteEnvironmentDir, ClearRows, RecalculateQueueCount, EndClear,
                Halt, Resume, RequestClear, ChangeSettings, Stop, vars
  <1>3. CASE \/ (\E t \in Tasks : RunStep(t) \/ CancelOnStop(t)) \/ (\E call \in calls : AcquireAndFetch(call))
             \/ StartOrLeave \/ Restart
    BY <1>3 DEF RunStep, BeginRun, RunCompiler, WriteLastCompileMarker, NotifyListeners, FinishRun, CompleteMerged,
                CancelOnStop, AcquireAndFetch, StartOrLeave, Restart
  <1> QED BY <1>1, <1>2, <1>3 DEF Next, ServiceStep

\* Every step keeps RowsInv: the rows are deleted when no run is under way.
LEMMA NextRows == TypeOK /\ CallsInv /\ BusyInv /\ RowsInv /\ [Next]_vars => RowsInv'
  <1> SUFFICES ASSUME TypeOK, CallsInv, BusyInv, RowsInv, [Next]_vars PROVE RowsInv'
    OBVIOUS
  <1>0. Outcomes /\ Free.next = 0
    BY DEF RowsInv, Free
  <1>1. CASE ClearRows
    <2>1. PICK gone : gone = {c \in Compiles : Row(c)}
      OBVIOUS
    <2>2. /\ db' = [c \in Compiles |-> IF c \in gone THEN NoRow ELSE db[c]]
          /\ UNCHANGED <<cancelledLive, holder, tasks, active>> /\ operation.pc = "rows"
      BY <1>1, <2>1 DEF ClearRows, service, history
    <2>3. /\ Compiles' = Compiles
          /\ \A c \in Compiles : IF c \in gone THEN db'[c] = NoRow ELSE db'[c] = db[c]
          /\ NoRow.row = "deleted" /\ ~NoRow.handled /\ NoRow.completed = 0 /\ NoRow.substitute = 0
          /\ ~NoRow.started
      BY <2>2, DeleteEffect
    <2>4. Outcomes'
      BY <1>0, <2>1, <2>3 DEF Outcomes, NoOutcome, Row
    <2>5. ~cancelledLive => (\A t \in Tasks : Ended(t)) /\ (holder # Free => holder.halted)
      BY <2>2, Typing DEF BusyInv, Cancelling
    <2> QED BY <2>2, <2>4, <2>5 DEF RowsInv, Tasks, Ended, Free, NoCall
  <1>2. CASE ~ClearRows
    <2>1. Keeps
      BY <1>0, <1>2, NextKeeps
    <2>2. Outcomes'
      BY <2>1 DEF Keeps, Outcomes
    <2>3. \A c : Row(c) => Row(c)'
      BY <2>1 DEF Keeps, Row
    <2>4. ASSUME ~cancelledLive', NEW t \in Tasks', ~(Ended(t)')
          PROVE  \A c : c = tasks'[t].compile => Row(c)'
      <3>1. ~cancelledLive
        BY <2>4, CancelledStays
      <3> SUFFICES ASSUME NEW c, c = tasks'[t].compile PROVE Row(c)'
        OBVIOUS
      <3>2. c = tasks'[t].compile
        OBVIOUS
      <3>3. Row(c)
        <4>1. CASE Continues(t)
          BY <3>1, <3>2, <4>1 DEF RowsInv, Continues
        <4>2. CASE StartOrLeave /\ Started(t)
          BY <3>1, <3>2, <4>2, StartEffect DEF RowsInv, Started
        <4> QED BY <2>4, <4>1, <4>2, RunFrame
      <3> QED BY <2>3, <3>3
    <2>5. ASSUME ~cancelledLive', holder' # Free, ~holder'.halted
          PROVE  \A c : c = holder'.next => Row(c)'
      <3>1. ~cancelledLive
        BY <2>5, CancelledStays
      <3> SUFFICES ASSUME NEW c, c = holder'.next PROVE Row(c)'
        OBVIOUS
      <3>2. c = holder'.next
        OBVIOUS
      <3>3. Row(c)
        <4>1. CASE holder' = holder
          BY <2>5, <3>1, <3>2, <4>1 DEF RowsInv
        <4>2. ASSUME NEW call \in calls, Fetched(call)
              PROVE  Row(c)
          BY <3>2, <4>2 DEF Fetched, Incomplete
        <4> QED BY <2>5, <4>1, <4>2, HolderFrame
      <3> QED BY <2>3, <3>3
    <2> QED BY <2>2, <2>4, <2>5 DEF RowsInv, Free, NoCall, Row, Compiles, Tasks
  <1> QED BY <1>1, <1>2

-----------------------------------------------------------------------------
(* Blocking listeners come before the next compile *)

\* The compile completes, on its own or as a merged one.
Incurs(c) == \E t \in Tasks : (RunCompiler(t) /\ c = tasks[t].compile) \/ CompleteMerged(t, c)

\* No other step makes a debt.
LEMMA DebtFrame ==
    ASSUME TypeOK, CallsInv, Outcomes, [Next]_vars, NEW c, Debt(c)'
    PROVE  c \in Compiles /\ (Debt(c) \/ Incurs(c))
  <1> USE DEF persistent, envService, history, service
  <1>0. c \in Compiles' /\ db'[c].row = "row" /\ db'[c].completed # 0 /\ ~db'[c].handled
        /\ <<c, "blocking">> \notin delivered'
    BY DEF Debt, Unhandled, Row
  <1>1. ASSUME c \in Compiles, db[c].completed # 0, ~db[c].handled, delivered \subseteq delivered'
        PROVE  Debt(c)
    BY <1>0, <1>1 DEF Debt, Unhandled, Row, Outcomes, NoOutcome
  <1>2. ASSUME db' = db, delivered \subseteq delivered'
        PROVE  c \in Compiles /\ Debt(c)
    BY <1>0, <1>1, <1>2 DEF Compiles
  <1>3. ASSUME NEW t \in Tasks, RunStep(t)
        PROVE  c \in Compiles /\ (Debt(c) \/ Incurs(c))
    <2>0. delivered' = delivered
      BY <1>3 DEF RunStep, BeginRun, RunCompiler, WriteLastCompileMarker, NotifyListeners, FinishRun, CompleteMerged
    <2>1. CASE BeginRun(t)
      <3>1. /\ Compiles' = Compiles
            /\ \A d \in Compiles : db'[d].completed = db[d].completed /\ db'[d].handled = db[d].handled
        BY <2>1, BeginRunEffect
      <3> QED BY <1>0, <1>1, <2>0, <3>1
    <2>2. CASE RunCompiler(t)
      <3>1. Compiles' = Compiles /\ \A d \in Compiles : d # tasks[t].compile => db'[d] = db[d]
        BY <2>2, RunCompilerEffect
      <3> QED BY <1>0, <1>1, <2>0, <2>2, <3>1 DEF Incurs
    <2>3. CASE WriteLastCompileMarker(t) \/ NotifyListeners(t) \/ FinishRun(t)
      <3>1. db' = db
        BY <2>3 DEF WriteLastCompileMarker, NotifyListeners, FinishRun
      <3> QED BY <1>2, <2>0, <3>1
    <2>4. ASSUME NEW d \in Compiles, CompleteMerged(t, d)
          PROVE  c \in Compiles /\ (Debt(c) \/ Incurs(c))
      <3>1. Compiles' = Compiles /\ \A e \in Compiles : e # d => db'[e] = db[e]
        BY <2>4, CompleteMergedEffect
      <3> QED BY <1>0, <1>1, <2>0, <2>4, <3>1 DEF Incurs
    <2> QED BY <1>3, <2>1, <2>2, <2>3, <2>4 DEF RunStep
  <1>4. ASSUME NEW n \in notifying, MarkHandled(n)
        PROVE  c \in Compiles /\ Debt(c)
    <2>1. delivered \subseteq delivered'
      BY <1>4 DEF MarkHandled
    <2>2. /\ Compiles' = Compiles
          /\ \A d \in Compiles : db'[d].completed = db[d].completed /\ (db[d].handled => db'[d].handled)
      BY <1>4, MarkHandledEffect
    <2> QED BY <1>0, <1>1, <2>1, <2>2
  <1>5. ASSUME NEW k \in Keys, NEW f \in BOOLEAN, InsertAndProcess(k, f), delivered' = delivered
        PROVE  c \in Compiles /\ Debt(c)
    <2>1. PICK x : x = Len(db) + 1
      OBVIOUS
    <2>2. /\ Compiles' = Compiles \cup {x} /\ db'[x].completed = 0 /\ \A d \in Compiles : db'[d] = db[d]
      BY <1>5, <2>1, InsertEffect
    <2> QED BY <1>0, <1>1, <1>5, <2>2
  <1>6. ASSUME NEW w \in {"recover", "resume"}, CompareMarker(w)
        PROVE  c \in Compiles /\ Debt(c)
    <2>1. delivered' = delivered
      BY <1>6 DEF CompareMarker
    <2>2. CASE InsertAndProcess(RecoveryKey, TRUE)
      BY <1>5, <2>1, <2>2, CompilerAssumption
    <2>3. CASE db' = db
      BY <1>2, <2>1, <2>3
    <2> QED BY <1>6, <2>2, <2>3 DEF CompareMarker
  <1>7. ASSUME NEW kind \in Kinds, RequestRecompile(kind)
        PROVE  c \in Compiles /\ Debt(c)
    <2>1. kind[1] \in Keys /\ kind[2] \in BOOLEAN /\ InsertAndProcess(kind[1], kind[2]) /\ delivered' = delivered
      BY <1>7, CompilerAssumption DEF RequestRecompile
    <2> QED BY <1>5, <2>1
  <1>8. ASSUME NEW kind \in InTransaction, RequestInTransaction(kind)
        PROVE  c \in Compiles /\ Debt(c)
    <2>1. PICK x : x = Len(db) + 1
      OBVIOUS
    <2>2. /\ Compiles' = Compiles \cup {x} /\ db'[x].completed = 0 /\ \A d \in Compiles : db'[d] = db[d]
      BY <1>8, <2>1, InsertHiddenEffect
    <2>3. delivered' = delivered
      BY <1>8 DEF RequestInTransaction
    <2> QED BY <1>0, <1>1, <2>2, <2>3
  <1>9. ASSUME NEW d \in Compiles, CommitRequest(d)
        PROVE  c \in Compiles /\ Debt(c)
    <2>1. Compiles' = Compiles /\ \A e \in Compiles : db'[e].completed = db[e].completed /\ db'[e].handled = db[e].handled
      BY <1>9, CommitEffect
    <2>2. delivered' = delivered
      BY <1>9 DEF CommitRequest
    <2> QED BY <1>0, <1>1, <2>1, <2>2
  <1>10. ASSUME NEW gone, db' = [d \in Compiles |-> IF d \in gone THEN NoRow ELSE db[d]], delivered' = delivered
         PROVE  c \in Compiles /\ Debt(c)
    <2>1. /\ Compiles' = Compiles /\ NoRow.completed = 0
          /\ \A d \in Compiles : IF d \in gone THEN db'[d] = NoRow ELSE db'[d] = db[d]
      BY <1>10, DeleteEffect
    <2> QED BY <1>0, <1>1, <1>10, <2>1
  <1>11. CASE ClearRows
    <2>1. PICK gone : gone = {d \in Compiles : Row(d)}
      OBVIOUS
    <2>2. db' = [d \in Compiles |-> IF d \in gone THEN NoRow ELSE db[d]] /\ delivered' = delivered
      BY <1>11, <2>1 DEF ClearRows
    <2> QED BY <1>10, <2>2
  <1>12. CASE Restart
    <2>1. PICK gone : gone = {d \in Compiles : db[d].row = "uncommitted"}
      OBVIOUS
    <2>2. db' = [d \in Compiles |-> IF d \in gone THEN NoRow ELSE db[d]] /\ delivered' = delivered
      BY <1>12, <2>1 DEF Restart
    <2> QED BY <1>10, <2>2
  <1>13. CASE \/ \E n \in notifying : DeliverBlocking(n)
              \/ \E call \in calls : AcquireAndFetch(call)
              \/ StartOrLeave \/ RecoverNotify \/ RecoverReady
              \/ \E w \in {"recover", "resume"} : ReadLastRun(w)
              \/ \E d \in Compiles : NotifyCompileRequestCommitted(d)
              \/ EndResume \/ EnterClear \/ CancelCompile \/ DeleteEnvironmentDir
              \/ RecalculateQueueCount \/ EndClear \/ Halt \/ Resume \/ RequestClear \/ ChangeSettings
              \/ Stop \/ (\E t \in Tasks : CancelOnStop(t)) \/ UNCHANGED vars
    <2>1. db' = db /\ delivered \subseteq delivered'
      BY <1>13 DEF DeliverBlocking, AcquireAndFetch, StartOrLeave, RecoverNotify, RecoverReady, ReadLastRun,
                   NotifyCompileRequestCommitted, EndResume, EnterClear, CancelCompile, DeleteEnvironmentDir,
                   RecalculateQueueCount, EndClear, Halt, Resume, RequestClear, ChangeSettings, Stop, CancelOnStop, vars
    <2> QED BY <1>2, <2>1
  <1> QED BY <1>3, <1>4, <1>6, <1>7, <1>8, <1>9, <1>11, <1>12, <1>13 DEF Next, ServiceStep

\* Whoever owes the notifications still does.
LEMMA DebtorStays ==
    ASSUME NEW c, Debtor(c), UNCHANGED <<tasks, active>>, ready' = ready,
           ~ready => flow'.recover.todo = flow.recover.todo, Pending(c) => Pending(c)',
           stopping => stopping', Cancelling => Cancelling'
    PROVE  Debtor(c)'
  BY DEF Debtor, Group, Ended

\* Only a run that has compiled, or ended, may owe notifications; before that there are no debts.
LEMMA RunDebt ==
    ASSUME TypeOK, CallsInv, BusyInv, RowsInv, DebtInv, ~cancelledLive,
           NEW t \in Tasks, RunStep(t), NEW c \in Compiles, Debt(c) \/ Incurs(c), Debt(c)'
    PROVE  Debtor(c)'
  <1> USE DEF persistent, envService, history, service
  <1>0. ready /\ (Debt(c) => Debtor(c)) /\ ~Ended(t)
    BY RunStepEffect DEF CallsInv, Tasks, DebtInv
  <1>1. t = active \/ Cancelling
    BY <1>0 DEF BusyInv, Cancelling
  <1>2. UNCHANGED <<ready, stopping, active, operation, delivered, flow>>
    BY DEF RunStep, BeginRun, RunCompiler, WriteLastCompileMarker, NotifyListeners, FinishRun, CompleteMerged
  <1>3. CASE Cancelling
    BY <1>2, <1>3 DEF Debtor, Cancelling
  <1> SUFFICES ASSUME t = active, ~Cancelling PROVE Debtor(c)'
    BY <1>1, <1>3
  <1>4. active # 0 /\ ~Ended(active) /\ active \in Tasks
    BY <1>0, Typing
  <1>5. Debt(c) => /\ c \in Group(t)
                   /\ tasks[t].pc \in {"completed", "merging"} \/ (tasks[t].pc = "notifying" /\ Pending(c))
    BY <1>0, <1>4 DEF Debtor
  <1>6. ASSUME OnlyRun(t), c \in Group(t), tasks'[t].compile = tasks[t].compile, tasks'[t].merged = tasks[t].merged,
               \/ tasks'[t].pc \in {"completed", "merging"}
               \/ tasks'[t].pc = "notifying" /\ Pending(c)'
        PROVE  Debtor(c)'
    BY <1>2, <1>4, <1>6 DEF Debtor, Group
  <1>7. CASE BeginRun(t)
    <2>1. tasks[t].pc = "backoff" /\ \A u \in Tasks : u # t => Ended(u)
      BY <1>0, <1>7, Alone DEF BeginRun, At
    <2>2. ~Incurs(c)
      BY <2>1 DEF Incurs, RunCompiler, CompleteMerged, At, Ended
    <2> QED BY <1>5, <2>1, <2>2
  <1>8. CASE RunCompiler(t)
    <2>1. /\ OnlyRun(t) /\ tasks[t].pc = "compiling" /\ tasks'[t].pc = "completed"
          /\ tasks'[t].compile = tasks[t].compile /\ tasks'[t].merged = tasks[t].merged
      BY <1>8, RunCompilerEffect
    <2>2. \A u \in Tasks : u # t => Ended(u)
      BY <1>0, Alone
    <2>3. c = tasks[t].compile
      <3>1. ~Debt(c)
        BY <1>5, <2>1
      <3>2. PICK u \in Tasks : (RunCompiler(u) /\ c = tasks[u].compile) \/ CompleteMerged(u, c)
        BY <3>1 DEF Incurs
      <3>3. u = t
        BY <2>2, <3>2 DEF RunCompiler, CompleteMerged, At, Ended
      <3> QED BY <2>1, <3>2, <3>3 DEF CompleteMerged, At
    <2>4. c \in Group(t)
      BY <2>3 DEF Group
    <2> QED BY <1>6, <2>1, <2>4
  <1>9. ASSUME ~Incurs(c)
        PROVE  Debt(c) /\ c \in Group(t)
    BY <1>5, <1>9
  <1>10. ASSUME tasks[t].pc \notin {"compiling", "merging"}
         PROVE  ~Incurs(c)
    <2>1. \A u \in Tasks : u # t => Ended(u)
      BY <1>0, Alone
    <2> QED BY <1>10, <2>1 DEF Incurs, RunCompiler, CompleteMerged, At, Ended
  <1>11. CASE WriteLastCompileMarker(t)
    <2>1. tasks[t].pc = "completed" /\ GoTo(t, "merging")
      BY <1>11 DEF WriteLastCompileMarker, At
    <2>2. c \in Group(t)
      BY <1>9, <1>10, <2>1
    <2> QED BY <1>6, <2>1, <2>2, GoToEffect DEF RunPhases
  <1>12. CASE NotifyListeners(t)
    <2>0. tasks[t].pc = "merging" /\ \A d \in tasks[t].merged : Merged(t, d)
      BY <1>12 DEF NotifyListeners, At
    <2>1. CASE stopping
      <3>1. tasks' = Over(tasks, t, "done")
        BY <1>12, <2>1 DEF NotifyListeners
      <3>2. Ended(t)'
        BY <3>1, OverEffect
      <3> QED BY <1>2, <1>4, <2>1, <3>2 DEF Debtor, Ended
    <2>2. CASE ~stopping
      <3>1. /\ GoTo(t, "notifying")
            /\ notifying' = notifying \cup {[compile |-> d, blocking |-> FALSE] : d \in Group(t)}
        BY <1>12, <2>2 DEF NotifyListeners
      <3>2. c \in Group(t)
        <4>1. CASE Debt(c)
          BY <1>5, <4>1
        <4>2. CASE Incurs(c)
          <5>1. PICK u \in Tasks : (RunCompiler(u) /\ c = tasks[u].compile) \/ CompleteMerged(u, c)
            BY <4>2 DEF Incurs
          <5>2. u = t
            BY <1>0, <5>1, Alone DEF RunCompiler, CompleteMerged, At, Ended
          <5> QED BY <2>0, <5>1, <5>2 DEF RunCompiler, CompleteMerged, At, Group
        <4> QED BY <4>1, <4>2
      <3>3. Pending(c)'
        BY <3>1, <3>2 DEF Pending
      <3> QED BY <1>6, <3>1, <3>2, <3>3, GoToEffect DEF RunPhases
    <2> QED BY <2>1, <2>2
  <1>13. CASE FinishRun(t)
    <2>1. tasks[t].pc = "notifying" /\ ~Blocked(Group(t))
      BY <1>13 DEF FinishRun, At
    <2>2. Debt(c) /\ c \in Group(t) /\ Pending(c)
      BY <1>5, <1>9, <1>10, <2>1
    <2> QED BY <2>1, <2>2 DEF Blocked, Pending
  <1>14. ASSUME NEW d \in Compiles, CompleteMerged(t, d)
         PROVE  Debtor(c)'
    <2>1. Row(tasks[t].compile)
      BY <1>0 DEF RowsInv
    <2>2. tasks[t].pc = "merging" /\ tasks' = tasks /\ d \in tasks[t].merged
      BY <1>14, <2>1, CompleteMergedEffect
    <2>3. c \in Group(t)
      <3>1. CASE Debt(c)
        BY <1>5, <3>1
      <3>2. CASE Incurs(c)
        <4>1. PICK u \in Tasks : (RunCompiler(u) /\ c = tasks[u].compile) \/ CompleteMerged(u, c)
          BY <3>2 DEF Incurs
        <4>2. u = t
          BY <1>0, <4>1, Alone DEF RunCompiler, CompleteMerged, At, Ended
        <4> QED BY <2>2, <4>1, <4>2 DEF RunCompiler, CompleteMerged, At, Group
      <3> QED BY <3>1, <3>2
    <2>4. OnlyRun(t)
      BY <2>2, Typing DEF OnlyRun, Tasks
    <2> QED BY <1>6, <2>2, <2>3, <2>4
  <1> QED BY <1>7, <1>8, <1>11, <1>12, <1>13, <1>14 DEF RunStep

\* When a run asks for the next compile its debts are paid; only recovery or a clear may have any.
LEMMA FinisherOwesNothing ==
    ASSUME TypeOK, BusyInv, ~cancelledLive, NEW call, call.kind = "finish", FinishesRun(call),
           NEW c, Debtor(c)
    PROVE  ~ready \/ Cancelling
  <1>1. call.id \in Tasks /\ ~Ended(call.id) /\ tasks[call.id].pc = "finishing"
    BY DEF FinishesRun, Ended
  <1>2. call.id = active \/ Cancelling
    BY <1>1 DEF BusyInv, Cancelling
  <1> QED BY <1>1, <1>2 DEF Debtor

\* A call that gets the lock, or releases it, settles no debt.
LEMMA QueueDebt ==
    ASSUME TypeOK, CallsInv, BusyInv, ~cancelledLive,
           (\E call \in calls : AcquireAndFetch(call)) \/ StartOrLeave,
           NEW c, Debtor(c)
    PROVE  Debtor(c)' /\ (StartOrLeave => ~Started(Len(tasks) + 1))
  <1> USE DEF persistent, envService, history, service
  <1>1. UNCHANGED <<ready, stopping, operation, notifying>>
    BY DEF AcquireAndFetch, StartOrLeave
  <1>2. ASSUME Cancelling
        PROVE  Debtor(c)'
    BY <1>1, <1>2 DEF Debtor, Cancelling
  <1>3. ASSUME NEW call \in calls, AcquireAndFetch(call)
        PROVE  Debtor(c)' /\ ~StartOrLeave
    <2>0. ~StartOrLeave
      BY <1>3 DEF AcquireAndFetch, StartOrLeave, Free
    <2>1. CASE Returned(call)
      <3>1. CASE call.kind = "finish"
        <4>1. ready /\ FinishesRun(call)
          BY <3>1 DEF CallsInv, FinishesRun, Tasks
        <4> QED BY <1>2, <2>0, <3>1, <4>1, FinisherOwesNothing
      <3>2. CASE call.kind # "finish"
        <4>1. active' = active /\ Tasks' = Tasks /\ \A u \in Tasks : tasks'[u] = tasks[u]
          BY <2>1, <3>2 DEF Returned, ReturnsTo
        <4>2. tasks' = tasks
          BY <2>1, <4>1, Typing DEF Returned
        <4>3. ~ready => flow'.recover.todo = flow.recover.todo
          BY <2>1 DEF Returned, CallsInv
        <4> QED BY <1>1, <2>0, <4>1, <4>2, <4>3, DebtorStays DEF Pending, Cancelling
      <3> QED BY <3>1, <3>2
    <2>2. CASE Fetched(call)
      BY <1>1, <2>0, <2>2, DebtorStays DEF Fetched, Pending, Cancelling
    <2> QED BY <1>3, <2>1, <2>2, AcquireEffect
  <1>4. CASE StartOrLeave
    <2>1. PICK call : call = holder.call
      OBVIOUS
    <2>2. /\ ready /\ holder # Free /\ FinishesRun(call) /\ tasks' \in Seq(Runs)
          /\ \A u \in Tasks : IF ReturnsTo(call, u) THEN Ended(u)' ELSE tasks'[u] = tasks[u]
          /\ Started(Len(tasks) + 1) \/ Left
      BY <1>4, <2>1, StartEffect DEF CallsInv
    <2>3. ~Started(Len(tasks) + 1)
      <3> SUFFICES ASSUME Started(Len(tasks) + 1) PROVE FALSE
        OBVIOUS
      <3>1. ~holder.halted /\ (call.kind = "finish" \/ active = 0)
        BY <2>1 DEF Started
      <3>2. ~Cancelling
        BY <2>2, <3>1 DEF BusyInv
      <3>3. active # 0
        BY <2>2, <3>2 DEF Debtor
      <3> QED BY <2>2, <3>1, <3>2, <3>3, FinisherOwesNothing
    <2>4. Tasks' = Tasks /\ Len(tasks') = Len(tasks) /\ active' = (IF call.kind = "finish" THEN 0 ELSE active)
      BY <2>1, <2>2, <2>3 DEF Left
    <2>5. CASE call.kind = "finish"
      BY <1>2, <2>2, <2>3, <2>5, FinisherOwesNothing
    <2>6. CASE call.kind # "finish"
      <3>1. tasks' = tasks
        <4>1. \A u \in Tasks : tasks'[u] = tasks[u]
          BY <2>2, <2>6 DEF ReturnsTo
        <4> QED BY <2>2, <2>4, <4>1, Typing
      <3> QED BY <1>1, <2>2, <2>3, <2>4, <2>6, <3>1, DebtorStays DEF Pending, Cancelling
    <2> QED BY <2>5, <2>6
  <1> QED BY <1>3, <1>4

\* The listeners and the recovery settle the debts in order.
LEMMA RecoveryDebt ==
    ASSUME TypeOK, CallsInv,
           \/ \E n \in notifying : DeliverBlocking(n) \/ MarkHandled(n)
           \/ RecoverNotify \/ RecoverReady
           \/ \E w \in {"recover", "resume"} : ReadLastRun(w) \/ CompareMarker(w),
           NEW c \in Compiles, Debt(c)', Debtor(c)
    PROVE  Debtor(c)'
  <1> USE DEF persistent, envService, history, service
  <1>0. flow \in [recover : Flows, resume : Flows] /\ notifying \in SUBSET [compile : Nat, blocking : BOOLEAN]
    BY DEF TypeOK
  <1>1. ASSUME NEW n \in notifying, DeliverBlocking(n) \/ MarkHandled(n)
        PROVE  Debtor(c)'
    <2>1. UNCHANGED <<ready, stopping, tasks, active, operation, flow>>
      BY <1>1 DEF DeliverBlocking, MarkHandled
    <2>2. Pending(c) => Pending(c)'
      <3>1. CASE DeliverBlocking(n)
        <4>1. n.compile # c
          BY <3>1 DEF DeliverBlocking, Debt
        <4> QED BY <3>1, <4>1 DEF DeliverBlocking, Pending
      <3>2. CASE MarkHandled(n)
        BY <3>2 DEF MarkHandled, may_be_handled, Pending
      <3> QED BY <1>1, <3>1, <3>2
    <2> QED BY <2>1, <2>2, DebtorStays DEF Cancelling
  <1>2. CASE RecoverNotify
    <2>1. UNCHANGED <<ready, stopping, tasks, active, operation>>
      BY <1>2 DEF RecoverNotify
    <2>2. PICK d : /\ notifying' = notifying \cup {[compile |-> d, blocking |-> FALSE]}
                   /\ flow' = [flow EXCEPT !.recover.todo = @ \ {d}]
      BY <1>2 DEF RecoverNotify
    <2>3. flow'.recover.todo = flow.recover.todo \ {d}
      <3> DEFINE x == [flow.recover EXCEPT !.todo = flow.recover.todo \ {d}]
      <3>1. x.todo = flow.recover.todo \ {d}
        BY <1>0 DEF Flows
      <3>2. flow' = [flow EXCEPT !["recover"] = x]
        BY <1>0, <2>2
      <3> HIDE DEF x
      <3> QED BY <1>0, <3>1, <3>2
    <2>4. (Pending(c) => Pending(c)') /\ Pending(d)'
      BY <2>2 DEF Pending
    <2> QED BY <2>1, <2>3, <2>4 DEF Debtor, Group, Ended, Cancelling
  <1>3. CASE RecoverReady
    <2>1. UNCHANGED <<stopping, tasks, active, operation, notifying>>
      BY <1>3 DEF RecoverReady
    <2>2. flow.recover.todo = {} /\ ~Blocked(Compiles)
      BY <1>3 DEF RecoverReady
    <2>3. ~Pending(c)
      BY <2>2 DEF Blocked, Pending
    <2> QED BY <2>1, <2>2, <2>3 DEF Debtor, Group, Ended, Cancelling, Pending
  <1>4. ASSUME NEW w \in {"recover", "resume"}, ReadLastRun(w) \/ CompareMarker(w)
        PROVE  Debtor(c)'
    <2>1. UNCHANGED <<ready, stopping, tasks, active, operation, notifying>>
      BY <1>4 DEF ReadLastRun, CompareMarker
    <2>2. ~ready => w # "recover"
      BY <1>4 DEF ReadLastRun, CompareMarker, CallsInv
    <2>3. ~ready => flow'.recover = flow.recover
      BY <1>0, <1>4, <2>2 DEF ReadLastRun, CompareMarker
    <2> QED BY <2>1, <2>3, DebtorStays DEF Pending, Cancelling
  <1> QED BY <1>1, <1>2, <1>3, <1>4

\* Requests and environment operations leave the debts to who has them; cancel_compile and
\* what follows take them over, until the rows are deleted.
LEMMA OperationDebt ==
    ASSUME TypeOK, CallsInv,
           \/ \E kind \in Kinds : RequestRecompile(kind)
           \/ \E kind \in InTransaction : RequestInTransaction(kind)
           \/ \E d \in Compiles : CommitRequest(d) \/ NotifyCompileRequestCommitted(d)
           \/ EndResume \/ EnterClear \/ CancelCompile \/ DeleteEnvironmentDir
           \/ RecalculateQueueCount \/ EndClear \/ Halt \/ Resume \/ RequestClear \/ ChangeSettings \/ Stop \/ UNCHANGED vars,
           NEW c \in Compiles, Debtor(c)
    PROVE  Debtor(c)'
  <1> USE DEF persistent, envService, history, service
  <1>0. operation \in Operations /\ flow \in [recover : Flows, resume : Flows]
    BY DEF TypeOK
  <1>1. CASE CancelCompile \/ DeleteEnvironmentDir
    BY <1>0, <1>1 DEF CancelCompile, DeleteEnvironmentDir, Debtor, Cancelling, Operations
  <1>2. CASE Resume \/ EndClear
    <2>1. UNCHANGED <<ready, stopping, tasks, active, notifying>>
      BY <1>2 DEF Resume, EndClear
    <2>2. flow'.recover = flow.recover
      BY <1>0, <1>2 DEF Resume, EndClear, ResumeWith
    <2>3. ~Cancelling
      BY <1>2 DEF Resume, EndClear, Cancelling, NoOperation
    <2> QED BY <2>1, <2>2, <2>3, DebtorStays DEF Pending
  <1>3. CASE EndResume \/ EnterClear \/ RecalculateQueueCount \/ Halt
    <2>1. UNCHANGED <<ready, stopping, tasks, active, notifying, flow>>
      BY <1>3 DEF EndResume, EnterClear, RecalculateQueueCount, Halt
    <2>2. ~Cancelling
      BY <1>3 DEF EndResume, EnterClear, RecalculateQueueCount, Halt, Cancelling, NoOperation
    <2> QED BY <2>1, <2>2, DebtorStays DEF Pending
  <1>4. CASE \/ \E kind \in Kinds : RequestRecompile(kind)
             \/ \E kind \in InTransaction : RequestInTransaction(kind)
             \/ \E d \in Compiles : CommitRequest(d) \/ NotifyCompileRequestCommitted(d)
             \/ RequestClear \/ ChangeSettings \/ UNCHANGED vars
    <2>1. UNCHANGED <<ready, stopping, tasks, active, notifying, flow, operation>>
      BY <1>4 DEF RequestRecompile, RequestInTransaction, CommitRequest, NotifyCompileRequestCommitted,
                  RequestClear, ChangeSettings, vars
    <2> QED BY <2>1, DebtorStays DEF Pending, Cancelling
  <1>5. CASE Stop
    <2>1. UNCHANGED <<ready, tasks, active, notifying, flow, operation>> /\ stopping'
      BY <1>5 DEF Stop
    <2> QED BY <2>1, DebtorStays DEF Pending, Cancelling
  <1> QED BY <1>1, <1>2, <1>3, <1>4, <1>5

\* A server that stops cancels its runs: the next one notifies what they owe.
LEMMA StopDebt ==
    ASSUME TypeOK, CallsInv, BusyInv, DebtInv, ~cancelledLive,
           Restart \/ \E t \in Tasks : CancelOnStop(t),
           NEW c \in Compiles, Debt(c)
    PROVE  Debtor(c)'
  <1> USE DEF persistent, envService, history, service
  <1>1. CASE Restart
    <2>1. ready' = FALSE /\ flow'.recover.todo = Unhandled
      BY <1>1 DEF Restart, IdleFlow
    <2> QED BY <2>1 DEF Debtor, Debt
  <1>2. ASSUME NEW t \in Tasks, CancelOnStop(t)
        PROVE  Debtor(c)'
    <2>1. UNCHANGED <<ready, stopping, active, operation>> /\ stopping /\ CancelRun(t) /\ ~Ended(t)
      BY <1>2 DEF CancelOnStop
    <2>2. Ended(t)'
      <3>1. tasks[t].pc # "compiling"
        BY DEF DebtInv
      <3> QED BY <2>1, <3>1, CancelRunEffect
    <2>3. t = active \/ Cancelling
      BY <2>1 DEF BusyInv, Cancelling
    <2>4. t # 0
      BY Typing
    <2> QED BY <2>1, <2>2, <2>3, <2>4 DEF Debtor, Cancelling, Ended
  <1> QED BY <1>1, <1>2

\* Every debt has a debtor after every step.
LEMMA DebtorsKept ==
    ASSUME TypeOK, CallsInv, BusyInv, RowsInv, DebtInv, [Next]_vars, ~cancelledLive,
           NEW c, Debt(c)'
    PROVE  Debtor(c)'
  <1>0. c \in Compiles /\ (Debt(c) \/ Incurs(c))
    BY DebtFrame DEF RowsInv
  <1>1. ASSUME NEW t \in Tasks, RunStep(t)
        PROVE  Debtor(c)'
    BY <1>0, <1>1, RunDebt
  <1>2. CASE ~\E t \in Tasks : RunStep(t)
    <2>1. Debt(c) /\ Debtor(c)
      BY <1>0, <1>2 DEF Incurs, RunStep, DebtInv
    <2>2. CASE ClearRows
      <3>1. PICK gone : gone = {d \in Compiles : Row(d)}
        OBVIOUS
      <3>2. db' = [d \in Compiles |-> IF d \in gone THEN NoRow ELSE db[d]]
        BY <2>2, <3>1 DEF ClearRows
      <3>3. NoRow.row = "deleted" /\ \A d \in Compiles : IF d \in gone THEN db'[d] = NoRow ELSE db'[d] = db[d]
        BY <3>2, DeleteEffect
      <3> QED BY <1>0, <2>1, <3>1, <3>3 DEF Debt, Unhandled, Row
    <2> QED BY <1>0, <1>2, <2>1, <2>2, QueueDebt, RecoveryDebt, OperationDebt, StopDebt DEF Next, ServiceStep
  <1> QED BY <1>1, <1>2

\* No step makes a debt while a run has not compiled yet, and none starts a run over a debt.
LEMMA NextDebt == TypeOK /\ CallsInv /\ BusyInv /\ RowsInv /\ DebtInv /\ [Next]_vars => DebtInv'
  <1> SUFFICES ASSUME TypeOK, CallsInv, BusyInv, RowsInv, DebtInv, [Next]_vars, ~cancelledLive'
               PROVE  /\ \A c \in Compiles' : Debt(c)' => Debtor(c)'
                      /\ \A t \in Tasks' : tasks'[t].pc \in {"backoff", "compiling"} =>
                             \A c \in Compiles' : ~(Debt(c)')
    BY DEF DebtInv
  <1>1. ~cancelledLive
    BY CancelledStays
  <1>2. \A c \in Compiles' : Debt(c)' => Debtor(c)'
    BY <1>1, DebtorsKept
  <1>3. ASSUME NEW t \in Tasks', tasks'[t].pc \in {"backoff", "compiling"}, NEW c \in Compiles', Debt(c)'
        PROVE  FALSE
    <2>0. ~(Ended(t)')
      BY <1>3 DEF Ended
    <2>1. c \in Compiles /\ (Debt(c) \/ Incurs(c))
      BY <1>3, DebtFrame DEF RowsInv
    <2>2. CASE Continues(t)
      <3>1. t \in Tasks /\ ~Ended(t) /\ \A u \in Tasks : u # t => Ended(u)
        BY <1>1, <2>2, Alone DEF Continues
      <3>2. tasks[t].pc \in {"backoff", "compiling"} /\ ~RunCompiler(t)
        <4>1. CASE RunStep(t)
          <5>1. ~RunCompiler(t)
            BY <1>3, <3>1, RunCompilerEffect
          <5>2. BeginRun(t)
            <6>1. ~WriteLastCompileMarker(t)
              BY <1>3, <3>1, GoToEffect DEF WriteLastCompileMarker, RunPhases
            <6>2. ~FinishRun(t)
              BY <1>3, <3>1, GoToEffect DEF FinishRun, RunPhases
            <6>3. ~NotifyListeners(t)
              BY <1>3, <2>0, <3>1, GoToEffect, OverEffect DEF NotifyListeners, RunPhases
            <6>4. ASSUME NEW d \in Compiles, CompleteMerged(t, d)
                  PROVE  FALSE
              <7>1. tasks[t].pc = "merging" /\ (tasks' = tasks \/ Ended(t)')
                BY <3>1, <6>4, CompleteMergedEffect
              <7> QED BY <1>3, <2>0, <7>1
            <6> QED BY <4>1, <5>1, <6>1, <6>2, <6>3, <6>4 DEF RunStep
          <5> QED BY <5>1, <5>2 DEF BeginRun, At
        <4>2. CASE tasks'[t].pc = tasks[t].pc /\ ~RunStep(t)
          BY <1>3, <4>2 DEF RunStep
        <4> QED BY <2>2, <4>1, <4>2 DEF Continues
      <3>3. ~Debt(c)
        BY <1>1, <2>1, <3>1, <3>2 DEF DebtInv
      <3>4. PICK u \in Tasks : (RunCompiler(u) /\ c = tasks[u].compile) \/ CompleteMerged(u, c)
        BY <2>1, <3>3 DEF Incurs
      <3>5. u = t
        BY <3>1, <3>4 DEF RunCompiler, CompleteMerged, At, Ended
      <3> QED BY <3>2, <3>4, <3>5 DEF CompleteMerged, At
    <2>3. CASE StartOrLeave /\ t = Len(tasks) + 1 /\ Started(t)
      <3>1. ~Debtor(c)
        <4> SUFFICES ASSUME Debtor(c) PROVE FALSE
          OBVIOUS
        <4>1. ~Started(Len(tasks) + 1)
          BY <1>1, <2>3, QueueDebt
        <4> QED BY <2>3, <4>1
      <3>2. Debt(c)
        <4>1. db' = db /\ delivered' = delivered
          BY <2>3 DEF StartOrLeave, persistent, history
        <4> QED BY <1>3, <4>1 DEF Debt, Unhandled, Row, Compiles
      <3> QED BY <1>1, <2>1, <3>1, <3>2 DEF DebtInv
    <2> QED BY <2>0, <2>2, <2>3, RunFrame
  <1> QED BY <1>2, <1>3

\* The first compiles have nothing to tell.
LEMMA InitRows == Init => RowsInv /\ DebtInv /\ BusyInv
  <1> SUFFICES ASSUME Init PROVE RowsInv /\ DebtInv /\ BusyInv
    OBVIOUS
  <1>1. tasks = <<>> /\ holder = Free /\ operation = NoOperation
    BY DEF Init
  <1>2. BusyInv
    BY <1>1 DEF BusyInv, Tasks, Cancelling, NoOperation
  <1>3. CASE db = <<>>
    BY <1>1, <1>2, <1>3 DEF RowsInv, DebtInv, Outcomes, Compiles, Tasks
  <1>4. CASE db = <<FinishedCompile>>
    <2>1. PICK f : f = FinishedCompile
      OBVIOUS
    <2>2. f.row = "row" /\ f.handled
      BY <2>1 DEF FinishedCompile, Request
    <2>3. Compiles = {1} /\ db[1] = f
      BY <1>4, <2>1 DEF Compiles
    <2> QED BY <1>1, <1>2, <2>2, <2>3 DEF RowsInv, DebtInv, Outcomes, Tasks, Debt, Unhandled
  <1> QED BY <1>3, <1>4 DEF Init

\* "If this listener is blocking, the next compile can only start after this coroutine is
\* done", also when the compile ended in a server that is gone.
THEOREM BlockersComeFirst == Spec => []BlockersBeforeNextCompile
  <1> DEFINE IInv == BusyInv /\ RowsInv /\ DebtInv
  <1>1. (TypeOK /\ CallsInv) /\ IInv /\ [Next]_vars => IInv'
    BY NextBusy, NextRows, NextDebt
  <1>2. IInv => BlockersBeforeNextCompile
    BY DEF BlockersBeforeNextCompile, DebtInv, Debt, Unhandled
  <1> HIDE DEF IInv
  <1>3. Init => IInv
    BY InitRows DEF IInv
  <1> QED BY <1>1, <1>2, <1>3, CompilerTypeCorrect, PTL DEF Spec

-----------------------------------------------------------------------------
(* Merged requests lose nothing *)

\* The rows that are there keep what a merge depends on, and a row that appears was not merged.
RowsSame ==
    \A c : IF Row(c) THEN /\ Row(c)' /\ db'[c].key = db[c].key /\ db'[c].force = db[c].force
                          /\ db'[c].completed = db[c].completed /\ db'[c].substitute = db[c].substitute
                          /\ db'[c].used = db[c].used /\ db'[c].result = db[c].result
           ELSE Row(c)' => db'[c].substitute = 0

\* Only the run itself, and a clear, change that.
LEMMA MergeFrame ==
    ASSUME TypeOK, CallsInv, Outcomes, [Next]_vars, ~ClearRows,
           ~\E t \in Tasks : BeginRun(t) \/ RunCompiler(t) \/ \E d \in Compiles : CompleteMerged(t, d)
    PROVE  RowsSame
  <1> USE DEF persistent, envService, history, service
  <1>1. ASSUME db' = db
        PROVE  RowsSame
    BY <1>1 DEF RowsSame, Row, Compiles, Outcomes, NoOutcome
  <1>2. ASSUME NEW n \in notifying, MarkHandled(n)
        PROVE  RowsSame
    <2>1. /\ Compiles' = Compiles
          /\ \A d \in Compiles : /\ SameRequest(d)
                                 /\ db'[d].completed = db[d].completed /\ db'[d].used = db[d].used
                                 /\ db'[d].substitute = db[d].substitute /\ db'[d].result = db[d].result
      BY <1>2, MarkHandledEffect
    <2> QED BY <2>1 DEF RowsSame, Row, SameRequest
  <1>3. ASSUME NEW x, x \notin Compiles, Compiles' = Compiles \cup {x}, db'[x].substitute = 0,
               \A d \in Compiles : db'[d] = db[d]
        PROVE  RowsSame
    BY <1>3 DEF RowsSame, Row
  <1>4. ASSUME NEW k \in Keys, NEW f \in BOOLEAN, InsertAndProcess(k, f)
        PROVE  RowsSame
    <2>1. PICK x : x = Len(db) + 1
      OBVIOUS
    <2>2. /\ x \notin Compiles /\ Compiles' = Compiles \cup {x} /\ db'[x].substitute = 0
          /\ \A d \in Compiles : db'[d] = db[d]
      BY <1>4, <2>1, InsertEffect
    <2> QED BY <1>3, <2>2
  <1>5. ASSUME NEW kind \in Kinds, RequestRecompile(kind)
        PROVE  RowsSame
    <2>1. kind[1] \in Keys /\ kind[2] \in BOOLEAN /\ InsertAndProcess(kind[1], kind[2])
      BY <1>5, CompilerAssumption DEF RequestRecompile
    <2> QED BY <1>4, <2>1
  <1>6. ASSUME NEW w \in {"recover", "resume"}, CompareMarker(w)
        PROVE  RowsSame
    <2>1. CASE InsertAndProcess(RecoveryKey, TRUE)
      BY <1>4, <2>1, CompilerAssumption
    <2>2. CASE db' = db
      BY <1>1, <2>2
    <2> QED BY <1>6, <2>1, <2>2 DEF CompareMarker
  <1>7. ASSUME NEW kind \in InTransaction, RequestInTransaction(kind)
        PROVE  RowsSame
    <2>1. PICK x : x = Len(db) + 1
      OBVIOUS
    <2>2. /\ x \notin Compiles /\ Compiles' = Compiles \cup {x} /\ db'[x].substitute = 0
          /\ \A d \in Compiles : db'[d] = db[d]
      BY <1>7, <2>1, InsertHiddenEffect
    <2> QED BY <1>3, <2>2
  <1>8. ASSUME NEW d \in Compiles, CommitRequest(d)
        PROVE  RowsSame
    <2>1. /\ Compiles' = Compiles /\ \A e \in Compiles : e # d => db'[e] = db[e]
          /\ db'[d].substitute = db[d].substitute /\ db[d].row = "uncommitted"
      BY <1>8, CommitEffect
    <2> QED BY <2>1 DEF RowsSame, Row, Outcomes, NoOutcome
  <1>9. CASE Restart
    <2>1. PICK gone : gone = {d \in Compiles : db[d].row = "uncommitted"}
      OBVIOUS
    <2>2. db' = [d \in Compiles |-> IF d \in gone THEN NoRow ELSE db[d]]
      BY <1>9, <2>1 DEF Restart
    <2>3. /\ Compiles' = Compiles
          /\ \A d \in Compiles : IF d \in gone THEN db'[d] = NoRow ELSE db'[d] = db[d]
          /\ NoRow.row = "deleted"
      BY <2>2, DeleteEffect
    <2> QED BY <2>1, <2>3 DEF RowsSame, Row, Outcomes, NoOutcome
  <1>10. CASE \/ \E n \in notifying : DeliverBlocking(n)
              \/ \E call \in calls : AcquireAndFetch(call)
              \/ \E t \in Tasks : WriteLastCompileMarker(t) \/ NotifyListeners(t) \/ FinishRun(t)
              \/ StartOrLeave \/ RecoverNotify \/ RecoverReady
              \/ \E w \in {"recover", "resume"} : ReadLastRun(w)
              \/ \E d \in Compiles : NotifyCompileRequestCommitted(d)
              \/ EndResume \/ EnterClear \/ CancelCompile \/ DeleteEnvironmentDir
              \/ RecalculateQueueCount \/ EndClear \/ Halt \/ Resume \/ RequestClear \/ ChangeSettings
              \/ Stop \/ (\E t \in Tasks : CancelOnStop(t)) \/ UNCHANGED vars
    <2>1. db' = db
      BY <1>10 DEF DeliverBlocking, AcquireAndFetch, StartOrLeave, RecoverNotify, RecoverReady, ReadLastRun,
                   WriteLastCompileMarker, NotifyListeners, FinishRun,
                   NotifyCompileRequestCommitted, EndResume, EnterClear, CancelCompile, DeleteEnvironmentDir,
                   RecalculateQueueCount, EndClear, Halt, Resume, RequestClear, ChangeSettings, Stop, CancelOnStop, vars
    <2> QED BY <1>1, <2>1
  <1> QED BY <1>2, <1>5, <1>6, <1>7, <1>8, <1>9, <1>10 DEF Next, ServiceStep, RunStep

\* While a call has the lock, the entry of the map stays.
LEMMA ActiveFrame ==
    ASSUME TypeOK, CallsInv, [Next]_vars, holder # Free, holder' # Free
    PROVE  active' = active
  <1> USE DEF persistent, envService, history, service
  <1>1. ~StartOrLeave /\ ~Restart /\ ~\E call \in calls : AcquireAndFetch(call)
    BY DEF StartOrLeave, Restart, AcquireAndFetch
  <1>2. CancelCompile => FALSE
    BY DEF CancelCompile
  <1>3. CASE \E t \in Tasks : RunStep(t) \/ CancelOnStop(t)
    BY <1>3 DEF RunStep, BeginRun, RunCompiler, WriteLastCompileMarker, NotifyListeners, FinishRun, CompleteMerged,
                CancelOnStop
  <1>4. CASE \/ \E n \in notifying : DeliverBlocking(n) \/ MarkHandled(n)
             \/ RecoverNotify \/ RecoverReady
             \/ \E w \in {"recover", "resume"} : ReadLastRun(w) \/ CompareMarker(w)
             \/ \E kind \in Kinds : RequestRecompile(kind)
             \/ \E kind \in InTransaction : RequestInTransaction(kind)
             \/ \E c \in Compiles : CommitRequest(c) \/ NotifyCompileRequestCommitted(c)
             \/ EndResume \/ EnterClear \/ DeleteEnvironmentDir \/ ClearRows
             \/ RecalculateQueueCount \/ EndClear \/ Halt \/ Resume \/ RequestClear \/ ChangeSettings
             \/ Stop \/ UNCHANGED vars
    BY <1>4 DEF DeliverBlocking, MarkHandled, RecoverNotify, RecoverReady, ReadLastRun, CompareMarker,
                RequestRecompile, RequestInTransaction, CommitRequest, NotifyCompileRequestCommitted,
                EndResume, EnterClear, DeleteEnvironmentDir, ClearRows, RecalculateQueueCount, EndClear,
                Halt, Resume, RequestClear, ChangeSettings, Stop, vars
  <1> QED BY <1>1, <1>2, <1>3, <1>4 DEF Next, ServiceStep

\* Steps that leave the rows alone, as far as merges depend on them.
LEMMA MergeStays ==
    ASSUME TypeOK, CallsInv, BusyInv, RowsInv, MergeInv, [Next]_vars, RowsSame,
           ~\E t \in Tasks : BeginRun(t) \/ RunCompiler(t) \/ \E d \in Compiles : CompleteMerged(t, d)
    PROVE  MergeInv'
  <1> SUFFICES ASSUME ~cancelledLive'
               PROVE  /\ \A c \in Compiles' : \A s : s = db'[c].substitute =>
                             (Row(c)' /\ s # 0 => StandsIn(s, c)')
                      /\ \A t \in Tasks' : \A c : c = tasks'[t].compile =>
                             /\ tasks'[t].pc \in {"backoff", "compiling"} => db'[c].completed = 0
                             /\ tasks'[t].pc \in {"completed", "merging"} => db'[c].completed # 0
                             /\ tasks'[t].pc \in {"compiling", "completed", "merging"} =>
                                    \A d \in tasks'[t].merged : WillStandIn(t, d)'
                      /\ holder' # Free /\ ~holder'.halted =>
                             \A c : c = holder'.next =>
                                 db'[c].completed = 0 \/ (active' # 0 /\ holder'.call.kind # "finish")
    BY DEF MergeInv
  <1>0. ~cancelledLive
    BY CancelledStays
  <1>1. ASSUME NEW c \in Compiles', Row(c)', NEW s, s = db'[c].substitute, s # 0
        PROVE  StandsIn(s, c)'
    <2>1. Row(c) /\ db[c].substitute = s
      BY <1>1 DEF RowsSame
    <2>2. c \in Compiles /\ (Row(c) /\ db[c].substitute # 0 => StandsIn(db[c].substitute, c))
      BY <1>0, <2>1 DEF MergeInv, Row
    <2>3. StandsIn(s, c)
      BY <1>1, <2>1, <2>2 DEF StandsIn
    <2> QED BY <2>1, <2>3 DEF RowsSame, StandsIn, Row
  <1>2. ASSUME NEW t \in Tasks', NEW c, c = tasks'[t].compile, ~(Ended(t)')
        PROVE  /\ tasks'[t].pc \in {"backoff", "compiling"} => db'[c].completed = 0
               /\ tasks'[t].pc \in {"completed", "merging"} => db'[c].completed # 0
               /\ tasks'[t].pc \in {"compiling", "completed", "merging"} =>
                      \A d \in tasks'[t].merged : WillStandIn(t, d)'
    <2>1. CASE Continues(t)
      <3>1. t \in Tasks /\ ~Ended(t) /\ c = tasks[t].compile
        BY <1>2, <2>1 DEF Continues
      <3>2. Row(c) /\ db'[c].completed = db[c].completed /\ db'[c].key = db[c].key
            /\ db'[c].used = db[c].used /\ db'[c].result = db[c].result
        BY <1>0, <3>1 DEF RowsInv, RowsSame
      <3>3. ASSUME NEW d, WillStandIn(t, d), tasks[t].pc \in {"compiling", "completed", "merging"},
                   tasks'[t].pc = tasks[t].pc \/ (tasks'[t].pc = "merging" /\ tasks[t].pc = "completed")
            PROVE  WillStandIn(t, d)'
        <4>1. Row(d)' /\ db'[d].key = db[d].key /\ db'[d].force = db[d].force
              /\ db'[d].completed = db[d].completed /\ db'[d].substitute = db[d].substitute
          BY <3>3 DEF RowsSame, WillStandIn
        <4> QED BY <1>2, <3>1, <3>2, <3>3, <4>1 DEF WillStandIn
      <3>4. CASE tasks'[t].pc = tasks[t].pc /\ tasks'[t].merged = tasks[t].merged
        BY <1>0, <3>1, <3>2, <3>3, <3>4 DEF MergeInv
      <3>5. CASE WriteLastCompileMarker(t)
        <4>1. tasks'[t].pc = "merging" /\ tasks'[t].merged = tasks[t].merged /\ tasks[t].pc = "completed"
          BY <3>1, <3>5, GoToEffect DEF WriteLastCompileMarker, RunPhases, At
        <4> QED BY <1>0, <3>1, <3>2, <3>3, <4>1 DEF MergeInv
      <3>6. CASE NotifyListeners(t) \/ FinishRun(t)
        <4>1. tasks'[t].pc \in {"notifying", "finishing"}
          <5>1. CASE FinishRun(t)
            BY <3>1, <5>1, GoToEffect DEF FinishRun, RunPhases
          <5>2. CASE NotifyListeners(t) /\ stopping
            BY <1>2, <3>1, <5>2, OverEffect DEF NotifyListeners
          <5>3. CASE NotifyListeners(t) /\ ~stopping
            <6>1. GoTo(t, "notifying")
              BY <5>3 DEF NotifyListeners
            <6> QED BY <3>1, <6>1, GoToEffect DEF RunPhases
          <5> QED BY <3>6, <5>1, <5>2, <5>3
        <4> QED BY <4>1
      <3> QED BY <2>1, <3>1, <3>4, <3>5, <3>6 DEF Continues, RunStep
    <2>2. CASE StartOrLeave /\ Started(t)
      <3>1. holder # Free /\ ~holder.halted /\ (holder.call.kind = "finish" \/ active = 0)
            /\ c = holder.next /\ tasks'[t].pc = "backoff"
        BY <1>2, <2>2, StartEffect DEF Started
      <3>2. Row(c) /\ db[c].completed = 0
        BY <1>0, <3>1 DEF MergeInv, RowsInv
      <3> QED BY <3>1, <3>2 DEF RowsSame
    <2> QED BY <1>2, <2>1, <2>2, RunFrame
  <1>3. ASSUME holder' # Free, ~holder'.halted, NEW c, c = holder'.next
        PROVE  db'[c].completed = 0 \/ (active' # 0 /\ holder'.call.kind # "finish")
    <2>1. CASE holder' = holder
      <3>1. Row(c) /\ (db[c].completed = 0 \/ (active # 0 /\ holder.call.kind # "finish"))
        BY <1>0, <1>3, <2>1 DEF MergeInv, RowsInv
      <3>2. active' = active
        BY <1>3, <2>1, ActiveFrame
      <3> QED BY <2>1, <3>1, <3>2 DEF RowsSame
    <2>2. ASSUME NEW call \in calls, Fetched(call)
          PROVE  db'[c].completed = 0
      BY <1>3, <2>2 DEF Fetched, Incomplete, RowsSame
    <2> QED BY <1>3, <2>1, <2>2, HolderFrame
  <1>4. \A t \in Tasks' : tasks'[t].pc \in {"backoff", "compiling", "completed", "merging"} => ~(Ended(t)')
    BY DEF Ended
  <1> QED BY <1>1, <1>2, <1>3, <1>4

\* While a run is at work, whoever has the lock leaves the entry of the map to it, unless the
\* environment is halted.
LEMMA LockIsLater ==
    ASSUME TypeOK, CallsInv, BusyInv, ~cancelledLive, holder # Free, ~holder.halted,
           NEW t \in Tasks, ~Ended(t), tasks[t].pc # "finishing"
    PROVE  active # 0 /\ holder.call.kind # "finish"
  <1>1. ~Cancelling
    BY DEF BusyInv
  <1>2. active # 0
    <2>1. t = active
      BY <1>1 DEF BusyInv, Cancelling
    <2> QED BY <2>1, Typing
  <1>3. PICK call : call = holder.call
    OBVIOUS
  <1>4. call.kind # "finish"
    <2> SUFFICES ASSUME call.kind = "finish" PROVE FALSE
      OBVIOUS
    <2>1. FinishesRun(call)
      BY <1>3 DEF CallsInv
    <2>2. t = call.id
      BY <2>1, FinisherIsAlone DEF FinishesRun
    <2> QED BY <2>1, <2>2 DEF FinishesRun
  <1> QED BY <1>2, <1>3, <1>4

\* A run at work is the only one that MergeInv speaks of.
LEMMA MergeOfRun ==
    ASSUME TypeOK, CallsInv, BusyInv, ~cancelledLive,
           UNCHANGED <<holder, active>>, NEW t \in Tasks, ~Ended(t), tasks[t].pc # "finishing", OnlyRun(t),
           \A x \in Compiles' : \A s : s = db'[x].substitute => (Row(x)' /\ s # 0 => StandsIn(s, x)'),
           \A c : c = tasks'[t].compile =>
               /\ tasks'[t].pc \in {"backoff", "compiling"} => db'[c].completed = 0
               /\ tasks'[t].pc \in {"completed", "merging"} => db'[c].completed # 0,
           tasks'[t].pc \in {"compiling", "completed", "merging"} =>
               \A d \in tasks'[t].merged : WillStandIn(t, d)'
    PROVE  MergeInv'
  <1>1. \A u \in Tasks : u # t => Ended(u) /\ tasks'[u] = tasks[u]
    BY Alone DEF OnlyRun
  <1>2. \A u \in Tasks' : tasks'[u].pc \in {"backoff", "compiling", "completed", "merging"} => u = t
    BY <1>1 DEF OnlyRun, Ended
  <1>3. holder' # Free /\ ~holder'.halted => active' # 0 /\ holder'.call.kind # "finish"
    BY LockIsLater
  <1> QED BY <1>2, <1>3 DEF MergeInv

\* A run that begins takes over the queued requests with its merge key.
LEMMA BeginMerge ==
    ASSUME TypeOK, CallsInv, BusyInv, RowsInv, MergeInv, ~cancelledLive, NEW t \in Tasks, BeginRun(t)
    PROVE  MergeInv'
  <1>0. PICK c : c = tasks[t].compile
    OBVIOUS
  <1>1. /\ OnlyRun(t) /\ tasks[t].pc = "backoff" /\ tasks'[t].pc = "compiling"
        /\ tasks'[t].compile = c /\ tasks'[t].merged = MergeCandidates(t) /\ Compiles' = Compiles
        /\ \A d \in Compiles : /\ SameRequest(d) /\ (d # c => db'[d] = db[d])
                               /\ db'[d].completed = db[d].completed
                               /\ db'[d].substitute = db[d].substitute /\ db'[d].result = db[d].result
        /\ Row(c) => db'[c].used = {c} \cup MergeCandidates(t)
    BY <1>0, BeginRunEffect
  <1>2. ~Ended(t) /\ UNCHANGED <<holder, active>>
    BY <1>1 DEF Ended, BeginRun
  <1>3. Row(c) /\ c \in Compiles /\ db[c].completed = 0
    BY <1>0, <1>1, <1>2 DEF RowsInv, MergeInv, Row
  <1>4. ASSUME NEW x \in Compiles', NEW s, s = db'[x].substitute, Row(x)', s # 0
        PROVE  StandsIn(s, x)'
    <2>1. x \in Compiles /\ Row(x) /\ s = db[x].substitute
      BY <1>1, <1>4 DEF Row, SameRequest
    <2>2. Row(x) /\ db[x].substitute # 0 => StandsIn(db[x].substitute, x)
      BY <2>1 DEF MergeInv
    <2>3. StandsIn(s, x)
      BY <1>4, <2>1, <2>2 DEF StandsIn
    <2>4. s # c /\ s \in Compiles
      BY <1>3, <2>3 DEF StandsIn
    <2> QED BY <1>1, <2>1, <2>3, <2>4 DEF StandsIn, Row, SameRequest
  <1>5. ASSUME NEW d \in tasks'[t].merged
        PROVE  WillStandIn(t, d)'
    <2>1. Row(d) /\ d \in Compiles /\ db[d].completed = 0 /\ d # c /\ db[d].key = db[c].key
      BY <1>0, <1>1, <1>5 DEF MergeCandidates, Incomplete, Row
    <2>2. Row(d)' /\ db'[d].completed = 0 /\ db'[d].key = db'[c].key /\ d \in db'[c].used
      BY <1>1, <1>3, <1>5, <2>1 DEF SameRequest, Row
    <2> QED BY <1>1, <2>1, <2>2 DEF WillStandIn
  <1>6. \A e : e = tasks'[t].compile => db'[e].completed = 0
    BY <1>1, <1>3
  <1> QED BY <1>1, <1>2, <1>4, <1>5, <1>6, MergeOfRun

\* The compile that completes covers what the requests it stands in for asked of it.
LEMMA CompileMerge ==
    ASSUME TypeOK, CallsInv, BusyInv, RowsInv, MergeInv, ~cancelledLive, NEW t \in Tasks, RunCompiler(t)
    PROVE  MergeInv'
  <1>0. PICK c : c = tasks[t].compile
    OBVIOUS
  <1>1. /\ OnlyRun(t) /\ tasks[t].pc = "compiling" /\ tasks'[t].pc = "completed"
        /\ tasks'[t].compile = c /\ tasks'[t].merged = tasks[t].merged /\ Compiles' = Compiles
        /\ \A d \in Compiles : /\ SameRequest(d) /\ (d # c => db'[d] = db[d])
                               /\ db'[d].used = db[d].used /\ db'[d].substitute = db[d].substitute
        /\ Row(c) => /\ db'[c].completed # 0
                     /\ (\E d \in Group(t) : db[d].force) => db'[c].result \in {"updated", "failed"}
    BY <1>0, RunCompilerEffect
  <1>2. ~Ended(t) /\ UNCHANGED <<holder, active>>
    BY <1>1 DEF Ended, RunCompiler
  <1>3. Row(c) /\ c \in Compiles /\ db[c].completed = 0
    BY <1>0, <1>1, <1>2 DEF RowsInv, MergeInv, Row
  <1>4. ASSUME NEW x \in Compiles', NEW s, s = db'[x].substitute, Row(x)', s # 0
        PROVE  StandsIn(s, x)'
    <2>1. x \in Compiles /\ Row(x) /\ s = db[x].substitute
      BY <1>1, <1>4 DEF Row, SameRequest
    <2>2. Row(x) /\ db[x].substitute # 0 => StandsIn(db[x].substitute, x)
      BY <2>1 DEF MergeInv
    <2>3. StandsIn(s, x)
      BY <1>4, <2>1, <2>2 DEF StandsIn
    <2>4. s # c /\ x # c /\ s \in Compiles
      BY <1>3, <2>3 DEF StandsIn
    <2> QED BY <1>1, <2>1, <2>3, <2>4 DEF StandsIn, Row
  <1>5. ASSUME NEW d \in tasks'[t].merged
        PROVE  WillStandIn(t, d)'
    <2>1. d \in tasks[t].merged /\ WillStandIn(t, d) /\ d \in Group(t)
      BY <1>1, <1>5 DEF MergeInv, Group
    <2>2. Row(d) /\ d \in Compiles /\ d # c /\ db[d].key = db[c].key /\ d \in db[c].used /\ db[d].completed = 0
      BY <1>0, <1>1, <2>1 DEF WillStandIn, Row
    <2>3. Row(d)' /\ db'[d] = db[d] /\ db'[d].key = db'[c].key /\ d \in db'[c].used
      BY <1>1, <1>3, <2>2 DEF SameRequest, Row
    <2>4. db'[d].force => db'[c].result \in {"updated", "failed"}
      BY <1>1, <1>3, <2>1, <2>3
    <2> QED BY <1>1, <2>2, <2>3, <2>4 DEF WillStandIn
  <1>6. \A e : e = tasks'[t].compile => db'[e].completed # 0
    BY <1>1, <1>3
  <1> QED BY <1>1, <1>2, <1>4, <1>5, <1>6, MergeOfRun

\* A merged request is completed with the outcome of the compile that stands in for it.
LEMMA CompletionMerge ==
    ASSUME TypeOK, CallsInv, BusyInv, RowsInv, MergeInv, ~cancelledLive,
           NEW t \in Tasks, NEW d \in Compiles, CompleteMerged(t, d)
    PROVE  MergeInv'
  <1>0. PICK c : c = tasks[t].compile
    OBVIOUS
  <1>1. tasks[t].pc = "merging" /\ d \in tasks[t].merged /\ Row(d) /\ db[d].substitute # c
    BY <1>0, CompleteMergedEffect
  <1>2. ~Ended(t) /\ UNCHANGED <<holder, active>>
    BY <1>1 DEF Ended, CompleteMerged
  <1>3. Row(c) /\ c \in Compiles /\ db[c].completed # 0
    BY <1>0, <1>1, <1>2 DEF RowsInv, MergeInv, Row
  <1>4. /\ Compiles' = Compiles /\ \A e \in Compiles : SameRequest(e) /\ (e # d => db'[e] = db[e])
        /\ tasks' = tasks /\ db'[d].substitute = c
        /\ db'[d].completed = db[c].completed /\ db'[d].used = db[c].used
    BY <1>0, <1>3, CompleteMergedEffect
  <1>5. OnlyRun(t)
    BY <1>4, Typing DEF OnlyRun, Tasks
  <1>6. WillStandIn(t, d)
    BY <1>1 DEF MergeInv
  <1>7. d # c /\ db[d].completed = 0 /\ db[d].key = db[c].key /\ d \in db[c].used
        /\ (db[d].force => db[c].result \in {"updated", "failed"})
    BY <1>0, <1>1, <1>6 DEF WillStandIn
  <1>8. db'[c] = db[c] /\ db'[d].key = db[d].key /\ db'[d].force = db[d].force
    BY <1>3, <1>4, <1>7 DEF SameRequest
  <1>9. ASSUME NEW x \in Compiles', NEW s, s = db'[x].substitute, Row(x)', s # 0
        PROVE  StandsIn(s, x)'
    <2>1. CASE x = d
      BY <1>3, <1>4, <1>7, <1>8, <1>9, <2>1 DEF StandsIn, Row
    <2>2. CASE x # d
      <3>1. x \in Compiles /\ Row(x) /\ s = db[x].substitute /\ db'[x] = db[x]
        BY <1>4, <1>9, <2>2 DEF Row
      <3>2. Row(x) /\ db[x].substitute # 0 => StandsIn(db[x].substitute, x)
        BY <3>1 DEF MergeInv
      <3>3. StandsIn(s, x)
        BY <1>9, <3>1, <3>2 DEF StandsIn
      <3>4. s # d /\ s \in Compiles
        BY <1>7, <3>3 DEF StandsIn
      <3> QED BY <1>4, <3>1, <3>3, <3>4 DEF StandsIn, Row
    <2> QED BY <2>1, <2>2
  <1>10. ASSUME NEW e \in tasks'[t].merged
         PROVE  WillStandIn(t, e)'
    <2>1. WillStandIn(t, e)
      BY <1>1, <1>4, <1>10 DEF MergeInv
    <2>2. CASE e = d
      BY <1>0, <1>1, <1>4, <1>7, <1>8, <2>2 DEF WillStandIn, Row, SameRequest
    <2>3. CASE e # d
      <3>1. e \in Compiles /\ db'[e] = db[e]
        BY <1>4, <2>1, <2>3 DEF WillStandIn, Row
      <3> QED BY <1>0, <1>1, <1>4, <1>8, <2>1, <3>1 DEF WillStandIn, Row
    <2> QED BY <2>2, <2>3
  <1>11. \A e : e = tasks'[t].compile => db'[e].completed # 0
    BY <1>0, <1>3, <1>4, <1>8
  <1> QED BY <1>1, <1>2, <1>4, <1>5, <1>9, <1>10, <1>11, MergeOfRun

\* Every step keeps MergeInv: the rows are deleted when no run is under way.
LEMMA NextMerge == TypeOK /\ CallsInv /\ BusyInv /\ RowsInv /\ MergeInv /\ [Next]_vars => MergeInv'
  <1> SUFFICES ASSUME TypeOK, CallsInv, BusyInv, RowsInv, MergeInv, [Next]_vars, ~cancelledLive'
               PROVE  MergeInv'
    BY DEF MergeInv
  <1>0. ~cancelledLive /\ Outcomes
    BY CancelledStays DEF RowsInv
  <1>1. CASE ClearRows
    <2>1. PICK gone : gone = {d \in Compiles : Row(d)}
      OBVIOUS
    <2>2. /\ db' = [d \in Compiles |-> IF d \in gone THEN NoRow ELSE db[d]]
          /\ UNCHANGED <<holder, tasks, active>> /\ operation.pc = "rows"
      BY <1>1, <2>1 DEF ClearRows, service
    <2>3. \A d \in Compiles' : ~(Row(d)')
      <3>1. /\ Compiles' = Compiles /\ NoRow.row = "deleted"
            /\ \A d \in Compiles : IF d \in gone THEN db'[d] = NoRow ELSE db'[d] = db[d]
        BY <2>2, DeleteEffect
      <3> QED BY <2>1, <3>1 DEF Row
    <2>4. (\A t \in Tasks : Ended(t)) /\ (holder # Free => holder.halted)
      BY <1>0, <2>2, Typing DEF BusyInv, Cancelling
    <2>5. \A t \in Tasks' : tasks'[t].pc \notin {"backoff", "compiling", "completed", "merging"}
      BY <2>2, <2>4 DEF Tasks, Ended
    <2> QED BY <2>2, <2>3, <2>4, <2>5 DEF MergeInv, Free, NoCall
  <1>2. CASE \E t \in Tasks : BeginRun(t) \/ RunCompiler(t) \/ \E d \in Compiles : CompleteMerged(t, d)
    BY <1>0, <1>2, BeginMerge, CompileMerge, CompletionMerge
  <1>3. CASE ~ClearRows /\ ~\E t \in Tasks : BeginRun(t) \/ RunCompiler(t) \/ \E d \in Compiles : CompleteMerged(t, d)
    BY <1>0, <1>3, MergeFrame, MergeStays
  <1> QED BY <1>1, <1>2, <1>3

\* No compile was merged when the server starts.
LEMMA InitMerge == Init => MergeInv
  <1> SUFFICES ASSUME Init PROVE MergeInv
    OBVIOUS
  <1>1. tasks = <<>> /\ holder = Free
    BY DEF Init
  <1>2. \A c \in Compiles : db[c].substitute = 0
    <2>1. CASE db = <<>>
      BY <2>1 DEF Compiles
    <2>2. CASE db = <<FinishedCompile>>
      <3>1. PICK f : f = FinishedCompile
        OBVIOUS
      <3>2. f.substitute = 0
        BY <3>1 DEF FinishedCompile, Request
      <3> QED BY <2>2, <3>1, <3>2 DEF Compiles
    <2> QED BY <2>1, <2>2 DEF Init
  <1> QED BY <1>1, <1>2 DEF MergeInv, Tasks

\* A merged request loses nothing: the compile that stands in for it has the same merge key,
\* ran with its variables, completed, and updated the project if the request asked for that.
THEOREM MergedRequestsAreServed == Spec => []MergeLosesNothing
  <1> DEFINE IInv == BusyInv /\ RowsInv /\ MergeInv
  <1>1. (TypeOK /\ CallsInv) /\ IInv /\ [Next]_vars => IInv'
    BY NextBusy, NextRows, NextMerge
  <1>2. IInv => MergeLosesNothing
    BY DEF MergeLosesNothing, MergeInv, StandsIn
  <1> HIDE DEF IInv
  <1>3. Init => IInv
    BY InitRows, InitMerge DEF IInv
  <1> QED BY <1>1, <1>2, <1>3, CompilerTypeCorrect, PTL DEF Spec

-----------------------------------------------------------------------------
(* The count of the queue *)

(* The compiles that a list of runs has taken from the queue, and the requests *)
(* that it is about to settle as merged.                                      *)
Taken(ts)    == {ts[t].compile : t \in {u \in 1..Len(ts) : ts[u].pc = "compiling"}}
Settling(ts) == UNION {ts[t].merged : t \in {u \in 1..Len(ts) : ts[u].pc = "merging"}}

(* The count is claimed but between the deletion of the rows and the recount.  *)
Counting == ~stopping /\ ~cancelledLive /\ operation.pc \notin {"join", "rows", "recount"}

(* A request is announced after its commit. *)
Announced == \A c \in uncounted : c \in Compiles /\ db[c].row # "uncommitted"

(* Nothing runs, and nothing can start, from the deletion to the recount: what *)
(* is queued then has not been started.                                       *)
RecountInv ==
    ~cancelledLive /\ operation.pc = "recount" =>
        /\ halted /\ (holder # Free => holder.halted)
        /\ \A t \in Tasks : Ended(t)
        /\ \A c \in Compiles : ~db[c].started

Counted ==
    /\ \A c \in recounted : Row(c)
    /\ queueCount = Cardinality(Waiting) - Cardinality(CountedLate) + Cardinality(CountedTwice)

QueueInv == Announced /\ RecountInv /\ (Counting => Counted)

\* What is counted, in terms of the list of runs.
LEMMA WaitingIs ==
    /\ Waiting = (Incomplete \ Taken(tasks)) \cup Settling(tasks)
    /\ Waiting' = (Incomplete' \ Taken(tasks')) \cup Settling(tasks')
  <1>1. Waiting = (Incomplete \ Taken(tasks)) \cup Settling(tasks)
    BY DEF Waiting, Taken, Settling, Tasks
  <1>2. Waiting' = (Incomplete' \ Taken(tasks')) \cup Settling(tasks')
    BY DEF Waiting, Taken, Settling, Tasks
  <1> QED BY <1>1, <1>2

\* With one run at work, that run decides what is taken and what is about to be settled.
LEMMA WorkOfOne ==
    ASSUME NEW ts, NEW t \in 1..Len(ts),
           \A u \in 1..Len(ts) : u # t => ts[u].pc \notin {"compiling", "merging"}
    PROVE  /\ Taken(ts) = (IF ts[t].pc = "compiling" THEN {ts[t].compile} ELSE {})
           /\ Settling(ts) = (IF ts[t].pc = "merging" THEN ts[t].merged ELSE {})
  <1>1. Taken(ts) = (IF ts[t].pc = "compiling" THEN {ts[t].compile} ELSE {})
    BY DEF Taken
  <1>2. Settling(ts) = (IF ts[t].pc = "merging" THEN ts[t].merged ELSE {})
    BY DEF Settling
  <1> QED BY <1>1, <1>2

\* Without a run at work, nothing is.
LEMMA WorkOfNone ==
    ASSUME NEW ts, \A u \in 1..Len(ts) : ts[u].pc \notin {"compiling", "merging"}
    PROVE  Taken(ts) = {} /\ Settling(ts) = {}
  BY DEF Taken, Settling

\* Runs that are not at work make no difference.
LEMMA SameWork ==
    ASSUME NEW ts, NEW us,
           \A u \in 1..Len(ts) : ts[u].pc \in {"compiling", "merging"} => u \in 1..Len(us) /\ us[u] = ts[u],
           \A u \in 1..Len(us) : us[u].pc \in {"compiling", "merging"} => u \in 1..Len(ts) /\ us[u] = ts[u]
    PROVE  Taken(us) = Taken(ts) /\ Settling(us) = Settling(ts)
  <1>1. Taken(us) = Taken(ts)
    BY DEF Taken
  <1>2. Settling(us) = Settling(ts)
    BY DEF Settling
  <1> QED BY <1>1, <1>2

\* A set of compiles that are rows is finite.
LEMMA RowsAreFinite ==
    ASSUME TypeOK, NEW S, \A c \in S : Row(c)
    PROVE  IsFiniteSet(S) /\ Cardinality(S) \in Nat
  <1>1. Len(db) \in Nat /\ S \in SUBSET (1..Len(db))
    BY Typing DEF Row
  <1>2. IsFiniteSet(1..Len(db))
    BY <1>1, FS_Interval
  <1>3. IsFiniteSet(S)
    BY <1>1, <1>2, FS_Subset
  <1> QED BY <1>3, FS_CardinalityType

\* What waits in the queue are rows of the table.
LEMMA WaitingAreRows ==
    ASSUME TypeOK, RowsInv, MergeInv, ~cancelledLive
    PROVE  /\ \A c \in Waiting : Row(c)
           /\ IsFiniteSet(Waiting) /\ Cardinality(Waiting) \in Nat
  <1>1. \A c \in Settling(tasks) : Row(c)
    <2> SUFFICES ASSUME NEW t \in Tasks, tasks[t].pc = "merging", NEW c \in tasks[t].merged
                 PROVE  Row(c)
      BY DEF Settling, Tasks
    <2> QED BY DEF MergeInv, WillStandIn
  <1>2. \A c \in Waiting : Row(c)
    BY <1>1, WaitingIs DEF Incomplete
  <1> QED BY <1>2, RowsAreFinite

\* What the count is off by are numbers.
LEMMA CorrectionsAreFinite ==
    ASSUME TypeOK, Counted
    PROVE  /\ IsFiniteSet(CountedLate) /\ Cardinality(CountedLate) \in Nat
           /\ IsFiniteSet(CountedTwice) /\ Cardinality(CountedTwice) \in Nat
  <1>1. \A c \in CountedLate : Row(c)
    BY DEF CountedLate
  <1>2. \A c \in CountedTwice : Row(c)
    BY DEF CountedTwice, Counted
  <1> QED BY <1>1, <1>2, RowsAreFinite

\* They stay what they are when nothing is announced or recounted, and no row comes or goes.
LEMMA CorrectionsStay ==
    ASSUME Announced, Counted, UNCHANGED <<uncounted, recounted>>,
           \A c \in Compiles : Row(c) <=> Row(c)'
    PROVE  CountedLate' = CountedLate /\ CountedTwice' = CountedTwice /\ \A c \in recounted' : Row(c)'
  <1>1. \A c \in recounted : Row(c) /\ Row(c)'
    BY DEF Counted, Row
  <1>2. \A c \in uncounted : Row(c) <=> Row(c)'
    BY DEF Announced
  <1>3. CountedLate' = CountedLate
    BY <1>2 DEF CountedLate
  <1>4. CountedTwice' = CountedTwice
    BY DEF CountedTwice
  <1> QED BY <1>1, <1>3, <1>4

\* A step that changes neither the queue nor its count.
LEMMA CountedStays ==
    ASSUME Announced, Counted, UNCHANGED <<queueCount, uncounted, recounted>>, Incomplete' = Incomplete,
           Taken(tasks') = Taken(tasks), Settling(tasks') = Settling(tasks),
           \A c \in Compiles : Row(c) <=> Row(c)'
    PROVE  Counted'
  <1>1. Waiting' = Waiting
    BY WaitingIs
  <1>2. CountedLate' = CountedLate /\ CountedTwice' = CountedTwice /\ \A c \in recounted' : Row(c)'
    BY CorrectionsStay
  <1> QED BY <1>1, <1>2 DEF Counted

\* A step of a request that is committed and counted at once.
LEMMA InsertCounted ==
    ASSUME TypeOK, RowsInv, MergeInv, ~cancelledLive, Announced, Counted,
           NEW k \in Keys, NEW f \in BOOLEAN, InsertAndProcess(k, f),
           UNCHANGED <<tasks, uncounted, recounted>>
    PROVE  Counted'
  <1>1. PICK new : new = Len(db) + 1
    OBVIOUS
  <1>2. /\ Compiles' = Compiles \cup {new} /\ new \notin Compiles
        /\ db'[new].row = "row" /\ db'[new].completed = 0
        /\ \A d \in Compiles : db'[d] = db[d]
    BY <1>1, InsertEffect
  <1>3. Incomplete' = Incomplete \cup {new} /\ (\A c \in Compiles : Row(c) <=> Row(c)') /\ ~Row(new)
    BY <1>2 DEF Incomplete, Row
  <1>4. new \notin Waiting /\ IsFiniteSet(Waiting) /\ Cardinality(Waiting) \in Nat
    BY <1>3, WaitingAreRows
  <1>5. new \notin Taken(tasks)
    <2> SUFFICES ASSUME NEW t \in Tasks, tasks[t].pc = "compiling", tasks[t].compile = new
                 PROVE  FALSE
      BY DEF Taken, Tasks
    <2>1. Row(tasks[t].compile)
      BY DEF RowsInv, Ended
    <2> QED BY <1>3, <2>1
  <1>6. Waiting' = Waiting \cup {new}
    BY <1>3, <1>5, WaitingIs
  <1>7. Cardinality(Waiting') = Cardinality(Waiting) + 1
    BY <1>4, <1>6, FS_AddElement
  <1>8. /\ CountedLate' = CountedLate /\ CountedTwice' = CountedTwice /\ \A c \in recounted' : Row(c)'
        /\ Cardinality(CountedLate) \in Nat /\ Cardinality(CountedTwice) \in Nat
    BY <1>3, CorrectionsStay, CorrectionsAreFinite
  <1>9. queueCount' = queueCount + 1
    BY DEF InsertAndProcess
  <1> QED BY <1>4, <1>7, <1>8, <1>9 DEF Counted

\* What the only run at work has taken, before and after a step of it.
LEMMA RunWork ==
    ASSUME TypeOK, BusyInv, ~cancelledLive, NEW t \in Tasks, ~Ended(t), OnlyRun(t)
    PROVE  /\ Taken(tasks) = (IF tasks[t].pc = "compiling" THEN {tasks[t].compile} ELSE {})
           /\ Settling(tasks) = (IF tasks[t].pc = "merging" THEN tasks[t].merged ELSE {})
           /\ Taken(tasks') = (IF tasks'[t].pc = "compiling" THEN {tasks'[t].compile} ELSE {})
           /\ Settling(tasks') = (IF tasks'[t].pc = "merging" THEN tasks'[t].merged ELSE {})
  <1>1. t \in 1..Len(tasks) /\ Len(tasks') = Len(tasks)
    BY Typing DEF OnlyRun
  <1>2. \A u \in 1..Len(tasks) : u # t => Ended(u)
    BY Alone, Typing
  <1>3. \A u \in 1..Len(tasks) : u # t => tasks[u].pc \notin {"compiling", "merging"}
    BY <1>2 DEF Ended
  <1>4. \A u \in 1..Len(tasks') : u # t => tasks'[u].pc \notin {"compiling", "merging"}
    BY <1>1, <1>3, Typing DEF OnlyRun
  <1>5. /\ Taken(tasks) = (IF tasks[t].pc = "compiling" THEN {tasks[t].compile} ELSE {})
        /\ Settling(tasks) = (IF tasks[t].pc = "merging" THEN tasks[t].merged ELSE {})
    BY <1>1, <1>3, WorkOfOne
  <1>6. /\ Taken(tasks') = (IF tasks'[t].pc = "compiling" THEN {tasks'[t].compile} ELSE {})
        /\ Settling(tasks') = (IF tasks'[t].pc = "merging" THEN tasks'[t].merged ELSE {})
    BY <1>1, <1>4, WorkOfOne
  <1> QED BY <1>5, <1>6

\* A run that begins takes its compile from the queue.
LEMMA BeginCounted ==
    ASSUME TypeOK, BusyInv, RowsInv, MergeInv, ~cancelledLive, Announced, Counted, NEW t \in Tasks, BeginRun(t)
    PROVE  Counted'
  <1>0. PICK c : c = tasks[t].compile
    OBVIOUS
  <1>1. /\ OnlyRun(t) /\ tasks[t].pc = "backoff" /\ tasks'[t].pc = "compiling" /\ tasks'[t].compile = c
        /\ Compiles' = Compiles /\ \A d \in Compiles : SameRequest(d) /\ db'[d].completed = db[d].completed
    BY <1>0, BeginRunEffect
  <1>2. queueCount' = queueCount - 1 /\ UNCHANGED <<uncounted, recounted>> /\ ~Ended(t)
    BY <1>1 DEF BeginRun, Ended, history
  <1>3. c \in Incomplete
    BY <1>0, <1>1, <1>2 DEF RowsInv, MergeInv, Incomplete, Row
  <1>4. Incomplete' = Incomplete /\ \A d \in Compiles : Row(d) <=> Row(d)'
    BY <1>1 DEF Incomplete, Row, SameRequest
  <1>5. Waiting = Incomplete /\ Waiting' = Incomplete \ {c}
    BY <1>1, <1>2, <1>4, RunWork, WaitingIs
  <1>6. IsFiniteSet(Incomplete) /\ Cardinality(Incomplete) \in Nat
    BY RowsAreFinite DEF Incomplete
  <1>7. Cardinality(Waiting') = Cardinality(Waiting) - 1
    BY <1>3, <1>5, <1>6, FS_RemoveElement
  <1>8. /\ CountedLate' = CountedLate /\ CountedTwice' = CountedTwice /\ \A d \in recounted' : Row(d)'
        /\ Cardinality(CountedLate) \in Nat /\ Cardinality(CountedTwice) \in Nat
    BY <1>2, <1>4, CorrectionsStay, CorrectionsAreFinite
  <1> QED BY <1>2, <1>5, <1>6, <1>7, <1>8 DEF Counted

\* The compiler's end takes nothing from the queue that the run did not take before.
LEMMA CompileCounted ==
    ASSUME TypeOK, BusyInv, RowsInv, MergeInv, ~cancelledLive, Announced, Counted, NEW t \in Tasks, RunCompiler(t)
    PROVE  Counted'
  <1>0. PICK c : c = tasks[t].compile
    OBVIOUS
  <1>1. /\ OnlyRun(t) /\ tasks[t].pc = "compiling" /\ tasks'[t].pc = "completed" /\ tasks'[t].compile = c
        /\ Compiles' = Compiles /\ \A d \in Compiles : SameRequest(d) /\ (d # c => db'[d] = db[d])
        /\ Row(c) => db'[c].completed # 0
    BY <1>0, RunCompilerEffect
  <1>2. UNCHANGED <<queueCount, uncounted, recounted>> /\ ~Ended(t)
    BY <1>1 DEF RunCompiler, Ended, history
  <1>3. Row(c)
    BY <1>0, <1>2 DEF RowsInv
  <1>4. Incomplete' = Incomplete \ {c} /\ \A d \in Compiles : Row(d) <=> Row(d)'
    BY <1>1, <1>3 DEF Incomplete, Row, SameRequest
  <1>5. Waiting = Incomplete \ {c} /\ Waiting' = Incomplete \ {c}
    BY <1>0, <1>1, <1>2, <1>4, RunWork, WaitingIs
  <1>6. CountedLate' = CountedLate /\ CountedTwice' = CountedTwice /\ \A d \in recounted' : Row(d)'
    BY <1>2, <1>4, CorrectionsStay
  <1> QED BY <1>2, <1>5, <1>6 DEF Counted

\* The requests that a run is about to settle are in the queue until then.
LEMMA MarkerCounted ==
    ASSUME TypeOK, BusyInv, RowsInv, MergeInv, ~cancelledLive, Announced, Counted,
           NEW t \in Tasks, WriteLastCompileMarker(t)
    PROVE  Counted'
  <1>1. /\ OnlyRun(t) /\ tasks[t].pc = "completed" /\ tasks'[t].pc = "merging"
        /\ tasks'[t].merged = tasks[t].merged
    BY GoToEffect DEF WriteLastCompileMarker, RunPhases, At
  <1>2. UNCHANGED <<db, queueCount, uncounted, recounted>> /\ ~Ended(t)
    BY <1>1 DEF WriteLastCompileMarker, Ended
  <1>3. Incomplete' = Incomplete /\ \A d \in Compiles : Row(d) <=> Row(d)'
    BY <1>2 DEF Incomplete, Row, Compiles
  <1>4. tasks[t].merged \subseteq Incomplete
    <2> SUFFICES ASSUME NEW d \in tasks[t].merged PROVE d \in Incomplete
      OBVIOUS
    <2>1. Row(d) /\ db[d].completed = 0
      BY <1>1 DEF MergeInv, WillStandIn
    <2> QED BY <2>1 DEF Incomplete, Row
  <1>5. Waiting = Incomplete /\ Waiting' = Incomplete
    BY <1>1, <1>2, <1>3, <1>4, RunWork, WaitingIs
  <1>6. CountedLate' = CountedLate /\ CountedTwice' = CountedTwice /\ \A d \in recounted' : Row(d)'
    BY <1>2, <1>3, CorrectionsStay
  <1> QED BY <1>2, <1>5, <1>6 DEF Counted

\* A request that is completed as merged stays counted until all are.
LEMMA CompletionCounted ==
    ASSUME TypeOK, BusyInv, RowsInv, MergeInv, ~cancelledLive, Announced, Counted,
           NEW t \in Tasks, NEW d \in Compiles, CompleteMerged(t, d)
    PROVE  Counted'
  <1>0. PICK c : c = tasks[t].compile
    OBVIOUS
  <1>1. tasks[t].pc = "merging" /\ d \in tasks[t].merged /\ Row(d)
    BY CompleteMergedEffect
  <1>2. UNCHANGED <<queueCount, uncounted, recounted>> /\ ~Ended(t)
    BY <1>1 DEF CompleteMerged, Ended, history
  <1>3. Row(c) /\ db[c].completed # 0
    BY <1>0, <1>1, <1>2 DEF RowsInv, MergeInv
  <1>4. /\ Compiles' = Compiles /\ \A e \in Compiles : SameRequest(e) /\ (e # d => db'[e] = db[e])
        /\ tasks' = tasks /\ db'[d].completed = db[c].completed
    BY <1>0, <1>3, CompleteMergedEffect
  <1>5. OnlyRun(t)
    BY <1>4, Typing DEF OnlyRun, Tasks
  <1>6. Incomplete' = Incomplete \ {d} /\ \A e \in Compiles : Row(e) <=> Row(e)'
    BY <1>1, <1>3, <1>4 DEF Incomplete, Row, SameRequest
  <1>7. Waiting = Incomplete \cup tasks[t].merged /\ Waiting' = (Incomplete \ {d}) \cup tasks[t].merged
    BY <1>1, <1>2, <1>4, <1>5, <1>6, RunWork, WaitingIs
  <1>8. Waiting' = Waiting
    BY <1>1, <1>7
  <1>9. CountedLate' = CountedLate /\ CountedTwice' = CountedTwice /\ \A e \in recounted' : Row(e)'
    BY <1>2, <1>6, CorrectionsStay
  <1> QED BY <1>2, <1>8, <1>9 DEF Counted

\* When all are settled, the count goes down by their number.
LEMMA SettledCounted ==
    ASSUME TypeOK, BusyInv, RowsInv, MergeInv, ~cancelledLive, ~stopping, Announced, Counted,
           NEW t \in Tasks, NotifyListeners(t)
    PROVE  Counted'
  <1>0. PICK c : c = tasks[t].compile
    OBVIOUS
  <1>1. tasks[t].pc = "merging" /\ GoTo(t, "notifying") /\ \A d \in tasks[t].merged : Merged(t, d)
    BY DEF NotifyListeners, At
  <1>2. /\ UNCHANGED <<db, uncounted, recounted>> /\ ~Ended(t)
        /\ queueCount' = queueCount - Cardinality(tasks[t].merged)
    BY <1>1 DEF NotifyListeners, settled, persistent, history, Ended
  <1>3. OnlyRun(t) /\ tasks'[t].pc = "notifying"
    BY <1>1, GoToEffect DEF RunPhases
  <1>4. Incomplete' = Incomplete /\ \A d \in Compiles : Row(d) <=> Row(d)'
    BY <1>2 DEF Incomplete, Row, Compiles
  <1>5. \A d \in tasks[t].merged : Row(d)
    BY <1>1 DEF MergeInv, WillStandIn
  <1>6. c # 0
    BY <1>0, <1>2, Typing DEF RowsInv, Row
  <1>7. tasks[t].merged \cap Incomplete = {}
    <2> SUFFICES ASSUME NEW d \in tasks[t].merged PROVE db[d].completed # 0
      BY DEF Incomplete
    <2>1. Row(d) /\ d \in Compiles
      BY <1>5 DEF Row
    <2>2. db[d].substitute = c
      BY <1>0, <1>1, <2>1 DEF Merged
    <2>3. StandsIn(c, d)
      BY <1>6, <2>1, <2>2 DEF MergeInv
    <2> QED BY <2>3 DEF StandsIn
  <1>8. Waiting = Incomplete \cup tasks[t].merged /\ Waiting' = Incomplete
    BY <1>1, <1>2, <1>3, <1>4, RunWork, WaitingIs
  <1>9. /\ IsFiniteSet(tasks[t].merged) /\ Cardinality(tasks[t].merged) \in Nat
        /\ IsFiniteSet(Incomplete) /\ Cardinality(Incomplete) \in Nat
    BY <1>5, RowsAreFinite DEF Incomplete
  <1>10. Cardinality(Waiting) = Cardinality(Incomplete) + Cardinality(tasks[t].merged)
    <2>1. Incomplete \cap tasks[t].merged = {} /\ Cardinality({}) = 0
      BY <1>7, FS_EmptySet
    <2>2. Cardinality(Incomplete \cup tasks[t].merged)
              = Cardinality(Incomplete) + Cardinality(tasks[t].merged) - Cardinality(Incomplete \cap tasks[t].merged)
      BY <1>9, FS_Union
    <2>3. Cardinality(Incomplete \cap tasks[t].merged) = 0
      BY <2>1
    <2>4. Cardinality(Waiting) = Cardinality(Incomplete \cup tasks[t].merged)
      BY <1>8
    <2> QED BY <1>9, <2>2, <2>3, <2>4
  <1>11. Cardinality(Waiting') = Cardinality(Waiting) - Cardinality(tasks[t].merged)
    <2>1. Cardinality(Waiting') = Cardinality(Incomplete)
      BY <1>8
    <2> QED BY <1>9, <1>10, <2>1
  <1>12. /\ CountedLate' = CountedLate /\ CountedTwice' = CountedTwice /\ \A d \in recounted' : Row(d)'
         /\ Cardinality(CountedLate) \in Nat /\ Cardinality(CountedTwice) \in Nat
    BY <1>2, <1>4, CorrectionsStay, CorrectionsAreFinite
  <1>13. queueCount = Cardinality(Waiting) - Cardinality(CountedLate) + Cardinality(CountedTwice)
    BY DEF Counted
  <1>14. queueCount' = Cardinality(Waiting') - Cardinality(CountedLate') + Cardinality(CountedTwice')
    <2>1. Cardinality(Waiting) \in Nat
      BY <1>9, <1>10
    <2> QED BY <1>2, <1>9, <1>11, <1>12, <1>13, <2>1
  <1> QED BY <1>12, <1>14 DEF Counted

\* Whatever a run does, the count follows.
LEMMA RunCounted ==
    ASSUME TypeOK, BusyInv, RowsInv, MergeInv, ~cancelledLive, ~stopping, Announced, Counted,
           NEW t \in Tasks, RunStep(t)
    PROVE  Counted'
  <1>1. CASE FinishRun(t)
    <2>1. OnlyRun(t) /\ tasks[t].pc = "notifying" /\ tasks'[t].pc = "finishing"
      BY <1>1, GoToEffect DEF FinishRun, RunPhases, At
    <2>2. UNCHANGED <<db, queueCount, uncounted, recounted>> /\ ~Ended(t)
      BY <1>1, <2>1 DEF FinishRun, persistent, history, Ended
    <2>3. Taken(tasks') = Taken(tasks) /\ Settling(tasks') = Settling(tasks)
      BY <2>1, <2>2, RunWork
    <2>4. Incomplete' = Incomplete /\ \A d \in Compiles : Row(d) <=> Row(d)'
      BY <2>2 DEF Incomplete, Row, Compiles
    <2> QED BY <2>2, <2>3, <2>4, CountedStays
  <1> QED
    BY <1>1, BeginCounted, CompileCounted, MarkerCounted, CompletionCounted, SettledCounted DEF RunStep

\* Looking for the next compile, and starting its run, leave it in the queue.
LEMMA QueueCounted ==
    ASSUME TypeOK, CallsInv, Announced, Counted, (\E call \in calls : AcquireAndFetch(call)) \/ StartOrLeave
    PROVE  Counted'
  <1>1. UNCHANGED <<db, queueCount, uncounted, recounted>>
    BY DEF AcquireAndFetch, StartOrLeave, persistent, history
  <1>2. Incomplete' = Incomplete /\ \A d \in Compiles : Row(d) <=> Row(d)'
    BY <1>1 DEF Incomplete, Row, Compiles
  <1>3. CASE \E call \in calls : AcquireAndFetch(call)
    <2>1. PICK call \in calls : AcquireAndFetch(call)
      BY <1>3
    <2>2. Returned(call) \/ Fetched(call)
      BY <2>1, AcquireEffect
    <2>3. CASE Returned(call)
      <3>1. FinishesRun(call)
        BY DEF CallsInv
      <3>2. Len(tasks') = Len(tasks) /\ Tasks = 1..Len(tasks)
        BY <2>3 DEF Returned, Tasks
      <3>3. \A u \in Tasks : ReturnsTo(call, u) => tasks[u].pc = "finishing" /\ Ended(u)'
        BY <2>3, <3>1 DEF Returned, FinishesRun, ReturnsTo
      <3>4. \A u \in Tasks : ~ReturnsTo(call, u) => tasks'[u] = tasks[u]
        BY <2>3 DEF Returned
      <3>5. Taken(tasks') = Taken(tasks) /\ Settling(tasks') = Settling(tasks)
        <4>1. \A u \in Tasks : tasks[u].pc \in {"compiling", "merging"} => tasks'[u] = tasks[u]
          BY <3>3, <3>4
        <4>2. \A u \in Tasks : tasks'[u].pc \in {"compiling", "merging"} => tasks'[u] = tasks[u]
          BY <3>3, <3>4 DEF Ended
        <4> QED BY <3>2, <4>1, <4>2, SameWork
      <3> QED BY <1>1, <1>2, <3>5, CountedStays
    <2>4. CASE Fetched(call)
      BY <1>1, <1>2, <2>4, CountedStays DEF Fetched
    <2> QED BY <2>2, <2>3, <2>4
  <1>4. CASE StartOrLeave
    <2>1. PICK call : call = holder.call
      OBVIOUS
    <2>2. /\ \A u \in Tasks : IF ReturnsTo(call, u) THEN Ended(u)' ELSE tasks'[u] = tasks[u]
          /\ Started(Len(tasks) + 1) \/ Left
      BY <1>4, <2>1, StartEffect
    <2>3. FinishesRun(call) /\ Len(tasks) \in Nat /\ Tasks = 1..Len(tasks) /\ Tasks' = 1..Len(tasks')
      BY <2>1, Typing DEF CallsInv, Tasks
    <2>4. \A u \in Tasks : ReturnsTo(call, u) => tasks[u].pc = "finishing" /\ Ended(u)'
      BY <2>2, <2>3 DEF FinishesRun, ReturnsTo
    <2>5. \A u \in Tasks : tasks[u].pc \in {"compiling", "merging"} => tasks'[u] = tasks[u]
      BY <2>2, <2>4
    <2>6. \A u \in Tasks : tasks'[u].pc \in {"compiling", "merging"} => tasks'[u] = tasks[u]
      BY <2>2, <2>4 DEF Ended
    <2>7. \A u \in Tasks' : u \in Tasks \/ tasks'[u].pc = "backoff"
      BY <2>2 DEF Started, Left
    <2>8. Tasks \subseteq Tasks'
      BY <2>2 DEF Started, Left
    <2>9. Taken(tasks') = Taken(tasks) /\ Settling(tasks') = Settling(tasks)
      <3>1. \A u \in 1..Len(tasks) : tasks[u].pc \in {"compiling", "merging"} =>
                u \in 1..Len(tasks') /\ tasks'[u] = tasks[u]
        BY <2>3, <2>5, <2>8
      <3>2. \A u \in 1..Len(tasks') : tasks'[u].pc \in {"compiling", "merging"} =>
                u \in 1..Len(tasks) /\ tasks'[u] = tasks[u]
        BY <2>3, <2>6, <2>7
      <3> QED BY <3>1, <3>2, SameWork
    <2> QED BY <1>1, <1>2, <2>9, CountedStays
  <1> QED BY <1>3, <1>4

\* A request made inside a transaction counts once its commit is announced.
LEMMA TransactionCounted ==
    ASSUME TypeOK, RowsInv, MergeInv, ~cancelledLive, Announced, Counted,
           \/ \E kind \in InTransaction : RequestInTransaction(kind)
           \/ \E c \in Compiles : CommitRequest(c) \/ NotifyCompileRequestCommitted(c)
    PROVE  Counted'
  <1>1. CASE \E kind \in InTransaction : RequestInTransaction(kind)
    <2>1. PICK kind \in InTransaction : RequestInTransaction(kind)
      BY <1>1
    <2>2. PICK new : new = Len(db) + 1
      OBVIOUS
    <2>3. /\ Compiles' = Compiles \cup {new} /\ new \notin Compiles /\ db'[new].row = "uncommitted"
          /\ \A d \in Compiles : db'[d] = db[d]
      BY <2>1, <2>2, InsertHiddenEffect
    <2>4. Incomplete' = Incomplete /\ \A d \in Compiles : Row(d) <=> Row(d)'
      BY <2>3 DEF Incomplete, Row
    <2>5. UNCHANGED <<tasks, queueCount, uncounted, recounted>>
      BY <2>1 DEF RequestInTransaction, service, history
    <2> QED BY <2>4, <2>5, CountedStays
  <1>2. ASSUME NEW c \in Compiles, CommitRequest(c) PROVE Counted'
    <2>1. /\ db[c].row = "uncommitted" /\ Compiles' = Compiles
          /\ \A d \in Compiles : d # c => db'[d] = db[d]
          /\ db'[c].row = "row" /\ db'[c].completed = db[c].completed
      BY <1>2, CommitEffect
    <2>2. db[c].completed = 0 /\ ~Row(c)
      BY <2>1 DEF RowsInv, Outcomes, NoOutcome, Row
    <2>3. UNCHANGED <<tasks, queueCount, recounted>> /\ uncounted' = uncounted \cup {c}
      BY <1>2 DEF CommitRequest, history
    <2>4. Incomplete' = Incomplete \cup {c} /\ Row(c)' /\ \A d \in Compiles : d # c => (Row(d) <=> Row(d)')
      BY <2>1, <2>2 DEF Incomplete, Row
    <2>5. /\ c \notin Waiting /\ IsFiniteSet(Waiting) /\ Cardinality(Waiting) \in Nat
          /\ c \notin uncounted /\ c \notin recounted
      BY <2>1, <2>2, WaitingAreRows DEF Counted, Announced
    <2>6. c \notin Taken(tasks)
      <3> SUFFICES ASSUME NEW t \in Tasks, tasks[t].pc = "compiling", tasks[t].compile = c
                   PROVE  FALSE
        BY DEF Taken, Tasks
      <3>1. Row(tasks[t].compile)
        BY DEF RowsInv, Ended
      <3> QED BY <2>2, <3>1
    <2>7. Waiting' = Waiting \cup {c}
      BY <2>3, <2>4, <2>6, WaitingIs
    <2>8. Cardinality(Waiting') = Cardinality(Waiting) + 1
      BY <2>5, <2>7, FS_AddElement
    <2>9. /\ IsFiniteSet(CountedLate) /\ Cardinality(CountedLate) \in Nat
          /\ Cardinality(CountedTwice) \in Nat /\ c \notin CountedLate
      BY <2>5, CorrectionsAreFinite DEF CountedLate
    <2>10. CountedLate' = CountedLate \cup {c} /\ CountedTwice' = CountedTwice
      <3>1. \A d \in uncounted : d \in Compiles /\ d # c
        BY <2>5 DEF Announced
      <3> QED BY <2>3, <2>4, <2>5, <3>1 DEF CountedLate, CountedTwice
    <2>11. Cardinality(CountedLate') = Cardinality(CountedLate) + 1
      BY <2>9, <2>10, FS_AddElement
    <2>12. \A d \in recounted' : Row(d)'
      BY <2>3, <2>4, <2>5 DEF Counted, Row
    <2> QED BY <2>3, <2>5, <2>8, <2>9, <2>10, <2>11, <2>12 DEF Counted
  <1>3. ASSUME NEW c \in Compiles, NotifyCompileRequestCommitted(c) PROVE Counted'
    <2>1. c \in uncounted /\ uncounted' = uncounted \ {c} /\ UNCHANGED <<db, tasks, recounted>>
      BY <1>3 DEF NotifyCompileRequestCommitted, persistent, history
    <2>2. queueCount' = IF Row(c) THEN queueCount + 1 ELSE queueCount
      BY <1>3, <2>1 DEF NotifyCompileRequestCommitted
    <2>3. Incomplete' = Incomplete /\ \A d : Row(d) <=> Row(d)'
      BY <2>1 DEF Incomplete, Row, Compiles
    <2>4. Waiting' = Waiting /\ Cardinality(Waiting) \in Nat
      BY <2>1, <2>3, WaitingIs, WaitingAreRows
    <2>5. /\ IsFiniteSet(CountedLate) /\ Cardinality(CountedLate) \in Nat
          /\ IsFiniteSet(CountedTwice) /\ Cardinality(CountedTwice) \in Nat
      BY CorrectionsAreFinite
    <2>6. \A d \in recounted' : Row(d)'
      BY <2>1, <2>3 DEF Counted
    <2>7. CASE Row(c) /\ c \in recounted
      <3>1. CountedLate' = CountedLate /\ CountedTwice' = CountedTwice \cup {c} /\ c \notin CountedTwice
        BY <2>1, <2>3, <2>7 DEF CountedLate, CountedTwice
      <3>2. Cardinality(CountedTwice') = Cardinality(CountedTwice) + 1
        BY <2>5, <3>1, FS_AddElement
      <3> QED BY <2>2, <2>4, <2>5, <2>6, <2>7, <3>1, <3>2 DEF Counted
    <2>8. CASE Row(c) /\ c \notin recounted
      <3>1. CountedLate' = CountedLate \ {c} /\ CountedTwice' = CountedTwice /\ c \in CountedLate
        BY <2>1, <2>3, <2>8 DEF CountedLate, CountedTwice
      <3>2. Cardinality(CountedLate') = Cardinality(CountedLate) - 1
        BY <2>5, <3>1, FS_RemoveElement
      <3> QED BY <2>2, <2>4, <2>5, <2>6, <2>8, <3>1, <3>2 DEF Counted
    <2>9. CASE ~Row(c)
      <3>1. c \notin recounted
        BY <2>9 DEF Counted
      <3>2. CountedLate' = CountedLate /\ CountedTwice' = CountedTwice
        BY <2>1, <2>3, <2>9, <3>1 DEF CountedLate, CountedTwice
      <3> QED BY <2>2, <2>4, <2>6, <2>9, <3>2 DEF Counted
    <2> QED BY <2>7, <2>8, <2>9
  <1> QED BY <1>1, <1>2, <1>3

\* Which steps belong to the operation on the environment, or end it; the others leave it alone.
OperationStep ==
    \/ Resume \/ EndResume \/ EnterClear \/ CancelCompile \/ DeleteEnvironmentDir \/ ClearRows
    \/ RecalculateQueueCount \/ EndClear \/ Restart

\* The frame of the operation on the environment.
LEMMA OperationFrame ==
    ASSUME TypeOK, [Next]_vars
    PROVE  OperationStep \/ (UNCHANGED <<operation, recounted>> /\ (stopping => stopping'))
  <1> USE DEF persistent, envService, history, service
  <1>1. CASE \/ \E n \in notifying : DeliverBlocking(n) \/ MarkHandled(n)
             \/ RecoverNotify \/ RecoverReady
             \/ \E w \in {"recover", "resume"} : ReadLastRun(w) \/ CompareMarker(w)
             \/ \E kind \in Kinds : RequestRecompile(kind)
             \/ \E kind \in InTransaction : RequestInTransaction(kind)
             \/ \E c \in Compiles : CommitRequest(c) \/ NotifyCompileRequestCommitted(c)
             \/ Halt \/ RequestClear \/ ChangeSettings \/ Stop \/ UNCHANGED vars
    BY <1>1 DEF DeliverBlocking, MarkHandled, RecoverNotify, RecoverReady, ReadLastRun, CompareMarker,
                RequestRecompile, RequestInTransaction, CommitRequest, NotifyCompileRequestCommitted,
                Halt, RequestClear, ChangeSettings, Stop, vars
  <1>2. CASE \/ (\E t \in Tasks : RunStep(t) \/ CancelOnStop(t)) \/ (\E call \in calls : AcquireAndFetch(call))
             \/ StartOrLeave
    BY <1>2 DEF RunStep, BeginRun, RunCompiler, WriteLastCompileMarker, NotifyListeners, FinishRun,
                CompleteMerged, CancelOnStop, AcquireAndFetch, StartOrLeave
  <1> QED BY <1>1, <1>2 DEF Next, ServiceStep, OperationStep

\* Only a new server, and the recount of a clear, start to count.
LEMMA CountingBefore ==
    ASSUME TypeOK, [Next]_vars, ~Restart, ~RecalculateQueueCount, Counting'
    PROVE  Counting
  <1>0. ~cancelledLive
    BY CancelledStays DEF Counting
  <1>1. CASE UNCHANGED <<operation, recounted>> /\ (stopping => stopping')
    BY <1>0, <1>1 DEF Counting
  <1>2. CASE CancelCompile \/ DeleteEnvironmentDir \/ ClearRows
    <2>1. operation'.pc \in {"join", "rows", "recount"}
      BY <1>2 DEF CancelCompile, DeleteEnvironmentDir, ClearRows, TypeOK, Operations
    <2> QED BY <2>1 DEF Counting
  <1>3. CASE Resume \/ EndResume \/ EnterClear \/ EndClear
    <2>1. operation.pc \in {"none", "resuming", "cleared"} /\ stopping' = stopping
      BY <1>3 DEF Resume, EndResume, EnterClear, EndClear, NoOperation, service
    <2> QED BY <1>0, <2>1 DEF Counting
  <1> QED BY <1>1, <1>2, <1>3, OperationFrame DEF OperationStep

\* A request is committed before it is announced, and stays so.
LEMMA NextAnnounced == TypeOK /\ CallsInv /\ RowsInv /\ Announced /\ [Next]_vars => Announced'
  <1> SUFFICES ASSUME TypeOK, CallsInv, RowsInv, Announced, [Next]_vars PROVE Announced'
    OBVIOUS
  <1> USE DEF persistent, envService, history, service
  <1>1. /\ Compiles \subseteq Compiles'
        /\ \A c \in Compiles : db'[c].row = "uncommitted" => db[c].row = "uncommitted"
    <2>1. CASE ClearRows
      <3>1. PICK gone : gone = {c \in Compiles : Row(c)}
        OBVIOUS
      <3>2. db' = [c \in Compiles |-> IF c \in gone THEN NoRow ELSE db[c]]
        BY <2>1, <3>1 DEF ClearRows
      <3>3. /\ Compiles' = Compiles /\ NoRow.row = "deleted"
            /\ \A c \in Compiles : IF c \in gone THEN db'[c] = NoRow ELSE db'[c] = db[c]
        BY <3>2, DeleteEffect
      <3> QED BY <3>3
    <2>2. CASE ~ClearRows
      BY <2>2, NextKeeps DEF Keeps, RowsInv
    <2> QED BY <2>1, <2>2
  <1>2. ASSUME NEW c \in uncounted', c \notin uncounted
        PROVE  c \in Compiles /\ db'[c].row = "row"
    <2>1. c \in Compiles /\ CommitRequest(c)
      <3>1. CASE UNCHANGED uncounted \/ uncounted' = {}
        BY <1>2, <3>1
      <3>2. CASE \E d \in Compiles : CommitRequest(d)
        BY <1>2, <3>2 DEF CommitRequest
      <3>3. CASE \E d \in Compiles : NotifyCompileRequestCommitted(d)
        BY <1>2, <3>3 DEF NotifyCompileRequestCommitted
      <3>4. CASE \/ \E n \in notifying : DeliverBlocking(n) \/ MarkHandled(n)
                 \/ RecoverNotify \/ RecoverReady
                 \/ \E w \in {"recover", "resume"} : ReadLastRun(w) \/ CompareMarker(w)
                 \/ \E kind \in Kinds : RequestRecompile(kind)
                 \/ \E kind \in InTransaction : RequestInTransaction(kind)
                 \/ Halt \/ Resume \/ EndResume \/ RequestClear \/ ChangeSettings \/ Stop \/ UNCHANGED vars
        <4>1. UNCHANGED uncounted
          BY <3>4 DEF DeliverBlocking, MarkHandled, RecoverNotify, RecoverReady, ReadLastRun, CompareMarker,
                      RequestRecompile, RequestInTransaction, Halt, Resume, EndResume, RequestClear,
                      ChangeSettings, Stop, vars
        <4> QED BY <3>1, <4>1
      <3>5. CASE \/ (\E t \in Tasks : RunStep(t) \/ CancelOnStop(t))
                 \/ (\E call \in calls : AcquireAndFetch(call)) \/ StartOrLeave
                 \/ EnterClear \/ CancelCompile \/ DeleteEnvironmentDir \/ ClearRows
                 \/ RecalculateQueueCount \/ EndClear \/ Restart
        <4>1. UNCHANGED uncounted \/ uncounted' = {}
          BY <3>5 DEF RunStep, BeginRun, RunCompiler, WriteLastCompileMarker, NotifyListeners, FinishRun,
                      CompleteMerged, CancelOnStop, AcquireAndFetch, StartOrLeave, EnterClear, CancelCompile,
                      DeleteEnvironmentDir, ClearRows, RecalculateQueueCount, EndClear, Restart
        <4> QED BY <3>1, <4>1
      <3> QED BY <3>2, <3>3, <3>4, <3>5 DEF Next, ServiceStep
    <2> QED BY <2>1, CommitEffect
  <1> QED BY <1>1, <1>2 DEF Announced

\* From the deletion of the rows to the recount, nothing starts.
LEMMA NextRecount ==
    TypeOK /\ CallsInv /\ BusyInv /\ RowsInv /\ RecountInv /\ [Next]_vars => RecountInv'
  <1> SUFFICES ASSUME TypeOK, CallsInv, BusyInv, RowsInv, RecountInv, [Next]_vars,
                      ~cancelledLive', operation'.pc = "recount"
               PROVE  /\ halted' /\ (holder' # Free => holder'.halted)
                      /\ \A t \in Tasks' : Ended(t)'
                      /\ \A c \in Compiles' : ~db'[c].started
    BY DEF RecountInv, Free, NoCall
  <1> USE DEF persistent, envService, history, service
  <1>0. ~cancelledLive
    BY CancelledStays
  <1>1. CASE ClearRows
    <2>1. PICK gone : gone = {c \in Compiles : Row(c)}
      OBVIOUS
    <2>2. /\ db' = [c \in Compiles |-> IF c \in gone THEN NoRow ELSE db[c]]
          /\ UNCHANGED <<halted, holder, tasks>> /\ operation.pc = "rows"
      BY <1>1, <2>1 DEF ClearRows
    <2>3. /\ Compiles' = Compiles /\ ~NoRow.started
          /\ \A c \in Compiles : IF c \in gone THEN db'[c] = NoRow ELSE db'[c] = db[c]
      BY <2>2, DeleteEffect
    <2>4. \A c \in Compiles : ~db'[c].started
      BY <2>1, <2>3 DEF RowsInv, Outcomes, NoOutcome, Row
    <2>5. halted /\ (holder # Free => holder.halted) /\ \A t \in Tasks : Ended(t)
      BY <1>0, <2>2, Typing DEF BusyInv, Cancelling
    <2> QED BY <2>2, <2>3, <2>4, <2>5 DEF Tasks, Ended
  <1>2. CASE ~ClearRows
    <2>1. operation' = operation /\ ~OperationStep
      <3>1. CASE OperationStep
        <4>1. Resume \/ EndResume \/ EnterClear \/ CancelCompile \/ DeleteEnvironmentDir
              \/ RecalculateQueueCount \/ EndClear \/ Restart
          BY <1>2, <3>1 DEF OperationStep
        <4>2. operation \in Operations
          BY DEF TypeOK
        <4>3. CASE EndResume \/ Restart \/ EnterClear
          BY <4>3 DEF EndResume, Restart, EnterClear, NoOperation
        <4>4. CASE CancelCompile \/ DeleteEnvironmentDir \/ RecalculateQueueCount
          BY <4>2, <4>4 DEF CancelCompile, DeleteEnvironmentDir, RecalculateQueueCount, Operations
        <4>5. ASSUME NEW op \in Operations, ResumeWith(op)
              PROVE  FALSE
          BY <4>5 DEF ResumeWith, NoOperation, Operations
        <4>6. CASE Resume
          <5>1. PICK op : op = [NoOperation EXCEPT !.kind = "resume"]
            OBVIOUS
          <5>2. op \in Operations /\ ResumeWith(op)
            BY <4>6, <5>1 DEF Resume, NoOperation, Operations
          <5> QED BY <4>5, <5>2
        <4>7. CASE EndClear
          <5>1. CASE operation' = NoOperation
            BY <5>1 DEF NoOperation
          <5>2. CASE ResumeWith(operation)
            BY <4>2, <4>5, <5>2
          <5> QED BY <4>7, <5>1, <5>2 DEF EndClear
        <4> QED BY <4>1, <4>3, <4>4, <4>6, <4>7
      <3> QED BY <3>1, OperationFrame
    <2>2. /\ halted /\ (holder # Free => holder.halted)
          /\ \A t \in Tasks : Ended(t)
          /\ \A c \in Compiles : ~db[c].started
      BY <1>0, <2>1 DEF RecountInv
    <2>3. (\A t \in Tasks : ~RunStep(t) /\ ~CancelOnStop(t)) /\ ~Halt
      <3>1. \A t \in Tasks : ~RunStep(t)
        BY <2>2, RunStepEffect
      <3>2. \A t \in Tasks : ~CancelOnStop(t)
        BY <2>2 DEF CancelOnStop
      <3>3. operation # NoOperation
        BY <2>1 DEF NoOperation
      <3> QED BY <3>1, <3>2, <3>3 DEF Halt
    <2>4. ASSUME UNCHANGED <<db, halted, holder, tasks>>
          PROVE  /\ halted' /\ (holder' # Free => holder'.halted)
                 /\ \A t \in Tasks' : Ended(t)'
                 /\ \A c \in Compiles' : ~db'[c].started
      BY <2>2, <2>4 DEF Tasks, Ended, Compiles
    <2>5. ASSUME UNCHANGED <<halted, holder, tasks>>,
                 \A c \in Compiles' : c \in Compiles \/ ~db'[c].started,
                 \A c \in Compiles : db'[c].started = db[c].started
          PROVE  /\ halted' /\ (holder' # Free => holder'.halted)
                 /\ \A t \in Tasks' : Ended(t)'
                 /\ \A c \in Compiles' : ~db'[c].started
      BY <2>2, <2>5 DEF Tasks, Ended
    <2>6. ASSUME NEW n \in notifying, MarkHandled(n)
          PROVE  UNCHANGED <<halted, holder, tasks>> /\ \A c \in Compiles' : ~db'[c].started
      BY <2>2, <2>6, MarkHandledEffect DEF MarkHandled
    <2>7. ASSUME NEW kind \in Kinds, RequestRecompile(kind)
          PROVE  UNCHANGED <<halted, holder, tasks>> /\ \A c \in Compiles' : ~db'[c].started
      <3>1. kind[1] \in Keys /\ kind[2] \in BOOLEAN /\ InsertAndProcess(kind[1], kind[2])
            /\ UNCHANGED <<halted, holder, tasks>>
        BY <2>7, CompilerAssumption DEF RequestRecompile
      <3> QED BY <2>2, <3>1, InsertEffect
    <2>8. ASSUME NEW kind \in InTransaction, RequestInTransaction(kind)
          PROVE  UNCHANGED <<halted, holder, tasks>> /\ \A c \in Compiles' : ~db'[c].started
      BY <2>2, <2>8, InsertHiddenEffect DEF RequestInTransaction
    <2>9. ASSUME NEW c \in Compiles, CommitRequest(c)
          PROVE  UNCHANGED <<halted, holder, tasks>> /\ \A d \in Compiles' : ~db'[d].started
      BY <2>2, <2>9, CommitEffect DEF CommitRequest
    <2>10. ASSUME NEW w \in {"recover", "resume"}, CompareMarker(w)
           PROVE  UNCHANGED <<halted, holder, tasks>> /\ \A d \in Compiles' : ~db'[d].started
      <3>1. UNCHANGED <<halted, holder, tasks>>
        BY <2>10 DEF CompareMarker
      <3>2. CASE InsertAndProcess(RecoveryKey, TRUE)
        BY <2>2, <3>1, <3>2, CompilerAssumption, InsertEffect
      <3>3. CASE UNCHANGED <<db, queueCount, calls>>
        BY <2>2, <3>1, <3>3 DEF Compiles
      <3> QED BY <2>10, <3>2, <3>3 DEF CompareMarker
    <2>11. CASE \/ \E n \in notifying : MarkHandled(n)
                \/ \E kind \in Kinds : RequestRecompile(kind)
                \/ \E kind \in InTransaction : RequestInTransaction(kind)
                \/ \E c \in Compiles : CommitRequest(c)
                \/ \E w \in {"recover", "resume"} : CompareMarker(w)
      <3>1. UNCHANGED <<halted, holder, tasks>> /\ \A d \in Compiles' : ~db'[d].started
        BY <2>6, <2>7, <2>8, <2>9, <2>10, <2>11
      <3> QED BY <2>2, <3>1 DEF Tasks, Ended
    <2>12. CASE \/ \E n \in notifying : DeliverBlocking(n)
                \/ RecoverNotify \/ RecoverReady
                \/ \E w \in {"recover", "resume"} : ReadLastRun(w)
                \/ \E c \in Compiles : NotifyCompileRequestCommitted(c)
                \/ RequestClear \/ ChangeSettings \/ Stop \/ UNCHANGED vars
      <3>1. UNCHANGED <<db, halted, holder, tasks>>
        BY <2>12 DEF DeliverBlocking, RecoverNotify, RecoverReady, ReadLastRun,
                     NotifyCompileRequestCommitted, RequestClear, ChangeSettings, Stop, vars
      <3> QED BY <2>4, <3>1
    <2>13. ASSUME NEW call \in calls, AcquireAndFetch(call)
           PROVE  /\ halted' /\ (holder' # Free => holder'.halted)
                  /\ \A t \in Tasks' : Ended(t)'
                  /\ \A c \in Compiles' : ~db'[c].started
      <3>1. UNCHANGED <<db, halted>> /\ (Returned(call) \/ Fetched(call))
        BY <2>13, AcquireEffect DEF AcquireAndFetch
      <3>2. CASE Returned(call)
        BY <2>2, <3>1, <3>2 DEF Returned, Ended, Compiles
      <3>3. CASE Fetched(call)
        BY <2>2, <3>1, <3>3 DEF Fetched, Ended, Compiles, Tasks
      <3> QED BY <3>1, <3>2, <3>3
    <2>14. CASE StartOrLeave
      <3>1. UNCHANGED <<db, halted>> /\ holder' = Free /\ holder.halted
        BY <2>2, <2>14, StartEffect DEF StartOrLeave
      <3>2. Left
        BY <2>14, <3>1, StartEffect DEF Started
      <3>3. \A t \in Tasks' : Ended(t)'
        BY <2>2, <2>14, <3>2, StartEffect DEF Left, Ended
      <3> QED BY <2>2, <3>1, <3>3 DEF Compiles
    <2> QED BY <2>1, <2>3, <2>11, <2>12, <2>13, <2>14 DEF Next, ServiceStep, OperationStep
  <1> QED BY <1>1, <1>2

\* Then the count is what is queued, and what was announced too late is counted twice.
LEMMA RecountCounted ==
    ASSUME TypeOK, RecountInv, ~cancelledLive, RecalculateQueueCount
    PROVE  Counted'
  <1>1. /\ operation.pc = "recount" /\ UNCHANGED <<db, tasks, uncounted>>
        /\ queueCount' = Cardinality({c \in Incomplete : ~db[c].started})
        /\ recounted' = {c \in uncounted : Row(c)}
    BY DEF RecalculateQueueCount, persistent
  <1>2. (\A t \in Tasks : Ended(t)) /\ \A c \in Compiles : ~db[c].started
    BY <1>1 DEF RecountInv
  <1>3. \A c : Row(c) <=> Row(c)'
    BY <1>1 DEF Row, Compiles
  <1>4. Incomplete' = Incomplete /\ {c \in Incomplete : ~db[c].started} = Incomplete
    BY <1>1, <1>2 DEF Incomplete, Row, Compiles
  <1>5. Taken(tasks') = {} /\ Settling(tasks') = {}
    BY <1>1, <1>2, WorkOfNone DEF Tasks, Ended
  <1>6. Waiting' = Incomplete
    BY <1>4, <1>5, WaitingIs
  <1>7. CountedLate' = {} /\ CountedTwice' = {} /\ \A c \in recounted' : Row(c)'
    BY <1>1, <1>3 DEF CountedLate, CountedTwice
  <1>8. Cardinality(Incomplete) \in Nat /\ Cardinality({}) = 0
    BY RowsAreFinite, FS_EmptySet DEF Incomplete
  <1>9. queueCount' = Cardinality(Incomplete)
    BY <1>1, <1>4
  <1> QED BY <1>6, <1>7, <1>8, <1>9 DEF Counted

\* A new server counts the queue it finds.
LEMMA RestartCounted ==
    ASSUME TypeOK, Restart
    PROVE  Counted'
  <1>1. PICK gone : gone = {d \in Compiles : db[d].row = "uncommitted"}
    OBVIOUS
  <1>2. /\ db' = [d \in Compiles |-> IF d \in gone THEN NoRow ELSE db[d]]
        /\ tasks' = <<>> /\ queueCount' = Cardinality(Incomplete)
        /\ uncounted' = {} /\ recounted' = {}
    BY <1>1 DEF Restart
  <1>3. /\ Compiles' = Compiles
        /\ \A d \in Compiles : IF d \in gone THEN db'[d] = NoRow ELSE db'[d] = db[d]
        /\ NoRow.row = "deleted"
    BY <1>2, DeleteEffect
  <1>4. Incomplete' = Incomplete
    BY <1>1, <1>3 DEF Incomplete, Row
  <1>5. Taken(tasks') = {} /\ Settling(tasks') = {}
    BY <1>2, WorkOfNone
  <1>6. Waiting' = Incomplete
    BY <1>4, <1>5, WaitingIs
  <1>7. Cardinality(Incomplete) \in Nat /\ Cardinality({}) = 0
    BY RowsAreFinite, FS_EmptySet DEF Incomplete
  <1>8. CountedLate' = {} /\ CountedTwice' = {}
    BY <1>2 DEF CountedLate, CountedTwice
  <1> QED BY <1>2, <1>6, <1>7, <1>8 DEF Counted

\* The other steps leave the queue alone, or add one request and count it.
LEMMA OtherCounted ==
    ASSUME TypeOK, RowsInv, MergeInv, ~cancelledLive, Announced, Counted,
           \/ \E n \in notifying : DeliverBlocking(n) \/ MarkHandled(n)
           \/ RecoverNotify \/ RecoverReady
           \/ \E w \in {"recover", "resume"} : ReadLastRun(w) \/ CompareMarker(w)
           \/ \E kind \in Kinds : RequestRecompile(kind)
           \/ Halt \/ Resume \/ EndResume \/ RequestClear \/ EnterClear \/ EndClear
           \/ ChangeSettings \/ UNCHANGED vars
    PROVE  Counted'
  <1> USE DEF persistent, envService, history, service
  <1>1. ASSUME UNCHANGED <<db, tasks, queueCount, uncounted, recounted>>
        PROVE  Counted'
    <2>1. Incomplete' = Incomplete /\ \A d \in Compiles : Row(d) <=> Row(d)'
      BY <1>1 DEF Incomplete, Row, Compiles
    <2> QED BY <1>1, <2>1, CountedStays
  <1>2. ASSUME NEW n \in notifying, MarkHandled(n)
        PROVE  Counted'
    <2>1. /\ Compiles' = Compiles
          /\ \A d \in Compiles : SameRequest(d) /\ db'[d].completed = db[d].completed
      BY <1>2, MarkHandledEffect
    <2>2. UNCHANGED <<tasks, queueCount, uncounted, recounted>>
      BY <1>2 DEF MarkHandled
    <2>3. Incomplete' = Incomplete /\ \A d \in Compiles : Row(d) <=> Row(d)'
      BY <2>1 DEF Incomplete, Row, SameRequest
    <2> QED BY <2>2, <2>3, CountedStays
  <1>3. ASSUME NEW kind \in Kinds, RequestRecompile(kind)
        PROVE  Counted'
    <2>1. /\ kind[1] \in Keys /\ kind[2] \in BOOLEAN /\ InsertAndProcess(kind[1], kind[2])
          /\ UNCHANGED <<tasks, uncounted, recounted>>
      BY <1>3, CompilerAssumption DEF RequestRecompile
    <2> QED BY <2>1, InsertCounted
  <1>4. ASSUME NEW w \in {"recover", "resume"}, CompareMarker(w)
        PROVE  Counted'
    <2>1. UNCHANGED <<tasks, uncounted, recounted>>
      BY <1>4 DEF CompareMarker
    <2>2. CASE InsertAndProcess(RecoveryKey, TRUE)
      BY <2>1, <2>2, CompilerAssumption, InsertCounted
    <2>3. CASE UNCHANGED <<db, queueCount, calls>>
      BY <1>1, <2>1, <2>3
    <2> QED BY <1>4, <2>2, <2>3 DEF CompareMarker
  <1>5. CASE \/ \E n \in notifying : DeliverBlocking(n)
             \/ RecoverNotify \/ RecoverReady
             \/ \E w \in {"recover", "resume"} : ReadLastRun(w)
             \/ Halt \/ Resume \/ EndResume \/ RequestClear \/ EnterClear \/ EndClear
             \/ ChangeSettings \/ UNCHANGED vars
    <2>1. UNCHANGED <<db, tasks, queueCount, uncounted, recounted>>
      BY <1>5 DEF DeliverBlocking, RecoverNotify, RecoverReady, ReadLastRun,
                  Halt, Resume, EndResume, RequestClear, EnterClear, EndClear, ChangeSettings, vars
    <2> QED BY <1>1, <2>1
  <1> QED BY <1>2, <1>3, <1>4, <1>5

\* Every step keeps the count.
LEMMA NextQueue ==
    TypeOK /\ CallsInv /\ BusyInv /\ RowsInv /\ MergeInv /\ QueueInv /\ [Next]_vars => QueueInv'
  <1> SUFFICES ASSUME TypeOK, CallsInv, BusyInv, RowsInv, MergeInv, QueueInv, [Next]_vars, Counting'
               PROVE  Counted'
    BY NextAnnounced, NextRecount DEF QueueInv
  <1>1. CASE Restart
    BY <1>1, RestartCounted
  <1>2. CASE RecalculateQueueCount
    BY <1>2, RecountCounted, CancelledStays DEF QueueInv, Counting
  <1>3. CASE ~Restart /\ ~RecalculateQueueCount
    <2>1. Counting /\ Counted /\ Announced
      BY <1>3, CountingBefore DEF QueueInv
    <2>2. ~stopping /\ ~cancelledLive /\ operation.pc \notin {"join", "rows", "recount"}
      BY <2>1 DEF Counting
    <2>3. ~Stop /\ ~CancelCompile /\ \A t \in Tasks : ~CancelOnStop(t)
      BY <2>2 DEF Stop, CancelCompile, CancelOnStop, Counting, TypeOK, Operations
    <2>4. ~DeleteEnvironmentDir /\ ~ClearRows
      BY <2>2 DEF DeleteEnvironmentDir, ClearRows
    <2>5. \/ \E t \in Tasks : RunStep(t)
          \/ (\E call \in calls : AcquireAndFetch(call)) \/ StartOrLeave
          \/ \/ \E kind \in InTransaction : RequestInTransaction(kind)
             \/ \E c \in Compiles : CommitRequest(c) \/ NotifyCompileRequestCommitted(c)
          \/ \/ \E n \in notifying : DeliverBlocking(n) \/ MarkHandled(n)
             \/ RecoverNotify \/ RecoverReady
             \/ \E w \in {"recover", "resume"} : ReadLastRun(w) \/ CompareMarker(w)
             \/ \E kind \in Kinds : RequestRecompile(kind)
             \/ Halt \/ Resume \/ EndResume \/ RequestClear \/ EnterClear \/ EndClear
             \/ ChangeSettings \/ UNCHANGED vars
      BY <1>3, <2>3, <2>4 DEF Next, ServiceStep
    <2> QED BY <2>1, <2>2, <2>5, RunCounted, QueueCounted, TransactionCounted, OtherCounted
  <1> QED BY <1>1, <1>2, <1>3

\* The first server counts the queue it finds.
LEMMA InitQueue == Init => QueueInv
  <1> SUFFICES ASSUME Init PROVE QueueInv
    OBVIOUS
  <1>1. /\ tasks = <<>> /\ uncounted = {} /\ recounted = {} /\ operation = NoOperation
        /\ queueCount = Cardinality(Incomplete)
    BY DEF Init
  <1>2. Waiting = Incomplete
    BY <1>1, WaitingIs, WorkOfNone
  <1>3. Cardinality(Incomplete) \in Nat /\ Cardinality({}) = 0
    BY InitTypes, RowsAreFinite, FS_EmptySet DEF Incomplete
  <1>4. CountedLate = {} /\ CountedTwice = {}
    BY <1>1 DEF CountedLate, CountedTwice
  <1> QED BY <1>1, <1>2, <1>3, <1>4 DEF QueueInv, Announced, RecountInv, Counted, NoOperation

\* The number that the server reports as the length of the queue is the number of requests that
\* wait, whatever is requested, merged, settled, recovered or cleared: less those that were
\* committed and not announced yet, and with those that a clear had counted when they were.
THEOREM QueueIsCounted == Spec => []QueueCountIsLength
  <1> DEFINE IInv == BusyInv /\ RowsInv /\ MergeInv /\ QueueInv
  <1>1. (TypeOK /\ CallsInv) /\ IInv /\ [Next]_vars => IInv'
    BY NextBusy, NextRows, NextMerge, NextQueue
  <1>2. IInv => QueueCountIsLength
    BY DEF QueueCountIsLength, QueueInv, Counting, Counted
  <1> HIDE DEF IInv
  <1>3. Init => IInv
    BY InitRows, InitMerge, InitQueue DEF IInv
  <1> QED BY <1>1, <1>2, <1>3, CompilerTypeCorrect, PTL DEF Spec
=============================================================================
