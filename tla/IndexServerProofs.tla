-------------------------- MODULE IndexServerProofs --------------------------
(***************************************************************************)
(* Proofs about IndexServer, for any repositories, workers, tokens,        *)
(* policies, commits and contents, and whatever the budgets of faults and  *)
(* operations are (two theorems need that no lease expires late).          *)
(***************************************************************************)
EXTENDS IndexServer, TLAPS

Table == [Repos -> Row]
Claims == [repo : Repos, id : Nat, token : {0} \cup Tokens]
TaskType == [pc : TaskPc, claim : Claims, snap : Settings, sha : Shas, base : Shas,
             elders : SUBSET Workers, late : BOOLEAN]
GraphType == [row : BOOLEAN, sha : Shas, blob : {0} \cup {Blob[s] : s \in 1..MaxSha},
              policy : Settings, debt : BOOLEAN]
AdminType == [pc : AdminPc, repo : Repos, prev : [Repos -> Settings]]

-----------------------------------------------------------------------------
(* What the statements of jobs.rs do to a row.                             *)

\* A rewrite of a row that is neither a claim nor a completion: the token is kept
\* or cleared, the id changes only with a cleared token, the row starts neither to
\* run nor to have succeeded, and a running row does not lose its requeue mark.
Rewritten(old, new) ==
    /\ new \in Row
    /\ new.token = Null \/ (new.token = old.token /\ new.id = old.id)
    /\ new.status = "running" => /\ old.status = "running" /\ new.token = old.token
                                 /\ old.requeue = 1 => new.requeue = 1
    /\ new.status = "succeeded" => /\ old.status = "succeeded"
                                   /\ new.requeue = 0 => old.requeue = 0

\* Two rewrites in a row are one.
LEMMA RewrittenTwice ==
    ASSUME NEW a \in Row, NEW b \in Row, NEW c \in Row, Rewritten(a, b), Rewritten(b, c)
    PROVE  Rewritten(a, c)
BY DEF Rewritten, Null

\* A new row, and a row hit by an event.
LEMMA EventRows ==
    ASSUME NEW row \in Row, NEW priority \in Priorities, NEW n \in Nat
    PROVE  /\ Rewritten(row, InsertedRow(n, priority, Clock))
           /\ Rewritten(row, ConflictRow(row, priority, Clock))
<1>1. Scheduled \in Priorities /\ Clock \in Nat
  BY DEF Priorities, Scheduled, Retry, Unindexed, Clock
<1>2. NoRow \in Row
  BY <1>1 DEF NoRow, Row, JobStatus, Null
<1>3. InsertedRow(n, priority, Clock) \in Row
  BY <1>1, <1>2 DEF InsertedRow, Row, JobStatus
<1>4. ConflictRow(row, priority, Clock) \in Row
  BY <1>1 DEF ConflictRow, Lesser, Row, JobStatus
<1>5. /\ InsertedRow(n, priority, Clock).token = Null
      /\ InsertedRow(n, priority, Clock).status = "pending"
  BY DEF InsertedRow, NoRow, Null
<1>6. Rewritten(row, InsertedRow(n, priority, Clock))
  BY <1>3, <1>5 DEF Rewritten
<1>7. Rewritten(row, ConflictRow(row, priority, Clock))
  BY <1>4 DEF Rewritten, ConflictRow, Row
<1>. QED
  BY <1>6, <1>7

\* Failure, deferral, reaping, recovery, requeueing, cancellation and no change.
LEMMA OtherRows ==
    ASSUME NEW row \in Row
    PROVE  /\ Rewritten(row, row)
           /\ Rewritten(row, RequeuedRow(row, Clock))
           /\ \A poison \in BOOLEAN : Rewritten(row, FailedRow(row, poison, Clock))
           /\ Rewritten(row, DeferredRow(row, Clock))
           /\ Rewritten(row, ReapedRow(row, Clock))
           /\ Rewritten(row, RecoveredRow(row, Clock))
           /\ Rewritten(row, CancelRow(row, Clock))
<1>1. Retry \in Priorities /\ Clock \in Nat
  BY DEF Priorities, Scheduled, Retry, Unindexed, Clock
<1>2. (IF row.attempt = 0 THEN 0 ELSE row.attempt - 1) \in Nat
  BY DEF Row
<1>3. Rewritten(row, row)
  BY DEF Rewritten
<1>4. Rewritten(row, RequeuedRow(row, Clock))
  BY <1>1 DEF Rewritten, RequeuedRow, Row, JobStatus
<1>5. ASSUME NEW poison \in BOOLEAN PROVE Rewritten(row, FailedRow(row, poison, Clock))
  BY <1>1 DEF Rewritten, FailedRow, Row, JobStatus
<1>6. Rewritten(row, DeferredRow(row, Clock))
  BY <1>1, <1>2 DEF Rewritten, DeferredRow, Row, JobStatus, Null
<1>7. Rewritten(row, ReapedRow(row, Clock))
  BY <1>1 DEF Rewritten, ReapedRow, Row, JobStatus, Null
<1>8. Rewritten(row, RecoveredRow(row, Clock))
  BY <1>1 DEF Rewritten, RecoveredRow, Row, JobStatus, Null
<1>9. Rewritten(row, CancelRow(row, Clock))
  BY <1>1 DEF Rewritten, CancelRow, Row, JobStatus
<1>. QED
  BY <1>3, <1>4, <1>5, <1>6, <1>7, <1>8, <1>9

\* A claim, and what a completed row becomes.
LEMMA ClaimRows ==
    ASSUME NEW row \in Row, NEW n \in Nat
    PROVE  /\ ClaimedRow(row, n, Clock) \in Row
           /\ [row EXCEPT !.status = "succeeded"] \in Row
<1>1. Clock \in Nat /\ Clock + LeaseSecs \in Nat
  BY JobConstants DEF Clock
<1>2. row.attempt + 1 \in Nat
  BY DEF Row
<1>. QED
  BY <1>1, <1>2 DEF ClaimedRow, Row, JobStatus

-----------------------------------------------------------------------------
(* The same for the whole table.                                           *)

TableRewritten(J, K) == K \in Table /\ \A s \in Repos : Rewritten(J[s], K[s])

\* The upserts of events, of AddJob, and of the declared repos.
LEMMA UpsertRewrites ==
    ASSUME NEW J \in Table, NEW r \in Repos, NEW priority \in Priorities
    PROVE  /\ TableRewritten(J, Upsert(J, r, priority, RowId[r], Clock))
           /\ TableRewritten(J, EnqueueDeclaredRepo(J, r, priority, RowId[r], Clock))
<1>1. J[r] \in Row /\ RowId[r] \in Nat
  BY ServerConstants DEF Table
<1>2. /\ Rewritten(J[r], InsertedRow(RowId[r], priority, Clock))
      /\ Rewritten(J[r], ConflictRow(J[r], priority, Clock))
  BY <1>1, EventRows
<1>3. \A s \in Repos : Rewritten(J[s], J[s])
  BY OtherRows DEF Table
<1>4. \A new : Rewritten(J[r], new) => TableRewritten(J, [J EXCEPT ![r] = new])
  BY <1>3 DEF TableRewritten, Table, Rewritten
<1>5. TableRewritten(J, Upsert(J, r, priority, RowId[r], Clock))
  BY <1>2, <1>4 DEF Upsert
<1>6. TableRewritten(J, J)
  BY <1>3 DEF TableRewritten
<1>. QED
  BY <1>5, <1>6 DEF EnqueueDeclaredRepo

\* Outcomes, expiry, recovery at startup and cancellation.
LEMMA OtherRewrites ==
    ASSUME NEW J \in Table, NEW c, NEW keep
    PROVE  /\ \A poison \in BOOLEAN : TableRewritten(J, Fail(J, c, poison, Clock))
           /\ TableRewritten(J, Defer(J, c, Clock))
           /\ TableRewritten(J, RecoverAllRunningAtStartup(J, Clock))
           /\ TableRewritten(J, CancelReposNotIn(J, keep, Clock))
           /\ \A r \in Repos : /\ TableRewritten(J, [J EXCEPT ![r] = ReapedRow(@, Clock)])
                               /\ TableRewritten(J, [J EXCEPT ![r] = RecoveredRow(@, Clock)])
                               /\ TableRewritten(J, CancelRepo(J, r, Clock))
                               /\ TableRewritten(J, RequeueIfStale(J, r, Clock))
<1>1. \A s \in Repos : /\ J[s] \in Row
                       /\ Rewritten(J[s], J[s])
                       /\ Rewritten(J[s], RequeuedRow(J[s], Clock))
                       /\ \A poison \in BOOLEAN : Rewritten(J[s], FailedRow(J[s], poison, Clock))
                       /\ Rewritten(J[s], DeferredRow(J[s], Clock))
                       /\ Rewritten(J[s], ReapedRow(J[s], Clock))
                       /\ Rewritten(J[s], RecoveredRow(J[s], Clock))
                       /\ Rewritten(J[s], CancelRow(J[s], Clock))
  BY OtherRows DEF Table
<1>2. \A r \in Repos : \A new : Rewritten(J[r], new) => TableRewritten(J, [J EXCEPT ![r] = new])
  BY <1>1 DEF TableRewritten, Table, Rewritten
<1>3. ASSUME NEW poison \in BOOLEAN PROVE TableRewritten(J, Fail(J, c, poison, Clock))
  BY <1>1 DEF TableRewritten, Table, Rewritten, Fail
<1>4. TableRewritten(J, Defer(J, c, Clock))
  BY <1>1 DEF TableRewritten, Table, Rewritten, Defer
<1>5. TableRewritten(J, RecoverAllRunningAtStartup(J, Clock))
  BY <1>1 DEF TableRewritten, Table, Rewritten, RecoverAllRunningAtStartup
<1>6. TableRewritten(J, CancelReposNotIn(J, keep, Clock))
  BY <1>1 DEF TableRewritten, Table, Rewritten, CancelReposNotIn
<1>7. ASSUME NEW r \in Repos
      PROVE  /\ TableRewritten(J, [J EXCEPT ![r] = ReapedRow(@, Clock)])
             /\ TableRewritten(J, [J EXCEPT ![r] = RecoveredRow(@, Clock)])
             /\ TableRewritten(J, CancelRepo(J, r, Clock))
             /\ TableRewritten(J, RequeueIfStale(J, r, Clock))
  BY <1>1, <1>2 DEF CancelRepo, RequeueIfStale
<1>. QED
  BY <1>3, <1>4, <1>5, <1>6, <1>7

\* Rewriting a rewritten table.
LEMMA TableTwice ==
    ASSUME NEW J \in Table, NEW K, NEW L, TableRewritten(J, K), TableRewritten(K, L)
    PROVE  TableRewritten(J, L)
BY RewrittenTwice DEF TableRewritten, Table

\* complete and requeue_if_stale: only the row of the claim changes, and it counts
\* as succeeded only when the claim was active and no mark was set.
LEMMA FinishRow ==
    ASSUME NEW J \in Table, NEW c \in Claims,
           NEW K, K = RequeueIfStale(Complete(J, c), c.repo, Clock)
    PROVE  /\ K \in Table
           /\ \A s \in Repos \ {c.repo} : K[s] = J[s]
           /\ ~Fenced(J[c.repo], c) => Rewritten(J[c.repo], K[c.repo])
           /\ Fenced(J[c.repo], c) =>
                 /\ K[c.repo].status \in {"succeeded", "pending"}
                 /\ K[c.repo].token = J[c.repo].token /\ K[c.repo].id = J[c.repo].id
                 /\ K[c.repo].status = "succeeded" => J[c.repo].requeue = 0
<1>. DEFINE old == J[c.repo]
            mid == IF Fenced(old, c) THEN [old EXCEPT !.status = "succeeded"] ELSE old
            new == RequeuedRow(mid, Clock)
<1>1. c.repo \in Repos /\ old \in Row
  BY DEF Claims, Table
<1>2. mid \in Row
  BY <1>1, ClaimRows, JobConstants DEF JobConstants
<1>3. Rewritten(mid, new)
  BY <1>2, OtherRows
<1>4. new \in Row
  BY <1>3 DEF Rewritten
<1>5. K = [J EXCEPT ![c.repo] = new]
  <2>1. Complete(J, c) = [J EXCEPT ![c.repo] = mid]
    BY <1>1 DEF Complete, Table
  <2>. QED
    BY <1>1, <2>1 DEF RequeueIfStale, Table
<1>6. Fenced(old, c) => /\ new.status \in {"succeeded", "pending"}
                        /\ new.token = old.token /\ new.id = old.id
                        /\ new.status = "succeeded" => old.requeue = 0
  BY <1>1, <1>2 DEF RequeuedRow, Row
<1>7. ~Fenced(old, c) => Rewritten(old, new)
  BY <1>3
<1>. HIDE DEF new, mid
<1>. QED
  BY <1>1, <1>4, <1>5, <1>6, <1>7 DEF Table

-----------------------------------------------------------------------------
(* What the steps do to the table.                                         *)

\* The declared repos a restart or a reload visits.
LEMMA VisitRewrites ==
    ASSUME NEW J \in Table, NEW S, NEW K,
           NEW P \in [Repos -> Priorities],
           K = [r \in Repos |-> IF r \in S
                                THEN EnqueueDeclaredRepo(J, r, P[r], RowId[r], Clock)[r]
                                ELSE J[r]]
    PROVE  TableRewritten(J, K)
<1>1. \A r \in Repos : TableRewritten(J, EnqueueDeclaredRepo(J, r, P[r], RowId[r], Clock))
  BY UpsertRewrites
<1>2. \A r \in Repos : Rewritten(J[r], EnqueueDeclaredRepo(J, r, P[r], RowId[r], Clock)[r])
  BY <1>1 DEF TableRewritten
<1>3. \A r \in Repos : Rewritten(J[r], J[r])
  BY OtherRows DEF Table
<1>4. \A r \in Repos : Rewritten(J[r], K[r])
  BY <1>2, <1>3
<1>. QED
  BY <1>4 DEF TableRewritten, Table, Rewritten

\* The types by their names.
LEMMA Types ==
    TypeOK <=> /\ jobs \in Table /\ task \in [Workers -> TaskType]
               /\ graph \in [Repos -> GraphType] /\ admin \in AdminType
               /\ remote \in [Repos -> 1..MaxSha]
               /\ file \in [Repos -> Settings] /\ config \in [Repos -> Settings]
               /\ gate \in Workers \cup {Free, Admin}
               /\ budget \in [{"late", "crash", "fail", "admin"} -> Nat]
BY DEF TypeOK, Table, TaskType, Claims, GraphType, AdminType

\* What another task's step leaves alone in slot w: all but elders and late.
Quiet(w) ==
    /\ task'[w].pc = task[w].pc /\ task'[w].claim = task[w].claim
    /\ task'[w].snap = task[w].snap /\ task'[w].sha = task[w].sha
    /\ task'[w].base = task[w].base

\* The transactions of a full index, and all steps that write the graph for a task.
FullWrite(w) ==
    \/ RecordDebt(w) \/ InsertRepo(w) \/ ReplaceContent(w)
    \/ RecordSha(w) \/ RecordPolicy(w) \/ ClearDebt(w)

GraphWrite(w) == Write(w) \/ FullWrite(w)

\* The writes that mark the elders late.
Publishes(w) == Write(w) \/ ReplaceContent(w)

\* A transaction that takes w from one stage to the next and its repo to new.
Stage(w, pc, next, new) ==
    /\ task[w].pc = pc
    /\ graph' = [graph EXCEPT ![Repo(w)] = new]
    /\ task'[w] = [task[w] EXCEPT !.pc = next]

\* What the transactions of a full index do, one by one, and what they leave alone.
LEMMA FullStages ==
    ASSUME TypeOK, NEW w \in Workers, FullWrite(w)
    PROVE  /\ UNCHANGED <<jobs, remote, file, config, admin, budget>>
           /\ LET g == graph[Repo(w)] IN
              \/ Stage(w, "set_debt", "insert_repo", [g EXCEPT !.debt = TRUE]) /\ UNCHANGED gate
              \/ Stage(w, "insert_repo", "replace", [g EXCEPT !.row = TRUE]) /\ UNCHANGED gate
              \/ /\ Stage(w, "replace", "set_sha", [g EXCEPT !.blob = Blob[task[w].sha]])
                 /\ UNCHANGED gate
              \/ Stage(w, "set_sha", "set_policy", [g EXCEPT !.sha = task[w].sha]) /\ UNCHANGED gate
              \/ /\ Stage(w, "set_policy", "clear_debt", [g EXCEPT !.policy = task[w].snap])
                 /\ UNCHANGED gate
              \/ Stage(w, "clear_debt", "wrote", [g EXCEPT !.debt = FALSE]) /\ gate' = Free
           /\ task' \in [Workers -> TaskType]
           /\ task'[w].pc # "idle" /\ task'[w] = [task[w] EXCEPT !.pc = task'[w].pc]
           /\ \A v \in Workers \ {w} :
                 /\ Quiet(v) /\ task'[v].elders = task[v].elders
                 /\ task'[v].late => task[v].late \/ (ReplaceContent(w) /\ v \in task[w].elders)
<1>0. task \in [Workers -> TaskType] /\ task[w] \in TaskType
  BY Types
<1>. DEFINE Others == \A v \in Workers \ {w} :
                 /\ Quiet(v) /\ task'[v].elders = task[v].elders
                 /\ task'[v].late => task[v].late \/ (ReplaceContent(w) /\ v \in task[w].elders)
<1>1. ASSUME NEW pc \in FullPc \cup {"wrote"}, Goto(w, pc)
      PROVE  /\ task'[w] = [task[w] EXCEPT !.pc = pc]
             /\ task'[w].pc = pc /\ pc # "idle"
             /\ task' \in [Workers -> TaskType] /\ Others
  <2>1. /\ task'[w] = [task[w] EXCEPT !.pc = pc]
        /\ task'[w].pc = pc /\ pc # "idle"
        /\ \A v \in Workers \ {w} : task'[v] = task[v]
    BY <1>0, <1>1 DEF Goto, TaskType, FullPc
  <2>2. task' \in [Workers -> TaskType]
    BY <1>0, <1>1 DEF Goto, TaskType, TaskPc, GatePc
  <2>. QED
    BY <2>1, <2>2 DEF Quiet
<1>2. CASE RecordDebt(w)
  BY <1>1, <1>2 DEF RecordDebt, FullStep, Stage, FullPc
<1>3. CASE InsertRepo(w)
  BY <1>1, <1>3 DEF InsertRepo, FullStep, Stage, FullPc
<1>4. CASE ReplaceContent(w)
  <2>1. Others
    BY <1>0, <1>4 DEF ReplaceContent, Overtake, Quiet, TaskType
  <2>2. task'[w] = [task[w] EXCEPT !.pc = "set_sha"] /\ task'[w].pc = "set_sha"
    BY <1>0, <1>4 DEF ReplaceContent, Overtake, TaskType
  <2>3. task' \in [Workers -> TaskType]
    BY <1>0, <1>4 DEF ReplaceContent, Overtake, TaskType, TaskPc, GatePc, FullPc
  <2>. QED
    BY <1>4, <2>1, <2>2, <2>3 DEF ReplaceContent, FullStep, Stage
<1>5. CASE RecordSha(w)
  BY <1>1, <1>5 DEF RecordSha, FullStep, Stage, FullPc
<1>6. CASE RecordPolicy(w)
  BY <1>1, <1>6 DEF RecordPolicy, FullStep, Stage, FullPc
<1>7. CASE ClearDebt(w)
  BY <1>1, <1>7 DEF ClearDebt, FullStep, Stage, FullPc
<1>. QED
  BY <1>2, <1>3, <1>4, <1>5, <1>6, <1>7 DEF FullWrite

\* The same, as a repo sees it.
LEMMA FullEffects ==
    ASSUME TypeOK, NEW w \in Workers, FullWrite(w), NEW r \in Repos
    PROVE  /\ task[w].pc \in FullPc /\ task'[w].pc \in (FullPc \ {"set_debt"}) \cup {"wrote"}
           /\ r # Repo(w) => graph'[r] = graph[r]
           /\ graph'[r].sha \in {graph[r].sha, task[w].sha}
           /\ \/ graph'[r].policy = graph[r].policy
              \/ r = Repo(w) /\ graph'[r].policy = task[w].snap
           /\ graph'[r].debt # graph[r].debt =>
                 task[w].pc = IF graph'[r].debt THEN "set_debt" ELSE "clear_debt"
           /\ task'[w].pc = "wrote" =>
                 /\ task[w].pc = "clear_debt" /\ (r = Repo(w) => ~graph'[r].debt)
                 /\ graph'[r].sha = graph[r].sha /\ graph'[r].policy = graph[r].policy
                 /\ graph'[r].blob = graph[r].blob
           /\ task'[w].pc # "wrote" => graph'[r].debt \/ graph'[r].debt = graph[r].debt
<1>. DEFINE g == graph[Repo(w)]
            t == task[w]
<1>0. /\ t \in TaskType /\ g \in GraphType /\ graph[r] \in GraphType /\ graph \in [Repos -> GraphType]
      /\ Repo(w) \in Repos
  BY Types DEF TaskType, Claims, Repo
<1>1. ASSUME NEW pc, NEW next, NEW new, Stage(w, pc, next, new)
      PROVE  /\ t.pc = pc /\ task'[w].pc = next
             /\ r = Repo(w) => graph'[r] = new
             /\ r # Repo(w) => graph'[r] = graph[r]
  BY <1>0, <1>1 DEF Stage, TaskType
<1>. USE <1>0 DEF GraphType, FullPc
<1>2. CASE Stage(w, "set_debt", "insert_repo", [g EXCEPT !.debt = TRUE])
  BY <1>1, <1>2
<1>3. CASE Stage(w, "insert_repo", "replace", [g EXCEPT !.row = TRUE])
  BY <1>1, <1>3
<1>4. CASE Stage(w, "replace", "set_sha", [g EXCEPT !.blob = Blob[t.sha]])
  BY <1>1, <1>4
<1>5. CASE Stage(w, "set_sha", "set_policy", [g EXCEPT !.sha = t.sha])
  BY <1>1, <1>5
<1>6. CASE Stage(w, "set_policy", "clear_debt", [g EXCEPT !.policy = t.snap])
  BY <1>1, <1>6
<1>7. CASE Stage(w, "clear_debt", "wrote", [g EXCEPT !.debt = FALSE])
  BY <1>1, <1>7
<1>. QED
  BY <1>2, <1>3, <1>4, <1>5, <1>6, <1>7, FullStages

\* Every step rewrites rows, unless it claims or finishes one.
LEMMA JobsStep ==
    ASSUME TypeOK, [Next]_vars
    PROVE  \/ TableRewritten(jobs, jobs')
           \/ \E w \in Workers, r \in Repos : Claim(w, r)
           \/ \E w \in Workers : Finish(w)
<1>. jobs \in Table /\ task \in [Workers -> TaskType]
  BY Types
<1>0. UNCHANGED jobs => TableRewritten(jobs, jobs')
  BY OtherRows DEF TableRewritten, Table
<1>. Unindexed \in Priorities /\ Webhook \in Priorities /\ Poll \in Priorities
  BY DEF Priorities, Unindexed, Webhook, Poll, Retry
<1>1. ASSUME NEW w \in Workers, TaskStep(w) \/ FaultStep(w) \/ EnterGate(w), ~Finish(w)
      PROVE  TableRewritten(jobs, jobs')
  <2>1. CASE \E poison \in BOOLEAN : FailTask(w, poison)
    BY <2>1, OtherRewrites DEF FailTask
  <2>2. CASE FailWrite(w)
    BY <2>2, OtherRewrites DEF FailWrite
  <2>3. CASE DeferTask(w)
    BY <2>3, OtherRewrites DEF DeferTask
  <2>4. CASE TaskStep(w) \/ EnterGate(w)
    <3>1. FullWrite(w) => UNCHANGED jobs
      BY FullStages
    <3>. QED
      BY <1>0, <1>1, <2>4, <3>1 DEF TaskStep, FullWrite, EnterGate, Snapshot, Fetch, Prepare,
            CheckClaim, Plan, Diff, Write
  <2>. QED
    BY <1>1, <2>1, <2>2, <2>3, <2>4 DEF FaultStep
<1>2. ASSUME NEW r \in Repos, RepoStep(r) PROVE TableRewritten(jobs, jobs')
  <2>1. CASE WebhookEvent(r) \/ PollEvent(r) \/ StrayEvent(r)
    BY <2>1, UpsertRewrites DEF WebhookEvent, PollEvent, StrayEvent, Enqueue
  <2>2. CASE ExpireLease(r)
    BY <2>2, OtherRewrites DEF ExpireLease
  <2>3. CASE Push(r) \/ (\E settings \in Settings : EditFile(r, settings))
             \/ BeginRemove(r) \/ BeginAdd(r) \/ BeginReload(r)
    BY <1>0, <2>3 DEF Push, EditFile, BeginRemove, BeginAdd, BeginReload, EnterAdmin
  <2>. QED
    BY <1>2, <2>1, <2>2, <2>3 DEF RepoStep
<1>3. CASE AdminStep
  <2>0. admin.repo \in Repos
    BY Types DEF AdminType
  <2>1. CASE RemoveCancel
    BY <2>0, <2>1, OtherRewrites DEF RemoveCancel
  <2>2. CASE AddJob
    BY <2>0, <2>2, UpsertRewrites DEF AddJob, Enqueue
  <2>3. CASE ReloadJobs
    <3>. DEFINE declared == {r \in Repos : config[r] # Absent}
                cancelled == CancelReposNotIn(jobs, declared, Clock)
                P == [r \in Repos |-> IF graph[r].row THEN Webhook ELSE Unindexed]
                S == {r \in declared : ~graph[r].row \/ admin.prev[r] # config[r]}
    <3>1. TableRewritten(jobs, cancelled)
      BY OtherRewrites
    <3>2. jobs' = [r \in Repos |-> IF r \in S
                     THEN EnqueueDeclaredRepo(cancelled, r, P[r], RowId[r], Clock)[r]
                     ELSE cancelled[r]]
      BY <2>3 DEF ReloadJobs
    <3>3. P \in [Repos -> Priorities] /\ cancelled \in Table
      BY <3>1 DEF TableRewritten
    <3>. HIDE DEF P, S, cancelled
    <3>4. TableRewritten(cancelled, jobs')
      BY <3>2, <3>3, VisitRewrites
    <3>. QED
      BY <3>1, <3>4, TableTwice
  <2>4. CASE RemoveFromFile \/ RemoveFromRuntime \/ RemoveContent \/ RemoveNode
             \/ (\E p \in Policies : AddToFile(p)) \/ AddToRuntime \/ ReloadSwap
    BY <1>0, <2>4 DEF RemoveFromFile, RemoveFromRuntime, RemoveContent, RemoveNode, AddToFile,
          AddToRuntime, ReloadSwap
  <2>. QED
    BY <1>3, <2>1, <2>2, <2>3, <2>4 DEF AdminStep
<1>4. CASE CrashAndRestart
  <2>. DEFINE S == {r \in Repos : file[r] # Absent /\ graph[r].sha = 0}
              P == [r \in Repos |-> Unindexed]
              enqueued == [r \in Repos |-> IF r \in S
                             THEN EnqueueDeclaredRepo(jobs, r, P[r], RowId[r], Clock)[r]
                             ELSE jobs[r]]
              kept == CancelReposNotIn(enqueued, {r \in Repos : file[r] # Absent}, Clock)
  <2>1. P \in [Repos -> Priorities]
    OBVIOUS
  <2>2. TableRewritten(jobs, enqueued)
    <3>. HIDE DEF S, P
    <3>. QED
      BY <2>1, VisitRewrites
  <2>3. jobs' = RecoverAllRunningAtStartup(kept, Clock)
    BY <1>4 DEF CrashAndRestart
  <2>. HIDE DEF enqueued
  <2>4. TableRewritten(enqueued, kept)
    BY <2>2, OtherRewrites DEF TableRewritten
  <2>. HIDE DEF kept
  <2>5. TableRewritten(kept, jobs')
    BY <2>3, <2>4, OtherRewrites DEF TableRewritten
  <2>6. TableRewritten(jobs, kept)
    BY <2>2, <2>4, TableTwice
  <2>. QED
    BY <2>5, <2>6, TableTwice
<1>5. CASE UNCHANGED vars
  BY <1>0, <1>5 DEF vars
<1>6. CASE FailRemove
  BY <1>0, <1>6 DEF FailRemove
<1>. QED
  BY <1>1, <1>2, <1>3, <1>4, <1>5, <1>6 DEF Next

-----------------------------------------------------------------------------
(* Type correctness.                                                       *)

\* Idle slots, an idle handler and an empty graph entry have their types.
LEMMA IdleTypes ==
    /\ IdleTask \in TaskType /\ IdleAdmin \in AdminType /\ NotIndexed \in GraphType
    /\ IdleTask.pc = "idle" /\ IdleTask.elders = {} /\ IdleTask.late = FALSE
<1>1. (CHOOSE r \in Repos : TRUE) \in Repos
  BY ServerConstants
<1>2. 0 \in Shas /\ Absent \in Settings
  BY ServerConstants DEF Shas, Settings
<1>3. "idle" \in TaskPc /\ "idle" \in AdminPc
  BY DEF TaskPc, AdminPc
<1>. QED
  BY <1>1, <1>2, <1>3 DEF IdleTask, IdleAdmin, NotIndexed, TaskType, Claims, AdminType, GraphType

\* A claim by w of the pending row of r, with a token t nobody remembers.
ClaimedWith(w, r, t) ==
    /\ t # 0
    /\ \A s \in Repos : jobs[s].token # t
    /\ \A v \in Workers : task[v].claim.token # t
    /\ jobs[r].status = "pending" /\ task[w].pc = "idle"
    /\ jobs' = [jobs EXCEPT ![r] = ClaimedRow(@, t, Clock)]
    /\ jobs'[r] \in Row /\ jobs'[r].token = t
    /\ task'[w].pc = "claimed" /\ task'[w].elders = Working(r) /\ task'[w].late = FALSE
    /\ task'[w].claim = [repo |-> r, id |-> jobs[r].id, token |-> t]
    /\ \A v \in Workers \ {w} : task'[v] = task[v]
    /\ task' \in [Workers -> TaskType]

\* Every claim is one.
LEMMA ClaimStep ==
    ASSUME TypeOK, NEW w \in Workers, NEW r \in Repos, Claim(w, r)
    PROVE  \E t \in Tokens : ClaimedWith(w, r, t)
<1>. DEFINE used == {jobs[s].token : s \in Repos} \cup {task[v].claim.token : v \in Workers}
            t == CHOOSE u \in Tokens \ used : TRUE
<1>0. jobs \in Table /\ task \in [Workers -> TaskType]
  BY Types
<1>1. t \in Tokens \ used
  BY DEF Claim
<1>2. t # 0 /\ t \in Nat
  BY <1>1, ServerConstants
<1>3. jobs' = ClaimNext(jobs, r, t, Clock) /\ jobs[r].status = "pending" /\ task[w].pc = "idle"
  BY DEF Claim, IsNextClaim, Claimable
<1>4. task' = [task EXCEPT ![w] = [IdleTask EXCEPT !.pc = "claimed",
                  !.claim = ClaimOf(jobs, r, t), !.elders = Working(r)]]
  BY DEF Claim
<1>. HIDE DEF t
<1>5. jobs[r] \in Row
  BY <1>0 DEF Table
<1>6. ClaimedRow(jobs[r], t, Clock) \in Row
  BY <1>2, <1>5, ClaimRows
<1>7. ClaimOf(jobs, r, t) \in Claims
  BY <1>1, <1>5 DEF ClaimOf, Claims, Row
<1>8. [IdleTask EXCEPT !.pc = "claimed", !.claim = ClaimOf(jobs, r, t), !.elders = Working(r)]
        \in TaskType
  BY <1>7, IdleTypes DEF TaskType, TaskPc, Working
<1>9. task' \in [Workers -> TaskType]
  BY <1>0, <1>4, <1>8
<1>10. /\ task'[w].pc = "claimed" /\ task'[w].elders = Working(r) /\ task'[w].late = FALSE
       /\ task'[w].claim = [repo |-> r, id |-> jobs[r].id, token |-> t]
       /\ \A v \in Workers \ {w} : task'[v] = task[v]
  BY <1>0, <1>4, IdleTypes DEF ClaimOf, TaskType
<1>11. /\ jobs' = [jobs EXCEPT ![r] = ClaimedRow(@, t, Clock)]
       /\ jobs'[r] \in Row /\ jobs'[r].token = t
  BY <1>0, <1>3, <1>5, <1>6 DEF ClaimNext, ClaimedRow, Table, Row
<1>12. ClaimedWith(w, r, t)
  BY <1>1, <1>2, <1>3, <1>9, <1>10, <1>11 DEF ClaimedWith
<1>. QED
  BY <1>1, <1>12

\* A task that leaves frees its slot and drops out of the others' elders.
LEMMA LeaveTypes ==
    ASSUME TypeOK, NEW w \in Workers, Leave(w)
    PROVE  task' \in [Workers -> TaskType]
<1>1. \A v \in Workers : [task[v] EXCEPT !.elders = @ \ {w}] \in TaskType
  BY Types DEF TaskType
<1>. QED
  BY <1>1, IdleTypes DEF Leave

\* The table keeps its type.
LEMMA JobsTyped ==
    ASSUME TypeOK, [Next]_vars
    PROVE  jobs' \in Table
<1>0. jobs \in Table /\ task \in [Workers -> TaskType]
  BY Types
<1>1. ASSUME NEW w \in Workers, NEW r \in Repos, Claim(w, r) PROVE jobs' \in Table
  BY <1>0, <1>1, ClaimStep DEF ClaimedWith, Table
<1>2. ASSUME NEW w \in Workers, Finish(w) PROVE jobs' \in Table
  <2>1. task[w].claim \in Claims
    BY <1>0 DEF TaskType
  <2>. QED
    BY <1>0, <1>2, <2>1, FinishRow DEF Finish, Repo
<1>. QED
  BY <1>1, <1>2, JobsStep DEF TableRewritten

\* The steps of one task keep the types.
LEMMA TaskTypes ==
    ASSUME TypeOK, NEW w \in Workers,
           TaskStep(w) \/ FaultStep(w) \/ EnterGate(w) \/ \E r \in Repos : Claim(w, r)
    PROVE  task' \in [Workers -> TaskType]
<1>0. task \in [Workers -> TaskType] /\ config \in [Repos -> Settings]
      /\ remote \in [Repos -> 1..MaxSha] /\ graph \in [Repos -> GraphType]
  BY Types
<1>1. task[w] \in TaskType /\ Repo(w) \in Repos
  BY <1>0 DEF TaskType, Claims, Repo
<1>2. ASSUME NEW pc \in TaskPc, Goto(w, pc) PROVE task' \in [Workers -> TaskType]
  BY <1>0, <1>1, <1>2 DEF Goto, TaskType
<1>3. CASE \E r \in Repos : Claim(w, r)
  BY <1>3, ClaimStep DEF ClaimedWith
<1>4. CASE Snapshot(w)
  BY <1>0, <1>1, <1>4 DEF Snapshot, TaskType, TaskPc
<1>5. CASE Fetch(w)
  <2>1. remote[Repo(w)] \in Shas
    BY <1>0, <1>1, ServerConstants DEF Shas
  <2>. QED
    BY <1>0, <1>1, <1>2, <1>5, <2>1 DEF Fetch, TaskType, TaskPc
<1>6. CASE Prepare(w) \/ CheckClaim(w) \/ (\E force \in BOOLEAN : Plan(w, force))
  BY <1>2, <1>6 DEF Prepare, CheckClaim, Plan, TaskPc
<1>7. CASE Diff(w)
  <2>1. graph[Repo(w)].sha \in Shas /\ 0 \in Shas
    BY <1>0, <1>1, ServerConstants DEF GraphType, Shas
  <2>. QED
    BY <1>0, <1>1, <1>7, <2>1 DEF Diff, TaskType, TaskPc
<1>8. CASE EnterGate(w)
  <2>1. FirstWrite(w) \in TaskPc /\ "done" \in TaskPc
    BY DEF FirstWrite, TaskPc, GatePc, FullPc
  <2>. QED
    BY <1>2, <1>8, <2>1 DEF EnterGate
<1>9. CASE Write(w)
  BY <1>0, <1>1, <1>9 DEF Write, Overtake, TaskType, TaskPc
<1>11. CASE FullWrite(w)
  BY <1>11, FullStages
<1>10. CASE Finish(w) \/ FaultStep(w)
  BY <1>10, LeaveTypes DEF Finish, FaultStep, FailTask, FailWrite, DeferTask
<1>. QED
  BY <1>3, <1>4, <1>5, <1>6, <1>7, <1>8, <1>9, <1>10, <1>11 DEF TaskStep, FullWrite

\* The steps of the task in slot w.
OwnStep(w) == TaskStep(w) \/ FaultStep(w) \/ EnterGate(w) \/ \E r \in Repos : Claim(w, r)

\* The start of an admin handler.
BeginStep(r) == BeginRemove(r) \/ BeginAdd(r) \/ BeginReload(r)

\* A step of an admin handler, its failures included.
HandlerStep == AdminStep \/ FailRemove

\* Which steps touch what.
LEMMA Frames ==
    ASSUME [Next]_vars
    PROVE  /\ UNCHANGED remote \/ \E r \in Repos : Push(r)
           /\ \/ UNCHANGED file \/ RemoveFromFile \/ \E p \in Policies : AddToFile(p)
              \/ \E r \in Repos, settings \in Settings : EditFile(r, settings)
           /\ \/ UNCHANGED config \/ RemoveFromRuntime \/ AddToRuntime \/ ReloadSwap
              \/ CrashAndRestart
           /\ \/ UNCHANGED graph \/ RemoveContent \/ RemoveNode
              \/ \E w \in Workers : GraphWrite(w)
           /\ UNCHANGED task \/ CrashAndRestart \/ \E w \in Workers : OwnStep(w)
           /\ \/ UNCHANGED gate \/ HandlerStep \/ CrashAndRestart
              \/ \E r \in Repos : BeginStep(r)
              \/ \E w \in Workers : EnterGate(w) \/ GraphWrite(w) \/ FailWrite(w)
           /\ \/ UNCHANGED admin \/ HandlerStep \/ CrashAndRestart
              \/ \E r \in Repos : BeginStep(r)
           /\ UNCHANGED budget \/ \E kind \in {"late", "crash", "fail", "admin"} : Spend(kind)
<1>1. ASSUME NEW w \in Workers, TaskStep(w)
      PROVE  /\ UNCHANGED <<remote, file, config, admin, budget>>
             /\ UNCHANGED <<graph, gate>> \/ GraphWrite(w)
  <2>1. FullWrite(w) => UNCHANGED <<remote, file, config, admin, budget>>
    BY DEF FullWrite, RecordDebt, InsertRepo, ReplaceContent, RecordSha, RecordPolicy, ClearDebt,
          FullStep
  <2>. QED
    BY <1>1, <2>1 DEF TaskStep, GraphWrite, FullWrite, Snapshot, Fetch, Prepare, CheckClaim, Plan,
          Diff, Write, Finish
<1>2. ASSUME NEW w \in Workers, EnterGate(w) \/ \E r \in Repos : Claim(w, r)
      PROVE  /\ UNCHANGED <<remote, file, config, graph, admin, budget>>
             /\ UNCHANGED gate \/ EnterGate(w)
  BY <1>2 DEF EnterGate, Claim
<1>3. ASSUME NEW w \in Workers, FaultStep(w)
      PROVE  /\ UNCHANGED <<remote, file, config, graph, admin>>
             /\ UNCHANGED gate \/ FailWrite(w)
             /\ UNCHANGED budget \/ Spend("fail")
  BY <1>3 DEF FaultStep, FailTask, FailWrite, DeferTask
<1>4. ASSUME NEW r \in Repos, RepoStep(r)
      PROVE  /\ UNCHANGED <<config, graph, task>>
             /\ UNCHANGED remote \/ Push(r)
             /\ UNCHANGED file \/ \E settings \in Settings : EditFile(r, settings)
             /\ UNCHANGED <<gate, admin>> \/ BeginStep(r)
             /\ UNCHANGED budget \/ Spend("admin") \/ Spend("late")
  BY <1>4 DEF RepoStep, Push, WebhookEvent, PollEvent, StrayEvent, ExpireLease, EditFile,
        BeginStep, BeginRemove, BeginAdd, BeginReload, EnterAdmin
<1>5. ASSUME AdminStep
      PROVE  /\ UNCHANGED <<remote, task, budget>>
             /\ UNCHANGED file \/ RemoveFromFile \/ \E p \in Policies : AddToFile(p)
             /\ UNCHANGED config \/ RemoveFromRuntime \/ AddToRuntime \/ ReloadSwap
             /\ UNCHANGED graph \/ RemoveContent \/ RemoveNode
  BY <1>5 DEF AdminStep, RemoveCancel, RemoveFromFile, RemoveFromRuntime, RemoveContent, RemoveNode,
        AddToFile, AddToRuntime, AddJob, ReloadSwap, ReloadJobs
<1>6. ASSUME CrashAndRestart PROVE UNCHANGED <<remote, file, graph>> /\ Spend("crash")
  BY <1>6 DEF CrashAndRestart
<1>7. ASSUME UNCHANGED vars
      PROVE  UNCHANGED <<remote, file, config, graph, task, gate, admin, budget>>
  BY <1>7 DEF vars
<1>8. ASSUME FailRemove PROVE UNCHANGED <<remote, file, config, graph, task>> /\ Spend("fail")
  BY <1>8 DEF FailRemove
<1>a. CASE \E w \in Workers : TaskStep(w)
  BY <1>1, <1>a DEF OwnStep
<1>b. CASE \E w \in Workers : FaultStep(w)
  BY <1>3, <1>b DEF OwnStep
<1>c. CASE \E w \in Workers : EnterGate(w) \/ \E r \in Repos : Claim(w, r)
  BY <1>2, <1>c DEF OwnStep
<1>d. CASE \E r \in Repos : RepoStep(r)
  BY <1>4, <1>d
<1>e. CASE AdminStep
  BY <1>5, <1>e DEF HandlerStep
<1>f. CASE CrashAndRestart
  BY <1>6, <1>f
<1>g. CASE UNCHANGED vars
  BY <1>7, <1>g
<1>h. CASE FailRemove
  BY <1>8, <1>h DEF HandlerStep
<1>. QED
  BY <1>a, <1>b, <1>c, <1>d, <1>e, <1>f, <1>g, <1>h DEF Next

\* Starting, advancing and ending a handler keeps its type.
LEMMA AdminTypes ==
    ASSUME TypeOK, HandlerStep \/ \E r \in Repos : BeginStep(r)
    PROVE  admin' \in AdminType /\ gate' \in {gate, Free, Admin}
<1>0. admin \in AdminType /\ config \in [Repos -> Settings]
  BY Types
<1>1. ASSUME NEW pc \in AdminPc, NEW next \in AdminPc, AdminAt(pc, next)
      PROVE  admin' \in AdminType /\ gate' \in {gate, Free, Admin}
  BY <1>0, <1>1, IdleTypes DEF AdminAt, AdminType
<1>2. ASSUME NEW r \in Repos, NEW pc \in AdminPc, EnterAdmin(r, pc)
      PROVE  admin' \in AdminType /\ gate' \in {gate, Free, Admin}
  BY <1>2, IdleTypes DEF EnterAdmin, AdminType
<1>3. CASE ReloadSwap
  BY <1>0, <1>3 DEF ReloadSwap, AdminType, AdminPc
<1>4. CASE HandlerStep /\ ~ReloadSwap
  BY <1>1, <1>4 DEF HandlerStep, FailRemove, AdminStep, RemoveCancel, RemoveFromFile,
        RemoveFromRuntime, RemoveContent, RemoveNode, AddToFile, AddToRuntime, AddJob, ReloadJobs,
        AdminPc
<1>5. CASE \E r \in Repos : BeginStep(r)
  BY <1>2, <1>5 DEF BeginStep, BeginRemove, BeginAdd, BeginReload, AdminPc
<1>. QED
  BY <1>3, <1>4, <1>5

\* A slot changes with its own task, or when everything restarts.
LEMMA TaskFrame ==
    ASSUME TypeOK, [Next]_vars, NEW w \in Workers
    PROVE  Quiet(w) \/ OwnStep(w) \/ (CrashAndRestart /\ task'[w] = IdleTask)
<1>0. task \in [Workers -> TaskType]
  BY Types
<1>1. ASSUME NEW v \in Workers, v # w, OwnStep(v) PROVE Quiet(w)
  <2>1. CASE Leave(v)
    BY <1>0, <1>1, <2>1 DEF Leave, Quiet, TaskType
  <2>2. CASE Write(v)
    BY <1>0, <1>1, <2>2 DEF Write, Overtake, Quiet, TaskType
  <2>7. CASE FullWrite(v)
    BY <1>1, <2>7, FullStages
  <2>3. \A x : task' = [task EXCEPT ![v] = x] => Quiet(w)
    BY <1>0, <1>1 DEF Quiet
  <2>4. CASE \E r \in Repos : Claim(v, r)
    BY <2>3, <2>4 DEF Claim
  <2>5. CASE Snapshot(v) \/ Fetch(v) \/ Prepare(v) \/ CheckClaim(v) \/ Diff(v) \/ EnterGate(v)
             \/ (\E force \in BOOLEAN : Plan(v, force))
    BY <1>0, <1>1, <2>5 DEF Quiet, Snapshot, Fetch, Prepare, CheckClaim, Diff, EnterGate, Plan, Goto
  <2>6. CASE Finish(v) \/ FaultStep(v)
    BY <2>1, <2>6 DEF Finish, FaultStep, FailTask, FailWrite, DeferTask
  <2>. QED
    BY <1>1, <2>2, <2>4, <2>5, <2>6, <2>7 DEF OwnStep, TaskStep, FullWrite
<1>2. UNCHANGED task => Quiet(w)
  BY DEF Quiet
<1>3. CrashAndRestart => task'[w] = IdleTask
  BY DEF CrashAndRestart
<1>. QED
  BY <1>1, <1>2, <1>3, Frames

\* Where the task's own step takes it: it ends, or its pc moves on.
LEMMA OwnMoves ==
    ASSUME TypeOK, NEW w \in Workers, OwnStep(w)
    PROVE  \/ task'[w] = IdleTask /\ (Finish(w) \/ FaultStep(w))
           \/ task'[w].pc = "claimed" /\ \E r \in Repos : Claim(w, r)
           \/ /\ task'[w].claim = task[w].claim
              /\ task'[w].elders = task[w].elders /\ task'[w].late = task[w].late
              /\ \/ task'[w].pc \in {"ready", "done"} /\ Snapshot(w)
                 \/ /\ task'[w].snap = task[w].snap
                    /\ \/ /\ task[w].pc = "ready" /\ Fetch(w)
                          /\ \/ task'[w].pc = "fetched" /\ task'[w].sha = remote[Repo(w)]
                             \/ task'[w].pc = "done" /\ config[Repo(w)] # task[w].snap
                       \/ task'[w].sha = task[w].sha
                          /\ \/ task[w].pc = "fetched" /\ task'[w].pc \in {"upToDate", "prepared"} /\ Prepare(w)
                             \/ task[w].pc \in {"prepared", "upToDate"} /\ task'[w].pc \in {"plan", "done"}
                                /\ CheckClaim(w)
                             \/ task[w].pc = "plan" /\ task'[w].pc \in {"done", "full", "diff"}
                                /\ \E force \in BOOLEAN : Plan(w, force)
                             \/ task[w].pc = "diff" /\ task'[w].pc \in {"error", "full", "done", "incremental"}
                                /\ Diff(w)
                             \/ task[w].pc = "full" /\ task'[w].pc \in {"set_debt", "done"} /\ EnterGate(w)
                             \/ task[w].pc = "incremental" /\ task'[w].pc \in {"writing", "done"}
                                /\ EnterGate(w)
                             \/ task[w].pc = "writing" /\ task'[w].pc = "wrote" /\ Write(w)
                             \/ /\ task[w].pc \in FullPc /\ FullWrite(w)
                                /\ task'[w].pc \in (FullPc \ {"set_debt"}) \cup {"wrote"}
<1>0. task \in [Workers -> TaskType] /\ task[w] \in TaskType
  BY Types
<1>1. CASE Finish(w) \/ FaultStep(w)
  BY <1>1 DEF Finish, FaultStep, FailTask, FailWrite, DeferTask, Leave
<1>2. ASSUME NEW r \in Repos, Claim(w, r) PROVE task'[w].pc = "claimed"
  BY <1>0, <1>2, IdleTypes DEF Claim, TaskType
<1>3. CASE Snapshot(w)
  BY <1>0, <1>3 DEF Snapshot, TaskType
<1>4. CASE Fetch(w)
  BY <1>0, <1>4 DEF Fetch, Goto, TaskType
<1>5. CASE Prepare(w) \/ CheckClaim(w) \/ \E force \in BOOLEAN : Plan(w, force)
  BY <1>0, <1>5 DEF Prepare, CheckClaim, Plan, Goto, TaskType
<1>6. CASE Diff(w)
  BY <1>0, <1>6 DEF Diff, TaskType
<1>7. CASE EnterGate(w)
  BY <1>0, <1>7 DEF EnterGate, FirstWrite, Goto, TaskType
<1>8. CASE Write(w)
  BY <1>0, <1>8 DEF Write, Overtake, TaskType
<1>9. CASE FullWrite(w)
  <2>1. /\ task[w].pc \in FullPc /\ task'[w].pc \in (FullPc \ {"set_debt"}) \cup {"wrote"}
        /\ task'[w] = [task[w] EXCEPT !.pc = task'[w].pc]
    <3>1. ASSUME NEW pc, NEW next, NEW new, Stage(w, pc, next, new)
          PROVE  task[w].pc = pc /\ task'[w].pc = next
                 /\ task'[w] = [task[w] EXCEPT !.pc = task'[w].pc]
      BY <1>0, <3>1 DEF Stage, TaskType
    <3>. QED
      BY <1>9, <3>1, FullStages DEF FullPc
  <2>2. /\ task'[w].claim = task[w].claim /\ task'[w].snap = task[w].snap
        /\ task'[w].sha = task[w].sha
        /\ task'[w].elders = task[w].elders /\ task'[w].late = task[w].late
    BY <1>0, <2>1 DEF TaskType
  <2>. QED
    BY <1>9, <2>1, <2>2
<1>. QED
  BY <1>1, <1>2, <1>3, <1>4, <1>5, <1>6, <1>7, <1>8, <1>9 DEF OwnStep, TaskStep, FullWrite

-----------------------------------------------------------------------------
\* The steps of a task between its snapshot of the config and its end.
Snapped == {"ready", "fetched", "prepared", "upToDate", "plan", "diff", "error",
            "full", "incremental"} \cup GatePc

\* From its fetch on a task knows its commit: what it writes is a commit.
CommitKnown ==
    \A w \in Workers : task[w].pc \in Snapped \ {"ready"} => task[w].sha # 0

\* Every step keeps the types.
LEMMA TypeStep ==
    ASSUME TypeOK, CommitKnown, [Next]_vars
    PROVE  TypeOK' /\ CommitKnown'
<1>0. /\ task \in [Workers -> TaskType] /\ graph \in [Repos -> GraphType]
      /\ admin \in AdminType /\ remote \in [Repos -> 1..MaxSha]
      /\ file \in [Repos -> Settings] /\ config \in [Repos -> Settings]
      /\ gate \in Workers \cup {Free, Admin}
      /\ budget \in [{"late", "crash", "fail", "admin"} -> Nat]
  BY Types
<1>1. jobs' \in Table
  BY JobsTyped
<1>2. task' \in [Workers -> TaskType]
  <2>1. CASE CrashAndRestart
    BY <2>1, IdleTypes DEF CrashAndRestart
  <2>. QED
    BY <1>0, <2>1, Frames, TaskTypes DEF OwnStep
<1>3. graph' \in [Repos -> GraphType]
  <2>0. ASSUME NEW r \in Repos, NEW g \in GraphType, graph' = [graph EXCEPT ![r] = g]
        PROVE  graph' \in [Repos -> GraphType]
    BY <1>0, <2>0
  <2>1. CASE RemoveContent
    <3>1. admin.repo \in Repos /\ graph[admin.repo] \in GraphType
      BY <1>0 DEF AdminType
    <3>2. [graph[admin.repo] EXCEPT !.blob = 0] \in GraphType
      BY <3>1 DEF GraphType
    <3>. QED
      BY <1>0, <2>0, <2>1, <3>1, <3>2 DEF RemoveContent
  <2>2. CASE RemoveNode
    <3>1. admin.repo \in Repos /\ graph[admin.repo] \in GraphType /\ 0 \in Shas
      BY <1>0, ServerConstants DEF AdminType, Shas
    <3>2. [graph[admin.repo] EXCEPT !.row = FALSE, !.sha = 0] \in GraphType
      BY <3>1 DEF GraphType
    <3>3. graph' = [graph EXCEPT ![admin.repo] = [graph[admin.repo] EXCEPT !.row = FALSE, !.sha = 0]]
      BY <1>0, <2>2, <3>1 DEF RemoveNode
    <3>. QED
      BY <2>0, <3>1, <3>2, <3>3
  <2>3. ASSUME NEW w \in Workers, GraphWrite(w) PROVE graph' \in [Repos -> GraphType]
    <3>. DEFINE g == graph[Repo(w)]
                s == task[w].sha
    <3>1. task[w] \in TaskType /\ Repo(w) \in Repos /\ g \in GraphType
      BY <1>0 DEF TaskType, Claims, Repo
    <3>2. s \in Shas /\ task[w].snap \in Settings
      BY <3>1 DEF TaskType
    <3>3. task[w].pc \in GatePc
      BY <2>3, FullStages DEF GraphWrite, Write, Stage, GatePc, FullPc
    <3>4. Blob[s] \in {0} \cup {Blob[x] : x \in 1..MaxSha}
      BY <3>2, <3>3, ServerConstants DEF CommitKnown, Snapped, GatePc, FullPc, Shas
    <3>5. CASE Write(w)
      <4>. DEFINE b == IF task[w].base # 0 /\ Blob[task[w].base] = Blob[s] THEN g.blob ELSE Blob[s]
      <4>0. Repo(w) \in DOMAIN graph /\ Repo(w) \in Repos
        BY <1>0, <3>1
      <4>1. graph' = [graph EXCEPT ![Repo(w)] =
                         [g EXCEPT !.sha = s, !.policy = task[w].snap, !.blob = b]]
        BY <3>5, <4>0 DEF Write
      <4>2. b \in {0} \cup {Blob[x] : x \in 1..MaxSha}
        BY <3>1, <3>4 DEF GraphType
      <4>. HIDE DEF b
      <4>3. [g EXCEPT !.sha = s, !.policy = task[w].snap, !.blob = b] \in GraphType
        BY <3>1, <3>2, <4>2 DEF GraphType
      <4>. QED
        BY <2>0, <3>1, <4>1, <4>3
    <3>6. CASE FullWrite(w)
      <4>1. /\ [g EXCEPT !.debt = TRUE] \in GraphType /\ [g EXCEPT !.row = TRUE] \in GraphType
            /\ [g EXCEPT !.blob = Blob[s]] \in GraphType /\ [g EXCEPT !.sha = s] \in GraphType
            /\ [g EXCEPT !.policy = task[w].snap] \in GraphType
            /\ [g EXCEPT !.debt = FALSE] \in GraphType
        BY <3>1, <3>2, <3>4 DEF GraphType
      <4>. HIDE DEF g, s
      <4>2. \E new \in GraphType : graph' = [graph EXCEPT ![Repo(w)] = new]
        BY <3>6, <4>1, FullStages DEF Stage, g, s
      <4>. QED
        BY <2>0, <3>1, <4>2
    <3>. QED
      BY <2>3, <3>5, <3>6 DEF GraphWrite
  <2>. QED
    BY <1>0, <2>1, <2>2, <2>3, Frames
<1>4. remote' \in [Repos -> 1..MaxSha]
  BY <1>0, Frames, ServerConstants DEF Push
<1>5. file' \in [Repos -> Settings]
  BY <1>0, Frames, ServerConstants DEF EditFile, RemoveFromFile, AddToFile, Settings, AdminType
<1>6. config' \in [Repos -> Settings]
  BY <1>0, Frames, ServerConstants DEF RemoveFromRuntime, AddToRuntime, ReloadSwap,
        CrashAndRestart, Settings, AdminType
<1>7. gate' \in Workers \cup {Free, Admin}
  <2>1. ASSUME NEW w \in Workers, EnterGate(w) \/ GraphWrite(w) \/ FailWrite(w)
        PROVE  gate' \in {gate, w, Free}
    BY <2>1, FullStages DEF EnterGate, GraphWrite, Write, FailWrite
  <2>. QED
    BY <1>0, <2>1, Frames, AdminTypes DEF CrashAndRestart
<1>8. admin' \in AdminType
  BY <1>0, Frames, AdminTypes, IdleTypes DEF CrashAndRestart
<1>9. budget' \in [{"late", "crash", "fail", "admin"} -> Nat]
  BY <1>0, Frames DEF Spend
<1>10. TypeOK'
  BY <1>1, <1>2, <1>3, <1>4, <1>5, <1>6, <1>7, <1>8, <1>9 DEF TypeOK, Table, TaskType, Claims,
        GraphType, AdminType
<1>11. ASSUME NEW w \in Workers, task'[w].pc \in Snapped \ {"ready"} PROVE task'[w].sha # 0
  <2>1. CASE Quiet(w) \/ task'[w] = IdleTask
    BY <1>11, <2>1, IdleTypes DEF CommitKnown, Quiet, Snapped, GatePc, FullPc
  <2>2. CASE OwnStep(w) /\ ~Fetch(w)
    BY <1>11, <2>2, OwnMoves, IdleTypes DEF CommitKnown, Snapped, GatePc, FullPc
  <2>3. CASE Fetch(w)
    <3>1. Repo(w) \in Repos
      BY <1>0 DEF TaskType, Claims, Repo
    <3>2. remote[Repo(w)] # 0
      BY <1>0, <3>1, ServerConstants
    <3>3. task'[w].pc = "done" \/ task'[w].sha = remote[Repo(w)]
      BY <1>0, <2>3 DEF Fetch, Goto, TaskType
    <3>. QED
      BY <1>11, <3>2, <3>3 DEF Snapped, GatePc, FullPc
  <2>. QED
    BY <2>1, <2>2, <2>3, TaskFrame
<1>. QED
  BY <1>10, <1>11 DEF CommitKnown

\* The first start: every repo declared and pending, nothing indexed.
LEMMA TypesAtStart == Init => TypeOK /\ CommitKnown
<1>. SUFFICES ASSUME Init PROVE TypeOK /\ CommitKnown
  OBVIOUS
<1>1. NoRow \in Row
  BY DEF NoRow, Row, JobStatus, Null, Priorities, Scheduled, Unindexed, Retry
<1>2. \A r \in Repos : RowId[r] \in Nat /\ Unindexed \in Priorities
  BY ServerConstants DEF Priorities, Unindexed, Retry
<1>3. \A r \in Repos : InsertedRow(RowId[r], Unindexed, Clock) \in Row
  BY <1>1, <1>2, EventRows DEF Rewritten
<1>4. jobs \in Table /\ task \in [Workers -> TaskType] /\ graph \in [Repos -> GraphType]
      /\ admin \in AdminType
  BY <1>3, IdleTypes DEF Init, Table
<1>5. /\ remote \in [Repos -> 1..MaxSha] /\ gate \in Workers \cup {Free, Admin}
      /\ file \in [Repos -> Settings] /\ config \in [Repos -> Settings]
  BY ServerConstants DEF Init, Settings
<1>6. budget \in [{"late", "crash", "fail", "admin"} -> Nat]
  BY ServerConstants DEF Init
<1>7. CommitKnown
  BY IdleTypes DEF Init, CommitKnown, Snapped, GatePc, FullPc
<1>. QED
  BY <1>4, <1>5, <1>6, <1>7, Types

\* The specification keeps its types: states of tasks, claims, handlers, rows
\* and graph entries stay within what the code can represent.
THEOREM TypeCorrect == Spec => []TypeOK
<1>. QED
  BY TypesAtStart, TypeStep, PTL DEF Spec

-----------------------------------------------------------------------------
(* What is written is what the config says.                                *)

\* The gate excludes: at most its holder writes, a handler at work holds it, and
\* the settings that are being written are those of the config, which no one can
\* change meanwhile, however many transactions the index takes; a handler drops a
\* graph only after the repo left the config.
GateInv ==
    /\ \A w \in Workers : task[w].pc \in GatePc =>
          gate = w /\ config[Repo(w)] = task[w].snap
    /\ admin.pc # "idle" => gate = Admin
    /\ admin.pc \in {"rm_graph", "rm_node"} => config[admin.repo] = Absent
    /\ \A w \in Workers : task[w].pc \in Snapped => task[w].snap # Absent

\* A handler moves only while it holds the gate, and starts only when it is free.
LEMMA AdminHolds ==
    ASSUME TypeOK, GateInv
    PROVE  /\ HandlerStep => gate = Admin /\ (admin'.pc # "idle" => gate' = Admin)
           /\ \A r \in Repos : BeginStep(r) => gate = Free /\ gate' = Admin
<1>0. admin \in AdminType
  BY Types
<1>1. ASSUME NEW pc, NEW next, pc # "idle", AdminAt(pc, next)
      PROVE  gate = Admin /\ (admin'.pc # "idle" => gate' = Admin)
  BY <1>1, IdleTypes DEF AdminAt, GateInv, IdleAdmin
<1>2. ASSUME ReloadSwap PROVE gate = Admin /\ gate' = Admin
  BY <1>2 DEF ReloadSwap, GateInv
<1>3. ASSUME HandlerStep PROVE gate = Admin /\ (admin'.pc # "idle" => gate' = Admin)
  BY <1>1, <1>2, <1>3 DEF HandlerStep, FailRemove, AdminStep, RemoveCancel, RemoveFromFile,
        RemoveFromRuntime, RemoveContent, RemoveNode, AddToFile, AddToRuntime, AddJob, ReloadJobs
<1>4. ASSUME NEW r \in Repos, BeginStep(r) PROVE gate = Free /\ gate' = Admin
  BY <1>4 DEF BeginStep, BeginRemove, BeginAdd, BeginReload, EnterAdmin
<1>. QED
  BY <1>3, <1>4

\* Who writes, or fails to, has the gate.
LEMMA WritersHold ==
    ASSUME TypeOK, GateInv, NEW v \in Workers, GraphWrite(v) \/ FailWrite(v)
    PROVE  task[v].pc \in GatePc /\ gate = v /\ OwnStep(v)
<1>1. FullWrite(v) => task[v].pc \in GatePc
  BY FullStages DEF Stage, GatePc, FullPc
<1>2. Write(v) \/ FailWrite(v) => task[v].pc \in GatePc
  BY DEF Write, FailWrite, RowGone, GatePc
<1>. QED
  BY <1>1, <1>2 DEF GateInv, GraphWrite, FullWrite, OwnStep, TaskStep, FaultStep

\* While a task is at the gate, its gate, the config and the graph stay, unless it
\* moves them itself.
LEMMA GateKept ==
    ASSUME TypeOK, GateInv, [Next]_vars, NEW w \in Workers, task[w].pc \in GatePc
    PROVE  (gate' = w /\ UNCHANGED <<config, graph>>) \/ OwnStep(w) \/ CrashAndRestart
<1>1. gate = w /\ w # Admin /\ w # Free
  BY ServerConstants DEF GateInv
<1>2. ~HandlerStep /\ \A r \in Repos : ~BeginStep(r)
  BY <1>1, AdminHolds
<1>3. UNCHANGED config \/ CrashAndRestart
  BY <1>2, Frames DEF HandlerStep, AdminStep
<1>4. \A v \in Workers : EnterGate(v) \/ GraphWrite(v) \/ FailWrite(v) => v = w /\ OwnStep(w)
  BY <1>1, WritersHold DEF EnterGate
<1>5. UNCHANGED graph \/ OwnStep(w)
  BY <1>2, <1>4, Frames DEF HandlerStep, AdminStep
<1>. QED
  BY <1>1, <1>2, <1>3, <1>4, <1>5, Frames

\* Every step keeps the gate invariant.
LEMMA GateStep ==
    ASSUME TypeOK, TypeOK', GateInv, [Next]_vars
    PROVE  GateInv'
<1>0. task \in [Workers -> TaskType] /\ task' \in [Workers -> TaskType]
  BY Types DEF TypeOK, TaskType, Claims
<1>1. ASSUME NEW w \in Workers, task'[w].pc \in GatePc
      PROVE  gate' = w /\ config'[task'[w].claim.repo] = task'[w].snap
  <2>1. CASE Quiet(w) /\ ~OwnStep(w) /\ ~CrashAndRestart
    BY <1>1, <2>1, GateKept DEF Quiet, GateInv, Repo
  <2>2. CASE OwnStep(w)
    <3>1. /\ EnterGate(w) \/ (FullWrite(w) /\ task'[w].pc # "wrote")
          /\ task'[w].claim = task[w].claim /\ task'[w].snap = task[w].snap
      BY <1>1, <2>2, OwnMoves, IdleTypes DEF GatePc, FullPc
    <3>2. CASE EnterGate(w)
      <4>1. task'[w].pc # "done"
        BY <1>1 DEF GatePc, FullPc
      <4>2. config[Repo(w)] = task[w].snap /\ gate' = w /\ UNCHANGED config
        BY <1>0, <3>2, <4>1 DEF EnterGate, Goto, TaskType
      <4>. QED
        BY <3>1, <4>2 DEF Repo
    <3>3. CASE FullWrite(w) /\ task'[w].pc # "wrote"
      <4>1. gate' = gate /\ UNCHANGED config
        BY <1>0, <3>3, FullStages DEF Stage, TaskType
      <4>2. gate = w /\ config[Repo(w)] = task[w].snap
        BY <3>3, WritersHold DEF GraphWrite, GateInv
      <4>. QED
        BY <3>1, <4>1, <4>2 DEF Repo
    <3>. QED
      BY <3>1, <3>2, <3>3
  <2>3. CASE CrashAndRestart
    BY <1>1, <2>3, IdleTypes DEF CrashAndRestart, GatePc, FullPc
  <2>. QED
    BY <2>1, <2>2, <2>3, TaskFrame
<1>2. ASSUME admin'.pc # "idle" PROVE gate' = Admin
  <2>1. CASE HandlerStep \/ \E r \in Repos : BeginStep(r)
    BY <1>2, <2>1, AdminHolds
  <2>2. CASE CrashAndRestart
    BY <1>2, <2>2 DEF CrashAndRestart, IdleAdmin
  <2>3. CASE UNCHANGED admin /\ ~HandlerStep /\ ~CrashAndRestart /\ ~(\E r \in Repos : BeginStep(r))
    <3>1. gate = Admin
      BY <1>2, <2>3 DEF GateInv
    <3>2. \A w \in Workers : ~(EnterGate(w) \/ GraphWrite(w) \/ FailWrite(w))
      BY <3>1, WritersHold, ServerConstants DEF EnterGate
    <3>. QED
      BY <2>3, <3>1, <3>2, Frames
  <2>. QED
    BY <2>1, <2>2, <2>3, Frames
<1>3. ASSUME NEW w \in Workers, task'[w].pc \in Snapped PROVE task'[w].snap # Absent
  <2>1. CASE Quiet(w) \/ task'[w] = IdleTask
    BY <1>3, <2>1, IdleTypes DEF GateInv, Quiet, Snapped, GatePc, FullPc
  <2>2. CASE OwnStep(w) /\ ~Snapshot(w)
    BY <1>3, <2>2, OwnMoves, IdleTypes DEF GateInv, Snapped, GatePc, FullPc
  <2>3. CASE Snapshot(w)
    BY <1>0, <1>3, <2>3 DEF Snapshot, Snapped, GatePc, FullPc, TaskType
  <2>. QED
    BY <2>1, <2>2, <2>3, TaskFrame
<1>4. ASSUME admin'.pc \in {"rm_graph", "rm_node"} PROVE config'[admin'.repo] = Absent
  <2>0. admin \in AdminType /\ config \in [Repos -> Settings]
    BY Types
  <2>1. CASE RemoveFromRuntime
    BY <2>0, <2>1 DEF RemoveFromRuntime, AdminAt, AdminType
  <2>2. CASE UNCHANGED <<admin, config>>
    BY <1>4, <2>2 DEF GateInv
  <2>3. CASE RemoveContent
    BY <2>0, <2>3 DEF RemoveContent, AdminAt, AdminType, GateInv
  <2>4. CASE HandlerStep /\ ~RemoveFromRuntime /\ ~RemoveContent
    <3>1. ASSUME NEW pc, NEW next, AdminAt(pc, next) PROVE admin'.pc = next
      BY <2>0, <3>1 DEF AdminAt, AdminType, IdleAdmin
    <3>2. ASSUME ReloadSwap PROVE admin'.pc = "rl_enqueue"
      BY <2>0, <3>2 DEF ReloadSwap, AdminType
    <3>. QED
      BY <1>4, <2>4, <3>1, <3>2 DEF HandlerStep, FailRemove, AdminStep, RemoveCancel, RemoveFromFile,
            RemoveNode, AddToFile, AddToRuntime, AddJob, ReloadJobs
  <2>5. CASE CrashAndRestart \/ \E r \in Repos : BeginStep(r)
    <3>1. ASSUME NEW r, NEW pc, EnterAdmin(r, pc) PROVE admin'.pc = pc
      BY <3>1 DEF EnterAdmin, IdleAdmin
    <3>2. CrashAndRestart => admin'.pc = "idle"
      BY DEF CrashAndRestart, IdleAdmin
    <3>. QED
      BY <1>4, <2>5, <3>1, <3>2 DEF BeginStep, BeginRemove, BeginAdd, BeginReload
  <2>. QED
    BY <2>1, <2>2, <2>3, <2>4, <2>5, Frames DEF HandlerStep, AdminStep
<1>. QED
  BY <1>1, <1>2, <1>3, <1>4 DEF GateInv, Repo

\* What a full index has done when it is at stage t.pc, and has not undone since.
StageOK(t, g) ==
    /\ t.pc \in FullPc \ {"set_debt"} => g.debt
    /\ t.pc \in {"set_sha", "set_policy", "clear_debt"} => g.blob = Blob[t.sha]
    /\ t.pc \in {"set_policy", "clear_debt"} => g.sha = t.sha
    /\ t.pc = "clear_debt" => g.policy = t.snap

WriterInv == \A w \in Workers : StageOK(task[w], graph[Repo(w)])

\* Nobody comes between the transactions of a full index.
LEMMA WriterStep ==
    ASSUME TypeOK, GateInv, WriterInv, [Next]_vars
    PROVE  WriterInv'
<1>0. /\ task \in [Workers -> TaskType] /\ graph \in [Repos -> GraphType]
      /\ \A w \in Workers : task[w] \in TaskType /\ Repo(w) \in Repos
  BY Types DEF TaskType, Claims, Repo
<1>. SUFFICES ASSUME NEW w \in Workers
              PROVE  StageOK(task'[w], graph'[task'[w].claim.repo])
  BY DEF WriterInv, Repo
<1>1. CASE task'[w].pc \notin FullPc
  BY <1>1 DEF StageOK, FullPc
<1>2. CASE task'[w].pc \in FullPc /\ OwnStep(w)
  <2>1. /\ task'[w].claim = task[w].claim
        /\ task'[w].pc = "set_debt" \/ (FullWrite(w) /\ task'[w].pc # "wrote")
    BY <1>2, OwnMoves, IdleTypes DEF FullPc
  <2>2. CASE FullWrite(w)
    <3>. DEFINE g == graph[Repo(w)]
                t == task[w]
    <3>0. /\ g \in GraphType /\ t \in TaskType /\ StageOK(t, g) /\ Repo(w) = task'[w].claim.repo
          /\ Repo(w) \in Repos
      BY <1>0, <2>1 DEF WriterInv, Repo
    <3>1. ASSUME NEW pc, NEW next, NEW new, Stage(w, pc, next, new)
          PROVE  /\ t.pc = pc /\ task'[w].pc = next /\ task'[w].sha = t.sha
                 /\ task'[w].snap = t.snap /\ graph'[Repo(w)] = new
      BY <1>0, <3>0, <3>1 DEF Stage, TaskType
    <3>2. CASE Stage(w, "set_debt", "insert_repo", [g EXCEPT !.debt = TRUE])
      BY <3>0, <3>1, <3>2 DEF StageOK, GraphType
    <3>3. CASE Stage(w, "insert_repo", "replace", [g EXCEPT !.row = TRUE])
      BY <3>0, <3>1, <3>3 DEF StageOK, GraphType, FullPc
    <3>4. CASE Stage(w, "replace", "set_sha", [g EXCEPT !.blob = Blob[t.sha]])
      BY <3>0, <3>1, <3>4 DEF StageOK, GraphType, FullPc
    <3>5. CASE Stage(w, "set_sha", "set_policy", [g EXCEPT !.sha = t.sha])
      BY <3>0, <3>1, <3>5 DEF StageOK, GraphType, FullPc
    <3>6. CASE Stage(w, "set_policy", "clear_debt", [g EXCEPT !.policy = t.snap])
      BY <3>0, <3>1, <3>6 DEF StageOK, GraphType, FullPc
    <3>7. CASE Stage(w, "clear_debt", "wrote", [g EXCEPT !.debt = FALSE])
      BY <1>2, <3>1, <3>7 DEF FullPc
    <3>. QED
      BY <2>2, <3>2, <3>3, <3>4, <3>5, <3>6, <3>7, FullStages
  <2>. QED
    BY <2>1, <2>2 DEF StageOK, FullPc
<1>3. CASE task'[w].pc \in FullPc /\ ~OwnStep(w)
  <2>1. Quiet(w) /\ ~CrashAndRestart
    BY <1>3, TaskFrame, IdleTypes DEF FullPc, CrashAndRestart
  <2>2. task[w].pc \in GatePc
    BY <1>3, <2>1 DEF Quiet, GatePc
  <2>3. UNCHANGED graph
    BY <1>3, <2>1, <2>2, GateKept
  <2>. QED
    BY <2>1, <2>3 DEF WriterInv, Quiet, StageOK, Repo
<1>. QED
  BY <1>1, <1>2, <1>3

\* Types, gate and stages together.
ServerInv == TypeOK /\ CommitKnown /\ GateInv /\ WriterInv

\* The gate and the stages hold throughout.
LEMMA ServerInvariant == Spec => []ServerInv
<1>1. Init => GateInv /\ WriterInv
  <2>. SUFFICES ASSUME Init PROVE GateInv /\ WriterInv
    OBVIOUS
  <2>1. \A w \in Workers : task[w].pc = "idle"
    BY IdleTypes DEF Init
  <2>2. GateInv
    BY <2>1 DEF Init, GateInv, IdleAdmin, Snapped, GatePc, FullPc
  <2>3. WriterInv
    BY <2>1 DEF WriterInv, StageOK, FullPc
  <2>. QED
    BY <2>2, <2>3
<1>2. ServerInv /\ [Next]_vars => ServerInv'
  BY TypeStep, GateStep, WriterStep DEF ServerInv
<1>. QED
  BY <1>1, <1>2, TypesAtStart, PTL DEF Spec, ServerInv

\* A worker writes only for a configured repo, and what it leaves complete carries
\* the repo's current settings: a job whose repo was removed or changed while it
\* fetched, parsed or waited for the gate never publishes the old settings.
THEOREM CommitsConfigured == Spec => CommitsUnderCurrentConfig
<1>. DEFINE Good(r) == (graph'[r] # graph[r] /\ gate # Admin) =>
                          /\ config[r] # Absent
                          /\ graph'[r].policy # graph[r].policy => graph'[r].policy = config[r]
                          /\ ~graph'[r].debt => graph'[r].policy = config[r]
<1>1. ASSUME ServerInv, [Next]_vars, NEW r \in Repos, graph'[r] # graph[r], gate # Admin
      PROVE  /\ config[r] # Absent
             /\ graph'[r].policy # graph[r].policy => graph'[r].policy = config[r]
             /\ ~graph'[r].debt => graph'[r].policy = config[r]
  <2>0. TypeOK /\ graph \in [Repos -> GraphType] /\ GateInv /\ WriterInv
    BY <1>1, Types DEF ServerInv
  <2>1. ~HandlerStep
    BY <1>1, <2>0, AdminHolds
  <2>2. PICK w \in Workers : GraphWrite(w)
    BY <1>1, <2>1, Frames DEF HandlerStep, AdminStep
  <2>. DEFINE g == graph[Repo(w)]
              t == task[w]
  <2>3. /\ t.pc \in GatePc /\ config[Repo(w)] = t.snap /\ t.snap # Absent
        /\ Repo(w) \in Repos /\ g \in GraphType /\ StageOK(t, g)
    BY <2>0, <2>2, WritersHold, Types DEF GateInv, Snapped, WriterInv, TaskType, Claims, Repo
  <2>4. CASE Write(w)
    <3>1. r = Repo(w) /\ graph'[r].policy = t.snap
      BY <1>1, <2>0, <2>3, <2>4 DEF Write, GraphType
    <3>. QED
      BY <2>3, <3>1
  <2>5. CASE FullWrite(w)
    <3>1. ASSUME NEW pc, NEW next, NEW new, Stage(w, pc, next, new)
          PROVE  t.pc = pc /\ r = Repo(w) /\ graph'[r] = new
      BY <1>1, <2>0, <2>3, <3>1 DEF Stage
    <3>2. CASE Stage(w, "set_debt", "insert_repo", [g EXCEPT !.debt = TRUE])
      BY <2>3, <3>1, <3>2 DEF GraphType
    <3>3. CASE Stage(w, "insert_repo", "replace", [g EXCEPT !.row = TRUE])
      BY <2>3, <3>1, <3>3 DEF StageOK, GraphType, FullPc
    <3>4. CASE Stage(w, "replace", "set_sha", [g EXCEPT !.blob = Blob[t.sha]])
      BY <2>3, <3>1, <3>4 DEF StageOK, GraphType, FullPc
    <3>5. CASE Stage(w, "set_sha", "set_policy", [g EXCEPT !.sha = t.sha])
      BY <2>3, <3>1, <3>5 DEF StageOK, GraphType, FullPc
    <3>6. CASE Stage(w, "set_policy", "clear_debt", [g EXCEPT !.policy = t.snap])
      BY <2>3, <3>1, <3>6 DEF GraphType
    <3>7. CASE Stage(w, "clear_debt", "wrote", [g EXCEPT !.debt = FALSE])
      BY <2>3, <3>1, <3>7 DEF StageOK, GraphType
    <3>. QED
      BY <2>0, <2>5, <3>2, <3>3, <3>4, <3>5, <3>6, <3>7, FullStages
  <2>. QED
    BY <2>2, <2>4, <2>5 DEF GraphWrite
<1>2. ServerInv /\ [Next]_vars => [\A r \in Repos : Good(r)]_vars
  BY <1>1 DEF vars
<1>. QED
  BY <1>2, ServerInvariant, PTL DEF Spec, CommitsUnderCurrentConfig

-----------------------------------------------------------------------------
(* Fencing: an overtaken task does not write.                              *)

\* Live tasks hold tokens, and different ones.
TokensDiffer ==
    \A w \in Workers : task[w].pc # "idle" =>
        /\ task[w].claim.token \in Tokens
        /\ \A v \in Workers \ {w} :
              task[v].pc # "idle" => task[v].claim.token # task[w].claim.token

\* A task older than a claim of the same repo has lost its own claim, and so has
\* a task that a newer one has overtaken.
EldersFenced ==
    \A w \in Workers :
        /\ \A v \in task[w].elders : v # w /\ task[v].pc # "idle" /\ ~Active(v)
        /\ task[w].late => task[w].pc # "idle" /\ task[w].pc \notin GatePc /\ ~Active(w)

FenceInv == TokensDiffer /\ EldersFenced

\* A task lives on with its claim, or has just claimed.
LEMMA ClaimKept ==
    ASSUME TypeOK, [Next]_vars, NEW w \in Workers, task'[w].pc # "idle"
    PROVE  \/ task'[w].claim = task[w].claim /\ task[w].pc # "idle"
           \/ task[w].pc = "idle" /\ \E r \in Repos : Claim(w, r)
<1>1. CASE Quiet(w)
  BY <1>1 DEF Quiet
<1>2. CASE OwnStep(w)
  <2>1. Snapshot(w) => task[w].pc = "claimed"
    BY DEF Snapshot
  <2>2. \A r \in Repos : Claim(w, r) => task[w].pc = "idle"
    BY DEF Claim
  <2>. QED
    BY <1>2, <2>1, <2>2, OwnMoves, IdleTypes DEF FullPc
<1>. QED
  BY <1>1, <1>2, TaskFrame, IdleTypes

\* Every step keeps tokens apart.
LEMMA TokensStep ==
    ASSUME TypeOK, TokensDiffer, [Next]_vars
    PROVE  TokensDiffer'
<1>0. task \in [Workers -> TaskType]
  BY Types
<1>1. ASSUME NEW w \in Workers, NEW r \in Repos, Claim(w, r)
      PROVE  /\ task'[w].claim.token \in Tokens
             /\ \A v \in Workers : task[v].claim.token # task'[w].claim.token
             /\ \A v \in Workers \ {w} : task'[v] = task[v]
  <2>1. PICK t \in Tokens : ClaimedWith(w, r, t)
    BY <1>1, ClaimStep
  <2>2. task'[w].claim.token = t
    BY <2>1 DEF ClaimedWith
  <2>. QED
    BY <2>1, <2>2 DEF ClaimedWith
<1>2. ASSUME NEW w \in Workers, task'[w].pc # "idle"
      PROVE  task'[w].claim.token \in Tokens
  BY <1>1, <1>2, ClaimKept DEF TokensDiffer
<1>3. ASSUME NEW w \in Workers, NEW v \in Workers \ {w}, task'[w].pc # "idle", task'[v].pc # "idle"
      PROVE  task'[v].claim.token # task'[w].claim.token
  <2>1. CASE \E r \in Repos : Claim(w, r) \/ Claim(v, r)
    BY <1>1, <1>3, <2>1
  <2>. QED
    BY <1>3, <2>1, ClaimKept DEF TokensDiffer
<1>. QED
  BY <1>2, <1>3 DEF TokensDiffer

\* A lost claim stays lost, whatever happens to the row.
LEMMA LostStaysLost ==
    ASSUME TypeOK, TokensDiffer, [Next]_vars, NEW v \in Workers,
           task[v].pc # "idle", ~Active(v)
    PROVE  ~ClaimIsActive(jobs', task[v].claim)
<1>. DEFINE c == task[v].claim
<1>0. jobs \in Table /\ c \in Claims /\ c.repo \in Repos /\ c.token # 0
  BY Types, ServerConstants DEF TaskType, Claims, TokensDiffer
<1>1. ~Fenced(jobs[c.repo], c)
  BY DEF Active, ClaimIsActive
<1>2. CASE TableRewritten(jobs, jobs')
  BY <1>0, <1>1, <1>2 DEF TableRewritten, Rewritten, ClaimIsActive, Fenced, Null
<1>3. ASSUME NEW w \in Workers, NEW r \in Repos, Claim(w, r) PROVE ~Fenced(jobs'[c.repo], c)
  <2>1. PICK t \in Tokens : ClaimedWith(w, r, t)
    BY <1>3, ClaimStep
  <2>2. c.token # t /\ jobs'[r].token = t /\ \A s \in Repos \ {r} : jobs'[s] = jobs[s]
    BY <1>0, <2>1 DEF ClaimedWith, Table
  <2>. QED
    BY <1>0, <1>1, <2>2 DEF Fenced
<1>4. ASSUME NEW w \in Workers, Finish(w) PROVE ~Fenced(jobs'[c.repo], c)
  <2>. DEFINE d == task[w].claim
  <2>1. d \in Claims /\ d.repo \in Repos
    BY Types DEF TaskType, Claims
  <2>2. jobs' = RequeueIfStale(Complete(jobs, d), d.repo, Clock)
    BY <1>4 DEF Finish, Repo
  <2>3. CASE c.repo # d.repo
    <3>1. \A s \in Repos \ {d.repo} : jobs'[s] = jobs[s]
      BY <1>0, <2>1, <2>2, FinishRow
    <3>. QED
      BY <1>0, <1>1, <2>3, <3>1
  <2>4. CASE c.repo = d.repo /\ Fenced(jobs[d.repo], d)
    <3>1. jobs'[d.repo].status # "running"
      BY <1>0, <2>1, <2>2, <2>4, FinishRow
    <3>. QED
      BY <2>4, <3>1 DEF Fenced
  <2>5. CASE c.repo = d.repo /\ ~Fenced(jobs[d.repo], d)
    <3>1. Rewritten(jobs[d.repo], jobs'[d.repo])
      BY <1>0, <2>1, <2>2, <2>5, FinishRow
    <3>. QED
      BY <1>0, <1>1, <2>5, <3>1 DEF Fenced, Rewritten, Null
  <2>. QED
    BY <2>3, <2>4, <2>5
<1>. QED
  BY <1>2, <1>3, <1>4, JobsStep DEF ClaimIsActive

\* Elders only drop out, and a task that ends drops out of all of them.
LEMMA EldersFrame ==
    ASSUME TypeOK, EldersFenced, [Next]_vars, NEW w \in Workers, ~\E r \in Repos : Claim(w, r)
    PROVE  /\ task'[w].elders \subseteq task[w].elders
           /\ \A v \in task'[w].elders : task'[v].pc # "idle"
           /\ task'[w].late => \/ task[w].late
                               \/ \E u \in Workers : Publishes(u) /\ w # u /\ w \in task[u].elders
<1>0. task \in [Workers -> TaskType] /\ task[w] \in TaskType /\ task[w].elders \subseteq Workers
  BY Types DEF TaskType
<1>1. ASSUME NEW v \in Workers, Leave(v)
      PROVE  /\ task'[w].elders \subseteq task[w].elders \ {v}
             /\ task'[w].late => task[w].late
             /\ \A u \in Workers \ {v} : task'[u].pc = task[u].pc
  BY <1>0, <1>1, IdleTypes DEF Leave, TaskType
<1>2. CASE \E v \in Workers : Leave(v)
  BY <1>0, <1>1, <1>2 DEF EldersFenced
<1>3. ASSUME NEW u \in Workers, GraphWrite(u)
      PROVE  /\ task'[w].elders = task[w].elders
             /\ \A v \in Workers : task'[v].pc # "idle" \/ task[v].pc = "idle"
             /\ task'[w].late => task[w].late \/ (Publishes(u) /\ w # u /\ w \in task[u].elders)
  <2>1. CASE Write(u)
    BY <1>0, <2>1 DEF Write, Overtake, TaskType, Publishes
  <2>2. CASE FullWrite(u)
    <3>1. /\ task'[u].pc # "idle" /\ task'[u].elders = task[u].elders
          /\ task'[u].late = task[u].late
      BY <1>0, <2>2, FullStages DEF TaskType
    <3>. QED
      BY <1>0, <2>2, <3>1, FullStages DEF Quiet, Publishes
  <2>. QED
    BY <1>3, <2>1, <2>2 DEF GraphWrite
<1>4. CASE \E u \in Workers : GraphWrite(u)
  BY <1>0, <1>3, <1>4 DEF EldersFenced
<1>5. ASSUME NEW u \in Workers, OwnStep(u), ~GraphWrite(u), ~Leave(u)
      PROVE  /\ task'[u].pc # "idle" /\ \A v \in Workers \ {u} : task'[v] = task[v]
             /\ u = w => task'[w].elders = task[w].elders /\ task'[w].late = task[w].late
  <2>1. ~(Finish(u) \/ FaultStep(u))
    BY <1>5 DEF Finish, FaultStep, FailTask, FailWrite, DeferTask
  <2>2. \A v \in Workers \ {u} : task'[v] = task[v]
    BY <1>0, <1>5, <2>1 DEF OwnStep, TaskStep, GraphWrite, FullWrite, Claim, Snapshot, Fetch, Prepare,
          CheckClaim, Plan, Diff, EnterGate, Goto
  <2>. QED
    BY <1>5, <2>1, <2>2, OwnMoves DEF FullPc
<1>6. CASE \E u \in Workers : OwnStep(u) /\ ~GraphWrite(u) /\ ~Leave(u)
  BY <1>0, <1>5, <1>6 DEF EldersFenced
<1>7. CASE UNCHANGED task
  BY <1>0, <1>7 DEF EldersFenced
<1>8. CASE CrashAndRestart
  BY <1>8, IdleTypes DEF CrashAndRestart
<1>. QED
  BY <1>2, <1>4, <1>6, <1>7, <1>8, Frames

\* Every step keeps the fences up.
LEMMA FenceStep ==
    ASSUME TypeOK, GateInv, FenceInv, [Next]_vars
    PROVE  FenceInv'
<1>. USE DEF FenceInv
<1>0. task \in [Workers -> TaskType] /\ \A w \in Workers : task[w].elders \subseteq Workers
  BY Types DEF TaskType
<1>1. TokensDiffer'
  BY TokensStep
<1>2. ASSUME NEW v \in Workers, task[v].pc # "idle", ~Active(v), task'[v].pc # "idle"
      PROVE  ~ClaimIsActive(jobs', task'[v].claim)
  BY <1>2, ClaimKept, LostStaysLost
<1>3. ASSUME NEW w \in Workers, NEW r \in Repos, Claim(w, r)
      PROVE  /\ \A v \in task'[w].elders : /\ v # w /\ task'[v].pc # "idle"
                                           /\ ~ClaimIsActive(jobs', task'[v].claim)
             /\ ~task'[w].late
  <2>1. PICK t \in Tokens : ClaimedWith(w, r, t)
    BY <1>3, ClaimStep
  <2>2. task'[w].elders = Working(r) /\ ~task'[w].late /\ task[w].pc = "idle"
        /\ jobs[r].status = "pending" /\ \A v \in Workers \ {w} : task'[v] = task[v]
    BY <2>1 DEF ClaimedWith
  <2>3. ASSUME NEW v \in Working(r)
        PROVE  v # w /\ task'[v].pc # "idle" /\ ~ClaimIsActive(jobs', task'[v].claim)
    <3>1. v \in Workers /\ task[v].pc # "idle" /\ task[v].claim.repo = r
      BY DEF Working, Repo
    <3>2. ~Active(v)
      BY <2>2, <3>1 DEF Active, ClaimIsActive, Fenced
    <3>. QED
      BY <1>2, <2>2, <3>1, <3>2
  <2>. QED
    BY <2>2, <2>3
<1>4. ASSUME NEW w \in Workers, ~\E r \in Repos : Claim(w, r), NEW v \in task'[w].elders
      PROVE  v # w /\ task'[v].pc # "idle" /\ ~ClaimIsActive(jobs', task'[v].claim)
  <2>1. v \in task[w].elders /\ task'[v].pc # "idle" /\ v \in Workers
    BY <1>0, <1>4, EldersFrame
  <2>. QED
    BY <1>2, <2>1 DEF EldersFenced
<1>5. ASSUME NEW w \in Workers, ~\E r \in Repos : Claim(w, r), task'[w].late
      PROVE  task'[w].pc # "idle" /\ task'[w].pc \notin GatePc /\ ~ClaimIsActive(jobs', task'[w].claim)
  <2>1. task[w].pc \notin GatePc /\ task[w].pc # "idle" /\ ~Active(w)
    <3>1. CASE task[w].late
      BY <3>1 DEF EldersFenced
    <3>2. ASSUME NEW u \in Workers, Publishes(u), w # u, w \in task[u].elders
          PROVE  task[w].pc \notin GatePc /\ task[w].pc # "idle" /\ ~Active(w)
      BY <3>2, WritersHold DEF Publishes, GraphWrite, FullWrite, GateInv, EldersFenced
    <3>. QED
      BY <1>5, <3>1, <3>2, EldersFrame
  <2>2. task'[w].pc # "idle"
    <3>1. CASE task'[w] = IdleTask
      BY <1>5, <3>1, IdleTypes
    <3>. QED
      BY <1>5, <2>1, <3>1, TaskFrame, OwnMoves DEF Quiet, FullPc
  <2>3. task'[w].pc \notin GatePc
    <3>1. ~(EnterGate(w) /\ task'[w].pc \in GatePc)
      BY <1>0, <2>1 DEF EnterGate, Goto, TaskType, GatePc, FullPc
    <3>. QED
      BY <1>5, <2>1, <3>1, TaskFrame, OwnMoves, IdleTypes DEF Quiet, GatePc, FullPc
  <2>. QED
    BY <1>2, <2>1, <2>2, <2>3
<1>. QED
  BY <1>1, <1>3, <1>4, <1>5 DEF EldersFenced, Active

\* Types, gate and fences hold throughout.
LEMMA FenceInvariant == Spec => [](ServerInv /\ FenceInv)
<1>1. Init => FenceInv
  BY IdleTypes DEF Init, FenceInv, TokensDiffer, EldersFenced
<1>2. ServerInv /\ FenceInv /\ [Next]_vars => FenceInv'
  BY FenceStep DEF ServerInv
<1>. QED
  BY <1>1, <1>2, ServerInvariant, PTL DEF Spec

\* Once a newer claim of a repo has been written no older task of it writes,
\* through expired leases, removal, re-adding, crashes and any number of workers.
THEOREM OvertakenNeverWrites == Spec => []NoLateWrite
<1>1. FenceInv => NoLateWrite
  BY DEF FenceInv, EldersFenced, NoLateWrite
<1>. QED
  BY <1>1, FenceInvariant, PTL

-----------------------------------------------------------------------------
(* A settled row stands for current settings.                              *)

\* A handler has changed the settings of the repo and not yet visited its row.
VisitPending(r) ==
    \/ admin.pc = "rl_enqueue" /\ admin.prev[r] # config[r]
    \/ admin.pc = "add_enqueue" /\ admin.repo = r

Waits(r) == config[r] = Absent \/ VisitPending(r)

Current(r) == (graph[r].sha # 0 /\ graph[r].policy = config[r]) \/ Waits(r)

\* A finished row, until the first crash, and a task about to finish its row stand
\* for a graph with the current settings; a task under way works with the current
\* settings; or a requeue mark or a handler will see to it.
RowsCurrent ==
    \A r \in Repos : jobs[r].status = "succeeded" /\ jobs[r].requeue = 0 => Current(r)

TasksCurrent ==
    \A w \in Workers : Active(w) /\ jobs[Repo(w)].requeue = 0 =>
        /\ task[w].pc \in Snapped => task[w].snap = config[Repo(w)] \/ Waits(Repo(w))
        /\ task[w].pc \in {"upToDate", "wrote", "done"} => Current(Repo(w))

CurrentInv ==
    /\ TasksCurrent
    /\ budget["crash"] <= MaxCrash
    /\ budget["crash"] = MaxCrash => RowsCurrent

\* The row of r has been visited: it will be claimed again, or says so.
Visited(r) ==
    /\ jobs'[r].status # "succeeded"
    /\ jobs'[r].status = "running" => jobs'[r].requeue # 0

\* The visits of reload and add leave a row pending, marked or quarantined.
LEMMA VisitsMark ==
    ASSUME TypeOK, NEW r \in Repos, config[r] # Absent, VisitPending(r),
           ReloadJobs \/ AddJob
    PROVE  Visited(r)
<1>0. jobs \in Table /\ jobs[r] \in Row
  BY Types DEF Table
<1>1. ASSUME NEW p PROVE Upsert(jobs, r, p, RowId[r], Clock)[r].status # "succeeded"
                      /\ (Upsert(jobs, r, p, RowId[r], Clock)[r].status = "running" =>
                            Upsert(jobs, r, p, RowId[r], Clock)[r].requeue # 0)
  <2>1. Upsert(jobs, r, p, RowId[r], Clock)[r] =
           IF Present(jobs[r]) THEN ConflictRow(jobs[r], p, Clock) ELSE InsertedRow(RowId[r], p, Clock)
    BY <1>0 DEF Upsert, Table
  <2>2. /\ ConflictRow(jobs[r], p, Clock).status # "succeeded"
        /\ ConflictRow(jobs[r], p, Clock).status = "running" =>
              ConflictRow(jobs[r], p, Clock).requeue # 0
    BY <1>0 DEF ConflictRow, Row
  <2>3. InsertedRow(RowId[r], p, Clock).status = "pending"
    BY DEF InsertedRow, NoRow
  <2>. QED
    BY <2>1, <2>2, <2>3
<1>2. CASE AddJob
  BY <1>1, <1>2 DEF AddJob, AdminAt, Enqueue, Visited, VisitPending
<1>3. CASE ReloadJobs
  <2>. DEFINE declared == {s \in Repos : config[s] # Absent}
              cancelled == CancelReposNotIn(jobs, declared, Clock)
              p == IF graph[r].row THEN Webhook ELSE Unindexed
  <2>1. admin.prev[r] # config[r] /\ r \in declared
    BY <1>3 DEF ReloadJobs, AdminAt, VisitPending
  <2>2. jobs'[r] = EnqueueDeclaredRepo(cancelled, r, p, RowId[r], Clock)[r]
    BY <1>3, <2>1 DEF ReloadJobs
  <2>3. cancelled[r] = jobs[r] /\ cancelled \in Table
    BY <1>0, <2>1, OtherRewrites DEF CancelReposNotIn, TableRewritten
  <2>. HIDE DEF cancelled
  <2>4. CASE jobs[r].status = "dead_letter"
    BY <2>2, <2>3, <2>4 DEF EnqueueDeclaredRepo, Visited
  <2>5. CASE jobs[r].status # "dead_letter"
    <3>1. jobs'[r] = Upsert(cancelled, r, p, RowId[r], Clock)[r]
      BY <2>2, <2>3, <2>5 DEF EnqueueDeclaredRepo
    <3>2. jobs'[r] = Upsert(jobs, r, p, RowId[r], Clock)[r]
      BY <1>0, <2>3, <3>1 DEF Upsert, Table
    <3>. QED
      BY <1>1, <3>2 DEF Visited
  <2>. QED
    BY <2>4, <2>5
<1>. QED
  BY <1>2, <1>3

\* A change of settings is followed by a visit, and nothing else ends the wait;
\* a write publishes the current settings.
LEMMA WaitsStep ==
    ASSUME TypeOK, CommitKnown, GateInv, [Next]_vars, ~CrashAndRestart, NEW r \in Repos
    PROVE  /\ config'[r] = config[r] \/ Waits(r)'
           /\ Waits(r) => Waits(r)' \/ Visited(r)
           /\ Current(r) => Current(r)' \/ Visited(r)
<1>0. /\ admin \in AdminType /\ config \in [Repos -> Settings] /\ graph \in [Repos -> GraphType]
      /\ task \in [Workers -> TaskType] /\ admin.repo \in Repos
  BY Types DEF AdminType
<1>1. config'[r] = config[r] \/ Waits(r)'
  <2>1. CASE RemoveFromRuntime
    BY <1>0, <2>1 DEF RemoveFromRuntime, Waits
  <2>2. CASE AddToRuntime
    BY <1>0, <2>2 DEF AddToRuntime, AdminAt, Waits, VisitPending, AdminType
  <2>3. CASE ReloadSwap
    BY <1>0, <2>3 DEF ReloadSwap, Waits, VisitPending, AdminType
  <2>. QED
    BY <2>1, <2>2, <2>3, Frames
<1>2. ASSUME VisitPending(r), config[r] # Absent PROVE VisitPending(r)' \/ Visited(r)
  <2>1. CASE ReloadJobs \/ AddJob
    BY <1>2, <2>1, VisitsMark
  <2>2. CASE ~(ReloadJobs \/ AddJob)
    <3>1. ~HandlerStep
      BY <1>2, <2>2 DEF VisitPending, HandlerStep, FailRemove, AdminStep, RemoveCancel, RemoveFromFile,
            RemoveFromRuntime, RemoveContent, RemoveNode, AddToFile, AddToRuntime, ReloadSwap, AdminAt
    <3>2. \A s \in Repos : ~BeginStep(s)
      BY <1>2 DEF VisitPending, BeginStep, BeginRemove, BeginAdd, BeginReload, EnterAdmin
    <3>3. UNCHANGED <<admin, config>>
      BY <3>1, <3>2, Frames DEF HandlerStep, AdminStep
    <3>. QED
      BY <1>2, <3>3 DEF VisitPending
  <2>. QED
    BY <2>1, <2>2
<1>3. Waits(r) => Waits(r)' \/ Visited(r)
  BY <1>1, <1>2 DEF Waits
<1>4. ASSUME graph[r].sha # 0, graph[r].policy = config[r] PROVE Current(r)' \/ Visited(r)
  <2>1. CASE RemoveContent
    <3>1. UNCHANGED config /\ graph'[r].sha = graph[r].sha /\ graph'[r].policy = graph[r].policy
      BY <1>0, <2>1 DEF RemoveContent, GraphType
    <3>. QED
      BY <1>4, <3>1 DEF Current
  <2>2. CASE RemoveNode
    <3>1. /\ admin.pc = "rm_node" /\ UNCHANGED config
          /\ r # admin.repo => graph'[r] = graph[r]
      BY <1>0, <2>2 DEF RemoveNode, AdminAt
    <3>2. CASE r = admin.repo
      BY <3>1, <3>2 DEF GateInv, Current, Waits
    <3>3. CASE r # admin.repo
      BY <1>4, <3>1, <3>3 DEF Current
    <3>. QED
      BY <3>2, <3>3
  <2>3. ASSUME NEW w \in Workers, GraphWrite(w) PROVE Current(r)'
    <3>1. /\ task[w] \in TaskType /\ Repo(w) \in Repos /\ graph[Repo(w)] \in GraphType
          /\ config[Repo(w)] = task[w].snap /\ task[w].sha # 0
      BY <1>0, <2>3, WritersHold DEF GateInv, CommitKnown, Snapped, GatePc, FullPc, TaskType, Claims,
            Repo
    <3>2. UNCHANGED config
      BY <2>3, FullStages DEF GraphWrite, Write
    <3>3. graph'[r].sha \in {graph[r].sha, task[w].sha}
          /\ (graph'[r].policy = graph[r].policy \/ (r = Repo(w) /\ graph'[r].policy = task[w].snap))
      <4>1. CASE Write(w)
        BY <1>0, <3>1, <4>1 DEF Write, GraphType
      <4>2. CASE FullWrite(w)
        BY <4>2, FullEffects
      <4>. QED
        BY <2>3, <4>1, <4>2 DEF GraphWrite
    <3>. QED
      BY <1>4, <3>1, <3>2, <3>3 DEF Current
  <2>4. CASE UNCHANGED graph
    BY <1>1, <1>4, <2>4 DEF Current
  <2>. QED
    BY <2>1, <2>2, <2>3, <2>4, Frames
<1>. QED
  BY <1>1, <1>3, <1>4 DEF Current

\* A live, unmarked claim was live and unmarked before.
LEMMA UnmarkedBefore ==
    ASSUME TypeOK, TokensDiffer, [Next]_vars, NEW w \in Workers, task[w].pc # "idle",
           ClaimIsActive(jobs', task[w].claim), jobs'[Repo(w)].requeue = 0
    PROVE  Active(w) /\ jobs[Repo(w)].requeue = 0
<1>. DEFINE c == task[w].claim
<1>0. jobs \in Table /\ c \in Claims /\ c.repo \in Repos /\ c.repo = Repo(w) /\ jobs[c.repo] \in Row
  BY Types DEF TaskType, Claims, Table, Repo
<1>1. Active(w)
  BY LostStaysLost
<1>2. jobs[c.repo].status = "running" /\ jobs'[c.repo].status = "running"
  BY <1>1 DEF Active, ClaimIsActive, Fenced
<1>3. ASSUME Rewritten(jobs[c.repo], jobs'[c.repo]) PROVE jobs[c.repo].requeue = 0
  BY <1>0, <1>2, <1>3 DEF Rewritten, Row
<1>4. ASSUME NEW v \in Workers, NEW r \in Repos, Claim(v, r) PROVE jobs[c.repo].requeue = 0
  <2>1. PICK t \in Tokens : ClaimedWith(v, r, t)
    BY <1>4, ClaimStep
  <2>2. r # c.repo
    BY <1>2, <2>1 DEF ClaimedWith
  <2>. QED
    BY <1>0, <2>1, <2>2 DEF ClaimedWith, Table
<1>5. ASSUME NEW v \in Workers, Finish(v) PROVE jobs[c.repo].requeue = 0
  <2>. DEFINE d == task[v].claim
  <2>1. d \in Claims /\ d.repo \in Repos
    BY Types DEF TaskType, Claims
  <2>2. jobs' = RequeueIfStale(Complete(jobs, d), d.repo, Clock)
    BY <1>5 DEF Finish, Repo
  <2>3. \A s \in Repos \ {d.repo} : jobs'[s] = jobs[s]
    BY <1>0, <2>1, <2>2, FinishRow
  <2>4. Fenced(jobs[d.repo], d) => jobs'[d.repo].status # "running"
    BY <1>0, <2>1, <2>2, FinishRow
  <2>5. ~Fenced(jobs[d.repo], d) => Rewritten(jobs[d.repo], jobs'[d.repo])
    BY <1>0, <2>1, <2>2, FinishRow
  <2>6. CASE c.repo # d.repo
    BY <1>0, <2>3, <2>6
  <2>7. CASE c.repo = d.repo
    BY <1>2, <1>3, <2>4, <2>5, <2>7
  <2>. QED
    BY <2>6, <2>7
<1>. QED
  BY <1>0, <1>1, <1>3, <1>4, <1>5, JobsStep DEF TableRewritten

\* A finished row was so before, as unmarked as now, or a task with a live, unmarked
\* claim has just finished it.
LEMMA SettledBefore ==
    ASSUME TypeOK, [Next]_vars, NEW r \in Repos, jobs'[r].status = "succeeded"
    PROVE  \/ /\ jobs[r].status = "succeeded"
              /\ jobs'[r].requeue = 0 => jobs[r].requeue = 0
           \/ \E w \in Workers : Finish(w) /\ Repo(w) = r /\ Active(w) /\ jobs[r].requeue = 0
<1>. DEFINE Before == /\ jobs[r].status = "succeeded"
                      /\ jobs'[r].requeue = 0 => jobs[r].requeue = 0
<1>0. jobs \in Table
  BY Types
<1>1. ASSUME Rewritten(jobs[r], jobs'[r]) PROVE Before
  BY <1>1 DEF Rewritten
<1>2. ASSUME NEW v \in Workers, NEW s \in Repos, Claim(v, s)
      PROVE  Before
  <2>1. PICK t \in Tokens : ClaimedWith(v, s, t)
    BY <1>2, ClaimStep
  <2>2. jobs'[s].status = "running"
    BY <1>0, <2>1 DEF ClaimedWith, ClaimedRow, Table, Row
  <2>3. \A q \in Repos \ {s} : jobs'[q] = jobs[q]
    BY <1>0, <2>1 DEF ClaimedWith, Table
  <2>. QED
    BY <2>2, <2>3
<1>3. ASSUME NEW w \in Workers, Finish(w)
      PROVE  \/ Before
             \/ Repo(w) = r /\ Active(w) /\ jobs[r].requeue = 0
  <2>. DEFINE d == task[w].claim
  <2>1. d \in Claims /\ d.repo \in Repos
    BY Types DEF TaskType, Claims
  <2>2. jobs' = RequeueIfStale(Complete(jobs, d), d.repo, Clock)
    BY <1>3 DEF Finish, Repo
  <2>3. \A s \in Repos \ {d.repo} : jobs'[s] = jobs[s]
    BY <1>0, <2>1, <2>2, FinishRow
  <2>4. Fenced(jobs[d.repo], d) /\ jobs'[d.repo].status = "succeeded" => jobs[d.repo].requeue = 0
    BY <1>0, <2>1, <2>2, FinishRow
  <2>5. ~Fenced(jobs[d.repo], d) => Rewritten(jobs[d.repo], jobs'[d.repo])
    BY <1>0, <2>1, <2>2, FinishRow
  <2>6. CASE r # d.repo
    BY <2>3, <2>6
  <2>7. CASE r = d.repo
    BY <1>1, <2>4, <2>5, <2>7 DEF Repo, Active, ClaimIsActive
  <2>. QED
    BY <2>6, <2>7
<1>. QED
  BY <1>1, <1>2, <1>3, JobsStep DEF TableRewritten

\* Every step but a crash keeps rows current.
LEMMA RowsCurrentStep ==
    ASSUME TypeOK, CommitKnown, GateInv, RowsCurrent, TasksCurrent, [Next]_vars, ~CrashAndRestart
    PROVE  RowsCurrent'
<1>. SUFFICES ASSUME NEW r \in Repos, jobs'[r].status = "succeeded", jobs'[r].requeue = 0
              PROVE  Current(r)'
  BY DEF RowsCurrent
<1>1. Current(r)
  <2>1. CASE jobs[r].status = "succeeded" /\ jobs[r].requeue = 0
    BY <2>1 DEF RowsCurrent
  <2>2. ASSUME NEW w \in Workers, Finish(w), Repo(w) = r, Active(w), jobs[r].requeue = 0
        PROVE  Current(r)
    BY <2>2 DEF TasksCurrent, Finish
  <2>. QED
    BY <2>1, <2>2, SettledBefore
<1>. QED
  BY <1>1, WaitsStep DEF Visited

\* The steps before the end, and those that end a task well.
Ending == {"upToDate", "wrote", "done"}

\* A task that goes on with a live, unmarked claim stays current.
LEMMA TaskCurrentStep ==
    ASSUME TypeOK, CommitKnown, GateInv, WriterInv, TokensDiffer, TasksCurrent, [Next]_vars,
           ~CrashAndRestart,
           NEW w \in Workers, NEW r \in Repos, r = Repo(w),
           task'[w].claim = task[w].claim, task[w].pc # "idle",
           ClaimIsActive(jobs', task[w].claim), jobs'[r].requeue = 0
    PROVE  /\ task'[w].pc \in Snapped => task'[w].snap = config'[r] \/ Waits(r)'
           /\ task'[w].pc \in Ending => Current(r)'
<1>0. task \in [Workers -> TaskType] /\ task[w] \in TaskType /\ graph \in [Repos -> GraphType]
  BY Types
<1>1. Active(w) /\ jobs[r].requeue = 0
  BY UnmarkedBefore
<1>2. ~Visited(r)
  BY DEF Visited, ClaimIsActive, Fenced, Repo
<1>3. /\ task[w].pc \in Snapped => task[w].snap = config[r] \/ Waits(r)
      /\ task[w].pc \in Ending => Current(r)
  BY <1>1 DEF TasksCurrent, Ending
<1>4. /\ config'[r] = config[r] \/ Waits(r)'
      /\ Waits(r) => Waits(r)'
      /\ Current(r) => Current(r)'
  BY <1>2, WaitsStep
<1>5. (task[w].snap = config[r] \/ Waits(r)) => (task[w].snap = config'[r] \/ Waits(r)')
  BY <1>4
<1>6. /\ Waits(r) => Current(r)
      /\ graph[r].sha # 0 /\ graph[r].policy = task[w].snap /\ (task[w].snap = config[r] \/ Waits(r)) => Current(r)
  BY DEF Current
<1>. DEFINE Built == graph[r].sha # 0 /\ graph[r].policy = task[w].snap
<1>7. CASE Quiet(w)
  BY <1>3, <1>4, <1>5, <1>7 DEF Quiet
<1>8. CASE OwnStep(w)
  <2>0. ASSUME task[w].pc \in Snapped, task'[w].snap = task[w].snap,
               task'[w].pc \in Ending => Current(r) \/ Current(r)'
        PROVE  /\ task'[w].pc \in Snapped => task'[w].snap = config'[r] \/ Waits(r)'
               /\ task'[w].pc \in Ending => Current(r)'
    BY <1>3, <1>4, <1>5, <2>0
  <2>1. CASE Snapshot(w)
    <3>1. /\ task'[w].snap = config[r]
          /\ task'[w].pc = "ready" \/ (task'[w].pc = "done" /\ config[r] = Absent)
      BY <1>0, <2>1 DEF Snapshot, TaskType
    <3>2. config[r] = Absent => Current(r)'
      BY <1>4, <1>6 DEF Waits
    <3>. QED
      BY <1>4, <3>1, <3>2 DEF Snapped, Ending
  <2>2. CASE Fetch(w)
    <3>1. /\ task[w].pc = "ready" /\ task'[w].snap = task[w].snap
          /\ task'[w].pc = "fetched" \/ (task'[w].pc = "done" /\ config[r] # task[w].snap)
      BY <1>0, <2>2 DEF Fetch, Goto, TaskType
    <3>. QED
      BY <1>3, <1>6, <2>0, <3>1 DEF Snapped, Ending
  <2>3. CASE Prepare(w)
    <3>1. /\ task[w].pc = "fetched" /\ task'[w].snap = task[w].snap
          /\ task'[w].pc = "prepared" \/ Built
      BY <1>0, <2>3 DEF Prepare, Goto, UpToDate, TaskType, CommitKnown, Snapped
    <3>. QED
      BY <1>3, <1>6, <2>0, <3>1 DEF Snapped, Ending
  <2>4. CASE CheckClaim(w)
    <3>1. /\ task[w].pc \in {"prepared", "upToDate"} /\ task'[w].snap = task[w].snap
          /\ task'[w].pc = "plan" \/ task[w].pc = "upToDate"
      BY <1>0, <1>1, <2>4 DEF CheckClaim, Goto, TaskType
    <3>. QED
      BY <1>3, <2>0, <3>1 DEF Snapped, Ending
  <2>5. CASE \E force \in BOOLEAN : Plan(w, force)
    <3>1. /\ task[w].pc = "plan" /\ task'[w].snap = task[w].snap
          /\ task'[w].pc \in {"full", "diff"} \/ Built
      BY <1>0, <2>5 DEF Plan, Goto, UpToDate, TaskType, CommitKnown, Snapped
    <3>. QED
      BY <1>3, <1>6, <2>0, <3>1 DEF Snapped, Ending
  <2>6. CASE Diff(w)
    <3>1. /\ task[w].pc = "diff" /\ task'[w].snap = task[w].snap
          /\ task'[w].pc \in {"error", "full", "incremental"} \/ Built
      BY <1>0, <2>6 DEF Diff, TaskType, CommitKnown, Snapped, Shas
    <3>. QED
      BY <1>3, <1>6, <2>0, <3>1 DEF Snapped, Ending
  <2>7. CASE EnterGate(w)
    <3>1. /\ task[w].pc \in {"full", "incremental"} /\ task'[w].snap = task[w].snap
          /\ task'[w].pc \in {"writing", "set_debt"} \/ config[r] # task[w].snap
      BY <1>0, <1>1, <2>7 DEF EnterGate, FirstWrite, Goto, TaskType
    <3>. QED
      BY <1>3, <1>6, <2>0, <3>1 DEF Snapped, Ending
  <2>8. CASE Write(w)
    <3>1. /\ task[w].pc = "writing" /\ task'[w].snap = task[w].snap /\ r \in DOMAIN graph
          /\ config[r] = task[w].snap /\ task[w].sha # 0 /\ graph[r] \in GraphType
      BY <1>0, <2>8 DEF Write, Overtake, TaskType, GateInv, CommitKnown, Snapped, GatePc
    <3>2. graph'[r].policy = task[w].snap /\ graph'[r].sha = task[w].sha /\ UNCHANGED config
      BY <2>8, <3>1 DEF Write, GraphType
    <3>3. Current(r)'
      BY <3>1, <3>2 DEF Current
    <3>. QED
      BY <2>0, <3>1, <3>3 DEF Snapped, GatePc
  <2>a. CASE FullWrite(w)
    <3>1. /\ task[w].pc \in GatePc /\ config[r] = task[w].snap /\ task[w].sha # 0
          /\ graph[r] \in GraphType /\ StageOK(task[w], graph[r])
      BY <1>0, <2>a, WritersHold DEF GraphWrite, GateInv, CommitKnown, Snapped, GatePc, FullPc, WriterInv
    <3>2. task'[w].snap = task[w].snap /\ UNCHANGED config
      BY <1>0, <2>a, FullStages DEF TaskType
    <3>4. ASSUME task'[w].pc = "wrote" PROVE graph'[r].sha = task[w].sha /\ graph'[r].policy = task[w].snap
      BY <1>0, <2>a, <3>1, <3>4, FullEffects DEF StageOK
    <3>5. task'[w].pc \in Ending => Current(r)'
      <4>1. task'[w].pc \in GatePc \cup {"wrote"}
        BY <1>0, <2>a, FullEffects DEF GatePc, FullPc
      <4>. QED
        BY <3>1, <3>2, <3>4, <4>1 DEF Ending, GatePc, FullPc, Current
    <3>. QED
      BY <2>0, <3>1, <3>2, <3>5 DEF Snapped
  <2>9. CASE Finish(w) \/ FaultStep(w) \/ \E s \in Repos : Claim(w, s)
    <3>1. task'[w].pc \in {"idle", "claimed"}
      BY <1>8, <2>9, IdleTypes, ClaimStep DEF Finish, FaultStep, FailTask, FailWrite, DeferTask, Leave,
            ClaimedWith
    <3>. QED
      BY <3>1 DEF Snapped, GatePc, FullPc, Ending
  <2>. QED
    BY <1>8, <2>1, <2>2, <2>3, <2>4, <2>5, <2>6, <2>7, <2>8, <2>9, <2>a DEF OwnStep, TaskStep, FullWrite
<1>. QED
  BY <1>7, <1>8, TaskFrame

\* Every step keeps tasks current.
LEMMA TasksCurrentStep ==
    ASSUME TypeOK, CommitKnown, GateInv, WriterInv, TokensDiffer, TasksCurrent, [Next]_vars
    PROVE  TasksCurrent'
<1>. SUFFICES ASSUME NEW w \in Workers, ClaimIsActive(jobs', task'[w].claim),
                     jobs'[task'[w].claim.repo].requeue = 0,
                     NEW r, r = task'[w].claim.repo
              PROVE  /\ task'[w].pc \in Snapped => task'[w].snap = config'[r] \/ Waits(r)'
                     /\ task'[w].pc \in Ending => Current(r)'
  BY DEF TasksCurrent, Active, Repo, Waits, VisitPending, Current, Ending
<1>1. CASE task'[w].pc \in {"idle", "claimed"}
  BY <1>1 DEF Snapped, GatePc, FullPc, Ending
<1>2. CASE task'[w].pc \notin {"idle", "claimed"}
  <2>0. ~CrashAndRestart
    BY <1>2, IdleTypes DEF CrashAndRestart
  <2>1. ASSUME NEW s \in Repos, Claim(w, s) PROVE task'[w].pc = "claimed"
    BY <2>1, ClaimStep DEF ClaimedWith
  <2>2. task'[w].claim = task[w].claim /\ task[w].pc # "idle"
    BY <1>2, <2>1, ClaimKept
  <2>3. r = Repo(w) /\ r \in Repos
    BY <2>2, Types DEF TaskType, Claims, Repo
  <2>. QED
    BY <2>0, <2>2, <2>3, TaskCurrentStep
<1>. QED
  BY <1>1, <1>2

\* Budgets are only spent.
LEMMA BudgetDown ==
    ASSUME TypeOK, [Next]_vars, NEW kind \in {"late", "crash", "fail", "admin"}
    PROVE  budget'[kind] \in Nat /\ budget[kind] \in Nat /\ budget'[kind] <= budget[kind]
<1>1. budget \in [{"late", "crash", "fail", "admin"} -> Nat]
  BY Types
<1>. QED
  BY <1>1, Frames DEF Spend

\* Types, gate, fences and settings hold throughout.
LEMMA CurrentInvariant == Spec => [](ServerInv /\ FenceInv /\ CurrentInv)
<1>1. Init => CurrentInv
  <2>. SUFFICES ASSUME Init PROVE CurrentInv
    OBVIOUS
  <2>1. budget["crash"] = MaxCrash
    BY DEF Init
  <2>2. \A r \in Repos : jobs[r].status = "pending"
    BY DEF Init, InsertedRow, NoRow
  <2>3. \A w \in Workers : task[w].pc = "idle"
    BY IdleTypes DEF Init
  <2>. QED
    BY <2>1, <2>2, <2>3, ServerConstants DEF CurrentInv, RowsCurrent, TasksCurrent, Snapped, GatePc, FullPc
<1>2. ServerInv /\ FenceInv /\ CurrentInv /\ [Next]_vars => CurrentInv'
  <2>. SUFFICES ASSUME ServerInv, FenceInv, CurrentInv, [Next]_vars PROVE CurrentInv'
    OBVIOUS
  <2>0. TypeOK /\ CommitKnown /\ GateInv /\ WriterInv /\ TokensDiffer /\ TasksCurrent
    BY DEF ServerInv, FenceInv, CurrentInv
  <2>1. TasksCurrent'
    BY <2>0, TasksCurrentStep
  <2>2. /\ MaxCrash \in Nat /\ budget["crash"] \in Nat /\ budget["crash"] <= MaxCrash
        /\ budget'["crash"] <= budget["crash"] /\ budget'["crash"] \in Nat
    BY <2>0, BudgetDown, ServerConstants, Types DEF CurrentInv
  <2>3. ASSUME budget'["crash"] = MaxCrash PROVE RowsCurrent'
    <3>1. ~CrashAndRestart
      BY <2>0, <2>2, <2>3, Types DEF CrashAndRestart, Spend
    <3>2. RowsCurrent
      BY <2>2, <2>3 DEF CurrentInv
    <3>. QED
      BY <2>0, <3>1, <3>2, RowsCurrentStep
  <2>. QED
    BY <2>1, <2>2, <2>3 DEF CurrentInv
<1>. QED
  BY <1>1, <1>2, FenceInvariant, PTL DEF Spec

\* Without crashes a settled queue means settled work: a configured repo whose row
\* has succeeded with no mark, with no handler at work, is served under its current
\* settings, for any number of repos, tasks, expired leases and admin operations.
THEOREM SettledIsCurrent == Spec => []SettledMeansCurrent
<1>1. ServerInv /\ CurrentInv => SettledMeansCurrent
  <2>. SUFFICES ASSUME ServerInv, CurrentInv, NEW r \in Repos,
                       budget["crash"] = MaxCrash, admin.pc = "idle", config[r] # Absent,
                       jobs[r].status = "succeeded", jobs[r].requeue = 0
                PROVE  graph[r].sha # 0 /\ graph[r].policy = config[r]
    BY DEF SettledMeansCurrent
  <2>1. RowsCurrent
    BY DEF CurrentInv
  <2>. QED
    BY <2>1 DEF RowsCurrent, Current, Waits, VisitPending
<1>. QED
  BY <1>1, CurrentInvariant, PTL

-----------------------------------------------------------------------------
(* The served content is the content of the indexed commit.                *)

\* Tasks that will write, or are writing, on top of the base they diffed against.
Incremental(w) == task[w].pc \in {"incremental", "writing"}

\* Without late leases only a task with its claim writes.
WritersActive == \A w \in Workers : task[w].pc \in GatePc => Active(w)

\* The base of an incremental task that may still write is the indexed commit.
BasesIndexed ==
    \A w \in Workers :
        Incremental(w) /\ Active(w) /\ graph[Repo(w)].row /\ task[w].base # 0 =>
            graph[Repo(w)].sha = task[w].base

\* A task that skips the rebuild, or has ended well, saw a whole index, or a handler
\* will see to the repo.
TaskClean(t, r) ==
    /\ t.pc \in {"diff", "incremental", "writing"} => ~graph[r].debt
    /\ t.pc \in Ending => ~graph[r].debt \/ Waits(r)

TasksClean ==
    \A w \in Workers : Active(w) /\ jobs[Repo(w)].requeue = 0 => TaskClean(task[w], Repo(w))

BudgetInv ==
    /\ budget["late"] = 0
    /\ budget["crash"] <= MaxCrash /\ budget["fail"] <= MaxFail

BaseInv == BudgetInv /\ WritersActive /\ BasesIndexed /\ TasksClean /\ GraphMatchesSha

\* No outcome of another task and no event takes the claim of a task at the gate.
LEMMA WriterKeepsClaim ==
    ASSUME TypeOK, GateInv, TokensDiffer, budget["late"] = 0, [Next]_vars, NEW w \in Workers,
           task[w].pc \in GatePc, Active(w), ~OwnStep(w), ~CrashAndRestart
    PROVE  ClaimIsActive(jobs', task[w].claim)
<1>. DEFINE c == task[w].claim
<1>0. jobs \in Table /\ c \in Claims /\ c.repo \in Repos /\ jobs[c.repo] \in Row
      /\ task \in [Workers -> TaskType]
  BY Types DEF TaskType, Claims, Table
<1>1. Fenced(jobs[c.repo], c)
  BY DEF Active, ClaimIsActive
<1>2. ASSUME jobs'[c.repo] = jobs[c.repo] PROVE Fenced(jobs'[c.repo], c)
  BY <1>1, <1>2
<1>3. ~HandlerStep /\ \A r \in Repos : ~BeginStep(r)
  BY AdminHolds, ServerConstants DEF GateInv
<1>4. ASSUME NEW v \in Workers, v # w, task[v].pc # "idle"
      PROVE  ~Fenced(jobs[c.repo], task[v].claim)
  BY <1>1, <1>4 DEF Fenced, TokensDiffer, GatePc, FullPc
<1>5. ASSUME NEW v \in Workers, v # w, OwnStep(v) PROVE Fenced(jobs'[c.repo], c)
  <2>1. CASE \E r \in Repos : Claim(v, r)
    <3>1. PICK r \in Repos : Claim(v, r)
      BY <2>1
    <3>2. PICK t \in Tokens : ClaimedWith(v, r, t)
      BY <3>1, ClaimStep
    <3>3. r # c.repo
      BY <1>1, <3>2 DEF ClaimedWith, Fenced
    <3>. QED
      BY <1>0, <1>2, <3>2, <3>3 DEF ClaimedWith, Table
  <2>2. CASE Finish(v)
    <3>1. ~Fenced(jobs[c.repo], task[v].claim)
      BY <1>4, <1>5, <2>2 DEF Finish
    <3>2. Complete(jobs, task[v].claim)[c.repo] = jobs[c.repo]
      BY <1>0, <3>1 DEF Complete
    <3>3. RequeuedRow(jobs[c.repo], Clock) = jobs[c.repo]
      BY <1>1 DEF RequeuedRow, Fenced
    <3>4. Repo(v) \in Repos /\ Complete(jobs, task[v].claim) = [s \in Repos |-> Complete(jobs, task[v].claim)[s]]
      BY <1>0 DEF Repo, TaskType, Claims, Complete
    <3>5. jobs'[c.repo] = jobs[c.repo]
      BY <1>0, <2>2, <3>2, <3>3, <3>4 DEF Finish, RequeueIfStale
    <3>. QED
      BY <1>2, <3>5
  <2>3. CASE FaultStep(v)
    <3>1. task[v].pc # "idle"
      BY <2>3 DEF FaultStep, FailTask, FailWrite, RowGone, DeferTask, GatePc, FullPc
    <3>2. ~Fenced(jobs[c.repo], task[v].claim)
      BY <1>4, <1>5, <3>1
    <3>3. jobs'[c.repo] = jobs[c.repo]
      BY <1>0, <2>3, <3>2 DEF FaultStep, FailTask, FailWrite, DeferTask, Fail, Defer
    <3>. QED
      BY <1>2, <3>3
  <2>4. CASE (TaskStep(v) /\ ~Finish(v)) \/ EnterGate(v)
    <3>1. CASE FullWrite(v)
      BY <1>2, <3>1, FullStages
    <3>2. CASE ~FullWrite(v)
      BY <1>2, <2>4, <3>2 DEF TaskStep, FullWrite, EnterGate, Snapshot, Fetch, Prepare, CheckClaim,
            Plan, Diff, Write
    <3>. QED
      BY <3>1, <3>2
  <2>. QED
    BY <1>5, <2>1, <2>2, <2>3, <2>4 DEF OwnStep
<1>6. ASSUME NEW r \in Repos, RepoStep(r) PROVE Fenced(jobs'[c.repo], c)
  <2>1. ASSUME NEW p, jobs' = Upsert(jobs, r, p, RowId[r], Clock)
        PROVE  Fenced(jobs'[c.repo], c)
    <3>1. CASE r # c.repo
      BY <1>0, <1>2, <2>1, <3>1 DEF Upsert, Table
    <3>2. CASE r = c.repo
      <4>1. jobs'[c.repo] = ConflictRow(jobs[c.repo], p, Clock)
        BY <1>0, <1>1, <2>1, <3>2 DEF Upsert, Table, Present, Fenced
      <4>. QED
        BY <1>0, <1>1, <4>1 DEF ConflictRow, Fenced, Row
    <3>. QED
      BY <3>1, <3>2
  <2>2. ~ExpireLease(r)
    BY DEF ExpireLease, Spend
  <2>3. CASE WebhookEvent(r) \/ PollEvent(r) \/ StrayEvent(r)
    BY <2>1, <2>3 DEF WebhookEvent, PollEvent, StrayEvent, Enqueue
  <2>4. CASE Push(r) \/ \E settings \in Settings : EditFile(r, settings)
    BY <1>2, <2>4 DEF Push, EditFile
  <2>. QED
    BY <1>3, <1>6, <2>2, <2>3, <2>4 DEF RepoStep, BeginStep
<1>7. ASSUME UNCHANGED vars PROVE Fenced(jobs'[c.repo], c)
  BY <1>2, <1>7 DEF vars
<1>8. \A v \in Workers : TaskStep(v) \/ FaultStep(v) \/ EnterGate(v) \/ (\E r \in Repos : Claim(v, r))
         => OwnStep(v)
  BY DEF OwnStep
<1>9. Fenced(jobs'[c.repo], c)
  BY <1>3, <1>5, <1>6, <1>7, <1>8 DEF Next, HandlerStep
<1>. QED
  BY <1>9 DEF ClaimIsActive

\* Every step leaves the claim with the task at the gate.
LEMMA WritersActiveStep ==
    ASSUME TypeOK, GateInv, TokensDiffer, BudgetInv, WritersActive, [Next]_vars
    PROVE  WritersActive'
<1>0. task \in [Workers -> TaskType]
  BY Types
<1>. SUFFICES ASSUME NEW w \in Workers, task'[w].pc \in GatePc
              PROVE  ClaimIsActive(jobs', task'[w].claim)
  BY DEF WritersActive, Active
<1>1. CASE OwnStep(w)
  <2>1. task'[w].claim = task[w].claim /\ (EnterGate(w) \/ FullWrite(w))
    BY <1>1, OwnMoves, IdleTypes DEF GatePc, FullPc
  <2>2. CASE EnterGate(w)
    <3>1. Active(w) /\ UNCHANGED jobs
      BY <1>0, <2>2 DEF EnterGate, Goto, TaskType, GatePc, FullPc
    <3>. QED
      BY <2>1, <3>1 DEF Active
  <2>3. CASE FullWrite(w)
    <3>1. Active(w) /\ UNCHANGED jobs
      BY <2>3, FullStages, WritersHold DEF GraphWrite, WritersActive
    <3>. QED
      BY <2>1, <3>1 DEF Active
  <2>. QED
    BY <2>1, <2>2, <2>3
<1>2. CASE ~OwnStep(w)
  <2>1. Quiet(w) /\ task[w].pc \in GatePc /\ ~CrashAndRestart
    BY <1>2, TaskFrame, IdleTypes DEF Quiet, CrashAndRestart, GatePc, FullPc
  <2>. QED
    BY <1>2, <2>1, WriterKeepsClaim DEF BudgetInv, WritersActive, Quiet
<1>. QED
  BY <1>1, <1>2

\* The graph of a live claim changes only through its own task or a removal.
LEMMA OwnGraph ==
    ASSUME TypeOK, GateInv, TokensDiffer, WritersActive, [Next]_vars,
           NEW w \in Workers, NEW r \in Repos, r = Repo(w), task[w].pc # "idle", Active(w),
           ~GraphWrite(w)
    PROVE  \/ graph'[r] = graph[r]
           \/ graph'[r] = [graph[r] EXCEPT !.blob = 0]
           \/ graph'[r] = [graph[r] EXCEPT !.row = FALSE, !.sha = 0]
<1>0. graph \in [Repos -> GraphType] /\ admin.repo \in Repos /\ graph[r] \in GraphType
  BY Types DEF AdminType
<1>1. CASE RemoveContent
  BY <1>0, <1>1 DEF RemoveContent
<1>2. CASE RemoveNode
  <2>1. CASE r = admin.repo
    BY <1>0, <1>2, <2>1 DEF RemoveNode
  <2>2. CASE r # admin.repo
    BY <1>0, <1>2, <2>2 DEF RemoveNode
  <2>. QED
    BY <2>1, <2>2
<1>3. ASSUME NEW v \in Workers, GraphWrite(v) PROVE graph'[r] = graph[r]
  <2>1. v # w /\ task[v].pc \in GatePc /\ task[v].pc # "idle"
    BY <1>3, WritersHold DEF GatePc, FullPc
  <2>2. Active(v) /\ task[v].claim.token # task[w].claim.token
    BY <2>1 DEF WritersActive, TokensDiffer
  <2>3. Repo(v) # r
    BY <2>2 DEF Active, ClaimIsActive, Fenced, Repo
  <2>4. CASE Write(v)
    BY <1>0, <2>3, <2>4 DEF Write
  <2>5. CASE FullWrite(v)
    BY <2>3, <2>5, FullEffects
  <2>. QED
    BY <1>3, <2>4, <2>5 DEF GraphWrite
<1>. QED
  BY <1>1, <1>2, <1>3, Frames

\* Every step keeps bases right.
LEMMA BasesStep ==
    ASSUME TypeOK, GateInv, TokensDiffer, WritersActive, BasesIndexed, [Next]_vars
    PROVE  BasesIndexed'
<1>0. /\ task \in [Workers -> TaskType] /\ graph \in [Repos -> GraphType]
      /\ \A w \in Workers : task[w] \in TaskType /\ Repo(w) \in Repos
  BY Types DEF TaskType, Claims, Repo
<1>. SUFFICES ASSUME NEW w \in Workers, NEW r, r = task'[w].claim.repo,
                     task'[w].pc \in {"incremental", "writing"},
                     ClaimIsActive(jobs', task'[w].claim), graph'[r].row, task'[w].base # 0
              PROVE  graph'[r].sha = task'[w].base
  BY DEF BasesIndexed, Incremental, Active, Repo
<1>1. CASE OwnStep(w)
  <2>1. /\ task'[w].claim = task[w].claim
        /\ \/ Diff(w) /\ task'[w].pc = "incremental"
           \/ EnterGate(w) /\ task'[w].pc = "writing" /\ task[w].pc = "incremental"
    BY <1>1, OwnMoves, IdleTypes DEF FullPc
  <2>2. CASE Diff(w)
    <3>1. task'[w].base \in {0, graph[Repo(w)].sha} /\ UNCHANGED graph
      BY <1>0, <2>2 DEF Diff, TaskType
    <3>. QED
      BY <2>1, <3>1 DEF Repo
  <2>3. CASE EnterGate(w) /\ task'[w].pc = "writing" /\ task[w].pc = "incremental"
    <3>1. task'[w].base = task[w].base /\ Active(w) /\ UNCHANGED graph
      BY <1>0, <2>3 DEF EnterGate, Goto, TaskType
    <3>. QED
      BY <2>1, <2>3, <3>1 DEF BasesIndexed, Incremental, Repo
  <2>. QED
    BY <2>1, <2>2, <2>3
<1>2. CASE ~OwnStep(w)
  <2>1. Quiet(w)
    BY <1>2, TaskFrame, IdleTypes
  <2>2. Incremental(w) /\ r = Repo(w) /\ r \in Repos /\ task[w].pc # "idle"
        /\ task'[w].base = task[w].base
    BY <1>0, <2>1 DEF Quiet, Incremental, Repo
  <2>3. Active(w)
    BY <2>1, <2>2, LostStaysLost DEF Quiet
  <2>4. ~GraphWrite(w) /\ graph[r] \in GraphType
    BY <1>0, <1>2, <2>2 DEF GraphWrite, FullWrite, OwnStep, TaskStep
  <2>5. \/ graph'[r] = graph[r]
        \/ graph'[r] = [graph[r] EXCEPT !.blob = 0]
        \/ graph'[r] = [graph[r] EXCEPT !.row = FALSE, !.sha = 0]
    BY <2>2, <2>3, <2>4, OwnGraph
  <2>6. graph[r].row /\ graph'[r].sha = graph[r].sha
    BY <2>4, <2>5 DEF GraphType
  <2>. QED
    BY <2>2, <2>3, <2>6 DEF BasesIndexed
<1>. QED
  BY <1>1, <1>2

\* What GraphMatchesSha says of one repo.
MayBeEmpty(r) ==
    \/ admin.pc = "rm_node" /\ admin.repo = r
    \/ budget["crash"] < MaxCrash \/ budget["fail"] < MaxFail

ContentOK(r) ==
    graph[r].sha # 0 /\ ~graph[r].debt =>
        graph[r].blob = Blob[graph[r].sha] \/ (graph[r].blob = 0 /\ MayBeEmpty(r))

\* A removal that stops half-way has used up a fault.
LEMMA EmptyStays ==
    ASSUME TypeOK, GateInv, BudgetInv, [Next]_vars, NEW r \in Repos, MayBeEmpty(r)
    PROVE  MayBeEmpty(r)' \/ (RemoveNode /\ admin.repo = r)
<1>0. /\ admin \in AdminType /\ MaxCrash \in Nat /\ MaxFail \in Nat
      /\ budget \in [{"late", "crash", "fail", "admin"} -> Nat]
  BY Types, ServerConstants
<1>1. /\ budget'["crash"] <= budget["crash"] /\ budget'["fail"] <= budget["fail"]
      /\ budget["crash"] \in Nat /\ budget'["crash"] \in Nat
      /\ budget["fail"] \in Nat /\ budget'["fail"] \in Nat
  BY BudgetDown
<1>2. CASE budget["crash"] < MaxCrash \/ budget["fail"] < MaxFail
  BY <1>0, <1>1, <1>2 DEF MayBeEmpty
<1>3. CASE admin.pc = "rm_node" /\ admin.repo = r
  <2>1. CASE UNCHANGED admin
    BY <1>3, <2>1 DEF MayBeEmpty
  <2>2. CASE CrashAndRestart
    <3>1. budget'["crash"] < MaxCrash
      BY <1>0, <1>1, <2>2 DEF CrashAndRestart, Spend, BudgetInv
    <3>. QED
      BY <3>1 DEF MayBeEmpty
  <2>3. CASE FailRemove
    <3>1. budget'["fail"] < MaxFail
      BY <1>0, <1>1, <2>3 DEF FailRemove, Spend, BudgetInv
    <3>. QED
      BY <3>1 DEF MayBeEmpty
  <2>4. CASE AdminStep
    BY <1>3, <2>4 DEF AdminStep, RemoveCancel, RemoveFromFile, RemoveFromRuntime, RemoveContent,
          AddToFile, AddToRuntime, AddJob, ReloadSwap, ReloadJobs, AdminAt
  <2>5. \A s \in Repos : ~BeginStep(s)
    BY <1>3, AdminHolds, ServerConstants DEF GateInv
  <2>. QED
    BY <2>1, <2>2, <2>3, <2>4, <2>5, Frames DEF HandlerStep
<1>. QED
  BY <1>2, <1>3 DEF MayBeEmpty

\* A write leaves the content of its commit, or the debt.
LEMMA WriteContent ==
    ASSUME TypeOK, GateInv, WriterInv, WritersActive, BasesIndexed,
           NEW w \in Workers, GraphWrite(w), NEW r \in Repos, r = Repo(w),
           graph'[r].sha # 0, ~graph'[r].debt
    PROVE  \/ graph'[r].blob = Blob[graph'[r].sha]
           \/ /\ graph[r].sha # 0 /\ ~graph[r].debt /\ graph'[r].blob = graph[r].blob
              /\ Blob[graph[r].sha] = Blob[graph'[r].sha]
<1>. DEFINE g == graph[r]
            t == task[w]
<1>0. /\ g \in GraphType /\ graph \in [Repos -> GraphType] /\ StageOK(t, g) /\ t.pc \in GatePc
      /\ Active(w) /\ t \in TaskType
  BY WritersHold, Types DEF WriterInv, WritersActive
<1>1. CASE Write(w)
  <2>1. /\ t.pc = "writing" /\ g.row /\ graph'[r].sha = t.sha /\ graph'[r].debt = g.debt
        /\ graph'[r].blob = IF t.base # 0 /\ Blob[t.base] = Blob[t.sha] THEN g.blob ELSE Blob[t.sha]
    BY <1>0, <1>1 DEF Write, GraphType
  <2>2. t.base # 0 => g.sha = t.base
    BY <1>0, <2>1 DEF BasesIndexed, Incremental
  <2>. QED
    BY <2>1, <2>2
<1>2. CASE FullWrite(w)
  <2>1. t.pc # "set_debt" => g.debt
    BY <1>0, <1>2, FullEffects DEF StageOK
  <2>2. t.pc \in FullPc /\ task'[w].pc # "wrote" => graph'[r].debt \/ (t.pc = "set_debt" /\ ~g.debt)
    BY <1>0, <1>2, <2>1, FullEffects
  <2>3. t.pc = "set_debt" => graph'[r].debt
    <3>1. ASSUME t.pc = "set_debt" PROVE graph'[r] = [g EXCEPT !.debt = TRUE]
      BY <1>0, <1>2, <3>1 DEF FullWrite, RecordDebt, InsertRepo, ReplaceContent, RecordSha,
            RecordPolicy, ClearDebt, FullStep
    <3>. QED
      BY <1>0, <3>1 DEF GraphType
  <2>4. task'[w].pc = "wrote" /\ t.pc = "clear_debt"
    BY <1>2, <2>2, <2>3, FullEffects
  <2>5. g.blob = Blob[t.sha] /\ g.sha = t.sha
    BY <1>0, <2>4 DEF StageOK
  <2>6. graph'[r].sha = g.sha /\ graph'[r].blob = g.blob
    BY <1>2, <2>4, FullEffects
  <2>. QED
    BY <2>5, <2>6
<1>. QED
  BY <1>1, <1>2 DEF GraphWrite

\* Every step keeps the content right.
LEMMA ContentStep ==
    ASSUME TypeOK, GateInv, WriterInv, BudgetInv, WritersActive, BasesIndexed, GraphMatchesSha,
           [Next]_vars
    PROVE  GraphMatchesSha'
<1>0. /\ graph \in [Repos -> GraphType] /\ admin.repo \in Repos /\ admin \in AdminType
      /\ \A w \in Workers : Repo(w) \in Repos
  BY Types DEF AdminType, TaskType, Claims, Repo
<1>. SUFFICES ASSUME NEW r \in Repos PROVE ContentOK(r)'
  BY DEF GraphMatchesSha, ContentOK, MayBeEmpty, IndexIncomplete
<1>1. ContentOK(r)
  BY DEF GraphMatchesSha, ContentOK, MayBeEmpty, IndexIncomplete
<1>2. CASE RemoveNode /\ admin.repo = r
  <2>1. graph'[r].sha = 0
    BY <1>0, <1>2 DEF RemoveNode, GraphType
  <2>. QED
    BY <2>1 DEF ContentOK
<1>3. MayBeEmpty(r) /\ ~(RemoveNode /\ admin.repo = r) => MayBeEmpty(r)'
  BY EmptyStays
<1>4. CASE graph'[r] = graph[r] /\ ~(RemoveNode /\ admin.repo = r)
  BY <1>1, <1>3, <1>4 DEF ContentOK
<1>5. CASE RemoveContent /\ admin.repo = r
  <2>1. graph'[r].blob = 0 /\ admin'.pc = "rm_node" /\ admin'.repo = r
    BY <1>0, <1>5 DEF RemoveContent, AdminAt, AdminType, GraphType
  <2>. QED
    BY <2>1 DEF ContentOK, MayBeEmpty
<1>6. ASSUME NEW w \in Workers, GraphWrite(w), r = Repo(w) PROVE ContentOK(r)'
  <2>1. ~RemoveNode
    BY <1>6, WritersHold, AdminHolds, ServerConstants DEF HandlerStep, AdminStep
  <2>2. ASSUME graph'[r].sha # 0, ~graph'[r].debt
        PROVE  graph'[r].blob = Blob[graph'[r].sha] \/ (graph'[r].blob = 0 /\ MayBeEmpty(r)')
    BY <1>1, <1>3, <1>6, <2>1, <2>2, WriteContent DEF ContentOK
  <2>. QED
    BY <2>2 DEF ContentOK
<1>7. ASSUME NEW w \in Workers, GraphWrite(w), r # Repo(w) PROVE graph'[r] = graph[r] /\ ~RemoveNode
  <2>1. ~RemoveNode
    BY <1>7, WritersHold, AdminHolds, ServerConstants DEF HandlerStep, AdminStep
  <2>2. CASE Write(w)
    BY <1>0, <1>7, <2>1, <2>2 DEF Write
  <2>3. CASE FullWrite(w)
    BY <1>7, <2>1, <2>3, FullEffects
  <2>. QED
    BY <1>7, <2>1, <2>2, <2>3 DEF GraphWrite
<1>8. RemoveContent \/ RemoveNode => admin.repo = r \/ graph'[r] = graph[r]
  BY <1>0 DEF RemoveContent, RemoveNode
<1>9. RemoveContent => ~RemoveNode
  BY DEF RemoveContent, RemoveNode, AdminAt
<1>. QED
  BY <1>2, <1>4, <1>5, <1>6, <1>7, <1>8, <1>9, Frames

\* A task that goes on with a live, unmarked claim still knows of a torn index.
LEMMA TaskCleanStep ==
    ASSUME TypeOK, CommitKnown, GateInv, TokensDiffer, TasksCurrent, WritersActive, TasksClean,
           [Next]_vars, ~CrashAndRestart,
           NEW w \in Workers, NEW r \in Repos, r = Repo(w),
           task'[w].claim = task[w].claim, task[w].pc # "idle",
           ClaimIsActive(jobs', task[w].claim), jobs'[r].requeue = 0
    PROVE  TaskClean(task[w], r)'
<1>. DEFINE Stages == {"diff", "incremental", "writing"}
<1>0. task \in [Workers -> TaskType] /\ task[w] \in TaskType /\ graph \in [Repos -> GraphType]
      /\ graph[r] \in GraphType
  BY Types
<1>1. Active(w) /\ jobs[r].requeue = 0
  BY UnmarkedBefore
<1>2. ~Visited(r)
  BY DEF Visited, ClaimIsActive, Fenced, Repo
<1>3. /\ task[w].pc \in Snapped => task[w].snap = config[r] \/ Waits(r)
      /\ task[w].pc \in Stages => ~graph[r].debt
      /\ task[w].pc \in Ending => ~graph[r].debt \/ Waits(r)
  BY <1>1 DEF TasksCurrent, TasksClean, TaskClean
<1>4. Waits(r) => Waits(r)'
  BY <1>2, WaitsStep
<1>5. ASSUME ~FullWrite(w) PROVE graph'[r].debt = graph[r].debt
  <2>1. CASE Write(w)
    BY <1>0, <2>1 DEF Write, GraphType
  <2>2. CASE ~GraphWrite(w)
    <3>1. \/ graph'[r] = graph[r]
          \/ graph'[r] = [graph[r] EXCEPT !.blob = 0]
          \/ graph'[r] = [graph[r] EXCEPT !.row = FALSE, !.sha = 0]
      BY <1>1, <2>2, OwnGraph
    <3>. QED
      BY <1>0, <3>1 DEF GraphType
  <2>. QED
    BY <1>5, <2>1, <2>2 DEF GraphWrite
<1>6. ASSUME /\ task'[w].pc \in Stages => ~graph'[r].debt
             /\ task'[w].pc \in Ending => ~graph'[r].debt \/ Waits(r)'
      PROVE  TaskClean(task[w], r)'
  BY <1>6 DEF TaskClean
<1>7. CASE FullWrite(w)
  <2>1. /\ task'[w].pc \in (FullPc \ {"set_debt"}) \cup {"wrote"}
        /\ task'[w].pc = "wrote" => ~graph'[r].debt
    BY <1>7, FullEffects
  <2>. QED
    BY <1>6, <2>1 DEF FullPc, Ending
<1>8. CASE Quiet(w) /\ ~FullWrite(w)
  BY <1>3, <1>4, <1>5, <1>6, <1>8 DEF Quiet
<1>9. CASE OwnStep(w) /\ ~FullWrite(w)
  <2>0. graph'[r].debt = graph[r].debt
    BY <1>5, <1>9
  <2>a. ASSUME task'[w].pc \in Stages => ~graph[r].debt,
               task'[w].pc \in Ending => ~graph[r].debt \/ Waits(r)
        PROVE  TaskClean(task[w], r)'
    BY <1>4, <1>6, <2>0, <2>a
  <2>1. CASE Snapshot(w)
    <3>1. task'[w].pc = "ready" \/ (task'[w].pc = "done" /\ config[r] = Absent)
      BY <1>0, <2>1 DEF Snapshot, TaskType
    <3>. QED
      BY <2>a, <3>1 DEF Waits, Ending
  <2>2. CASE Fetch(w)
    <3>1. task[w].pc = "ready"
          /\ (task'[w].pc = "fetched" \/ (task'[w].pc = "done" /\ config[r] # task[w].snap))
      BY <1>0, <2>2 DEF Fetch, Goto, TaskType
    <3>. QED
      BY <1>3, <2>a, <3>1 DEF Snapped, Ending
  <2>3. CASE Prepare(w)
    <3>1. task'[w].pc = "prepared" \/ (task'[w].pc = "upToDate" /\ ~graph[r].debt)
      BY <1>0, <2>3 DEF Prepare, Goto, UpToDate, IndexIncomplete, TaskType
    <3>. QED
      BY <2>a, <3>1 DEF Ending
  <2>4. CASE CheckClaim(w)
    <3>1. task'[w].pc = "plan" \/ (task'[w].pc = "done" /\ task[w].pc = "upToDate")
      BY <1>0, <1>1, <2>4 DEF CheckClaim, Goto, TaskType
    <3>. QED
      BY <1>3, <2>a, <3>1 DEF Ending
  <2>5. CASE \E force \in BOOLEAN : Plan(w, force)
    <3>1. task'[w].pc = "full" \/ (task'[w].pc \in {"diff", "done"} /\ ~graph[r].debt)
      BY <1>0, <2>5 DEF Plan, Goto, UpToDate, IndexIncomplete, TaskType
    <3>. QED
      BY <2>a, <3>1 DEF Ending
  <2>6. CASE Diff(w)
    <3>1. task[w].pc = "diff"
      BY <2>6 DEF Diff
    <3>. QED
      BY <1>3, <2>a, <3>1
  <2>7. CASE EnterGate(w)
    <3>1. \/ task'[w].pc \notin Stages \cup Ending
          \/ task'[w].pc = "writing" /\ task[w].pc = "incremental"
          \/ /\ task'[w].pc = "done" /\ config[r] # task[w].snap
             /\ task[w].pc \in {"full", "incremental"}
      BY <1>0, <1>1, <2>7 DEF EnterGate, FirstWrite, Goto, TaskType, Ending
    <3>. QED
      BY <1>3, <2>a, <3>1 DEF Snapped, Ending
  <2>8. CASE Write(w)
    <3>1. task[w].pc = "writing"
      BY <2>8 DEF Write
    <3>. QED
      BY <1>3, <2>a, <3>1
  <2>9. CASE Finish(w) \/ FaultStep(w) \/ \E s \in Repos : Claim(w, s)
    <3>1. task'[w].pc \in {"idle", "claimed"}
      BY <1>9, <2>9, IdleTypes, ClaimStep DEF Finish, FaultStep, FailTask, FailWrite, DeferTask, Leave,
            ClaimedWith
    <3>. QED
      BY <2>a, <3>1 DEF Ending
  <2>. QED
    BY <1>9, <2>1, <2>2, <2>3, <2>4, <2>5, <2>6, <2>7, <2>8, <2>9 DEF OwnStep, TaskStep, FullWrite
<1>. QED
  BY <1>7, <1>8, <1>9, TaskFrame

\* Every step keeps tasks clean.
LEMMA TasksCleanStep ==
    ASSUME TypeOK, CommitKnown, GateInv, TokensDiffer, TasksCurrent, WritersActive, TasksClean,
           [Next]_vars
    PROVE  TasksClean'
<1>. SUFFICES ASSUME NEW w \in Workers, ClaimIsActive(jobs', task'[w].claim),
                     jobs'[task'[w].claim.repo].requeue = 0,
                     NEW r, r = task'[w].claim.repo
              PROVE  TaskClean(task[w], r)'
  BY DEF TasksClean, TaskClean, Active, Repo, Waits, VisitPending
<1>1. CASE task'[w].pc \in {"idle", "claimed"}
  BY <1>1 DEF TaskClean, Ending
<1>2. CASE task'[w].pc \notin {"idle", "claimed"}
  <2>0. ~CrashAndRestart
    BY <1>2, IdleTypes DEF CrashAndRestart
  <2>1. ASSUME NEW s \in Repos, Claim(w, s) PROVE task'[w].pc = "claimed"
    BY <2>1, ClaimStep DEF ClaimedWith
  <2>2. task'[w].claim = task[w].claim /\ task[w].pc # "idle"
    BY <1>2, <2>1, ClaimKept
  <2>3. r = Repo(w) /\ r \in Repos
    BY <2>2, Types DEF TaskType, Claims, Repo
  <2>. QED
    BY <2>0, <2>2, <2>3, TaskCleanStep
<1>. QED
  BY <1>1, <1>2

\* Content, bases and torn indexes are in order throughout.
LEMMA BaseInvariant == MaxLate = 0 /\ Spec => [](ServerInv /\ FenceInv /\ CurrentInv /\ BaseInv)
<1>1. MaxLate = 0 /\ Init => BaseInv
  <2>. SUFFICES ASSUME MaxLate = 0, Init PROVE BaseInv
    OBVIOUS
  <2>1. BudgetInv /\ GraphMatchesSha
    BY ServerConstants DEF Init, BudgetInv, GraphMatchesSha, NotIndexed
  <2>2. \A w \in Workers : task[w].pc = "idle"
    BY IdleTypes DEF Init
  <2>3. WritersActive /\ BasesIndexed /\ TasksClean
    BY <2>2 DEF WritersActive, BasesIndexed, Incremental, TasksClean, TaskClean, Ending, GatePc, FullPc
  <2>. QED
    BY <2>1, <2>3 DEF BaseInv
<1>2. ServerInv /\ FenceInv /\ CurrentInv /\ BaseInv /\ [Next]_vars => BaseInv'
  <2>. SUFFICES ASSUME ServerInv, FenceInv, CurrentInv, BaseInv, [Next]_vars PROVE BaseInv'
    OBVIOUS
  <2>0. /\ TypeOK /\ CommitKnown /\ GateInv /\ WriterInv /\ TokensDiffer /\ TasksCurrent
        /\ BudgetInv /\ WritersActive /\ BasesIndexed /\ TasksClean /\ GraphMatchesSha
    BY DEF ServerInv, FenceInv, CurrentInv, BaseInv
  <2>1. BudgetInv'
    BY <2>0, BudgetDown, ServerConstants DEF BudgetInv
  <2>. QED
    BY <2>0, <2>1, WritersActiveStep, BasesStep, ContentStep, TasksCleanStep DEF BaseInv
<1>. QED
  BY <1>1, <1>2, CurrentInvariant, PTL DEF Spec

\* What the store serves for a repo is the content of the commit it says it indexed
\* (or nothing, at and after a removal that was cut short), for any history, reverts
\* included, any number of repos, tasks and admin operations, and any crash or error
\* between the transactions of a full write, as long as no lease expires under a live
\* task; that condition is needed (IndexServerStaleBase).
THEOREM ServedContentIsIndexed == MaxLate = 0 /\ Spec => []GraphMatchesSha
<1>1. BaseInv => GraphMatchesSha
  BY DEF BaseInv
<1>. QED
  BY <1>1, BaseInvariant, PTL

\* A job that is recorded as done, of a configured repo and with no handler at work,
\* leaves no torn index behind, whatever crashed or failed between the transactions of
\* earlier full writes, as long as no lease expires under a live task.
THEOREM SuccessIsWhole == MaxLate = 0 /\ Spec => NoTornSuccess
<1>. DEFINE Whole(r) ==
        ( /\ jobs[r].status = "running" /\ jobs'[r].status = "succeeded"
          /\ config[r] # Absent /\ admin.pc = "idle" )
        => ~graph[r].debt
<1>1. ASSUME ServerInv, BaseInv, [Next]_vars, NEW r \in Repos,
             jobs[r].status = "running", jobs'[r].status = "succeeded",
             config[r] # Absent, admin.pc = "idle"
      PROVE  ~graph[r].debt
  <2>1. PICK w \in Workers : Finish(w) /\ Repo(w) = r /\ Active(w) /\ jobs[r].requeue = 0
    BY <1>1, SettledBefore DEF ServerInv
  <2>2. task[w].pc \in Ending
    BY <2>1 DEF Finish, Ending
  <2>3. ~graph[r].debt \/ Waits(r)
    BY <1>1, <2>1, <2>2 DEF BaseInv, TasksClean, TaskClean
  <2>. QED
    BY <1>1, <2>3 DEF Waits, VisitPending
<1>2. ServerInv /\ BaseInv /\ [Next]_vars => [\A r \in Repos : Whole(r)]_vars
  BY <1>1 DEF vars
<1>. QED
  BY <1>2, BaseInvariant, PTL DEF Spec, NoTornSuccess
=============================================================================
