--------------------------- MODULE JobQueueProofs ----------------------------
(***************************************************************************)
(* Proofs about JobQueue, for any repositories, row ids, retry budget,     *)
(* lease, debounce and number of workers, and whatever the bounds on the   *)
(* clock and on the claims are.                                            *)
(***************************************************************************)
EXTENDS JobQueue, TLAPS

Table == [Repos -> Row]

-----------------------------------------------------------------------------
(* What the statements of jobs.rs do to a row.                             *)

\* A new row, a row hit by an event and a claimed row are rows.
LEMMA EventRowTypes ==
    ASSUME NEW row \in Row, NEW priority \in Priorities, NEW t \in Nat, NEW n \in Nat
    PROVE  /\ InsertedRow(n, priority, t) \in Row
           /\ ConflictRow(row, priority, t) \in Row
           /\ ClaimedRow(row, n, t) \in Row
<1>1. Scheduled \in Priorities
  BY DEF Priorities, Scheduled, Retry, Unindexed
<1>2. t + LeaseSecs \in Nat
  BY JobConstants
<1>3. row.attempt + 1 \in Nat
  BY DEF Row
<1>4. NoRow \in Row
  BY <1>1 DEF NoRow, Row, JobStatus, Null
<1>5. InsertedRow(n, priority, t) \in Row
  BY <1>4 DEF InsertedRow, Row, JobStatus
<1>6. ConflictRow(row, priority, t) \in Row
  BY DEF ConflictRow, Lesser, Row, JobStatus
<1>7. ClaimedRow(row, n, t) \in Row
  BY <1>2, <1>3 DEF ClaimedRow, Row, JobStatus
<1>. QED
  BY <1>5, <1>6, <1>7

\* Every other way the code rewrites a row yields a row.
LEMMA RowTypes ==
    ASSUME NEW row \in Row, NEW t \in Nat
    PROVE  /\ NoRow \in Row
           /\ [row EXCEPT !.status = "succeeded"] \in Row
           /\ RequeuedRow(row, t) \in Row
           /\ \A poison \in BOOLEAN : FailedRow(row, poison, t) \in Row
           /\ DeferredRow(row, t) \in Row
           /\ ReapedRow(row, t) \in Row
           /\ RecoveredRow(row, t) \in Row
           /\ CancelRow(row, t) \in Row
           /\ ResetRow(row, t) \in Row
<1>1. Scheduled \in Priorities /\ Retry \in Priorities
  BY DEF Priorities, Scheduled, Retry, Unindexed
<1>2. (IF row.attempt = 0 THEN 0 ELSE row.attempt - 1) \in Nat
  BY DEF Row
<1>3. NoRow \in Row
  BY <1>1 DEF NoRow, Row, JobStatus, Null
<1>4. [row EXCEPT !.status = "succeeded"] \in Row
  BY DEF Row, JobStatus
<1>5. RequeuedRow(row, t) \in Row
  BY DEF RequeuedRow, Row, JobStatus
<1>6. ASSUME NEW poison \in BOOLEAN PROVE FailedRow(row, poison, t) \in Row
  BY <1>1 DEF FailedRow, Row, JobStatus
<1>7. DeferredRow(row, t) \in Row
  BY <1>2 DEF DeferredRow, Row, JobStatus, Null
<1>8. ReapedRow(row, t) \in Row
  BY DEF ReapedRow, Row, JobStatus, Null
<1>9. RecoveredRow(row, t) \in Row
  BY DEF RecoveredRow, Row, JobStatus, Null
<1>10. CancelRow(row, t) \in Row
  BY DEF CancelRow, Row, JobStatus
<1>11. ResetRow(row, t) \in Row
  BY DEF ResetRow, Row, JobStatus, Null
<1>. QED
  BY <1>3, <1>4, <1>5, <1>6, <1>7, <1>8, <1>9, <1>10, <1>11

\* A rewrite that is not a claim: the token is kept or cleared, the id changes
\* only with a cleared token, and the row does not start to run.
Tame(old, new) ==
    /\ new.token = Null \/ (new.token = old.token /\ new.id = old.id)
    /\ new.status = "running" => old.status = "running" /\ new.token = old.token

\* Every rewrite but a claim is tame.
LEMMA RowsTame ==
    ASSUME NEW row \in Row, NEW t \in Nat
    PROVE  /\ Tame(row, row)
           /\ Tame(row, NoRow)
           /\ \A n, priority : /\ Tame(row, InsertedRow(n, priority, t))
                              /\ Tame(row, ConflictRow(row, priority, t))
           /\ Tame(row, [row EXCEPT !.status = "succeeded"])
           /\ Tame(row, RequeuedRow(row, t))
           /\ \A poison \in BOOLEAN : Tame(row, FailedRow(row, poison, t))
           /\ Tame(row, DeferredRow(row, t))
           /\ Tame(row, ReapedRow(row, t))
           /\ Tame(row, RecoveredRow(row, t))
           /\ Tame(row, CancelRow(row, t))
           /\ Tame(row, ResetRow(row, t))
<1>1. Tame(row, row) /\ Tame(row, NoRow)
  BY DEF Tame, NoRow, Null
<1>2. \A n, priority : Tame(row, InsertedRow(n, priority, t))
  BY DEF Tame, InsertedRow, NoRow, Null
<1>3. \A priority : Tame(row, ConflictRow(row, priority, t))
  BY DEF Tame, ConflictRow, Row
<1>4. Tame(row, [row EXCEPT !.status = "succeeded"])
  BY DEF Tame, Row
<1>5. Tame(row, RequeuedRow(row, t))
  BY DEF Tame, RequeuedRow, Row
<1>6. ASSUME NEW poison \in BOOLEAN PROVE Tame(row, FailedRow(row, poison, t))
  BY DEF Tame, FailedRow, Row
<1>7. Tame(row, DeferredRow(row, t))
  BY DEF Tame, DeferredRow, Row
<1>8. Tame(row, ReapedRow(row, t))
  BY DEF Tame, ReapedRow, Row
<1>9. Tame(row, RecoveredRow(row, t))
  BY DEF Tame, RecoveredRow, Row
<1>10. Tame(row, CancelRow(row, t))
  BY DEF Tame, CancelRow, Row
<1>11. Tame(row, ResetRow(row, t))
  BY DEF Tame, ResetRow, Row
<1>. QED
  BY <1>1, <1>2, <1>3, <1>4, <1>5, <1>6, <1>7, <1>8, <1>9, <1>10, <1>11

-----------------------------------------------------------------------------
(* The same for whole tables, one lemma per group of statements.           *)

TameTable(J, K) == K \in Table /\ \A s \in Repos : Tame(J[s], K[s])

\* upsert and enqueue_declared_repo.
LEMMA UpsertTame ==
    ASSUME NEW J \in Table, NEW r \in Repos, NEW priority \in Priorities,
           NEW id \in Nat, NEW t \in Nat
    PROVE  /\ TameTable(J, Upsert(J, r, priority, id, t))
           /\ TameTable(J, EnqueueDeclaredRepo(J, r, priority, id, t))
<1>1. J[r] \in Row
  BY DEF Table
<1>2. /\ InsertedRow(id, priority, t) \in Row /\ ConflictRow(J[r], priority, t) \in Row
      /\ Tame(J[r], InsertedRow(id, priority, t))
      /\ Tame(J[r], ConflictRow(J[r], priority, t))
  BY <1>1, EventRowTypes, RowsTame
<1>3. \A s \in Repos : Tame(J[s], J[s])
  BY RowsTame DEF Table
<1>4. TameTable(J, Upsert(J, r, priority, id, t))
  BY <1>2, <1>3 DEF TameTable, Table, Upsert
<1>. QED
  BY <1>3, <1>4 DEF TameTable, EnqueueDeclaredRepo

\* complete, requeue_if_stale, and both in a row.
LEMMA CompleteTame ==
    ASSUME NEW J \in Table, NEW c \in Claims, NEW t \in Nat
    PROVE  /\ TameTable(J, Complete(J, c))
           /\ TameTable(J, RequeueIfStale(Complete(J, c), c.repo, t))
<1>. DEFINE K == Complete(J, c)
<1>0. c.repo \in Repos
  BY DEF Claims
<1>1. \A row \in Row : /\ RequeuedRow(row, t) \in Row /\ [row EXCEPT !.status = "succeeded"] \in Row
                       /\ Tame(row, row) /\ Tame(row, [row EXCEPT !.status = "succeeded"])
                       /\ Tame(row, RequeuedRow(row, t))
  BY RowTypes, RowsTame
<1>2. TameTable(J, K)
  BY <1>1 DEF TameTable, Table, Complete
<1>3. TameTable(K, RequeueIfStale(K, c.repo, t))
  <2>. K \in Table
    BY <1>2 DEF TameTable
  <2>. HIDE DEF K
  <2>. QED
    BY <1>0, <1>1 DEF TameTable, Table, RequeueIfStale
<1>4. TameTable(J, RequeueIfStale(K, c.repo, t))
  <2>. HIDE DEF K
  <2>. QED
    BY <1>2, <1>3 DEF TameTable, Tame
<1>. QED
  BY <1>2, <1>4

\* fail and defer.
LEMMA FailTame ==
    ASSUME NEW J \in Table, NEW c \in Claims, NEW poison \in BOOLEAN, NEW t \in Nat
    PROVE  TameTable(J, Fail(J, c, poison, t)) /\ TameTable(J, Defer(J, c, t))
<1>1. \A row \in Row : /\ FailedRow(row, poison, t) \in Row /\ DeferredRow(row, t) \in Row
                       /\ Tame(row, row) /\ Tame(row, FailedRow(row, poison, t))
                       /\ Tame(row, DeferredRow(row, t))
  BY RowTypes, RowsTame
<1>. QED
  BY <1>1 DEF TameTable, Table, Fail, Defer

\* The reaper's tick and recovery at startup.
LEMMA RecoverTame ==
    ASSUME NEW J \in Table, NEW t \in Nat
    PROVE  /\ TameTable(J, ReapExpiredLeases(J, t))
           /\ TameTable(J, RecoverStale(ReapExpiredLeases(J, t), t))
           /\ TameTable(J, RecoverAllRunningAtStartup(J, t))
<1>. DEFINE K == ReapExpiredLeases(J, t)
<1>1. \A row \in Row : /\ ReapedRow(row, t) \in Row /\ RecoveredRow(row, t) \in Row
                       /\ Tame(row, row) /\ Tame(row, ReapedRow(row, t))
                       /\ Tame(row, RecoveredRow(row, t))
  BY RowTypes, RowsTame
<1>2. TameTable(J, K)
  BY <1>1 DEF TameTable, Table, ReapExpiredLeases
<1>3. TameTable(K, RecoverStale(K, t))
  <2>. K \in Table
    BY <1>2 DEF TameTable
  <2>. HIDE DEF K
  <2>. QED
    BY <1>1 DEF TameTable, Table, RecoverStale
<1>4. TameTable(J, RecoverStale(K, t))
  <2>. HIDE DEF K
  <2>. QED
    BY <1>2, <1>3 DEF TameTable, Tame
<1>5. TameTable(J, RecoverAllRunningAtStartup(J, t))
  BY <1>1 DEF TameTable, Table, RecoverAllRunningAtStartup
<1>. QED
  BY <1>2, <1>4, <1>5

\* Cancellation and the dead-letter statements.
LEMMA AdminTame ==
    ASSUME NEW J \in Table, NEW keep, NEW id, NEW t \in Nat
    PROVE  /\ \A r \in Repos : TameTable(J, CancelRepo(J, r, t))
           /\ TameTable(J, CancelReposNotIn(J, keep, t))
           /\ TameTable(J, ResetDeadLetterById(J, id, t))
           /\ TameTable(J, DismissDeadLetter(J, id))
<1>1. \A row \in Row : /\ NoRow \in Row /\ CancelRow(row, t) \in Row /\ ResetRow(row, t) \in Row
                       /\ Tame(row, row) /\ Tame(row, CancelRow(row, t))
                       /\ Tame(row, ResetRow(row, t)) /\ Tame(row, NoRow)
  BY RowTypes, RowsTame
<1>2. ASSUME NEW r \in Repos PROVE TameTable(J, CancelRepo(J, r, t))
  BY <1>1 DEF TameTable, Table, CancelRepo
<1>3. TameTable(J, CancelReposNotIn(J, keep, t))
  BY <1>1 DEF TameTable, Table, CancelReposNotIn
<1>4. TameTable(J, ResetDeadLetterById(J, id, t))
  BY <1>1 DEF TameTable, Table, ResetDeadLetterById
<1>5. TameTable(J, DismissDeadLetter(J, id))
  BY <1>1 DEF TameTable, Table, DismissDeadLetter
<1>. QED
  BY <1>2, <1>3, <1>4, <1>5

-----------------------------------------------------------------------------
(* Type correctness.                                                       *)

\* The history operators keep owed and spared typed.
LEMMA HistoryTypes ==
    ASSUME TypeOK, jobs' \in Table
    PROVE  /\ \A r \in Repos : Owe(r) => owed' \in [Repos -> Nat \cup {Waiting}]
           /\ \A token : GiveBack(token) => owed' \in [Repos -> Nat \cup {Waiting}]
           /\ \A S : GiveBackAll(S) => owed' \in [Repos -> Nat \cup {Waiting}]
           /\ \A S : Forget(S) => owed' \in [Repos -> Nat \cup {Waiting}]
           /\ \A S : Spare(S) => spared' \in [Repos -> Nat]
BY DEF TypeOK, Owe, GiveBack, GiveBackAll, Forget, Spare, Settled, Waiting

\* Every step but a claim rewrites rows tamely, hands out no claim and mints no
\* token.
LEMMA TameSteps ==
    ASSUME TypeOK, Next
    PROVE  \/ \E r \in Repos : Claim(r)
           \/ TameTable(jobs, jobs') /\ held' \subseteq held /\ minted' = minted
<1>. USE DEF TypeOK, Table
<1>0. \A K : K = jobs => TameTable(jobs, K)
  BY RowsTame DEF TameTable
<1>1. ASSUME NEW c \in held, WorkerStep(c)
      PROVE  TameTable(jobs, jobs') /\ held' \subseteq held /\ minted' = minted
  <2>0. c \in Claims
    OBVIOUS
  <2>1. CASE CompleteJob(c)
    BY <2>0, <2>1, CompleteTame DEF CompleteJob
  <2>2. CASE CompleteOnly(c)
    BY <2>0, <2>2, CompleteTame DEF CompleteOnly
  <2>3. CASE \E poison \in BOOLEAN : FailJob(c, poison)
    BY <2>0, <2>3, FailTame DEF FailJob
  <2>4. CASE DeferJob(c)
    BY <2>0, <2>4, FailTame DEF DeferJob
  <2>5. CASE LoseOutcome(c)
    BY <1>0, <2>5 DEF LoseOutcome
  <2>. QED
    BY <1>1, <2>1, <2>2, <2>3, <2>4, <2>5 DEF WorkerStep
<1>2. ASSUME NEW r \in Repos, RepoStep(r), ~Claim(r)
      PROVE  TameTable(jobs, jobs') /\ held' \subseteq held /\ minted' = minted
  <2>0. Ids \subseteq Nat /\ Unindexed \in Priorities /\ Webhook \in Priorities
        /\ EventPriorities \subseteq Priorities
    BY JobConstants, QueueBounds DEF Priorities, Unindexed, Webhook, Retry
  <2>1. CASE \E priority \in EventPriorities : Event(r, priority)
    BY <2>0, <2>1, UpsertTame DEF Event
  <2>2. CASE AddRepo(r)
    BY <2>0, <2>2, UpsertTame DEF AddRepo
  <2>3. CASE RemoveRepo(r)
    BY <2>3, AdminTame DEF RemoveRepo
  <2>4. CASE \E priority \in {Unindexed, Webhook} : EnqueueDeclared(r, priority)
    BY <2>0, <2>4, UpsertTame DEF EnqueueDeclared
  <2>5. CASE RetryDeadLetter(r)
    BY <2>5, AdminTame DEF RetryDeadLetter
  <2>6. CASE Dismiss(r)
    BY <2>6, AdminTame DEF Dismiss
  <2>. QED
    BY <1>2, <2>1, <2>2, <2>3, <2>4, <2>5, <2>6 DEF RepoStep
<1>3. ASSUME DaemonStep
      PROVE  TameTable(jobs, jobs') /\ held' \subseteq held /\ minted' = minted
  <2>1. CASE \E config, need \in SUBSET Repos : StartDaemon(config, need)
    BY <1>0, <2>1 DEF StartDaemon
  <2>2. CASE \E config, need \in SUBSET Repos : ReloadConfig(config, need)
    <3>1. PICK config \in SUBSET Repos :
             /\ jobs' = CancelReposNotIn(jobs, config, now)
             /\ held' = held /\ minted' = minted
      BY <2>2 DEF ReloadConfig
    <3>2. TameTable(jobs, CancelReposNotIn(jobs, config, now))
      BY AdminTame
    <3>. QED
      BY <3>1, <3>2
  <2>3. CASE StartupCancel
    BY <2>3, AdminTame DEF StartupCancel
  <2>4. CASE RecoverAtStartup
    BY <2>4, RecoverTame DEF RecoverAtStartup
  <2>5. CASE ReloadDone
    BY <1>0, <2>5 DEF ReloadDone
  <2>6. CASE ReaperTick
    BY <2>6, RecoverTame DEF ReaperTick
  <2>7. CASE Crash
    BY <1>0, <2>7 DEF Crash
  <2>8. CASE Tick
    BY <1>0, <2>8 DEF Tick
  <2>. QED
    BY <1>3, <2>1, <2>2, <2>3, <2>4, <2>5, <2>6, <2>7, <2>8 DEF DaemonStep
<1>. QED
  BY <1>1, <1>2, <1>3 DEF Next

\* One step preserves the type invariant.
LEMMA TypeStep ==
    ASSUME TypeOK, [Next]_vars
    PROVE  TypeOK'
<1>1. CASE UNCHANGED vars
  BY <1>1 DEF TypeOK, vars
<1>2. CASE Next
  <2>0. jobs \in Table /\ now \in Nat /\ minted \in Nat /\ held \subseteq Claims
    BY DEF TypeOK, Table
  <2>1. jobs' \in Table
    <3>1. ASSUME NEW r \in Repos, Claim(r) PROVE jobs' \in Table
      <4>1. ClaimedRow(jobs[r], minted + 1, now) \in Row
        BY <2>0, EventRowTypes DEF Table, Priorities, Unindexed, Retry
      <4>. QED
        BY <2>0, <3>1, <4>1 DEF Claim, ClaimNext, Table
    <3>. QED
      BY <1>2, <3>1, TameSteps DEF TameTable
  <2>2. minted' \in Nat /\ held' \subseteq Claims
    <3>1. ASSUME NEW r \in Repos, Claim(r) PROVE minted' \in Nat /\ held' \subseteq Claims
      BY <2>0, <3>1 DEF Claim, ClaimOf, Claims, Table, Row
    <3>. QED
      BY <2>0, <1>2, <3>1, TameSteps
  <2>3. /\ owed' \in [Repos -> Nat \cup {Waiting}]
        /\ spared' \in [Repos -> Nat]
    <3>. USE <2>1, HistoryTypes DEF TypeOK
    <3>1. ASSUME NEW c \in held, WorkerStep(c)
          PROVE  owed' \in [Repos -> Nat \cup {Waiting}] /\ spared' \in [Repos -> Nat]
      BY <3>1 DEF WorkerStep, CompleteJob, CompleteOnly, FailJob, DeferJob,
                  LoseOutcome, Settled
    <3>2. ASSUME NEW r \in Repos, RepoStep(r)
          PROVE  owed' \in [Repos -> Nat \cup {Waiting}] /\ spared' \in [Repos -> Nat]
      BY <2>2, <3>2 DEF RepoStep, Event, AddRepo, RemoveRepo, Claim, EnqueueDeclared,
                  RetryDeadLetter, Dismiss
    <3>3. ASSUME DaemonStep
          PROVE  owed' \in [Repos -> Nat \cup {Waiting}] /\ spared' \in [Repos -> Nat]
      BY <3>3 DEF DaemonStep, StartDaemon, ReloadConfig, StartupCancel, RecoverAtStartup,
                  ReloadDone, ReaperTick, Crash, Tick
    <3>. QED
      BY <1>2, <3>1, <3>2, <3>3 DEF Next
  <2>4. now' \in Nat \ {0} /\ phase' \in Phases
        /\ declared' \subseteq Repos /\ todo' \subseteq Repos
    <3>. USE DEF TypeOK, Phases
    <3>1. ASSUME NEW c \in held, WorkerStep(c)
          PROVE  now' \in Nat \ {0} /\ phase' \in Phases
                 /\ declared' \subseteq Repos /\ todo' \subseteq Repos
      BY <3>1 DEF WorkerStep, CompleteJob, CompleteOnly, FailJob, DeferJob,
                  LoseOutcome
    <3>2. ASSUME NEW r \in Repos, RepoStep(r)
          PROVE  now' \in Nat \ {0} /\ phase' \in Phases
                 /\ declared' \subseteq Repos /\ todo' \subseteq Repos
      BY <3>2 DEF RepoStep, Event, AddRepo, RemoveRepo, Claim, EnqueueDeclared,
                  RetryDeadLetter, Dismiss
    <3>3. ASSUME DaemonStep
          PROVE  now' \in Nat \ {0} /\ phase' \in Phases
                 /\ declared' \subseteq Repos /\ todo' \subseteq Repos
      <4>1. CASE \E config, need \in SUBSET Repos :
                    StartDaemon(config, need) \/ ReloadConfig(config, need)
        BY <4>1 DEF StartDaemon, ReloadConfig
      <4>2. CASE Tick
        BY <4>2 DEF Tick
      <4>3. CASE \/ StartupCancel \/ RecoverAtStartup \/ ReloadDone \/ ReaperTick
                 \/ Crash
        BY <4>3 DEF StartupCancel, RecoverAtStartup, ReloadDone, ReaperTick, Crash
      <4>. QED
        BY <3>3, <4>1, <4>2, <4>3 DEF DaemonStep
    <3>. QED
      BY <1>2, <3>1, <3>2, <3>3 DEF Next
  <2>. QED
    BY <2>1, <2>2, <2>3, <2>4 DEF TypeOK, Table
<1>. QED
  BY <1>1, <1>2

\* Type correctness of the queue: every statement of jobs.rs, in any
\* interleaving and with crashes, leaves a well-formed row for every repository.
THEOREM TypeCorrect == Spec => []TypeOK
<1>1. Init => TypeOK
  BY RowTypes DEF Init, TypeOK, Phases, Claims, Settled, NoRow, Row, JobStatus, Null,
                  Priorities, Scheduled, Unindexed, Retry
<1>. QED
  BY <1>1, TypeStep, PTL DEF Spec

-----------------------------------------------------------------------------
(* Fencing.                                                                *)

\* Tokens come from the counter: none is newer than the last minted.
TokensMinted ==
    /\ \A r \in Repos : jobs[r].token <= minted
    /\ \A c \in held : c.token > 0 /\ c.token <= minted

\* A row that carries a live claim's token is that claim's row.
TokenNamesRow ==
    \A c \in held : \A r \in Repos :
        jobs[r].token = c.token => r = c.repo /\ jobs[r].id = c.id

\* A running row carries the newest token among the live claims of its repo.
NewestRuns ==
    \A c \in held : jobs[c.repo].status = "running" => c.token <= jobs[c.repo].token

Fencing == TokensMinted /\ TokenNamesRow /\ NewestRuns

\* One step preserves the fencing invariant: a claim brings a fresh token, every
\* other step is tame.
LEMMA FencingStep ==
    ASSUME TypeOK, Fencing, [Next]_vars
    PROVE  Fencing'
<1>. USE DEF Fencing, TokensMinted, TokenNamesRow, NewestRuns
<1>0. /\ jobs \in Table /\ minted \in Nat /\ held \subseteq Claims
      /\ \A r \in Repos : jobs[r] \in Row /\ jobs[r].token \in Nat /\ jobs[r].id \in Nat
      /\ \A c \in held : c.repo \in Repos /\ c.token \in Nat
  BY DEF TypeOK, Table, Row, Claims
<1>1. CASE UNCHANGED vars
  BY <1>1 DEF vars
<1>2. ASSUME NEW r \in Repos, Claim(r) PROVE Fencing'
  <2>. DEFINE new == ClaimOf(jobs, r, minted + 1)
  <2>1. minted' = minted + 1 /\ held' = held \cup {new}
    BY <1>2 DEF Claim
  <2>2. new.repo = r /\ new.id = jobs[r].id /\ new.token = minted + 1
    BY DEF ClaimOf
  <2>3. /\ jobs'[r].token = minted + 1 /\ jobs'[r].id = jobs[r].id
        /\ \A s \in Repos \ {r} : jobs'[s] = jobs[s]
    BY <1>0, <1>2 DEF Claim, ClaimNext, ClaimedRow, Table, Row
  <2>. HIDE DEF new
  <2>4. TokensMinted'
    BY <1>0, <2>1, <2>2, <2>3
  <2>5. TokenNamesRow'
    BY <1>0, <2>1, <2>2, <2>3
  <2>6. NewestRuns'
    BY <1>0, <2>1, <2>2, <2>3
  <2>. QED
    BY <2>4, <2>5, <2>6
<1>3. ASSUME TameTable(jobs, jobs'), held' \subseteq held, minted' = minted
      PROVE  Fencing'
  BY <1>0, <1>3 DEF TameTable, Tame, Null
<1>. QED
  BY <1>1, <1>2, <1>3, TameSteps

\* The fence holds: of all the live claims of a repository at most the newest
\* is active, through reaping, recovery, cancellation, re-adding, dismissal and
\* reuse of row ids (claim_is_active, complete, fail, defer).
THEOREM FencingSafe == Spec => []OnlyNewestClaimActive
<1>1. Init => Fencing
  BY DEF Init, Fencing, TokensMinted, TokenNamesRow, NewestRuns, NoRow, Null
<1>2. TypeOK /\ Fencing /\ [Next]_vars => Fencing'
  BY FencingStep
<1>3. TypeOK /\ Fencing => OnlyNewestClaimActive
  BY DEF TypeOK, Fencing, NewestRuns, OnlyNewestClaimActive, ClaimIsActive, Fenced, Claims
<1>. QED
  BY <1>1, <1>2, <1>3, TypeCorrect, PTL DEF Spec

-----------------------------------------------------------------------------
(* Row ids.                                                                *)

\* Two rows of the table never share an id, although ids are reused.
UniqueIds ==
    \A r, s \in Repos :
        (Present(jobs[r]) /\ Present(jobs[s]) /\ jobs[r].id = jobs[s].id) => r = s

\* No rewrite of an existing row changes its id.
LEMMA RowsKeepId ==
    ASSUME NEW row \in Row, NEW t \in Nat
    PROVE  /\ \A priority : ConflictRow(row, priority, t).id = row.id
           /\ \A token : ClaimedRow(row, token, t).id = row.id
           /\ [row EXCEPT !.status = "succeeded"].id = row.id
           /\ RequeuedRow(row, t).id = row.id
           /\ Present(RequeuedRow(row, t)) => Present(row)
           /\ \A poison : FailedRow(row, poison, t).id = row.id
           /\ DeferredRow(row, t).id = row.id
           /\ ReapedRow(row, t).id = row.id
           /\ RecoveredRow(row, t).id = row.id
           /\ CancelRow(row, t).id = row.id
           /\ Present(CancelRow(row, t)) => Present(row)
           /\ ResetRow(row, t).id = row.id
BY DEF Row, Present, ConflictRow, ClaimedRow, RequeuedRow, FailedRow, DeferredRow, ReapedRow,
       RecoveredRow, CancelRow, ResetRow

\* One step preserves uniqueness: an inserted row takes an id above all others.
LEMMA IdsStep ==
    ASSUME TypeOK, UniqueIds, [Next]_vars
    PROVE  UniqueIds'
<1>. USE DEF UniqueIds, Present
<1>0. /\ jobs \in Table /\ held \subseteq Claims /\ now \in Nat /\ Ids \subseteq Nat
      /\ \A r \in Repos : jobs[r] \in Row /\ jobs[r].id \in Nat
  BY JobConstants DEF TypeOK, Table, Row
<1>1. CASE UNCHANGED vars
  BY <1>1 DEF vars
<1>2. ASSUME \A r \in Repos : Present(jobs'[r]) =>
                  Present(jobs[r]) /\ jobs'[r].id = jobs[r].id
      PROVE  UniqueIds'
  BY <1>2
<1>3. ASSUME NEW r \in Repos, NEW id \in Ids, NEW priority, IsNextId(jobs, id),
             jobs' = Upsert(jobs, r, priority, id, now)
      PROVE  UniqueIds'
  <2>1. \A s \in Repos \ {r} : jobs'[s] = jobs[s]
    BY <1>0, <1>3 DEF Upsert, Table
  <2>2. CASE Present(jobs[r])
    <3>1. jobs'[r].id = jobs[r].id
      BY <1>0, <1>3, <2>2 DEF Upsert, Table, ConflictRow, Row
    <3>. QED
      BY <2>1, <2>2, <3>1
  <2>3. CASE ~Present(jobs[r])
    <3>1. jobs'[r].id = id
      BY <1>0, <1>3, <2>3 DEF Upsert, Table, InsertedRow, NoRow
    <3>2. \A s \in Repos \ {r} : Present(jobs[s]) => jobs[s].id # id
      BY <1>0, <1>3 DEF IsNextId
    <3>. QED
      BY <2>1, <3>1, <3>2
  <2>. QED
    BY <2>2, <2>3
<1>4. ASSUME NEW c \in held, WorkerStep(c) PROVE UniqueIds'
  <2>. c.repo \in Repos /\ c \in Claims
    BY <1>0 DEF Claims
  <2>. DEFINE K == Complete(jobs, c)
  <2>0. \A s \in Repos : Present(K[s]) => Present(jobs[s]) /\ K[s].id = jobs[s].id
    BY <1>0, RowsKeepId DEF Complete, Fenced
  <2>1. CASE CompleteJob(c)
    <3>1. K \in Table
      BY <1>0, CompleteTame DEF TameTable
    <3>2. jobs' = RequeueIfStale(K, c.repo, now)
      BY <2>1 DEF CompleteJob
    <3>. HIDE DEF K
    <3>3. \A s \in Repos : Present(jobs'[s]) => Present(K[s]) /\ jobs'[s].id = K[s].id
      BY <1>0, <3>1, <3>2, RowsKeepId DEF RequeueIfStale, Table
    <3>. QED
      BY <1>2, <2>0, <3>3
  <2>2. CASE CompleteOnly(c)
    BY <1>2, <2>0, <2>2 DEF CompleteOnly
  <2>3. CASE \E poison \in BOOLEAN : FailJob(c, poison)
    BY <1>0, <1>2, <2>3, RowsKeepId DEF FailJob, Fail, Fenced
  <2>4. CASE DeferJob(c)
    BY <1>0, <1>2, <2>4, RowsKeepId DEF DeferJob, Defer, Fenced
  <2>5. CASE LoseOutcome(c)
    BY <2>5 DEF LoseOutcome
  <2>. QED
    BY <1>4, <2>1, <2>2, <2>3, <2>4, <2>5 DEF WorkerStep
<1>5. ASSUME NEW r \in Repos, RepoStep(r) PROVE UniqueIds'
  <2>1. CASE \/ \E priority \in EventPriorities : Event(r, priority)
             \/ AddRepo(r)
    BY <1>3, <2>1 DEF Event, AddRepo
  <2>2. CASE \E priority \in {Unindexed, Webhook} : EnqueueDeclared(r, priority)
    BY <1>3, <2>2 DEF EnqueueDeclared, EnqueueDeclaredRepo
  <2>3. CASE RemoveRepo(r)
    BY <1>0, <1>2, <2>3, RowsKeepId DEF RemoveRepo, CancelRepo, Table
  <2>4. CASE Claim(r)
    BY <1>0, <1>2, <2>4, RowsKeepId DEF Claim, IsNextClaim, Claimable, ClaimNext, Table
  <2>5. CASE RetryDeadLetter(r)
    BY <1>0, <1>2, <2>5, RowsKeepId DEF RetryDeadLetter, ResetDeadLetterById
  <2>6. CASE Dismiss(r)
    BY <1>0, <1>2, <2>6 DEF Dismiss, DismissDeadLetter, NoRow
  <2>. QED
    BY <1>5, <2>1, <2>2, <2>3, <2>4, <2>5, <2>6 DEF RepoStep
<1>6. ASSUME DaemonStep PROVE UniqueIds'
  <2>1. CASE \/ \E config, need \in SUBSET Repos : StartDaemon(config, need)
             \/ ReloadDone \/ Crash \/ Tick
    BY <2>1 DEF StartDaemon, ReloadDone, Crash, Tick
  <2>2. CASE \E keep : jobs' = CancelReposNotIn(jobs, keep, now)
    BY <1>0, <1>2, <2>2, RowsKeepId DEF CancelReposNotIn
  <2>3. CASE RecoverAtStartup
    BY <1>0, <1>2, <2>3, RowsKeepId DEF RecoverAtStartup, RecoverAllRunningAtStartup
  <2>4. CASE ReaperTick
    <3>. DEFINE K == ReapExpiredLeases(jobs, now)
    <3>1. \A r \in Repos : Present(K[r]) => Present(jobs[r]) /\ K[r].id = jobs[r].id
      BY <1>0, RowsKeepId DEF ReapExpiredLeases, Expired
    <3>2. K \in Table
      BY <1>0, RecoverTame DEF TameTable
    <3>3. jobs' = RecoverStale(K, now)
      BY <2>4 DEF ReaperTick
    <3>. HIDE DEF K
    <3>4. \A r \in Repos : Present(jobs'[r]) => Present(K[r]) /\ jobs'[r].id = K[r].id
      BY <1>0, <3>2, <3>3, RowsKeepId DEF RecoverStale, Stale, Table
    <3>. QED
      BY <1>2, <3>1, <3>4
  <2>. QED
    BY <1>6, <2>1, <2>2, <2>3, <2>4 DEF DaemonStep, ReloadConfig, StartupCancel
<1>. QED
  BY <1>1, <1>4, <1>5, <1>6 DEF Next

-----------------------------------------------------------------------------
(* Events.                                                                 *)

\* What each rewrite does to the status and to the requeue mark.
LEMMA RowsStatus ==
    ASSUME NEW row \in Row, NEW t \in Nat
    PROVE  /\ \A n, priority : InsertedRow(n, priority, t).status = "pending"
           /\ \A priority :
                /\ row.status # "running" => ConflictRow(row, priority, t).status = "pending"
                /\ row.status = "running" =>
                      /\ ConflictRow(row, priority, t).status = "running"
                      /\ ConflictRow(row, priority, t).requeue = 1
           /\ \A n : /\ ClaimedRow(row, n, t).status = "running"
                     /\ ClaimedRow(row, n, t).token = n
           /\ [row EXCEPT !.status = "succeeded"].status = "succeeded"
           /\ [row EXCEPT !.status = "succeeded"].requeue = row.requeue
           /\ IF row.status = "succeeded" /\ row.requeue = 1
              THEN RequeuedRow(row, t).status = "pending" ELSE RequeuedRow(row, t) = row
           /\ \A poison : FailedRow(row, poison, t).status \in {"pending", "dead_letter"}
           /\ DeferredRow(row, t).status = "pending"
           /\ ReapedRow(row, t).status \in {"pending", "dead_letter"}
           /\ RecoveredRow(row, t).status = "pending"
           /\ ResetRow(row, t).status = "pending"
           /\ row.status # "absent" => CancelRow(row, t).status = "cancelled"
BY DEF Row, InsertedRow, NoRow, ConflictRow, ClaimedRow, RequeuedRow, FailedRow,
       DeferredRow, ReapedRow, RecoveredRow, CancelRow, ResetRow

\* NoLostEvent for one repository: its row, and what it is owed.
Kept(row, o) ==
    /\ o = Waiting => \/ row.status \in {"pending", "dead_letter"}
                      \/ row.status \in {"running", "succeeded"} /\ row.requeue = 1
    /\ o > 0 => row.status = "running" /\ row.token = o

\* One step loses no event.  TokenNamesRow is what makes a worker's outcome land
\* on the row whose event it gives back; UniqueIds keeps a dismissal from taking
\* a second row along.
LEMMA EventsStep ==
    ASSUME TypeOK, Fencing, UniqueIds, NoLostEvent, [Next]_vars
    PROVE  NoLostEvent'
<1>0. /\ jobs \in Table /\ held \subseteq Claims /\ now \in Nat /\ minted \in Nat
      /\ \A r \in Repos : /\ jobs[r] \in Row /\ jobs[r].token \in Nat
                          /\ owed[r] \in Nat \cup {Waiting}
      /\ owed \in [Repos -> Nat \cup {Waiting}]
  BY DEF TypeOK, Table, Row
<1>a. \A r \in Repos : Kept(jobs[r], owed[r])
  BY DEF NoLostEvent, Kept
<1>b. SUFFICES \A r \in Repos : Kept(jobs[r], owed[r])'
  BY DEF NoLostEvent, Kept
<1>1. CASE UNCHANGED <<jobs, owed>>
  BY <1>1, <1>a
\* An upsert of r leaves its event waiting and every other row alone.
<1>2. ASSUME NEW r \in Repos, NEW id, NEW priority, Owe(r),
             jobs' = Upsert(jobs, r, priority, id, now)
      PROVE  \A s \in Repos : Kept(jobs[s], owed[s])'
  BY <1>0, <1>2, <1>a, RowsStatus DEF Upsert, Owe, Kept, Waiting, Table
\* Rows of S are cancelled and forgotten; the others are left alone.
<1>3. ASSUME NEW S, Forget(S), \A s \in Repos \ S : jobs'[s] = jobs[s]
      PROVE  \A s \in Repos : Kept(jobs[s], owed[s])'
  BY <1>0, <1>3, <1>a DEF Forget, Kept, Settled, Waiting
\* Rows of S stop running and are pending or quarantined.
<1>4. ASSUME NEW S, GiveBackAll(S), \A s \in Repos \ S : jobs'[s] = jobs[s],
             \A s \in Repos \cap S : jobs'[s].status \in {"pending", "dead_letter"}
      PROVE  \A s \in Repos : Kept(jobs[s], owed[s])'
  BY <1>0, <1>4, <1>a DEF GiveBackAll, Kept, Waiting
\* A claim gives its work back.
<1>5. ASSUME NEW c \in held, GiveBack(c.token),
             \A s \in Repos : IF Fenced(jobs[s], c)
                              THEN jobs'[s].status \in {"pending", "dead_letter"}
                              ELSE jobs'[s] = jobs[s]
      PROVE  \A s \in Repos : Kept(jobs[s], owed[s])'
  <2>1. \A s \in Repos : owed[s] = c.token => Fenced(jobs[s], c)
    BY <1>0, <1>5, <1>a DEF Kept, Fencing, TokensMinted, TokenNamesRow, Fenced
  <2>2. \A s \in Repos : Fenced(jobs[s], c) => owed[s] \in {c.token, Settled, Waiting}
    BY <1>0, <1>a DEF Kept, Fenced, Settled, Waiting
  <2>3. c.token > 0
    BY DEF Fencing, TokensMinted
  <2>. QED
    BY <1>0, <1>5, <1>a, <2>1, <2>2, <2>3 DEF GiveBack, Kept, Settled, Waiting
<1>6. ASSUME NEW c \in held, WorkerStep(c)
      PROVE  \A s \in Repos : Kept(jobs[s], owed[s])'
  <2>0. c.repo \in Repos /\ c \in Claims /\ c.token > 0 /\ c.token \in Nat
    BY <1>0 DEF Claims, Fencing, TokensMinted
  <2>. DEFINE K == Complete(jobs, c)
  <2>1. /\ K \in Table
        /\ \A s \in Repos \ {c.repo} : K[s] = jobs[s]
        /\ ~Fenced(jobs[c.repo], c) => K[c.repo] = jobs[c.repo]
        /\ Fenced(jobs[c.repo], c) => /\ K[c.repo].status = "succeeded"
                                      /\ K[c.repo].requeue = jobs[c.repo].requeue
    <3>1. K \in Table
      BY <1>0, <2>0, CompleteTame DEF TameTable
    <3>. QED
      BY <1>0, <2>0, <3>1, RowsStatus DEF Complete
  <2>. HIDE DEF K
  <2>2. ASSUME owed' = [owed EXCEPT ![c.repo] = IF @ = c.token THEN Settled ELSE @]
        PROVE  \A s \in Repos : Kept(K[s], owed'[s])
    BY <1>0, <1>a, <2>0, <2>1, <2>2 DEF Kept, Fenced, Settled, Waiting
  <2>3. CASE CompleteJob(c)
    <3>1. \A s \in Repos : Kept(K[s], owed'[s])
      BY <2>2, <2>3 DEF CompleteJob
    <3>2. \A s \in Repos : jobs'[s] = IF s = c.repo THEN RequeuedRow(K[s], now) ELSE K[s]
      BY <2>0, <2>1, <2>3 DEF CompleteJob, RequeueIfStale, K, Table
    <3>. QED
      BY <1>0, <2>0, <2>1, <3>1, <3>2, RowsStatus DEF Kept, Table
  <2>4. CASE CompleteOnly(c)
    BY <2>2, <2>4 DEF CompleteOnly, K
  <2>5. CASE \E poison \in BOOLEAN : FailJob(c, poison)
    <3>1. PICK poison \in BOOLEAN : FailJob(c, poison)
      BY <2>5
    <3>2. \A s \in Repos : IF Fenced(jobs[s], c)
                           THEN jobs'[s].status \in {"pending", "dead_letter"}
                           ELSE jobs'[s] = jobs[s]
      BY <1>0, <3>1, RowsStatus DEF FailJob, Fail
    <3>. QED
      BY <1>5, <3>1, <3>2 DEF FailJob
  <2>6. CASE DeferJob(c)
    <3>1. \A s \in Repos : IF Fenced(jobs[s], c)
                           THEN jobs'[s].status \in {"pending", "dead_letter"}
                           ELSE jobs'[s] = jobs[s]
      BY <1>0, <2>6, RowsStatus DEF DeferJob, Defer
    <3>. QED
      BY <1>5, <2>6, <3>1 DEF DeferJob
  <2>7. CASE LoseOutcome(c)
    BY <1>1, <2>7 DEF LoseOutcome
  <2>. QED
    BY <1>6, <2>3, <2>4, <2>5, <2>6, <2>7 DEF WorkerStep
<1>7. ASSUME NEW r \in Repos, RepoStep(r)
      PROVE  \A s \in Repos : Kept(jobs[s], owed[s])'
  <2>1. CASE \/ \E priority \in EventPriorities : Event(r, priority)
             \/ AddRepo(r)
    BY <1>2, <2>1 DEF Event, AddRepo
  <2>2. CASE \E priority \in {Unindexed, Webhook} : EnqueueDeclared(r, priority)
    BY <1>1, <1>2, <2>2 DEF EnqueueDeclared, EnqueueDeclaredRepo
  <2>3. CASE RemoveRepo(r)
    <3>1. \A s \in Repos \ {r} : jobs'[s] = jobs[s]
      BY <1>0, <2>3 DEF RemoveRepo, CancelRepo, Table
    <3>. QED
      BY <1>3, <2>3, <3>1 DEF RemoveRepo
  <2>4. CASE Claim(r)
    <3>1. /\ \A s \in Repos \ {r} : jobs'[s] = jobs[s]
          /\ jobs'[r].status = "running" /\ jobs'[r].token = minted + 1
      BY <1>0, <2>4, RowsStatus DEF Claim, ClaimNext, Table
    <3>. QED
      BY <1>0, <1>a, <2>4, <3>1 DEF Claim, Kept, Waiting
  <2>5. CASE RetryDeadLetter(r)
    <3>1. /\ \A s \in Repos \ {r} : jobs'[s] = jobs[s]
          /\ jobs'[r].status = "pending"
      BY <1>0, <2>5, RowsStatus DEF RetryDeadLetter, ResetDeadLetterById, UniqueIds, Present
    <3>. QED
      BY <1>0, <1>a, <2>5, <3>1 DEF RetryDeadLetter, Owe, Kept, Waiting
  <2>6. CASE Dismiss(r)
    <3>1. \A s \in Repos \ {r} : jobs'[s] = jobs[s]
      BY <1>0, <2>6 DEF Dismiss, DismissDeadLetter, UniqueIds, Present
    <3>. QED
      BY <1>3, <2>6, <3>1 DEF Dismiss
  <2>. QED
    BY <1>7, <2>1, <2>2, <2>3, <2>4, <2>5, <2>6 DEF RepoStep
<1>8. ASSUME DaemonStep
      PROVE  \A s \in Repos : Kept(jobs[s], owed[s])'
  <2>1. CASE \/ \E config, need \in SUBSET Repos : StartDaemon(config, need)
             \/ ReloadDone \/ Crash \/ Tick
    BY <1>1, <2>1 DEF StartDaemon, ReloadDone, Crash, Tick
  <2>2. ASSUME NEW keep, jobs' = CancelReposNotIn(jobs, keep, now),
               Forget({r \in Repos \ keep : jobs[r].status # "succeeded"})
        PROVE  \A s \in Repos : Kept(jobs[s], owed[s])'
    <3>. DEFINE S == {r \in Repos \ keep : jobs[r].status # "succeeded"}
    <3>1. \A s \in Repos \ S : jobs'[s] = jobs[s]
      BY <2>2 DEF CancelReposNotIn
    <3>. QED
      BY <1>3, <2>2, <3>1
  <2>3. CASE RecoverAtStartup
    <3>. DEFINE S == {r \in Repos : jobs[r].status = "running"}
    <3>1. /\ \A s \in Repos \ S : jobs'[s] = jobs[s]
          /\ \A s \in Repos \cap S : jobs'[s].status \in {"pending", "dead_letter"}
      BY <1>0, <2>3, RowsStatus DEF RecoverAtStartup, RecoverAllRunningAtStartup
    <3>. QED
      BY <1>4, <2>3, <3>1 DEF RecoverAtStartup
  <2>4. CASE ReaperTick
    <3>. DEFINE K == ReapExpiredLeases(jobs, now)
                S == {r \in Repos : Stale(K[r], now)} \cup {r \in Repos : Expired(jobs[r], now)}
    <3>1. /\ \A s \in Repos : ~Expired(jobs[s], now) => K[s] = jobs[s]
          /\ \A s \in Repos : Expired(jobs[s], now) =>
                                  K[s].status \in {"pending", "dead_letter"}
          /\ K \in Table
      BY <1>0, RowsStatus, RecoverTame DEF ReapExpiredLeases, TameTable
    <3>2. jobs' = RecoverStale(K, now) /\ GiveBackAll(S)
      BY <2>4 DEF ReaperTick
    <3>3. /\ \A s \in Repos : ~Stale(K[s], now) => jobs'[s] = K[s]
          /\ \A s \in Repos : Stale(K[s], now) => jobs'[s].status = "pending"
      BY <1>0, <3>1, <3>2, RowsStatus DEF RecoverStale, Table
    <3>4. /\ \A s \in Repos \ S : jobs'[s] = jobs[s]
          /\ \A s \in Repos \cap S : jobs'[s].status \in {"pending", "dead_letter"}
      BY <3>1, <3>3
    <3>. QED
      BY <1>4, <3>2, <3>4
  <2>. QED
    BY <1>8, <2>1, <2>2, <2>3, <2>4 DEF DaemonStep, ReloadConfig, StartupCancel
<1>9. CASE UNCHANGED vars
  BY <1>1, <1>9 DEF vars
<1>. QED
  BY <1>6, <1>7, <1>8, <1>9 DEF Next

\* No event is lost: an event the queue has accepted stays pending, quarantined,
\* running under a claim taken after it, or marked for requeueing, through every
\* interleaving of workers, reaper, admin calls, reloads, crashes and restarts.
THEOREM EventsNeverLost == Spec => []NoLostEvent
<1>1. Init => Fencing /\ UniqueIds /\ NoLostEvent
  BY DEF Init, Fencing, TokensMinted, TokenNamesRow, NewestRuns, UniqueIds, Present,
         NoLostEvent, NoRow, Null, Settled, Waiting
<1>2. TypeOK /\ Fencing /\ UniqueIds /\ NoLostEvent /\ [Next]_vars
      => (Fencing /\ UniqueIds /\ NoLostEvent)'
  BY FencingStep, IdsStep, EventsStep
<1>. QED
  BY <1>1, <1>2, TypeCorrect, PTL DEF Spec

\* A task's outcome stays on its own repository's row, although fail and defer
\* select by row id and ids are handed out again after a dismissal.
THEOREM OutcomesHome == Spec => OutcomesStayHome
<1>1. Init => Fencing
  BY DEF Init, Fencing, TokensMinted, TokenNamesRow, NewestRuns, NoRow, Null
<1>2. TypeOK /\ Fencing /\ [Next]_vars => Fencing'
  BY FencingStep
<1>3. TypeOK /\ Fencing /\ [Next]_vars =>
         [\A c \in held : held' = held \ {c} =>
             \A r \in Repos \ {c.repo} : jobs'[r] = jobs[r]]_vars
  <2>. SUFFICES ASSUME TypeOK, Fencing, Next, NEW c \in held, held' = held \ {c},
                       NEW r \in Repos \ {c.repo}
                PROVE  jobs'[r] = jobs[r]
    OBVIOUS
  <2>0. jobs \in Table /\ held \subseteq Claims /\ held' # held
    BY DEF TypeOK, Table
  <2>1. \A d \in held : Fenced(jobs[r], d) => r = d.repo
    BY DEF Fencing, TokenNamesRow, Fenced
  <2>2. ASSUME NEW d \in held, WorkerStep(d) PROVE jobs'[r] = jobs[r]
    <3>1. d = c \/ LoseOutcome(d)
      BY <2>2 DEF WorkerStep, CompleteJob, CompleteOnly, FailJob, DeferJob, LoseOutcome
    <3>2. c.repo \in Repos /\ ~Fenced(jobs[r], c)
      BY <2>0, <2>1 DEF Claims
    <3>3. \A K \in [Repos -> Row] : RequeueIfStale(K, c.repo, now)[r] = K[r]
      BY <3>2 DEF RequeueIfStale
    <3>4. Complete(jobs, c) \in [Repos -> Row]
      BY <2>0, CompleteTame DEF TypeOK, TameTable, Table
    <3>5. Complete(jobs, c)[r] = jobs[r]
      BY <2>0, <3>2 DEF Complete
    <3>6. CASE CompleteJob(c) \/ CompleteOnly(c)
      BY <3>3, <3>4, <3>5, <3>6 DEF CompleteJob, CompleteOnly
    <3>7. ASSUME NEW poison \in BOOLEAN, FailJob(c, poison) PROVE jobs'[r] = jobs[r]
      BY <2>0, <3>2, <3>7 DEF FailJob, Fail
    <3>8. CASE DeferJob(c)
      BY <2>0, <3>2, <3>8 DEF DeferJob, Defer
    <3>9. CASE LoseOutcome(d)
      BY <3>9 DEF LoseOutcome
    <3>. QED
      BY <2>2, <3>1, <3>6, <3>7, <3>8, <3>9 DEF WorkerStep, LoseOutcome
  <2>3. ASSUME NEW s \in Repos, RepoStep(s) PROVE FALSE
    BY <2>0, <2>3 DEF RepoStep, Event, AddRepo, RemoveRepo, Claim, EnqueueDeclared,
       RetryDeadLetter, Dismiss
  <2>4. ASSUME DaemonStep PROVE jobs' = jobs
    BY <2>0, <2>4 DEF DaemonStep, StartDaemon, ReloadConfig, StartupCancel,
       RecoverAtStartup, ReloadDone, ReaperTick, Crash, Tick
  <2>. QED
    BY <2>2, <2>3, <2>4 DEF Next
<1>. QED
  BY <1>1, <1>2, <1>3, TypeCorrect, PTL DEF Spec, OutcomesStayHome

-----------------------------------------------------------------------------
(* Retries.                                                                *)

\* A row that may be claimed has an attempt left to spend.
BudgetLeft ==
    \A r \in Repos :
        /\ jobs[r].attempt <= MaxAttempts + spared[r]
        /\ jobs[r].status = "pending" => jobs[r].attempt < MaxAttempts + spared[r]

\* What each rewrite does to the attempt counter.
LEMMA RowsAttempt ==
    ASSUME NEW row \in Row, NEW t \in Nat
    PROVE  /\ NoRow.attempt = 0
           /\ \A n, priority : InsertedRow(n, priority, t).attempt = 0
           /\ \A priority :
                 ConflictRow(row, priority, t).attempt =
                     IF row.status \in {"pending", "running"} THEN row.attempt ELSE 0
           /\ \A n : ClaimedRow(row, n, t).attempt = row.attempt + 1
           /\ [row EXCEPT !.status = "succeeded"].attempt = row.attempt
           /\ IF row.status = "succeeded" /\ row.requeue = 1
              THEN RequeuedRow(row, t).attempt = 0 ELSE RequeuedRow(row, t) = row
           /\ \A poison : FailedRow(row, poison, t).attempt = row.attempt
           /\ DeferredRow(row, t).attempt = IF row.attempt = 0 THEN 0 ELSE row.attempt - 1
           /\ ReapedRow(row, t).attempt = row.attempt
           /\ RecoveredRow(row, t).attempt = row.attempt
           /\ CancelRow(row, t).attempt = row.attempt
           /\ ResetRow(row, t).attempt = 0
BY DEF Row, InsertedRow, NoRow, ConflictRow, ClaimedRow, RequeuedRow, FailedRow,
       DeferredRow, ReapedRow, RecoveredRow, CancelRow, ResetRow

\* A rewrite that spends nothing: the counter does not grow, and a row becomes
\* claimable only with an attempt left, or when a recovery is put on record.
Thrifty(old, new, recovered) ==
    /\ new.attempt <= old.attempt
    /\ new.status = "pending" =>
          old.status = "pending" \/ new.attempt < MaxAttempts \/ recovered

\* One step keeps the budget: only a claim spends, and it takes a pending row.
LEMMA BudgetStep ==
    ASSUME TypeOK, BudgetLeft, [Next]_vars
    PROVE  BudgetLeft'
<1>0. /\ jobs \in Table /\ held \subseteq Claims /\ now \in Nat /\ MaxAttempts \in Nat \ {0}
      /\ \A r \in Repos : jobs[r] \in Row /\ jobs[r].attempt \in Nat /\ spared[r] \in Nat
      /\ jobs' \in Table
      /\ \A r \in Repos : jobs'[r].attempt \in Nat
  BY JobConstants, TypeStep DEF TypeOK, Table, Row
<1>1. CASE UNCHANGED <<jobs, spared>>
  BY <1>1 DEF BudgetLeft
<1>2. ASSUME NEW S, Spare(S),
             \A r \in Repos : jobs'[r].attempt = 0 \/ Thrifty(jobs[r], jobs'[r], r \in S)
      PROVE  BudgetLeft'
  BY <1>0, <1>2 DEF BudgetLeft, Spare, Thrifty
<1>3. ASSUME NEW r \in Repos, NEW id, NEW priority, Spare({}),
             jobs' = Upsert(jobs, r, priority, id, now)
      PROVE  BudgetLeft'
  <2>1. \A s \in Repos \ {r} : jobs'[s] = jobs[s]
    BY <1>0, <1>3 DEF Upsert, Table
  <2>2. jobs'[r].attempt = 0 \/ Thrifty(jobs[r], jobs'[r], FALSE)
    BY <1>0, <1>3, RowsAttempt, RowsStatus DEF Upsert, Thrifty, Table
  <2>. QED
    BY <1>0, <1>2, <1>3, <2>1, <2>2 DEF Thrifty
<1>4. ASSUME NEW c \in held, WorkerStep(c) PROVE BudgetLeft'
  <2>0. c.repo \in Repos /\ c \in Claims
    BY <1>0 DEF Claims
  <2>. DEFINE K == Complete(jobs, c)
  <2>1. K \in Table /\ \A s \in Repos : /\ K[s].attempt = jobs[s].attempt
                                        /\ K[s] = jobs[s] \/ K[s].status = "succeeded"
    <3>1. K \in Table
      BY <1>0, <2>0, CompleteTame DEF TameTable
    <3>. QED
      BY <1>0, <3>1, RowsAttempt, RowsStatus DEF Complete
  <2>. HIDE DEF K
  <2>2. CASE CompleteJob(c)
    <3>1. jobs' = RequeueIfStale(K, c.repo, now) /\ Spare({})
      BY <2>2 DEF CompleteJob, K
    <3>2. \A s \in Repos : jobs'[s] = K[s] \/ jobs'[s].attempt = 0
      BY <1>0, <2>0, <2>1, <3>1, RowsAttempt DEF RequeueIfStale, Table
    <3>. QED
      BY <1>0, <1>2, <2>1, <3>1, <3>2 DEF Thrifty
  <2>3. CASE CompleteOnly(c)
    <3>1. jobs' = K /\ Spare({})
      BY <2>3 DEF CompleteOnly, K
    <3>. QED
      BY <1>0, <1>2, <2>1, <3>1 DEF Thrifty
  <2>4. ASSUME NEW poison \in BOOLEAN, FailJob(c, poison) PROVE BudgetLeft'
    <3>1. \A row \in Row : FailedRow(row, poison, now).status = "pending" =>
                              row.attempt < MaxAttempts
      BY <1>0 DEF FailedRow, Row
    <3>. QED
      BY <1>0, <1>2, <2>4, <3>1, RowsAttempt DEF FailJob, Fail, Thrifty
  <2>5. CASE DeferJob(c)
    <3>1. \A s \in Repos : Fenced(jobs[s], c) => /\ jobs'[s] = DeferredRow(jobs[s], now)
                                                /\ jobs[s].attempt <= MaxAttempts + spared[s]
      BY <1>0, <2>5 DEF DeferJob, Defer, BudgetLeft
    <3>2. \A s \in Repos : ~Fenced(jobs[s], c) => jobs'[s] = jobs[s]
      BY <1>0, <2>5 DEF DeferJob, Defer
    <3>3. \A s \in Repos : spared'[s] = IF jobs'[s].attempt = 0 THEN 0 ELSE spared[s]
      BY <2>5 DEF DeferJob, Spare
    <3>. QED
      BY <1>0, <3>1, <3>2, <3>3, RowsAttempt DEF BudgetLeft
  <2>6. CASE LoseOutcome(c)
    BY <1>1, <2>6 DEF LoseOutcome
  <2>. QED
    BY <1>4, <2>2, <2>3, <2>4, <2>5, <2>6 DEF WorkerStep
<1>5. ASSUME NEW r \in Repos, RepoStep(r) PROVE BudgetLeft'
  <2>1. CASE \/ \E priority \in EventPriorities : Event(r, priority)
             \/ AddRepo(r)
    BY <1>3, <2>1 DEF Event, AddRepo
  <2>2. CASE \E priority \in {Unindexed, Webhook} : EnqueueDeclared(r, priority)
    <3>1. CASE jobs' = jobs
      BY <1>0, <1>2, <2>2, <3>1 DEF EnqueueDeclared, Thrifty
    <3>. QED
      BY <1>3, <2>2, <3>1 DEF EnqueueDeclared, EnqueueDeclaredRepo
  <2>3. CASE RemoveRepo(r)
    BY <1>0, <1>2, <2>3, RowsAttempt, RowsStatus DEF RemoveRepo, CancelRepo, CancelRow,
       Thrifty, Table
  <2>4. CASE Claim(r)
    <3>1. /\ \A s \in Repos \ {r} : jobs'[s] = jobs[s]
          /\ jobs'[r].status = "running" /\ jobs'[r].attempt = jobs[r].attempt + 1
          /\ jobs[r].status = "pending"
      BY <1>0, <2>4, RowsStatus, RowsAttempt DEF Claim, ClaimNext, IsNextClaim, Claimable,
         Table
    <3>2. \A s \in Repos : spared'[s] = IF jobs'[s].attempt = 0 THEN 0 ELSE spared[s]
      BY <2>4 DEF Claim, Spare
    <3>. QED
      BY <1>0, <3>1, <3>2 DEF BudgetLeft
  <2>5. CASE RetryDeadLetter(r)
    BY <1>0, <1>2, <2>5, RowsAttempt DEF RetryDeadLetter, ResetDeadLetterById, Thrifty
  <2>6. CASE Dismiss(r)
    BY <1>0, <1>2, <2>6, RowsAttempt DEF Dismiss, DismissDeadLetter, Thrifty
  <2>. QED
    BY <1>5, <2>1, <2>2, <2>3, <2>4, <2>5, <2>6 DEF RepoStep
<1>6. ASSUME DaemonStep PROVE BudgetLeft'
  <2>1. CASE \/ \E config, need \in SUBSET Repos : StartDaemon(config, need)
             \/ ReloadDone \/ Crash \/ Tick
    BY <1>1, <2>1 DEF StartDaemon, ReloadDone, Crash, Tick
  <2>2. ASSUME NEW keep, jobs' = CancelReposNotIn(jobs, keep, now), Spare({})
        PROVE  BudgetLeft'
    BY <1>0, <1>2, <2>2, RowsAttempt, RowsStatus DEF CancelReposNotIn, Thrifty
  <2>3. CASE RecoverAtStartup
    BY <1>0, <1>2, <2>3, RowsAttempt DEF RecoverAtStartup, RecoverAllRunningAtStartup, Thrifty
  <2>4. CASE ReaperTick
    <3>. DEFINE K == ReapExpiredLeases(jobs, now)
                stale == {r \in Repos : Stale(K[r], now)}
    <3>0. \A row \in Row : ReapedRow(row, now).status = "pending" => row.attempt < MaxAttempts
      BY <1>0 DEF ReapedRow, Row
    <3>1. /\ \A s \in Repos : /\ K[s].attempt = jobs[s].attempt
                              /\ K[s].status = "pending" =>
                                    \/ jobs[s].status = "pending"
                                    \/ K[s].attempt < MaxAttempts
          /\ K \in Table
      <4>1. K \in Table
        BY <1>0, RecoverTame DEF TameTable
      <4>2. \A row \in Row : ReapedRow(row, now).attempt = row.attempt
        BY <1>0, RowsAttempt
      <4>3. ASSUME NEW s \in Repos
            PROVE  K[s] = jobs[s] \/ K[s] = ReapedRow(jobs[s], now)
        BY DEF ReapExpiredLeases
      <4>. QED
        BY <1>0, <3>0, <4>1, <4>2, <4>3
    <3>2. jobs' = RecoverStale(K, now) /\ Spare(stale)
      BY <2>4 DEF ReaperTick
    <3>3. /\ \A s \in Repos : ~Stale(K[s], now) => jobs'[s] = K[s]
          /\ \A s \in Repos : jobs'[s].attempt = K[s].attempt
      BY <1>0, <3>1, <3>2, RowsAttempt DEF RecoverStale, Table
    <3>. QED
      BY <1>0, <1>2, <3>1, <3>2, <3>3 DEF Thrifty
  <2>. QED
    BY <1>6, <2>1, <2>2, <2>3, <2>4 DEF DaemonStep, ReloadConfig, StartupCancel
<1>7. CASE UNCHANGED vars
  BY <1>1, <1>7 DEF vars
<1>. QED
  BY <1>4, <1>5, <1>6, <1>7 DEF Next

\* The retry budget: attempt never exceeds max_attempts by more than the number
\* of recoveries that skip the cap, for every max_attempts.
THEOREM RetriesBudgeted == Spec => []RetryBudget
<1>1. ASSUME Init PROVE BudgetLeft
  <2>1. MaxAttempts \in Nat \ {0}
    BY JobConstants
  <2>2. NoRow.attempt = 0 /\ NoRow.status = "absent"
    BY DEF NoRow
  <2>3. \A r \in Repos : jobs[r] = NoRow /\ spared[r] = 0
    BY <1>1 DEF Init
  <2>4. \A r \in Repos : jobs[r].attempt = 0 /\ spared[r] = 0
    BY <2>2, <2>3
  <2>5. 0 < MaxAttempts + 0 /\ 0 <= MaxAttempts + 0
    BY <2>1
  <2>. QED
    BY <2>4, <2>5 DEF BudgetLeft
<1>2. TypeOK /\ BudgetLeft /\ [Next]_vars => BudgetLeft'
  BY BudgetStep
<1>3. BudgetLeft => RetryBudget
  BY DEF BudgetLeft, RetryBudget
<1>. QED
  BY <1>1, <1>2, <1>3, TypeCorrect, PTL DEF Spec

-----------------------------------------------------------------------------
(* Quarantine.                                                             *)

\* What may release the row of r (QuarantineHolds).
Released(r) ==
    \/ jobs'[r].status = "cancelled" /\ r \notin declared'
    \/ \E priority \in EventPriorities : Event(r, priority)
    \/ AddRepo(r) \/ RetryDeadLetter(r) \/ Dismiss(r)

\* One step of the queue releases a quarantined row only in these ways.
LEMMA QuarantineStep ==
    ASSUME TypeOK, UniqueIds, Next,
           NEW r \in Repos, jobs[r].status = "dead_letter", jobs'[r].status # "dead_letter"
    PROVE  Released(r)
<1>0. /\ jobs \in Table /\ held \subseteq Claims /\ now \in Nat
      /\ \A s \in Repos : jobs[s] \in Row
  BY DEF TypeOK, Table
<1>1. ASSUME NEW c \in held, WorkerStep(c) PROVE FALSE
  <2>0. ~Fenced(jobs[r], c) /\ c.repo \in Repos
    BY <1>0 DEF Fenced, Claims
  <2>1. Complete(jobs, c) \in Table /\ Complete(jobs, c)[r] = jobs[r]
    BY <1>0, <2>0, CompleteTame DEF TameTable, Complete
  <2>2. RequeuedRow(jobs[r], now) = jobs[r]
    BY <1>0, RowsStatus
  <2>3. RequeueIfStale(Complete(jobs, c), c.repo, now)[r] = jobs[r]
    BY <2>0, <2>1, <2>2 DEF RequeueIfStale, Table
  <2>. QED
    BY <1>1, <2>0, <2>1, <2>3 DEF WorkerStep, CompleteJob, CompleteOnly, FailJob, Fail,
       DeferJob, Defer, LoseOutcome
<1>2. ASSUME NEW s \in Repos, RepoStep(s) PROVE Released(r)
  <2>1. CASE \E priority \in EventPriorities : Event(s, priority)
    BY <1>0, <2>1 DEF Event, Upsert, Table, Released
  <2>2. CASE AddRepo(s)
    BY <1>0, <2>2 DEF AddRepo, Upsert, Table, Released
  <2>3. CASE RemoveRepo(s)
    BY <1>0, <2>3, RowsStatus DEF RemoveRepo, CancelRepo, Table, Released
  <2>4. CASE Claim(s)
    BY <1>0, <2>4 DEF Claim, ClaimNext, IsNextClaim, Claimable, Table
  <2>5. CASE \E priority \in {Unindexed, Webhook} : EnqueueDeclared(s, priority)
    BY <1>0, <2>5 DEF EnqueueDeclared, EnqueueDeclaredRepo, Upsert, Table
  <2>6. CASE RetryDeadLetter(s)
    <3>1. r = s
      BY <1>0, <2>6 DEF RetryDeadLetter, ResetDeadLetterById, UniqueIds, Present
    <3>. QED
      BY <2>6, <3>1 DEF Released
  <2>7. CASE Dismiss(s)
    <3>1. r = s
      BY <1>0, <2>7 DEF Dismiss, DismissDeadLetter, UniqueIds, Present
    <3>. QED
      BY <2>7, <3>1 DEF Released
  <2>. QED
    BY <1>2, <2>1, <2>2, <2>3, <2>4, <2>5, <2>6, <2>7 DEF RepoStep
<1>3. ASSUME DaemonStep PROVE Released(r)
  <2>1. ASSUME NEW keep, jobs' = CancelReposNotIn(jobs, keep, now), declared' = keep
        PROVE  Released(r)
    BY <1>0, <2>1, RowsStatus DEF CancelReposNotIn, Released
  <2>2. CASE RecoverAtStartup \/ ReaperTick
    BY <1>0, <2>2 DEF RecoverAtStartup, RecoverAllRunningAtStartup, ReaperTick, RecoverStale,
       ReapExpiredLeases, Expired, Stale
  <2>3. CASE jobs' = jobs
    BY <2>3
  <2>4. \A config, need \in SUBSET Repos : ReloadConfig(config, need) => Released(r)
    BY <2>1 DEF ReloadConfig
  <2>5. StartupCancel => Released(r)
    BY <2>1 DEF StartupCancel
  <2>. QED
    BY <1>3, <2>2, <2>3, <2>4, <2>5 DEF DaemonStep, StartDaemon, ReloadDone, Crash, Tick
<1>. QED
  BY <1>1, <1>2, <1>3 DEF Next

\* Quarantine holds: startup, reload, the reaper, recovery and workers with old
\* claims never release a dead-lettered repository that is still declared.
THEOREM QuarantineKept == Spec => QuarantineHolds
<1>1. Init => UniqueIds
  BY DEF Init, UniqueIds, Present, NoRow
<1>2. TypeOK /\ UniqueIds /\ [Next]_vars => UniqueIds'
  BY IdsStep
<1>3. TypeOK /\ UniqueIds /\ [Next]_vars =>
        [\A r \in Repos :
          (jobs[r].status = "dead_letter" /\ jobs'[r].status # "dead_letter") =>
              \/ jobs'[r].status = "cancelled" /\ r \notin declared'
              \/ \E priority \in EventPriorities : Event(r, priority)
              \/ AddRepo(r) \/ RetryDeadLetter(r) \/ Dismiss(r)]_vars
  BY QuarantineStep DEF Released
<1>. QED
  BY <1>1, <1>2, <1>3, TypeCorrect, PTL DEF Spec, QuarantineHolds

=============================================================================
