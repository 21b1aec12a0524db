------------------------------ MODULE JobQueue -------------------------------
(***************************************************************************)
(* The life of the durable index-job queue: the statements of JobRows      *)
(* issued by the worker tasks, the lease reaper, webhooks and polls, the   *)
(* admin handlers, config reload and daemon startup, with crashes between  *)
(* any two autocommitted statements.                                       *)
(*                                                                         *)
(* One std::sync::Mutex guards the connection, so a statement sequence     *)
(* issued under one guard is one action, except that a crash may cut it;   *)
(* the enqueue loops of startup and reload, which hold the guard for their *)
(* whole duration, are phases during which nobody else touches the table.  *)
(***************************************************************************)
EXTENDS JobRows, FiniteSets

CONSTANTS
    Workers,         \* permits of the worker pool's semaphore
    EventPriorities, \* triggers of outside events: webhook, poll
    MaxNow,          \* bound on the clock
    MaxTokens        \* bound on the number of claims

ASSUME QueueBounds ==
    /\ EventPriorities \subseteq Priorities
    /\ Workers \in Nat /\ MaxNow \in Nat \ {0} /\ MaxTokens \in Nat

VARIABLES
    jobs,      \* the table index_jobs
    now,       \* wall clock, seconds
    minted,    \* fencing tokens minted so far (randomblob: never repeated)
    held,      \* claims owned by live worker tasks; lost in a crash
    phase,     \* where the daemon is, and who holds the queue mutex
    declared,  \* repositories of the instance config
    todo,      \* repositories the enqueue loop has still to visit
    owed,      \* history: Settled, Waiting, or the token of the claim that took
               \* the newest event of the repository
    spared     \* history: recoveries without a cap check since attempt was 0

vars == <<jobs, now, minted, held, phase, declared, todo, owed, spared>>

Phases == {"down", "startup", "boot", "up", "reload"}
Claims == [repo : Repos, id : Nat, token : Nat]

Settled == 0
Waiting == -1

TypeOK ==
    /\ jobs \in [Repos -> Row]
    /\ now \in Nat \ {0}
    /\ minted \in Nat
    /\ held \subseteq Claims
    /\ phase \in Phases
    /\ declared \subseteq Repos
    /\ todo \subseteq Repos
    /\ owed \in [Repos -> Nat \cup {Waiting}]
    /\ spared \in [Repos -> Nat]

Init ==
    /\ jobs = [r \in Repos |-> NoRow]
    /\ now = 1
    /\ minted = 0
    /\ held = {}
    /\ phase = "down"
    /\ declared = {}
    /\ todo = {}
    /\ owed = [r \in Repos |-> Settled]
    /\ spared = [r \in Repos |-> 0]

-----------------------------------------------------------------------------
(* History bookkeeping: what each step means for the events of a repo.     *)

Owe(r) == owed' = [owed EXCEPT ![r] = Waiting]

\* The claim with this token gave its work back.
GiveBack(token) ==
    owed' = [r \in Repos |-> IF owed[r] = token THEN Waiting ELSE owed[r]]

\* The rows of S were taken from whoever ran them.
GiveBackAll(S) ==
    owed' = [r \in Repos |-> IF r \in S /\ owed[r] > 0 THEN Waiting ELSE owed[r]]

\* The rows of S were cancelled or deleted on purpose.
Forget(S) == owed' = [r \in Repos |-> IF r \in S THEN Settled ELSE owed[r]]

Spare(S) ==
    spared' = [r \in Repos |-> IF jobs'[r].attempt = 0 THEN 0
                               ELSE IF r \in S THEN spared[r] + 1 ELSE spared[r]]

QueueFree == phase \in {"boot", "up"}

-----------------------------------------------------------------------------
(* Events.                                                                 *)

\* A webhook, an admin reindex (priority webhook) or a poll that saw a new sha.
Event(r, priority) ==
    /\ QueueFree
    /\ \E id \in Ids : /\ IsNextId(jobs, id)
                       /\ jobs' = Upsert(jobs, r, priority, id, now)
    /\ Owe(r) /\ Spare({})
    /\ UNCHANGED <<now, minted, held, phase, declared, todo>>

\* POST /admin/api/repos
AddRepo(r) ==
    /\ QueueFree
    /\ \E id \in Ids : /\ IsNextId(jobs, id)
                       /\ jobs' = Upsert(jobs, r, Unindexed, id, now)
    /\ declared' = declared \cup {r}
    /\ Owe(r) /\ Spare({})
    /\ UNCHANGED <<now, minted, held, phase, todo>>

\* DELETE /admin/api/repos/:id
RemoveRepo(r) ==
    /\ QueueFree
    /\ jobs' = CancelRepo(jobs, r, now)
    /\ declared' = declared \ {r}
    /\ Forget({r}) /\ Spare({})
    /\ UNCHANGED <<now, minted, held, phase, todo>>

-----------------------------------------------------------------------------
(* Workers.                                                                *)

Claim(r) ==
    /\ phase = "up"
    /\ Cardinality(held) < Workers
    /\ minted < MaxTokens
    /\ IsNextClaim(jobs, r, now)
    /\ minted' = minted + 1
    /\ jobs' = ClaimNext(jobs, r, minted', now)
    /\ held' = held \cup {ClaimOf(jobs, r, minted')}
    /\ owed' = [owed EXCEPT ![r] = minted']
    /\ Spare({})
    /\ UNCHANGED <<now, phase, declared, todo>>

\* Ok(()) or JobCancelled: complete, then requeue_if_stale, under one guard.
CompleteJob(c) ==
    /\ phase = "up" /\ c \in held
    /\ jobs' = RequeueIfStale(Complete(jobs, c), c.repo, now)
    /\ held' = held \ {c}
    /\ owed' = [owed EXCEPT ![c.repo] = IF @ = c.token THEN Settled ELSE @]
    /\ Spare({})
    /\ UNCHANGED <<now, minted, phase, declared, todo>>

\* requeue_if_stale did not take place: the daemon died between the two
\* statements, or the second failed and its error was ignored.
CompleteOnly(c) ==
    /\ phase = "up" /\ c \in held
    /\ jobs' = Complete(jobs, c)
    /\ owed' = [owed EXCEPT ![c.repo] = IF @ = c.token THEN Settled ELSE @]
    /\ Spare({})
    /\ \/ held' = {} /\ phase' = "down"
       \/ held' = held \ {c} /\ UNCHANGED phase
    /\ UNCHANGED <<now, minted, declared, todo>>

\* An error or a panic of the task.
FailJob(c, poison) ==
    /\ phase = "up" /\ c \in held
    /\ jobs' = Fail(jobs, c, poison, now)
    /\ held' = held \ {c}
    /\ GiveBack(c.token) /\ Spare({})
    /\ UNCHANGED <<now, minted, phase, declared, todo>>

\* The circuit breaker refused the fetch.
DeferJob(c) ==
    /\ phase = "up" /\ c \in held
    /\ jobs' = Defer(jobs, c, now)
    /\ held' = held \ {c}
    /\ GiveBack(c.token) /\ Spare({})
    /\ UNCHANGED <<now, minted, phase, declared, todo>>

\* `let _ = q.complete(..)`: the outcome statement failed and was ignored.
LoseOutcome(c) ==
    /\ phase = "up" /\ c \in held
    /\ held' = held \ {c}
    /\ UNCHANGED <<jobs, now, minted, phase, declared, todo, owed, spared>>

-----------------------------------------------------------------------------
(* The lease reaper's tick: both statements under one guard.               *)

ReaperTick ==
    LET reaped == ReapExpiredLeases(jobs, now)
        stale  == {r \in Repos : Stale(reaped[r], now)} IN
    /\ QueueFree
    /\ jobs' = RecoverStale(reaped, now)
    /\ jobs' # jobs
    /\ GiveBackAll(stale \cup {r \in Repos : Expired(jobs[r], now)})
    /\ Spare(stale)
    /\ UNCHANGED <<now, minted, held, phase, declared, todo>>

-----------------------------------------------------------------------------
(* Startup, reload and crash.                                              *)

\* The queue is opened and the config file read; it may have been edited while
\* the daemon was down.  `need` are the declared repos without an indexed sha.
StartDaemon(config, need) ==
    /\ phase = "down"
    /\ need \subseteq config
    /\ declared' = config
    /\ todo' = need
    /\ phase' = "startup"
    /\ UNCHANGED <<jobs, now, minted, held, owed, spared>>

\* One turn of the enqueue loop of startup or reload.
EnqueueDeclared(r, priority) ==
    /\ phase \in {"startup", "reload"}
    /\ r \in todo
    /\ priority = Unindexed \/ phase = "reload"
    /\ todo' = todo \ {r}
    /\ \E id \in Ids : /\ IsNextId(jobs, id)
                       /\ jobs' = EnqueueDeclaredRepo(jobs, r, priority, id, now)
    /\ IF jobs[r].status = "dead_letter" THEN UNCHANGED owed ELSE Owe(r)
    /\ Spare({})
    /\ UNCHANGED <<now, minted, held, phase, declared>>

\* Startup cancels after the loop ...
StartupCancel ==
    /\ phase = "startup" /\ todo = {}
    /\ jobs' = CancelReposNotIn(jobs, declared, now)
    /\ Forget({r \in Repos \ declared : jobs[r].status # "succeeded"}) /\ Spare({})
    /\ phase' = "boot"
    /\ UNCHANGED <<now, minted, held, declared, todo>>

\* ... and the spawned worker task recovers every running row before it claims.
RecoverAtStartup ==
    LET orphans == {r \in Repos : jobs[r].status = "running"} IN
    /\ phase = "boot"
    /\ jobs' = RecoverAllRunningAtStartup(jobs, now)
    /\ GiveBackAll(orphans) /\ Spare(orphans)
    /\ phase' = "up"
    /\ UNCHANGED <<now, minted, held, declared, todo>>

\* Reload cancels first, then visits the repos that are new, dead-lettered, or
\* whose branch or settings changed (`need`).
ReloadConfig(config, need) ==
    /\ phase = "up"
    /\ need \subseteq config
    /\ {r \in config : jobs[r].status = "dead_letter"} \subseteq need
    /\ declared' = config
    /\ todo' = need
    /\ jobs' = CancelReposNotIn(jobs, config, now)
    /\ Forget({r \in Repos \ config : jobs[r].status # "succeeded"}) /\ Spare({})
    /\ phase' = "reload"
    /\ UNCHANGED <<now, minted, held>>

ReloadDone ==
    /\ phase = "reload" /\ todo = {}
    /\ phase' = "up"
    /\ UNCHANGED <<jobs, now, minted, held, declared, todo, owed, spared>>

Crash ==
    /\ phase # "down"
    /\ phase' = "down" /\ held' = {} /\ todo' = {}
    /\ UNCHANGED <<jobs, now, minted, declared, owed, spared>>

-----------------------------------------------------------------------------
(* Dead-letter administration, by row id.                                  *)

RetryDeadLetter(r) ==
    /\ QueueFree
    /\ jobs[r].status = "dead_letter"
    /\ jobs' = ResetDeadLetterById(jobs, jobs[r].id, now)
    /\ Owe(r) /\ Spare({})
    /\ UNCHANGED <<now, minted, held, phase, declared, todo>>

Dismiss(r) ==
    /\ QueueFree
    /\ jobs[r].status = "dead_letter"
    /\ jobs' = DismissDeadLetter(jobs, jobs[r].id)
    /\ Forget({r}) /\ Spare({})
    /\ UNCHANGED <<now, minted, held, phase, declared, todo>>

Tick ==
    /\ now < MaxNow
    /\ now' = now + 1
    /\ UNCHANGED <<jobs, minted, held, phase, declared, todo, owed, spared>>

-----------------------------------------------------------------------------
WorkerStep(c) ==
    \/ CompleteJob(c)
    \/ CompleteOnly(c)
    \/ \E poison \in BOOLEAN : FailJob(c, poison)
    \/ DeferJob(c)
    \/ LoseOutcome(c)

RepoStep(r) ==
    \/ \E priority \in EventPriorities : Event(r, priority)
    \/ AddRepo(r)
    \/ RemoveRepo(r)
    \/ Claim(r)
    \/ \E priority \in {Unindexed, Webhook} : EnqueueDeclared(r, priority)
    \/ RetryDeadLetter(r)
    \/ Dismiss(r)

DaemonStep ==
    \/ \E config \in SUBSET Repos, need \in SUBSET Repos :
            StartDaemon(config, need) \/ ReloadConfig(config, need)
    \/ StartupCancel
    \/ RecoverAtStartup
    \/ ReloadDone
    \/ ReaperTick
    \/ Crash
    \/ Tick

Next ==
    \/ \E c \in held : WorkerStep(c)
    \/ \E r \in Repos : RepoStep(r)
    \/ DaemonStep

Spec == Init /\ [][Next]_vars

-----------------------------------------------------------------------------
(* Correctness.                                                            *)

\* An event accepted for a repository is never lost: until a claim taken after
\* it has completed, the row is pending, quarantined, or running; if it runs
\* under an older claim, or was completed by one without the requeue, the
\* requeue_needed mark is on disk (upsert, complete, requeue_if_stale, reap,
\* recover and fail together).
NoLostEvent ==
    \A r \in Repos :
        /\ owed[r] = Waiting =>
              \/ jobs[r].status \in {"pending", "dead_letter"}
              \/ jobs[r].status \in {"running", "succeeded"} /\ jobs[r].requeue = 1
        /\ owed[r] > 0 => jobs[r].status = "running" /\ jobs[r].token = owed[r]

\* The fence of claim_is_active admits at most the newest claim of a repository,
\* whatever was reaped, recovered, cancelled, re-added or dismissed and
\* re-inserted under a reused row id in between.
OnlyNewestClaimActive ==
    \A c, d \in held :
        (c.repo = d.repo /\ ClaimIsActive(jobs, c)) => d.token <= c.token

\* A task's outcome changes no row but that of the repository it was claimed
\* for, although fail and defer find the row by id, and a dismissed row's id is
\* handed out again.
OutcomesStayHome ==
    [][\A c \in held : held' = held \ {c} =>
          \A r \in Repos \ {c.repo} : jobs'[r] = jobs[r]]_vars

\* The retry budget: attempt exceeds max_attempts only by the recoveries that
\* do not check the cap (recover_stale and recovery at startup).
RetryBudget ==
    \A r \in Repos : jobs[r].attempt <= MaxAttempts + spared[r]

\* A dead-lettered repository leaves quarantine only by a fresh event, by an
\* admin decision on its row, or because the config no longer declares it:
\* never by startup, reload, the reaper, recovery or a worker that kept an old
\* claim (enqueue_declared_repo; the status guards of complete, fail and defer).
QuarantineHolds ==
    [][\A r \in Repos :
          (jobs[r].status = "dead_letter" /\ jobs'[r].status # "dead_letter") =>
              \/ jobs'[r].status = "cancelled" /\ r \notin declared'
              \/ \E priority \in EventPriorities : Event(r, priority)
              \/ AddRepo(r) \/ RetryDeadLetter(r) \/ Dismiss(r)]_vars

=============================================================================
