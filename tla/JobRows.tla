------------------------------- MODULE JobRows -------------------------------
(***************************************************************************)
(* The durable index-job table of nestweaver-engine/src/jobs.rs, one       *)
(* operator per SQL statement.  `jobs` maps every repository to its row:   *)
(* UNIQUE(repo_id) makes that a function; status "absent" means no row.    *)
(* Integer columns that may be NULL use 0 for NULL (clock and tokens start *)
(* at 1).  Every operator takes the clock reading strftime('%s','now').    *)
(*                                                                         *)
(* Left out: trigger and error_msg (derived from priority or free text),   *)
(* completed_at (metrics), created_at (breaks ties inside one priority     *)
(* tier: a claim may take any row of the best tier here) and branch (the   *)
(* worker overrides it from the runtime configuration, worker.rs           *)
(* preparation_job).  The status "failed" is never written by the code.    *)
(***************************************************************************)
EXTENDS Integers

CONSTANTS
    Repos,        \* canonical repository ids
    Ids,          \* row ids SQLite may hand out
    MaxAttempts,  \* index_jobs.max_attempts
    LeaseSecs,    \* DEFAULT_LEASE_SECS
    StaleSecs,    \* STALE_RECOVERY_SECS
    Debounce      \* debounce_secs passed by the worker loop

ASSUME JobConstants ==
    /\ Ids \subseteq Nat
    /\ MaxAttempts \in Nat \ {0}
    /\ LeaseSecs \in Nat \ {0}
    /\ StaleSecs = LeaseSecs
    /\ Debounce \in Nat

Null == 0

\* JobTrigger::priority, lower is claimed first.
Unindexed == 0
Webhook == 1
Poll == 2
Scheduled == 3
Retry == 4

Priorities == Unindexed .. Retry

JobStatus ==
    {"absent", "pending", "running", "succeeded", "dead_letter", "cancelled"}

Row ==
    [id : Nat, status : JobStatus, priority : Priorities, attempt : Nat,
     requeue : {0, 1}, token : Nat, lease : Nat, started : Nat, updated : Nat]

NoRow ==
    [id |-> Null, status |-> "absent", priority |-> Scheduled, attempt |-> 0,
     requeue |-> 0, token |-> Null, lease |-> Null, started |-> Null,
     updated |-> Null]

Present(row) == row.status # "absent"

\* INTEGER PRIMARY KEY without AUTOINCREMENT: one past the largest id in the
\* table, so deleting the last row makes its id available again.
IsNextId(jobs, id) ==
    /\ \A r \in Repos : Present(jobs[r]) => jobs[r].id < id
    /\ id = 1 \/ \E r \in Repos : Present(jobs[r]) /\ jobs[r].id = id - 1

Lesser(a, b) == IF a < b THEN a ELSE b

InsertedRow(id, priority, now) ==
    [NoRow EXCEPT !.id = id, !.status = "pending", !.priority = priority,
                  !.updated = now]

\* Mutant: an event for a running row leaves no mark.
ConflictRowUnmarked(row, priority, now) ==
    [row EXCEPT !.status = IF @ = "running" THEN @ ELSE "pending",
                !.attempt = IF row.status \in {"pending", "running"} THEN @ ELSE 0,
                !.updated = now]

ConflictRow(row, priority, now) ==
    LET live == row.status \in {"pending", "running"} IN
    [row EXCEPT
        !.priority = IF live THEN Lesser(priority, @) ELSE priority,
        !.status   = IF @ = "running" THEN @ ELSE "pending",
        !.attempt  = IF live THEN @ ELSE 0,
        !.requeue  = IF row.status = "running" THEN 1 ELSE @,
        !.updated  = now]

Upsert(jobs, r, priority, id, now) ==
    [jobs EXCEPT ![r] = IF Present(@) THEN ConflictRow(@, priority, now)
                                      ELSE InsertedRow(id, priority, now)]

\* The WHERE and ORDER BY of claim_next: debounced pending rows, best tier.
Claimable(row, now) == row.status = "pending" /\ row.updated + Debounce <= now

IsNextClaim(jobs, r, now) ==
    /\ Claimable(jobs[r], now)
    /\ \A s \in Repos : Claimable(jobs[s], now) =>
                            jobs[r].priority <= jobs[s].priority

ClaimedRow(row, token, now) ==
    [row EXCEPT !.status = "running", !.started = now, !.attempt = @ + 1,
                !.requeue = 0, !.token = token, !.lease = now + LeaseSecs,
                !.updated = now]

ClaimNext(jobs, r, token, now) == [jobs EXCEPT ![r] = ClaimedRow(@, token, now)]

\* What a worker keeps of the row it claimed: id, repo_id and claimed_by.
ClaimOf(jobs, r, token) == [repo |-> r, id |-> jobs[r].id, token |-> token]

\* Mutant: fenced by the row id alone, as job_is_active is.
FencedById(row, claim) == row.status = "running" /\ row.id = claim.id

\* id = ?1 AND status = 'running' AND claimed_by IS ?3
Fenced(row, claim) ==
    row.status = "running" /\ row.id = claim.id /\ row.token = claim.token

ClaimIsActive(jobs, claim) == Fenced(jobs[claim.repo], claim)

\* Mutant: completes whatever claim is running.
CompleteUnfenced(jobs, claim) ==
    [jobs EXCEPT ![claim.repo].status = IF @ = "running" THEN "succeeded" ELSE @]

Complete(jobs, claim) ==
    [r \in Repos |->
        IF r = claim.repo /\ Fenced(jobs[r], claim)
        THEN [jobs[r] EXCEPT !.status = "succeeded"]
        ELSE jobs[r]]

\* Keyed by repo_id only: no fencing token.
RequeuedRow(row, now) ==
    IF row.status = "succeeded" /\ row.requeue = 1
    THEN [row EXCEPT !.status = "pending", !.attempt = 0, !.requeue = 0,
                     !.updated = now]
    ELSE row

RequeueIfStale(jobs, repo, now) == [jobs EXCEPT ![repo] = RequeuedRow(@, now)]

\* Mutants: a retry is written as 'failed', which no query selects; one retry
\* more than max_attempts allows.
FailedRowAsFailed(row, poison, now) ==
    [row EXCEPT !.status = IF poison THEN "dead_letter" ELSE "failed"]

FailedRowLate(row, poison, now) ==
    [row EXCEPT !.status = IF poison \/ row.attempt > MaxAttempts
                           THEN "dead_letter" ELSE "pending",
                !.updated = now]

FailedRow(row, poison, now) ==
    IF poison \/ row.attempt >= MaxAttempts
    THEN [row EXCEPT !.status = "dead_letter", !.updated = now]
    ELSE [row EXCEPT !.status = "pending", !.priority = Retry, !.updated = now]

\* Keyed by row id and token, not by repo_id.
Fail(jobs, claim, poison, now) ==
    [r \in Repos |-> IF Fenced(jobs[r], claim) THEN FailedRow(jobs[r], poison, now)
                                               ELSE jobs[r]]

DeferredRow(row, now) ==
    [row EXCEPT !.status = "pending", !.attempt = IF @ = 0 THEN 0 ELSE @ - 1,
                !.token = Null, !.lease = Null, !.started = Null, !.updated = now]

Defer(jobs, claim, now) ==
    [r \in Repos |-> IF Fenced(jobs[r], claim) THEN DeferredRow(jobs[r], now)
                                               ELSE jobs[r]]

Expired(row, now) ==
    row.status = "running" /\ row.lease # Null /\ row.lease < now

ReapedRow(row, now) ==
    LET spent == row.attempt >= MaxAttempts IN
    [row EXCEPT !.status = IF spent THEN "dead_letter" ELSE "pending",
                !.started = IF spent THEN @ ELSE Null,
                !.token = Null, !.lease = Null, !.updated = now]

ReapExpiredLeases(jobs, now) ==
    [r \in Repos |-> IF Expired(jobs[r], now) THEN ReapedRow(jobs[r], now)
                                              ELSE jobs[r]]

Stale(row, now) ==
    row.status = "running" /\ row.started # Null
        /\ row.started + StaleSecs <= now

RecoveredRow(row, now) ==
    [row EXCEPT !.status = "pending", !.started = Null, !.updated = now]

RecoverStale(jobs, now) ==
    [r \in Repos |-> IF Stale(jobs[r], now) THEN RecoveredRow(jobs[r], now)
                                            ELSE jobs[r]]

\* Mutant: running rows are left to the reaper.
RecoverNothing(jobs, now) == jobs

RecoverAllRunningAtStartup(jobs, now) ==
    [r \in Repos |-> IF jobs[r].status = "running"
                     THEN RecoveredRow(jobs[r], now) ELSE jobs[r]]

CancelRow(row, now) ==
    IF row.status \in {"absent", "cancelled"} THEN row
    ELSE [row EXCEPT !.status = "cancelled", !.updated = now]

CancelRepo(jobs, r, now) == [jobs EXCEPT ![r] = CancelRow(@, now)]

CancelReposNotIn(jobs, keep, now) ==
    [r \in Repos |->
        IF r \notin keep /\ jobs[r].status \in {"pending", "running", "dead_letter"}
        THEN CancelRow(jobs[r], now)
        ELSE jobs[r]]

\* Mutant: quarantine is not consulted.
EnqueueAnyRepo(jobs, r, priority, id, now) == Upsert(jobs, r, priority, id, now)

EnqueueDeclaredRepo(jobs, r, priority, id, now) ==
    IF jobs[r].status = "dead_letter" THEN jobs
    ELSE Upsert(jobs, r, priority, id, now)

ResetRow(row, now) ==
    [row EXCEPT !.status = "pending", !.attempt = 0, !.started = Null,
                !.updated = now]

ResetDeadLetterById(jobs, id, now) ==
    [r \in Repos |->
        IF jobs[r].id = id /\ jobs[r].status = "dead_letter"
        THEN ResetRow(jobs[r], now) ELSE jobs[r]]

DismissDeadLetter(jobs, id) ==
    [r \in Repos |->
        IF jobs[r].id = id /\ jobs[r].status = "dead_letter"
        THEN NoRow ELSE jobs[r]]

=============================================================================
