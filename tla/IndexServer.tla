----------------------------- MODULE IndexServer -----------------------------
(***************************************************************************)
(* Server-mode indexing end to end: worker tasks (worker.rs), the job      *)
(* table (JobRows), the write gate, the graph store, the runtime config    *)
(* map and the config file, and the admin handlers that add, remove and    *)
(* reload repositories.                                                    *)
(*                                                                         *)
(* A task reads the config, the remote, the graph and its claim at         *)
(* different moments and only then queues for the write gate; the admin    *)
(* handlers hold the gate for their whole run but change the table, the    *)
(* file, the map and the graph one after the other, and the daemon may die *)
(* between any two of those.  Here time is not counted: a lease may expire *)
(* whenever MaxLate allows (JobQueue has the clock).                       *)
(***************************************************************************)
EXTENDS JobRows, FiniteSets

CONSTANTS
    Workers,    \* concurrently running tasks
    Tokens,     \* fencing tokens
    RowId,      \* Repos -> Nat; no row is deleted here, so ids stay put
    Policies,   \* indexing settings (exclude/unskip, branch) of a code repo
    Absent,     \* not configured / not indexed
    Free, Admin,\* gate holders besides the workers
    MaxSha,     \* commits of each remote, 1..MaxSha, a linear history
    Blob,       \* commit -> content of a file at that commit
    MaxLate,    \* leases that expire under a live task
    MaxCrash,   \* daemon crashes
    MaxFail,    \* failed, panicked or refused fetches and indexes
    MaxAdmin    \* admin operations and edits of the config file

ASSUME ServerConstants ==
    /\ Repos # {} /\ Workers # {} /\ Policies # {} /\ MaxSha \in Nat \ {0}
    /\ Tokens \subseteq Nat \ {0}
    /\ RowId \in [Repos -> Nat \ {0}]
    /\ {Free, Admin} \cap Workers = {} /\ Free # Admin
    /\ Absent \notin Policies
    /\ Debounce = 0
    /\ {MaxLate, MaxCrash, MaxFail, MaxAdmin} \subseteq Nat

VARIABLES
    jobs,     \* the job table
    remote,   \* newest commit of every remote
    file,     \* the persisted instance config
    config,   \* runtime_repo_configs
    graph,    \* the store: Repo row, indexed_sha, content, policy and debt of every repo
    task,     \* worker slot -> the task running in it
    gate,     \* holder of the write gate
    admin,    \* the admin handler that is running
    budget    \* how often each fault or operation may still happen

vars == <<jobs, remote, file, config, graph, task, gate, admin, budget>>

Clock == 1
Shas == 0..MaxSha
Settings == Policies \cup {Absent}

\* No Repo row, no content (0), no policy or publication-incomplete Meta row.
NotIndexed == [row |-> FALSE, sha |-> 0, blob |-> 0, policy |-> Absent, debt |-> FALSE]

IdleTask ==
    [pc |-> "idle", claim |-> [repo |-> CHOOSE r \in Repos : TRUE, id |-> 0, token |-> 0],
     snap |-> Absent, sha |-> 0, base |-> 0, elders |-> {}, late |-> FALSE]

\* Where a task is while it holds the gate: an incremental index has one
\* transaction, a full index has six.
FullPc == {"set_debt", "insert_repo", "replace", "set_sha", "set_policy", "clear_debt"}
GatePc == FullPc \cup {"writing"}

TaskPc == {"idle", "claimed", "ready", "fetched", "prepared", "upToDate", "plan",
           "diff", "error", "full", "incremental", "wrote", "done"} \cup GatePc

AdminPc == {"idle", "rm_cancel", "rm_file", "rm_runtime", "rm_graph", "rm_node",
            "add_file", "add_runtime", "add_enqueue", "rl_swap", "rl_enqueue"}

IdleAdmin == [pc |-> "idle", repo |-> CHOOSE r \in Repos : TRUE,
              prev |-> [r \in Repos |-> Absent]]

TypeOK ==
    /\ jobs \in [Repos -> Row]
    /\ remote \in [Repos -> 1..MaxSha]
    /\ file \in [Repos -> Settings] /\ config \in [Repos -> Settings]
    /\ graph \in [Repos -> [row : BOOLEAN, sha : Shas,
                            blob : {0} \cup {Blob[s] : s \in 1..MaxSha},
                            policy : Settings, debt : BOOLEAN]]
    /\ task \in [Workers -> [pc : TaskPc,
                             claim : [repo : Repos, id : Nat, token : {0} \cup Tokens],
                             snap : Settings, sha : Shas, base : Shas,
                             elders : SUBSET Workers, late : BOOLEAN]]
    /\ gate \in Workers \cup {Free, Admin}
    /\ admin \in [pc : AdminPc, repo : Repos, prev : [Repos -> Settings]]
    /\ budget \in [{"late", "crash", "fail", "admin"} -> Nat]

\* A first start with every repo declared: one unindexed job each.
Init ==
    /\ jobs = [r \in Repos |-> InsertedRow(RowId[r], Unindexed, Clock)]
    /\ remote = [r \in Repos |-> 1]
    /\ file \in [Repos -> Policies]
    /\ config = file
    /\ graph = [r \in Repos |-> NotIndexed]
    /\ task = [w \in Workers |-> IdleTask]
    /\ gate = Free
    /\ admin = IdleAdmin
    /\ budget = [late |-> MaxLate, crash |-> MaxCrash, fail |-> MaxFail, admin |-> MaxAdmin]

Spend(kind) ==
    /\ budget[kind] > 0
    /\ budget' = [budget EXCEPT ![kind] = @ - 1]

-----------------------------------------------------------------------------
(* Remotes and events.                                                     *)

Push(r) ==
    /\ remote[r] < MaxSha
    /\ remote' = [remote EXCEPT ![r] = @ + 1]
    /\ UNCHANGED <<jobs, file, config, graph, task, gate, admin, budget>>

Enqueue(r, priority) == jobs' = Upsert(jobs, r, priority, RowId[r], Clock)

\* A webhook, early, late or duplicated.
WebhookEvent(r) ==
    /\ config[r] # Absent
    /\ Enqueue(r, Webhook)
    /\ UNCHANGED <<remote, file, config, graph, task, gate, admin, budget>>

\* A poll probe that saw a commit other than indexed_sha.
PollEvent(r) ==
    /\ config[r] # Absent
    /\ remote[r] # graph[r].sha
    /\ Enqueue(r, Poll)
    /\ UNCHANGED <<remote, file, config, graph, task, gate, admin, budget>>

\* The webhook allow-list and the poll scheduler are updated after the config
\* map: an event may still arrive for a repo that was just removed.
StrayEvent(r) ==
    /\ config[r] = Absent
    /\ Spend("admin")
    /\ Enqueue(r, Webhook)
    /\ UNCHANGED <<remote, file, config, graph, task, gate, admin>>

-----------------------------------------------------------------------------
(* A worker task.                                                          *)

Repo(w) == task[w].claim.repo
Active(w) == ClaimIsActive(jobs, task[w].claim)
Working(r) == {w \in Workers : task[w].pc # "idle" /\ Repo(w) = r}
Goto(w, pc) == task' = [task EXCEPT ![w].pc = pc]

\* repo_index_incomplete: a publication that started and never reached its last
\* write.  (Its other case, a sha without content or policy, needs a store older
\* than the debt.)
IndexIncomplete(r) == graph[r].debt

\* Mutant: a torn index at the right sha is taken for a finished one.
UpToDateBySha(w) ==
    /\ graph[Repo(w)].sha = task[w].sha
    /\ graph[Repo(w)].policy = task[w].snap

UpToDate(w) ==
    /\ graph[Repo(w)].sha = task[w].sha
    /\ ~IndexIncomplete(Repo(w))
    /\ graph[Repo(w)].policy = task[w].snap

\* claim_next; the token differs from every token still remembered (Tokens
\* bounds how many there are).
Claim(w, r) ==
    LET used == {jobs[s].token : s \in Repos} \cup {task[v].claim.token : v \in Workers}
        fresh == Tokens \ used
        token == CHOOSE t \in fresh : TRUE IN
    /\ task[w].pc = "idle" /\ fresh # {}
    /\ IsNextClaim(jobs, r, Clock)
    /\ jobs' = ClaimNext(jobs, r, token, Clock)
    /\ task' = [task EXCEPT ![w] = [IdleTask EXCEPT !.pc = "claimed",
                                        !.claim = ClaimOf(jobs, r, token),
                                        !.elders = Working(r)]]
    /\ UNCHANGED <<remote, file, config, graph, gate, admin, budget>>

\* runtime_repo_snapshot: absence cancels the job.
Snapshot(w) ==
    /\ task[w].pc = "claimed"
    /\ task' = [task EXCEPT ![w].snap = config[Repo(w)],
                            ![w].pc = IF config[Repo(w)] = Absent THEN "done" ELSE "ready"]
    /\ UNCHANGED <<jobs, remote, file, config, graph, gate, admin, budget>>

\* validate_runtime_repo_snapshot, then clone/fetch and resolve the branch.
Fetch(w) ==
    /\ task[w].pc = "ready"
    /\ IF config[Repo(w)] # task[w].snap THEN Goto(w, "done")
       ELSE task' = [task EXCEPT ![w].sha = remote[Repo(w)], ![w].pc = "fetched"]
    /\ UNCHANGED <<jobs, remote, file, config, graph, gate, admin, budget>>

\* The short-circuit of prepare_job_with_policy.
Prepare(w) ==
    /\ task[w].pc = "fetched"
    /\ Goto(w, IF UpToDate(w) THEN "upToDate" ELSE "prepared")
    /\ UNCHANGED <<jobs, remote, file, config, graph, gate, admin, budget>>

\* claim_is_active before indexing; an up-to-date job has nothing to commit.
CheckClaim(w) ==
    /\ task[w].pc \in {"prepared", "upToDate"}
    /\ Goto(w, IF Active(w) /\ task[w].pc = "prepared" THEN "plan" ELSE "done")
    /\ UNCHANGED <<jobs, remote, file, config, graph, gate, admin, budget>>

\* commit_prepared_job looks the repo up again and picks the mode; an incomplete
\* index, a commit that does not descend from the indexed one, or a forced
\* refresh (ReindexTracker, due at any time) is indexed in full.
Plan(w, force) ==
    LET indexed == graph[Repo(w)].sha IN
    /\ task[w].pc = "plan"
    /\ Goto(w, CASE UpToDate(w) -> "done"
                 [] ~UpToDate(w) /\ (\/ force \/ IndexIncomplete(Repo(w))
                                     \/ indexed = 0 \/ indexed > task[w].sha) -> "full"
                 [] OTHER -> "diff")
    /\ UNCHANGED <<jobs, remote, file, config, graph, gate, admin, budget>>

\* The incremental indexer reads the repo a third time: this is the base of the
\* diff it parses, all without the gate.  Gone: an error.  Other settings: full.
\* Nothing to do, or moved past this commit: success without a write.  Sources
\* missing from the graph count as changed, so an emptied repo has no base.
Diff(w) ==
    LET base == graph[Repo(w)] IN
    /\ task[w].pc = "diff"
    /\ task' = [task EXCEPT
          ![w].base = IF base.blob = 0 THEN 0 ELSE base.sha,
          ![w].pc = CASE base.sha = 0 -> "error"
                      [] base.sha # 0 /\ base.policy # task[w].snap -> "full"
                      [] base.sha >= task[w].sha /\ base.policy = task[w].snap -> "done"
                      [] OTHER -> "incremental"]
    /\ UNCHANGED <<jobs, remote, file, config, graph, gate, admin, budget>>

\* The first transaction of the mode that won the gate.
FirstWrite(w) == IF task[w].pc = "full" THEN "set_debt" ELSE "writing"

\* Mutants of the closure: without the claim, without the config.
EnterGateUnfenced(w) ==
    /\ task[w].pc \in {"full", "incremental"} /\ gate = Free
    /\ IF config[Repo(w)] = task[w].snap
       THEN gate' = w /\ Goto(w, FirstWrite(w)) ELSE UNCHANGED gate /\ Goto(w, "done")
    /\ UNCHANGED <<jobs, remote, file, config, graph, admin, budget>>

EnterGateUnvalidated(w) ==
    /\ task[w].pc \in {"full", "incremental"} /\ gate = Free
    /\ IF Active(w)
       THEN gate' = w /\ Goto(w, FirstWrite(w)) ELSE UNCHANGED gate /\ Goto(w, "done")
    /\ UNCHANGED <<jobs, remote, file, config, graph, admin, budget>>

\* The acquire_write_guard closure: the gate, then the config, then the claim.
EnterGate(w) ==
    /\ task[w].pc \in {"full", "incremental"}
    /\ gate = Free
    /\ IF config[Repo(w)] = task[w].snap /\ Active(w)
       THEN gate' = w /\ Goto(w, FirstWrite(w))
       ELSE UNCHANGED gate /\ Goto(w, "done")
    /\ UNCHANGED <<jobs, remote, file, config, graph, admin, budget>>

\* New content is in the store: the older tasks of the repo are overtaken.
Overtake(w, pc) ==
    task' = [v \in Workers |->
        IF v = w THEN [task[w] EXCEPT !.pc = pc]
        ELSE IF v \in task[w].elders THEN [task[v] EXCEPT !.late = TRUE]
        ELSE task[v]]

\* Incremental: content, indexed_sha and policy in one transaction.  It touches
\* only what changed between its base and its commit, and not the debt; without
\* the Repo row it fails (FailWrite).
Write(w) ==
    LET s == task[w].sha
        untouched == task[w].base # 0 /\ Blob[task[w].base] = Blob[s]
        old == graph[Repo(w)] IN
    /\ task[w].pc = "writing" /\ old.row
    /\ graph' = [graph EXCEPT ![Repo(w)] =
          [old EXCEPT !.sha = s, !.policy = task[w].snap,
                      !.blob = IF untouched THEN old.blob ELSE Blob[s]]]
    /\ gate' = Free
    /\ Overtake(w, "wrote")
    /\ UNCHANGED <<jobs, remote, file, config, admin, budget>>

\* Full: a transaction per step, all under the gate; the daemon may die, and a
\* step may fail, between any two of them.
FullStep(w, pc, new) ==
    /\ task[w].pc = pc
    /\ graph' = [graph EXCEPT ![Repo(w)] = new]
    /\ UNCHANGED <<jobs, remote, file, config, admin, budget>>

\* Mutant: the debt is not recorded before the first mutation.
RecordNoDebt(w) ==
    /\ FullStep(w, "set_debt", graph[Repo(w)])
    /\ Goto(w, "insert_repo")
    /\ UNCHANGED gate

RecordDebt(w) ==
    /\ FullStep(w, "set_debt", [graph[Repo(w)] EXCEPT !.debt = TRUE])
    /\ Goto(w, "insert_repo")
    /\ UNCHANGED gate

\* A missing Repo row is inserted with an empty indexed_sha.
InsertRepo(w) ==
    /\ FullStep(w, "insert_repo", [graph[Repo(w)] EXCEPT !.row = TRUE])
    /\ Goto(w, "replace")
    /\ UNCHANGED gate

\* bulk_reindex_write, or for a first index bulk_index_write and then the edges;
\* the contracts that follow may fail without failing the job.  All this commits
\* under the debt and is one step here.
ReplaceContent(w) ==
    /\ FullStep(w, "replace", [graph[Repo(w)] EXCEPT !.blob = Blob[task[w].sha]])
    /\ Overtake(w, "set_sha")
    /\ UNCHANGED gate

RecordSha(w) ==
    /\ FullStep(w, "set_sha", [graph[Repo(w)] EXCEPT !.sha = task[w].sha])
    /\ Goto(w, "set_policy")
    /\ UNCHANGED gate

RecordPolicy(w) ==
    /\ FullStep(w, "set_policy", [graph[Repo(w)] EXCEPT !.policy = task[w].snap])
    /\ Goto(w, "clear_debt")
    /\ UNCHANGED gate

\* The run's last write retires the debt; the gate is released.
ClearDebt(w) ==
    /\ FullStep(w, "clear_debt", [graph[Repo(w)] EXCEPT !.debt = FALSE])
    /\ Goto(w, "wrote")
    /\ gate' = Free

\* The slot is free again; nobody is younger than the task that left it.
Leave(w) ==
    task' = [v \in Workers |-> IF v = w THEN IdleTask
                               ELSE [task[v] EXCEPT !.elders = @ \ {w}]]

\* Ok or JobCancelled: complete and requeue_if_stale.
Finish(w) ==
    /\ task[w].pc \in {"wrote", "done"}
    /\ jobs' = RequeueIfStale(Complete(jobs, task[w].claim), Repo(w), Clock)
    /\ Leave(w)
    /\ UNCHANGED <<remote, file, config, graph, gate, admin, budget>>

\* A fetch or index error or a panic outside the gate; an error after the
\* commit (saving unresolved imports, the policy) also fails the job.
FailTask(w, poison) ==
    /\ \/ task[w].pc \in {"ready", "fetched", "plan", "diff", "full", "incremental", "wrote"}
          /\ Spend("fail")
       \/ task[w].pc = "error" /\ ~poison /\ UNCHANGED budget
    /\ jobs' = Fail(jobs, task[w].claim, poison, Clock)
    /\ Leave(w)
    /\ UNCHANGED <<remote, file, config, graph, gate, admin>>

\* update_repo_sha_on finds no row: a removal deleted it after the diff.
RowGone(w) == task[w].pc = "writing" /\ ~graph[Repo(w)].row

\* A failed write transaction: it alone is rolled back, what a full index had
\* committed before it stays, with the debt; the gate is released.
FailWrite(w) ==
    /\ \/ task[w].pc \in GatePc /\ Spend("fail")
       \/ RowGone(w) /\ UNCHANGED budget
    /\ gate' = Free
    /\ jobs' = Fail(jobs, task[w].claim, FALSE, Clock)
    /\ Leave(w)
    /\ UNCHANGED <<remote, file, config, graph, admin>>

\* The circuit breaker refuses the fetch.
DeferTask(w) ==
    /\ task[w].pc = "ready"
    /\ Spend("fail")
    /\ jobs' = Defer(jobs, task[w].claim, Clock)
    /\ Leave(w)
    /\ UNCHANGED <<remote, file, config, graph, gate, admin>>

-----------------------------------------------------------------------------
(* Lease expiry, and a crash followed by a restart.                        *)

LiveClaim(r) == \E w \in Working(r) : Active(w)

\* The lease expired under a live task: the reaper took the row, or
\* recover_stale did in the very second of expiry.
ExpireLease(r) ==
    /\ jobs[r].status = "running" /\ LiveClaim(r)
    /\ Spend("late")
    /\ jobs' \in {[jobs EXCEPT ![r] = ReapedRow(@, Clock)],
                  [jobs EXCEPT ![r] = RecoveredRow(@, Clock)]}
    /\ UNCHANGED <<remote, file, config, graph, task, gate, admin>>

\* The process dies.  On restart the file is the runtime config; declared repos
\* without an indexed sha are enqueued, undeclared ones cancelled, and every
\* running row recovered.
CrashAndRestart ==
    LET need == {r \in Repos : file[r] # Absent /\ graph[r].sha = 0}
        enqueued == [r \in Repos |->
            IF r \in need
            THEN EnqueueDeclaredRepo(jobs, r, Unindexed, RowId[r], Clock)[r]
            ELSE jobs[r]] IN
    /\ Spend("crash")
    /\ jobs' = RecoverAllRunningAtStartup(
                  CancelReposNotIn(enqueued, {r \in Repos : file[r] # Absent}, Clock),
                  Clock)
    /\ config' = file
    /\ task' = [w \in Workers |-> IdleTask]
    /\ gate' = Free
    /\ admin' = IdleAdmin
    /\ UNCHANGED <<remote, file, graph>>

-----------------------------------------------------------------------------
(* Admin handlers; each holds the write gate from its first to its last    *)
(* step, so one runs at a time.                                            *)

\* An operator edits instance.toml, also while a handler is at work on it.
EditFile(r, settings) ==
    /\ settings # file[r]
    /\ Spend("admin")
    /\ file' = [file EXCEPT ![r] = settings]
    /\ UNCHANGED <<jobs, remote, config, graph, task, gate, admin>>

EnterAdmin(r, pc) ==
    /\ admin.pc = "idle" /\ gate = Free
    /\ Spend("admin")
    /\ gate' = Admin
    /\ admin' = [IdleAdmin EXCEPT !.pc = pc, !.repo = r]
    /\ UNCHANGED <<jobs, remote, file, config, graph, task>>

\* resolve_removal_target: the file, the graph or a live job row names the repo.
BeginRemove(r) ==
    /\ \/ file[r] # Absent \/ graph[r].row
       \/ jobs[r].status \notin {"absent", "cancelled"}
    /\ EnterAdmin(r, "rm_cancel")

BeginAdd(r) == EnterAdmin(r, "add_file")

BeginReload(r) == EnterAdmin(r, "rl_swap")

AdminAt(pc, next) ==
    /\ admin.pc = pc
    /\ admin' = IF next = "idle" THEN IdleAdmin ELSE [admin EXCEPT !.pc = next]
    /\ gate' = IF next = "idle" THEN Free ELSE gate

\* remove_repo_owned: cancel, config file, runtime map, graph.
RemoveCancel ==
    /\ AdminAt("rm_cancel", "rm_file")
    /\ jobs' = CancelRepo(jobs, admin.repo, Clock)
    /\ UNCHANGED <<remote, file, config, graph, task, budget>>

RemoveFromFile ==
    /\ AdminAt("rm_file", "rm_runtime")
    /\ file' = [file EXCEPT ![admin.repo] = Absent]
    /\ UNCHANGED <<jobs, remote, config, graph, task, budget>>

RemoveFromRuntime ==
    /\ AdminAt("rm_runtime", "rm_graph")
    /\ config' = [config EXCEPT ![admin.repo] = Absent]
    /\ UNCHANGED <<jobs, remote, file, graph, task, budget>>

\* run_admin_remove_repo_with: files and symbols in one transaction ...
RemoveContent ==
    /\ AdminAt("rm_graph", "rm_node")
    /\ graph' = [graph EXCEPT ![admin.repo].blob = 0]
    /\ UNCHANGED <<jobs, remote, file, config, task, budget>>

\* ... then the Repo row; the policy and the debt outlive it.
RemoveNode ==
    /\ AdminAt("rm_node", "idle")
    /\ graph' = [graph EXCEPT ![admin.repo].row = FALSE, ![admin.repo].sha = 0]
    /\ UNCHANGED <<jobs, remote, file, config, task, budget>>

\* Clearing the derived nodes or deleting the row fails: the row stays, empty.
FailRemove ==
    /\ AdminAt("rm_node", "idle")
    /\ Spend("fail")
    /\ UNCHANGED <<jobs, remote, file, config, graph, task>>

\* add_repo_owned: config file (an existing entry is kept), runtime map, job.
AddToFile(p) ==
    /\ AdminAt("add_file", "add_runtime")
    /\ file' = [file EXCEPT ![admin.repo] = IF @ = Absent THEN p ELSE @]
    /\ UNCHANGED <<jobs, remote, config, graph, task, budget>>

\* The file is read back: an entry that is gone again is a CONFLICT, and the
\* handler ends there.
AddToRuntime ==
    /\ \/ /\ file[admin.repo] # Absent
          /\ AdminAt("add_runtime", "add_enqueue")
          /\ config' = [config EXCEPT ![admin.repo] = file[admin.repo]]
       \/ /\ file[admin.repo] = Absent
          /\ AdminAt("add_runtime", "idle")
          /\ UNCHANGED config
    /\ UNCHANGED <<jobs, remote, file, graph, task, budget>>

AddJob ==
    /\ AdminAt("add_enqueue", "idle")
    /\ Enqueue(admin.repo, Unindexed)
    /\ UNCHANGED <<remote, file, config, graph, task, budget>>

\* reload_config_owned: the runtime map is replaced first ...
ReloadSwap ==
    /\ admin.pc = "rl_swap"
    /\ admin' = [admin EXCEPT !.pc = "rl_enqueue", !.prev = config]
    /\ config' = file
    /\ UNCHANGED <<jobs, remote, file, graph, task, gate, budget>>

\* Mutant: changed settings do not make reload visit a repo.
ReloadNewOnly ==
    LET declared == {r \in Repos : config[r] # Absent}
        cancelled == CancelReposNotIn(jobs, declared, Clock) IN
    /\ AdminAt("rl_enqueue", "idle")
    /\ jobs' = [r \in Repos |->
          IF r \in declared /\ ~graph[r].row
          THEN EnqueueDeclaredRepo(cancelled, r, Unindexed, RowId[r], Clock)[r]
          ELSE cancelled[r]]
    /\ UNCHANGED <<remote, file, config, graph, task, budget>>

\* ... then, under the queue mutex, undeclared repos are cancelled and the new,
\* quarantined or changed ones offered to enqueue_declared_repo.
ReloadJobs ==
    LET declared == {r \in Repos : config[r] # Absent}
        cancelled == CancelReposNotIn(jobs, declared, Clock)
        visit(r) == /\ r \in declared
                    /\ ~graph[r].row \/ admin.prev[r] # config[r]
        priority(r) == IF graph[r].row THEN Webhook ELSE Unindexed IN
    /\ AdminAt("rl_enqueue", "idle")
    /\ jobs' = [r \in Repos |->
          IF visit(r)
          THEN EnqueueDeclaredRepo(cancelled, r, priority(r), RowId[r], Clock)[r]
          ELSE cancelled[r]]
    /\ UNCHANGED <<remote, file, config, graph, task, budget>>

-----------------------------------------------------------------------------
TaskStep(w) ==
    \/ Snapshot(w) \/ Fetch(w) \/ Prepare(w) \/ CheckClaim(w)
    \/ \E force \in BOOLEAN : Plan(w, force)
    \/ Diff(w) \/ Write(w)
    \/ RecordDebt(w) \/ InsertRepo(w) \/ ReplaceContent(w)
    \/ RecordSha(w) \/ RecordPolicy(w) \/ ClearDebt(w)
    \/ Finish(w)

FaultStep(w) ==
    \/ \E poison \in BOOLEAN : FailTask(w, poison)
    \/ FailWrite(w)
    \/ DeferTask(w)

RepoStep(r) ==
    \/ Push(r) \/ WebhookEvent(r) \/ PollEvent(r) \/ StrayEvent(r)
    \/ ExpireLease(r)
    \/ \E settings \in Settings : EditFile(r, settings)
    \/ BeginRemove(r) \/ BeginAdd(r) \/ BeginReload(r)

AdminStep ==
    \/ RemoveCancel \/ RemoveFromFile \/ RemoveFromRuntime
    \/ RemoveContent \/ RemoveNode
    \/ \E p \in Policies : AddToFile(p)
    \/ AddToRuntime \/ AddJob
    \/ ReloadSwap \/ ReloadJobs

Next ==
    \/ \E w \in Workers : TaskStep(w) \/ FaultStep(w) \/ EnterGate(w)
    \/ \E w \in Workers, r \in Repos : Claim(w, r)
    \/ \E r \in Repos : RepoStep(r)
    \/ AdminStep \/ FailRemove
    \/ CrashAndRestart

Spec == Init /\ [][Next]_vars

\* Tasks and admin handlers run on when they can; the gate is tokio's FIFO
\* mutex, so a waiter gets it; the worker loop keeps claiming; the poll
\* scheduler keeps polling every tracked repo.  Pushes, webhooks, faults,
\* crashes and operators owe nothing.
Fairness ==
    /\ \A w \in Workers :
          /\ WF_vars(TaskStep(w)) /\ SF_vars(EnterGate(w))
          /\ WF_vars(task[w].pc = "error" /\ FailTask(w, FALSE))
          /\ WF_vars(RowGone(w) /\ FailWrite(w))
    /\ \A r \in Repos : WF_vars(\E w \in Workers : Claim(w, r)) /\ WF_vars(PollEvent(r))
    /\ WF_vars(AdminStep)

FairSpec == Spec /\ Fairness

-----------------------------------------------------------------------------
\* A worker writes only for a repo the runtime config still contains, and what it
\* leaves complete carries exactly the settings the config contains: a repo
\* removed, dropped or reconfigured while its job was fetching, parsing or waiting
\* for the gate is never published from the old settings
\* (validate_runtime_repo_snapshot under the gate, which a full index keeps over
\* all its transactions; the handlers' order of steps).
CommitsUnderCurrentConfig ==
    [][\A r \in Repos :
          (graph'[r] # graph[r] /\ gate # Admin) =>
              /\ config[r] # Absent
              /\ graph'[r].policy # graph[r].policy => graph'[r].policy = config[r]
              /\ ~graph'[r].debt => graph'[r].policy = config[r]]_vars

\* Once the content of a newer claim of a repo is in the store, no older task of
\* that repo writes: indexed_sha never goes back (claim_is_active under the gate,
\* with leases that expire, removal and re-adding).
NoLateWrite == \A w \in Workers : task[w].pc \in GatePc => ~task[w].late

\* What the store serves as the content of a commit is the content of that commit
\* (incremental writes start from the base they diffed against; a full write cut
\* short by a crash or an error between its transactions leaves the debt, and a
\* repo with the debt is refused, not served).  The one other thing it can be is
\* empty: while a removal is at work, or for as long as the row of a removal that
\* was cut short stays.
GraphMatchesSha ==
    \A r \in Repos :
        graph[r].sha # 0 /\ ~IndexIncomplete(r) =>
            \/ graph[r].blob = Blob[graph[r].sha]
            \/ /\ graph[r].blob = 0
               /\ \/ admin.pc = "rm_node" /\ admin.repo = r
                  \/ budget["crash"] < MaxCrash \/ budget["fail"] < MaxFail

\* A job of a configured repo that is recorded as done leaves no torn index behind:
\* whatever crashed or failed between the transactions of an earlier full write,
\* with whatever sha it had already recorded, the next job that succeeds has
\* rebuilt the repo (index_incomplete comes before the up-to-date short-circuit,
\* in both places that read it).
NoTornSuccess ==
    [][\A r \in Repos :
          ( /\ jobs[r].status = "running" /\ jobs'[r].status = "succeeded"
            /\ config[r] # Absent /\ admin.pc = "idle" )
          => ~graph[r].debt]_vars

\* Without crashes a settled queue means settled work: when a configured repo's
\* row has succeeded with no requeue mark and no handler is running, the graph
\* was built under the repo's current settings, however reload, cancellation
\* and completion interleaved.
SettledMeansCurrent ==
    \A r \in Repos :
        ( /\ budget["crash"] = MaxCrash
          /\ admin.pc = "idle" /\ config[r] # Absent
          /\ jobs[r].status = "succeeded" /\ jobs[r].requeue = 0 )
        => graph[r].sha # 0 /\ graph[r].policy = config[r]

\* Once pushes, faults and operators stop, every configured repo is served at
\* the newest commit of its remote, through every interleaving of failures,
\* dead letters, crashes and reconfigurations before that; and no torn index is
\* left except where the job ended as a dead letter or was cancelled (nothing but
\* the next event looks at the debt then).
Converges ==
    <>[](\A r \in Repos : config[r] # Absent =>
            /\ graph[r].sha = remote[r]
            /\ graph[r].debt =>
                  \/ \E w \in Workers : gate = w /\ Repo(w) = r
                  \/ jobs[r].status \in {"dead_letter", "cancelled"})

=============================================================================
