---------------------------- MODULE PollScheduler ----------------------------
(***************************************************************************)
(* Adaptive polling: the schedule rows, the poll loop of the daemon with   *)
(* its in-flight bookkeeping (PollInFlight), the probe tasks that run      *)
(* `git ls-remote` beside it, and the admin handlers that change the repo  *)
(* set and tell the loop over a channel.  A repo is known by its URL in    *)
(* the config and in the job queue, and by a name in the schedule and in   *)
(* the in-flight table.  The length of an interval is left open: any row   *)
(* that is polled at all may be due at a tick.                             *)
(***************************************************************************)
EXTENDS Integers, Sequences, FiniteSets, FiniteSetsExt

CONSTANTS
    Urls, Names,
    SchedName,   \* URL -> the name the schedule is seeded with (config or URL)
    UrlName,     \* URL -> repo_name_from_url
    FileOrder,   \* the URLs in the order the config file lists them
    Configs,     \* the instance configs an operator writes
    Permits,     \* POLL_PROBE_CONCURRENCY
    Copies,      \* bound: probe tasks of one name, stale ones included
    MaxOps,      \* bound: admin operations
    MaxPush,     \* bound: pushes
    MaxFail      \* bound: probes that fail or die

ASSUME PollConstants ==
    /\ SchedName \in [Urls -> Names] /\ UrlName \in [Urls -> Names]
    /\ FileOrder \in Seq(Urls) /\ \A u \in Urls : \E i \in DOMAIN FileOrder : FileOrder[i] = u
    /\ Configs \subseteq [Urls -> {"absent", "poll", "never"}]
    /\ Permits \in Nat \ {0} /\ Copies \in Nat \ {0}
    /\ MaxOps \in Nat /\ MaxPush \in Nat /\ MaxFail \in Nat

VARIABLES
    conf,        \* URL -> its entry in the instance config: "absent", "poll", "never", or
                 \* "added", the entry without a name that POST /admin/api/repos appends
    reloads,     \* config -> reload handlers that have read it and not told the loop yet
    channel,     \* commands on their way to the loop
    rows,        \* the schedule: [pos, id, url, never], in the order of pos
    generation,  \* PollInFlight.generation
    entries,     \* PollInFlight.entries: name -> generation at dispatch
    probes,      \* the JoinSet and PollInFlight.tasks: <<name, copy>> -> probe
    drained, stopped,
    remote,      \* URL -> commit its remote has
    indexed,     \* URL -> commit the graph has; 0 when it has none
    queued,      \* URLs with a job in the queue
    untold,      \* history: URLs whose entry is not the one the loop was last told of
    ops, pushes, fails   \* bounded counters

\* What the admin handlers change, and what the loop does.
adminVars == <<conf, reloads, untold, ops>>
loopVars == <<rows, generation, entries, probes>>
vars == <<adminVars, channel, loopVars, drained, stopped, remote, indexed, queued,
          pushes, fails>>

NoEntry == -1
Tasks == Names \X (1..Copies)

\* A probe task that is not there, and what one does.
States == {"none", "queued", "running", "done", "dead"}
NoProbe == [state |-> "none", url |-> CHOOSE u \in Urls : TRUE, gen |-> 0,
            sha |-> 0, stale |-> FALSE]
Live(k) == probes[k].state # "none"

TypeOK ==
    /\ conf \in [Urls -> {"absent", "poll", "never", "added"}]
    /\ reloads \in [Configs -> Nat] /\ untold \in SUBSET Urls
    /\ rows \in SUBSET [pos : Nat, id : Names, url : Urls, never : BOOLEAN]
    /\ generation \in Nat
    /\ entries \in [Names -> Nat \cup {NoEntry}]
    /\ probes \in [Tasks -> [state : States, url : Urls, gen : Nat, sha : Nat,
                             stale : BOOLEAN]]
    /\ drained \in BOOLEAN /\ stopped \in BOOLEAN
    /\ remote \in [Urls -> Nat] /\ indexed \in [Urls -> Nat]
    /\ queued \in SUBSET Urls

Row(p, n, u, never) == [pos |-> p, id |-> n, url |-> u, never |-> never]

\* The schedule the config c seeds.
Seeded(c) ==
    {Row(i, SchedName[FileOrder[i]], FileOrder[i], c[FileOrder[i]] = "never") :
        i \in {i \in DOMAIN FileOrder : c[FileOrder[i]] # "absent"}}

Init ==
    /\ conf \in Configs
    /\ rows = Seeded(conf)
    /\ reloads = [c \in Configs |-> 0] /\ untold = {}
    /\ channel = <<>> /\ generation = 0
    /\ entries = [n \in Names |-> NoEntry]
    /\ probes = [k \in Tasks |-> NoProbe]
    /\ drained = FALSE /\ stopped = FALSE
    /\ remote = [u \in Urls |-> 1] /\ indexed = [u \in Urls |-> 0]
    /\ queued = {} /\ ops = 0 /\ pushes = 0 /\ fails = 0

-----------------------------------------------------------------------------
(* Admin handlers.  They run one at a time under the write gate, but a     *)
(* reload tells the loop after it has given the gate back.                 *)

Admin == ops' = ops + 1 /\ ops < MaxOps /\ ~stopped
Fails == fails < MaxFail /\ fails' = fails + 1

\* POST /admin/api/repos; a repo the config lists already keeps its entry.  When
\* the job cannot be enqueued the handler ends there, its entry persisted.
AddRepo(u) ==
    /\ Admin
    /\ conf' = [conf EXCEPT ![u] = IF @ = "absent" THEN "added" ELSE @]
    /\ \/ /\ queued' = queued \cup {u}
          /\ channel' = Append(channel, [op |-> "add", id |-> UrlName[u], url |-> u])
          /\ UNCHANGED <<untold, fails>>
       \/ /\ Fails
          /\ untold' = IF conf' # conf THEN untold \cup {u} ELSE untold
          /\ UNCHANGED <<queued, channel>>
    /\ UNCHANGED <<reloads, loopVars, drained, stopped, remote, indexed, pushes>>

\* The name the config's entry gives the repo; without one its URL does.
EntryName(u) == IF conf[u] \in {"poll", "never"} THEN SchedName[u] ELSE UrlName[u]

\* DELETE /admin/api/repos/:id: the jobs, the config entry, the graph, and then
\* the schedule, by the config's name and by the URL's as well.  It ends early
\* when the config cannot be written or the graph not be cleared.
RemoveRepo(u) ==
    /\ Admin
    /\ conf[u] # "absent" \/ indexed[u] # 0
    /\ queued' = queued \ {u}
    /\ \/ /\ conf' = [conf EXCEPT ![u] = "absent"]
          /\ indexed' = [indexed EXCEPT ![u] = 0]
          /\ channel' = channel \o <<[op |-> "remove", id |-> EntryName(u)]>> \o
                (IF UrlName[u] # EntryName(u) THEN <<[op |-> "remove", id |-> UrlName[u]]>>
                                              ELSE <<>>)
          /\ untold' = untold \ {u}
          /\ UNCHANGED fails
       \/ /\ Fails
          /\ conf' \in {conf, [conf EXCEPT ![u] = "absent"]}
          /\ untold' = IF conf' # conf THEN untold \cup {u} ELSE untold
          /\ UNCHANGED <<indexed, channel>>
    /\ UNCHANGED <<reloads, loopVars, drained, stopped, remote, pushes>>

\* POST /admin/api/config/reload after an edit of the file, under the gate: the
\* jobs of repos no longer listed go, those without a graph or newly listed get
\* one.  A queue that cannot be opened is logged and passed over.
ReloadConfig(c) ==
    /\ Admin
    /\ conf' = c
    /\ reloads' = [reloads EXCEPT ![c] = @ + 1]
    /\ untold' = untold \cup {u \in Urls : c[u] # conf[u]}
    /\ \/ /\ queued' = {u \in Urls : /\ c[u] # "absent"
                                    /\ \/ u \in queued
                                       \/ indexed[u] = 0 \/ conf[u] = "absent"}
          /\ UNCHANGED fails
       \/ Fails /\ UNCHANGED queued
    /\ UNCHANGED <<channel, loopVars, drained, stopped, remote, indexed, pushes>>

\* The rest of the handler, without the gate: the loop is told the config that
\* was read, whatever the config is by now.
ReloadTells(c) ==
    /\ ~stopped /\ reloads[c] > 0
    /\ reloads' = [reloads EXCEPT ![c] = @ - 1]
    /\ channel' = Append(channel, [op |-> "reload", rows |-> Seeded(c)])
    /\ untold' = {u \in Urls : c[u] # conf[u]}
    /\ UNCHANGED <<conf, ops, loopVars, drained, stopped, remote, indexed, queued, pushes, fails>>

\* POST /admin/api/drain and /resume.
SetDrained ==
    /\ Admin
    /\ drained' = ~drained
    /\ UNCHANGED <<conf, reloads, untold, channel, loopVars, stopped, remote, indexed,
                   queued, pushes, fails>>

-----------------------------------------------------------------------------
(* The loop: a command, a tick or a finished probe at a time.              *)

\* PollScheduler::add_repo: a row of this name and URL is kept; it has no new
\* override or branch to take over here.  Another one goes to the end.
WithRow(s, n, u) ==
    IF \E r \in s : r.id = n /\ r.url = u THEN s
    ELSE s \cup {Row(1 + Max({r.pos : r \in s} \cup {0}), n, u, FALSE)}

\* What a probe under way becomes when the repo it is for is forgotten.
Stale(N) == [k \in Tasks |-> [probes[k] EXCEPT !.stale = @ \/ (k[1] \in N /\ Live(k))]]

\* Mutant: the repo's entry goes and the generation stays.
ForgetRepoSameGeneration(n) ==
    /\ entries' = [entries EXCEPT ![n] = NoEntry]
    /\ UNCHANGED generation

\* PollInFlight::forget_repo and reset.
ForgetRepo(n) ==
    /\ entries' = [entries EXCEPT ![n] = NoEntry]
    /\ generation' = generation + 1

Reset ==
    /\ entries' = [n \in Names |-> NoEntry]
    /\ generation' = generation + 1

ApplyAdd(cmd) ==
    /\ rows' = WithRow(rows, cmd.id, cmd.url)
    /\ UNCHANGED <<generation, entries, probes>>

ApplyRemove(cmd) ==
    /\ rows' = {r \in rows : r.id # cmd.id}
    /\ ForgetRepo(cmd.id)
    /\ probes' = Stale({cmd.id})

\* Mutant: a reload schedules only what was scheduled before.
ApplyReloadKeepsOld(cmd) ==
    /\ rows' = {r \in cmd.rows : \E q \in rows : q.url = r.url}
    /\ Reset
    /\ probes' = Stale(Names)

ApplyReload(cmd) ==
    /\ rows' = cmd.rows
    /\ Reset
    /\ probes' = Stale(Names)

Receive ==
    /\ ~stopped /\ channel # <<>>
    /\ channel' = Tail(channel)
    /\ LET cmd == Head(channel) IN
       \/ cmd.op = "add" /\ ApplyAdd(cmd)
       \/ cmd.op = "remove" /\ ApplyRemove(cmd)
       \/ cmd.op = "reload" /\ ApplyReload(cmd)
    /\ UNCHANGED <<adminVars, drained, stopped, remote, indexed, queued, pushes, fails>>

\* due_repos leaves out the rows that are never polled.
Pollable == {r \in rows : ~r.never}

\* try_dispatch lets the first due row of a name through, and only while no
\* probe of that name is under way.
Dispatched(due) ==
    {r \in due : /\ entries[r.id] = NoEntry
                 /\ \A q \in due : q.id = r.id => r.pos <= q.pos}

\* Row r's probe becomes task k: the lowest free copy of its name.
Starts(k, r) ==
    /\ r.id = k[1]
    /\ ~Live(k) /\ \A c \in 1..(k[2] - 1) : Live(<<k[1], c>>)

NewProbe(u) == [state |-> "queued", url |-> u, gen |-> generation, sha |-> 0, stale |-> FALSE]

Tick(due) ==
    /\ ~stopped /\ ~drained
    /\ LET go == Dispatched(due) IN
       /\ \A r \in go : \E k \in Tasks : Starts(k, r)   \* Copies is the bound
       /\ entries' = [n \in Names |-> IF \E r \in go : r.id = n
                                      THEN generation ELSE entries[n]]
       /\ probes' = [k \in Tasks |-> IF \E r \in go : Starts(k, r)
                                     THEN NewProbe((CHOOSE r \in go : Starts(k, r)).url)
                                     ELSE probes[k]]
    /\ UNCHANGED <<adminVars, channel, rows, generation, drained, stopped, remote, indexed,
                   queued, pushes, fails>>

\* PollInFlight::finish: the entry of this very dispatch is freed, also when
\* the result is not wanted.
Owns(k) == entries[k[1]] = probes[k].gen

\* Mutant: the entry is freed only with the result.
FreeUnlessDrained(k) ==
    entries' = IF Owns(k) /\ ~drained THEN [entries EXCEPT ![k[1]] = NoEntry] ELSE entries

Free(k) == entries' = IF Owns(k) THEN [entries EXCEPT ![k[1]] = NoEntry] ELSE entries

Joined(k) == probes' = [probes EXCEPT ![k] = NoProbe]

\* A probe's outcome: enqueue when it is wanted and saw another commit; a
\* failing enqueue is passed over.
Join(k) ==
    /\ ~stopped /\ probes[k].state = "done"
    /\ Free(k) /\ Joined(k)
    /\ LET p == probes[k]
           wanted == Owns(k) /\ ~drained /\ p.sha # 0 /\ p.sha # indexed[p.url]
       IN \/ queued' = (IF wanted THEN queued \cup {p.url} ELSE queued) /\ UNCHANGED fails
          \/ wanted /\ Fails /\ UNCHANGED queued
    /\ UNCHANGED <<adminVars, channel, rows, generation, drained, stopped, remote, indexed,
                   pushes>>

\* Mutant: a dead task's entry stays.
JoinDeadKeepsEntry(k) ==
    /\ ~stopped /\ probes[k].state = "dead"
    /\ Joined(k)
    /\ UNCHANGED <<adminVars, channel, rows, generation, entries, drained, stopped, remote,
                   indexed, queued, pushes, fails>>

\* PollInFlight::failed.
JoinDead(k) ==
    /\ ~stopped /\ probes[k].state = "dead"
    /\ Free(k) /\ Joined(k)
    /\ UNCHANGED <<adminVars, channel, rows, generation, drained, stopped, remote, indexed,
                   queued, pushes, fails>>

\* The shutdown signal: the loop ends, aborts its probes and drops its tables.
Shutdown ==
    /\ ~stopped
    /\ stopped' = TRUE
    /\ probes' = [k \in Tasks |-> NoProbe]
    /\ entries' = [n \in Names |-> NoEntry]
    /\ rows' = {} /\ channel' = <<>>
    /\ UNCHANGED <<adminVars, generation, drained, remote, indexed, queued, pushes, fails>>

-----------------------------------------------------------------------------
(* Probe tasks (spawn_poll_probe), time, remotes and the workers.          *)

Become(k, s, sha) ==
    probes' = [probes EXCEPT ![k].state = s, ![k].sha = sha]

\* A permit is free: the probe's thread runs.
StartProbe(k) ==
    /\ probes[k].state = "queued"
    /\ Cardinality({j \in Tasks : probes[j].state = "running"}) < Permits
    /\ Become(k, "running", 0)
    /\ UNCHANGED <<adminVars, channel, rows, generation, entries, drained, stopped, remote,
                   indexed, queued, pushes, fails>>

\* ls-remote answers with the commit the remote has now.
ProbeAnswers(k) ==
    /\ probes[k].state = "running"
    /\ Become(k, "done", remote[probes[k].url])
    /\ UNCHANGED <<adminVars, channel, rows, generation, entries, drained, stopped, remote,
                   indexed, queued, pushes, fails>>

\* It fails, times out or finds no such ref (done without a commit), or the
\* task dies.
ProbeFails(k) ==
    /\ probes[k].state = "running" /\ Fails
    /\ \E s \in {"done", "dead"} : Become(k, s, 0)
    /\ UNCHANGED <<adminVars, channel, rows, generation, entries, drained, stopped, remote,
                   indexed, queued, pushes>>

Push(u) ==
    /\ pushes < MaxPush /\ ~stopped
    /\ pushes' = pushes + 1
    /\ remote' = [remote EXCEPT ![u] = @ + 1]
    /\ UNCHANGED <<adminVars, channel, loopVars, drained, stopped, indexed, queued, fails>>

\* A worker's job ends; the graph has the commit its fetch found.
Index(u) ==
    /\ u \in queued /\ conf[u] # "absent" /\ ~stopped
    /\ queued' = queued \ {u}
    /\ indexed' = [indexed EXCEPT ![u] = remote[u]]
    /\ UNCHANGED <<adminVars, channel, loopVars, drained, stopped, remote, pushes, fails>>

-----------------------------------------------------------------------------
Ends(k) == ProbeAnswers(k) \/ ProbeFails(k)
Probing(k) == StartProbe(k) \/ Ends(k)

Next ==
    \/ \E u \in Urls : AddRepo(u) \/ RemoveRepo(u) \/ Push(u) \/ Index(u)
    \/ \E c \in Configs : ReloadConfig(c) \/ ReloadTells(c)
    \/ SetDrained \/ Receive \/ Shutdown
    \/ \E due \in SUBSET Pollable : Tick(due)
    \/ \E k \in Tasks : Join(k) \/ JoinDead(k) \/ Probing(k)

Spec == Init /\ [][Next]_vars

\* A handler ends, select! takes every ready branch in the end, the permits go to
\* the tasks in the order they asked, a probe thread ends (git has a timeout, the
\* resolver its own) and every polled row is due again.
FairSpec ==
    /\ Spec
    /\ WF_vars(Receive)
    /\ WF_vars(\E c \in Configs : ReloadTells(c))
    /\ \A u \in Urls :
          WF_vars(\E due \in SUBSET Pollable : (\E r \in due : r.url = u) /\ Tick(due))
    /\ \A n \in Names :
          /\ SF_vars(\E c \in 1..Copies : StartProbe(<<n, c>>))
          /\ WF_vars(\E c \in 1..Copies : Ends(<<n, c>>) \/ Join(<<n, c>>) \/ JoinDead(<<n, c>>))

-----------------------------------------------------------------------------
\* PollInFlight: every entry belongs to exactly one probe still under way, the
\* one dispatched with it, so a name is never blocked by a probe that is gone
\* and no other probe can free or take over its entry.
EntryHasItsProbe ==
    \A n \in Names : entries[n] # NoEntry =>
        \E c \in 1..Copies :
            /\ Live(<<n, c>>) /\ Owns(<<n, c>>)
            /\ \A d \in 1..Copies : Live(<<n, d>>) /\ Owns(<<n, d>>) => d = c

\* "a probe that outlives a remove + re-add never enqueues its stale
\* url/branch": a probe dispatched before its repo was removed, or before a
\* reload, owns no entry again, however often the name was added and probed since.
StaleProbesUnwanted ==
    \A k \in Tasks : Live(k) /\ probes[k].stale => ~Owns(k)

\* With no command on its way, every repo the config lists has its row in the
\* schedule, whatever adds, removals and reloads led there, but for those whose
\* entry the loop was never told of: the handler failed half-way, or a reload
\* told of the config before it.  It is said of repos whose names differ:
\* remove_repo drops every row of a name.
ConfiguredIsScheduled ==
    channel = <<>> /\ ~stopped =>
        \A u \in Urls \ untold :
            conf[u] # "absent" => \E r \in rows : r.url = u

\* What polling is for: a commit no webhook told of is found and queued in the
\* end, unless the repo is taken off polling, the loop was not told of it, or
\* the daemon drains or stops.
PollCatchesUp ==
    \A u \in Urls :
        (conf[u] \in {"poll", "added"} /\ remote[u] # indexed[u])
            ~> \/ u \in queued \/ remote[u] = indexed[u]
               \/ conf[u] \notin {"poll", "added"} \/ u \in untold
               \/ drained \/ stopped

=============================================================================
