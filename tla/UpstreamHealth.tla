--------------------------- MODULE UpstreamHealth ----------------------------
(***************************************************************************)
(* Health of the federation's upstream servers: passive ejection by failed *)
(* or slow queries (health.rs), the lock-free HealthState and the latency  *)
(* estimate of an upstream (upstream.rs), the cold connection, and the     *)
(* active recovery that re-probes an ejected upstream.  A command-line or  *)
(* MCP process has a maintenance task that probes; in the web server the   *)
(* queries themselves probe.                                               *)
(*                                                                         *)
(* The stores of mark_down, mark_up and a failed probe are Relaxed, so an  *)
(* actor's stores to different cells take effect in any order, interleaved *)
(* with those of others.                                                   *)
(***************************************************************************)
EXTENDS Integers, FiniteSets

CONSTANTS
    Upstreams,   \* configured upstream servers
    Callers,     \* query tasks that may run at once
    Prober,      \* the maintenance task
    None,        \* no task
    Top,         \* deadline level of the mode ceiling; lower ones are adaptive
    EjectionBase, EjectionCap,  \* first window and longest window, in ticks
    MaxChanges,  \* bound: how often servers go down or come back
    MaxCalls,    \* bound: queries made
    MaxCount     \* bound: ejection counts from here on have the longest window

ASSUME HealthConstants ==
    /\ IsFiniteSet(Upstreams) /\ IsFiniteSet(Callers)
    /\ Prober \notin Callers /\ None \notin Callers /\ None # Prober
    /\ Top \in Nat /\ EjectionBase \in Nat \ {0} /\ EjectionCap \in Nat
    /\ EjectionBase <= EjectionCap
    /\ MaxCount \in Nat \ {0} /\ EjectionBase * MaxCount >= EjectionCap
    /\ MaxChanges \in Nat /\ MaxCalls \in Nat

RISE_THRESHOLD == 2
CEILING_TIMEOUTS_TO_EJECT == 2
MAX_EJECTION_PERCENT == 50

VARIABLES
    process,    \* "cli" (also MCP): maintained by Prober; "web": by its queries
    env,        \* upstream -> "ok", or "failing": no answer in time, or refusals
    changes,    \* how often one of them changed
    calls,      \* queries made so far
    healthy, ejection_count, rise,  \* HealthState
    window,     \* ejected_until_ms, as the time left until it
    connected,  \* the flag of ensure_connected
    level,      \* deadline the latency estimate gives (one tool)
    streak,     \* consecutive timeouts at the ceiling
    guard,      \* who has the ejection guard
    pc, at,     \* where an actor is, and with which upstream
    call,       \* what kind of call a caller makes
    deadline,   \* the deadline level a query started with
    todo,       \* stores an actor has still to make
    count       \* what its fetch_add on ejection_count returned, plus one

cells == <<healthy, ejection_count, rise, window>>
latency == <<level, streak>>
local == <<pc, at, call, deadline, todo, count>>
servers == <<env, changes, calls>>
vars == <<process, servers, cells, connected, latency, guard, local>>

Actors == Callers \cup {Prober}
Cells == {"healthy", "rise", "count", "until"}
Places == {"idle", "probe", "recheck", "connect", "query", "reset", "eject", "down", "up", "fail"}

TypeOK ==
    /\ process \in {"cli", "web"}
    /\ env \in [Upstreams -> {"ok", "failing"}]
    /\ changes \in 0..MaxChanges /\ calls \in 0..MaxCalls
    /\ healthy \in [Upstreams -> BOOLEAN]
    /\ ejection_count \in [Upstreams -> 0..MaxCount]
    /\ rise \in [Upstreams -> Nat]
    /\ window \in [Upstreams -> 0..EjectionCap]
    /\ connected \in [Upstreams -> BOOLEAN]
    /\ level \in [Upstreams -> 0..Top]
    /\ streak \in [Upstreams -> Nat]
    /\ guard \in Callers \cup {None}
    /\ pc \in [Actors -> Places]
    /\ at \in [Actors -> Upstreams \cup {None}]
    /\ call \in [Callers -> {"query", "trace", "web"}]
    /\ deadline \in [Callers -> 0..Top]
    /\ todo \in [Actors -> SUBSET Cells]
    /\ count \in [Actors -> 0..MaxCount]

Init ==
    /\ process \in {"cli", "web"}
    /\ env = [u \in Upstreams |-> "ok"] /\ changes = 0 /\ calls = 0
    /\ healthy = [u \in Upstreams |-> TRUE]
    /\ ejection_count = [u \in Upstreams |-> 0]
    /\ rise = [u \in Upstreams |-> 0]
    /\ window = [u \in Upstreams |-> 0]
    /\ connected = [u \in Upstreams |-> FALSE]
    /\ level = [u \in Upstreams |-> Top]
    /\ streak = [u \in Upstreams |-> 0]
    /\ guard = None
    /\ pc = [a \in Actors |-> "idle"]
    /\ at = [a \in Actors |-> None]
    /\ call = [t \in Callers |-> "query"]
    /\ deadline = [t \in Callers |-> 0]
    /\ todo = [a \in Actors |-> {}]
    /\ count = [a \in Actors |-> 0]

-----------------------------------------------------------------------------
(* Pure policy of upstream.rs.                                             *)

Least(m, n) == IF m <= n THEN m ELSE n
Most(m, n) == IF m <= n THEN n ELSE m

\* The count only matters up to MaxCount: every later window is the longest.
Bump(n) == Least(n + 1, MaxCount)

ejection_backoff(n) == Least(EjectionBase * Most(n, 1), EjectionCap)

ejection_cap == Most((Cardinality(Upstreams) * MAX_EJECTION_PERCENT) \div 100, 1)

Ejected == {u \in Upstreams : ~healthy[u]}

can_eject == Cardinality(Ejected) < ejection_cap

\* Mutant: the deadline grows past the mode ceiling.
WidenedPastCeiling(d) == d + 1

\* The deadline after a miss at deadline d: the estimate is raised to d and the
\* next deadline is a multiple of it, up to the ceiling.
Widened(d) == Least(d + 1, Top)

probe_due(u) == ~healthy[u] /\ window[u] = 0

-----------------------------------------------------------------------------
(* Moving an actor.                                                        *)

Goto(a, where) ==
    /\ pc' = [pc EXCEPT ![a] = where]
    /\ UNCHANGED <<at, call, deadline, todo, count>>

\* The call returns: what it kept locally is gone.
Return(a) ==
    /\ pc' = [pc EXCEPT ![a] = "idle"]
    /\ at' = [at EXCEPT ![a] = None]
    /\ call' = IF a \in Callers THEN [call EXCEPT ![a] = "query"] ELSE call
    /\ deadline' = IF a \in Callers THEN [deadline EXCEPT ![a] = 0] ELSE deadline
    /\ todo' = [todo EXCEPT ![a] = {}]
    /\ count' = [count EXCEPT ![a] = 0]

\* Begin the stores of mark_down, mark_up or a failed probe.
Begin(a, where, stores) ==
    /\ pc' = [pc EXCEPT ![a] = where]
    /\ todo' = [todo EXCEPT ![a] = stores]
    /\ UNCHANGED <<at, call, deadline, count>>

\* A probe's result is folded: the maintenance task goes on to its next
\* upstream, a web query looks at the flag again.
AfterFold(a) == IF a = Prober THEN Return(a) ELSE Goto(a, "recheck")

-----------------------------------------------------------------------------
(* A query picks its upstream: a healthy one in a command or MCP process   *)
(* (which one depends on globs and order), any in the web server, where an *)
(* ejected one is probed first when its window is over.                    *)

Start(t, u, k) ==
    /\ pc[t] = "idle" /\ calls < MaxCalls
    /\ calls' = calls + 1
    /\ IF process = "cli" THEN k \in {"query", "trace"} /\ healthy[u]
                          ELSE k = "web" /\ (healthy[u] \/ probe_due(u))
    /\ pc' = [pc EXCEPT ![t] = IF healthy[u] THEN "connect" ELSE "probe"]
    /\ at' = [at EXCEPT ![t] = u]
    /\ call' = [call EXCEPT ![t] = k]
    /\ UNCHANGED <<process, env, changes, cells, connected, latency, guard, deadline, todo, count>>

\* run_recovery_tick reaches an upstream that is due.
ProbeStart(u) ==
    /\ process = "cli" /\ pc[Prober] = "idle"
    /\ probe_due(u)
    /\ pc' = [pc EXCEPT ![Prober] = "probe"]
    /\ at' = [at EXCEPT ![Prober] = u]
    /\ UNCHANGED <<process, servers, cells, connected, latency, guard, call, deadline, todo, count>>

\* apply_probe_result, success: one more in the rise, and at the threshold
\* mark_up.
ProbeSucceeds(a) ==
    /\ pc[a] = "probe" /\ env[at[a]] = "ok"
    /\ rise' = [rise EXCEPT ![at[a]] = @ + 1]
    /\ IF rise[at[a]] + 1 >= RISE_THRESHOLD THEN Begin(a, "up", Cells) ELSE AfterFold(a)
    /\ UNCHANGED <<process, servers, healthy, ejection_count, window, connected, latency, guard>>

\* apply_probe_result, failure: any error counts, a refusal too, and so does
\* no answer within the timeout.
ProbeFails(a) ==
    /\ pc[a] = "probe" /\ env[at[a]] = "failing"
    /\ Begin(a, "fail", Cells \ {"healthy"})
    /\ UNCHANGED <<process, servers, cells, connected, latency, guard>>

Recheck(t) ==
    /\ pc[t] = "recheck"
    /\ IF healthy[at[t]] THEN Goto(t, "connect") ELSE Return(t)
    /\ UNCHANGED <<process, servers, cells, connected, latency, guard>>

-----------------------------------------------------------------------------
(* The stores.                                                             *)

\* Mutant: mark_up resets the accounting and forgets the flag.
StoreHealthyLost(a) ==
    /\ pc[a] \in {"down", "up"} /\ "healthy" \in todo[a]
    /\ healthy' = [healthy EXCEPT ![at[a]] = FALSE]
    /\ todo' = [todo EXCEPT ![a] = @ \ {"healthy"}]
    /\ UNCHANGED <<process, servers, ejection_count, rise, window, connected, latency, guard,
                   pc, at, call, deadline, count>>

StoreHealthy(a) ==
    /\ pc[a] \in {"down", "up"} /\ "healthy" \in todo[a]
    /\ healthy' = [healthy EXCEPT ![at[a]] = pc[a] = "up"]
    /\ todo' = [todo EXCEPT ![a] = @ \ {"healthy"}]
    /\ UNCHANGED <<process, servers, ejection_count, rise, window, connected, latency, guard,
                   pc, at, call, deadline, count>>

StoreRise(a) ==
    /\ pc[a] \in {"down", "up", "fail"} /\ "rise" \in todo[a]
    /\ rise' = [rise EXCEPT ![at[a]] = 0]
    /\ todo' = [todo EXCEPT ![a] = @ \ {"rise"}]
    /\ UNCHANGED <<process, servers, healthy, ejection_count, window, connected, latency, guard,
                   pc, at, call, deadline, count>>

StoreCount(a) ==
    /\ pc[a] \in {"down", "up", "fail"} /\ "count" \in todo[a]
    /\ LET n == IF pc[a] = "up" THEN 0 ELSE Bump(ejection_count[at[a]])
       IN  /\ ejection_count' = [ejection_count EXCEPT ![at[a]] = n]
           /\ count' = [count EXCEPT ![a] = n]
    /\ todo' = [todo EXCEPT ![a] = @ \ {"count"}]
    /\ UNCHANGED <<process, servers, healthy, rise, window, connected, latency, guard,
                   pc, at, call, deadline>>

\* The deadline is computed from what the fetch_add returned.
StoreUntil(a) ==
    /\ pc[a] \in {"down", "up", "fail"} /\ "until" \in todo[a]
    /\ pc[a] = "up" \/ "count" \notin todo[a]
    /\ window' = [window EXCEPT ![at[a]] = IF pc[a] = "up" THEN 0
                                           ELSE ejection_backoff(count[a])]
    /\ todo' = [todo EXCEPT ![a] = @ \ {"until"}]
    /\ UNCHANGED <<process, servers, healthy, ejection_count, rise, connected, latency, guard,
                   pc, at, call, deadline, count>>

\* mark_up or the failed fold is done.
Folded(a) ==
    /\ pc[a] \in {"up", "fail"} /\ todo[a] = {}
    /\ AfterFold(a)
    /\ UNCHANGED <<process, servers, cells, connected, latency, guard>>

\* mark_down is done and the guard is dropped.
Unlock(t) ==
    /\ pc[t] = "down" /\ todo[t] = {}
    /\ guard' = None
    /\ Return(t)
    /\ UNCHANGED <<process, servers, cells, connected, latency>>

-----------------------------------------------------------------------------
(* ensure_connected: a caller that finds the flag down makes the handshake. *)
(* The flag's lock only keeps later callers waiting; while it is held the   *)
(* flag is down, so the try_lock of mark_unhealthy that fails loses nothing.*)

Query(t) ==
    /\ pc' = [pc EXCEPT ![t] = "query"]
    /\ call' = [call EXCEPT ![t] = "query"]
    /\ deadline' = [deadline EXCEPT ![t] = level[at[t]]]
    /\ UNCHANGED <<at, todo, count>>

Connected(t) ==
    /\ pc[t] = "connect"
    /\ connected[at[t]] \/ env[at[t]] = "ok"
    /\ connected' = [connected EXCEPT ![at[t]] = TRUE]
    /\ Query(t)
    /\ UNCHANGED <<process, servers, cells, latency, guard>>

\* The server answers and refuses (credentials): no ejection.
ConnectRejected(t) ==
    /\ pc[t] = "connect" /\ ~connected[at[t]] /\ env[at[t]] = "failing"
    /\ Return(t)
    /\ UNCHANGED <<process, servers, cells, connected, latency, guard>>

\* No connection within the five seconds: only a plain query ejects.
\* flow_trace goes on with its next boundary (a call of its own here) and the
\* web query returns.
ConnectFails(t) ==
    /\ pc[t] = "connect" /\ ~connected[at[t]] /\ env[at[t]] = "failing"
    /\ IF call[t] = "query" THEN Goto(t, "eject") ELSE Return(t)
    /\ UNCHANGED <<process, servers, cells, connected, latency, guard>>

-----------------------------------------------------------------------------
(* The query and what its outcome teaches.                                 *)

\* record_tool_latency: the estimate moves either way, the streak ends.
Answered(t) ==
    /\ pc[t] = "query" /\ env[at[t]] = "ok"
    /\ \E l \in 0..Top : level' = [level EXCEPT ![at[t]] = l]
    /\ streak' = [streak EXCEPT ![at[t]] = 0]
    /\ Return(t)
    /\ UNCHANGED <<process, servers, cells, connected, guard>>

\* A status from a live server (is_upstream_down is false): nothing changes.
Rejected(t) ==
    /\ pc[t] = "query"
    /\ Return(t)
    /\ UNCHANGED <<process, servers, cells, connected, latency, guard>>

Unavailable(t) ==
    /\ pc[t] = "query" /\ env[at[t]] = "failing"
    /\ Goto(t, "eject")
    /\ UNCHANGED <<process, servers, cells, connected, latency, guard>>

\* handle_timeout_for_tool: the estimate rises to the missed deadline, so the
\* next one is longer; only a miss at the ceiling counts.
TimesOut(t) ==
    /\ pc[t] = "query" /\ env[at[t]] = "failing"
    /\ level' = [level EXCEPT ![at[t]] = Most(@, Widened(deadline[t]))]
    /\ IF deadline[t] >= Top
       THEN /\ streak' = [streak EXCEPT ![at[t]] = @ + 1]
            /\ IF streak[at[t]] + 1 >= CEILING_TIMEOUTS_TO_EJECT
               THEN Goto(t, "reset") ELSE Return(t)
       ELSE UNCHANGED streak /\ Return(t)
    /\ UNCHANGED <<process, servers, cells, connected, guard>>

ResetStreak(t) ==
    /\ pc[t] = "reset"
    /\ streak' = [streak EXCEPT ![at[t]] = 0]
    /\ Goto(t, "eject")
    /\ UNCHANGED <<process, servers, cells, connected, level, guard>>

\* Mutant: the recount and the decision are made without the guard.
EjectUnguarded(t) ==
    /\ pc[t] = "eject" /\ can_eject
    /\ connected' = [connected EXCEPT ![at[t]] = FALSE]
    /\ Begin(t, "down", Cells)
    /\ UNCHANGED <<process, servers, cells, latency, guard>>

\* eject_with_cap under the cap: mark_unhealthy clears the connection flag
\* and mark_down begins; the guard is kept until it is done.
Eject(t) ==
    /\ pc[t] = "eject" /\ guard = None /\ can_eject
    /\ guard' = t
    /\ connected' = [connected EXCEPT ![at[t]] = FALSE]
    /\ Begin(t, "down", Cells)
    /\ UNCHANGED <<process, servers, cells, latency>>

\* eject_with_cap at the cap: the upstream stays in rotation.
Capped(t) ==
    /\ pc[t] = "eject" /\ guard = None /\ ~can_eject
    /\ Return(t)
    /\ UNCHANGED <<process, servers, cells, connected, latency, guard>>

-----------------------------------------------------------------------------
\* Time passes, and servers come and go.
Tick ==
    /\ \E u \in Upstreams : window[u] > 0
    /\ window' = [u \in Upstreams |-> Most(window[u] - 1, 0)]
    /\ UNCHANGED <<process, servers, healthy, ejection_count, rise, connected, latency, guard, local>>

EnvChanges(u) ==
    /\ changes < MaxChanges
    /\ changes' = changes + 1
    /\ \E e \in {"ok", "failing"} \ {env[u]} : env' = [env EXCEPT ![u] = e]
    /\ UNCHANGED <<process, calls, cells, connected, latency, guard, local>>

FoldStep(a) ==
    \/ ProbeSucceeds(a) \/ ProbeFails(a) \/ Folded(a)
    \/ StoreHealthy(a) \/ StoreRise(a) \/ StoreCount(a) \/ StoreUntil(a)

CallerStep(t) ==
    \/ Recheck(t) \/ Unlock(t)
    \/ Connected(t) \/ ConnectRejected(t) \/ ConnectFails(t)
    \/ Answered(t) \/ Rejected(t) \/ Unavailable(t) \/ TimesOut(t)
    \/ ResetStreak(t) \/ Eject(t) \/ Capped(t)

Next ==
    \/ \E t \in Callers, u \in Upstreams, k \in {"query", "trace", "web"} : Start(t, u, k)
    \/ \E u \in Upstreams : ProbeStart(u) \/ EnvChanges(u)
    \/ \E a \in Actors : FoldStep(a)
    \/ \E t \in Callers : CallerStep(t)
    \/ Tick

Spec == Init /\ [][Next]_vars

\* Every RPC is bounded by a timeout, locks are granted in the end, and each
\* tick of the maintenance task visits every upstream.
Fairness ==
    /\ \A a \in Actors : SF_vars(FoldStep(a) \/ (a \in Callers /\ CallerStep(a)))
    /\ \A u \in Upstreams : SF_vars(ProbeStart(u))
    /\ WF_vars(Tick)

FairSpec == Spec /\ Fairness

-----------------------------------------------------------------------------
(* Properties.                                                             *)

\* However many queries fail at once, and whatever recoveries run beside them,
\* no more upstreams are out of rotation than the blast-radius cap allows
\* (eject_with_cap recounts and ejects under its guard; mark_up takes no lock).
CapHeld == Cardinality(Ejected) <= ejection_cap

\* An ejection is never for good: where the maintenance task runs, an upstream
\* that from some time on answers is back in rotation from some time on, whatever
\* races between mark_down, mark_up and failed probes left in its cells.
NeverLatched ==
    \A u \in Upstreams :
        process = "cli" /\ <>[](env[u] = "ok") => <>[]healthy[u]

=============================================================================
