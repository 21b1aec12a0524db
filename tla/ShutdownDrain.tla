---------------------------- MODULE ShutdownDrain ----------------------------
(***************************************************************************)
(* Shutdown of the daemon: the two triggers (SIGTERM, Shutdown RPC), the   *)
(* drain task, the write admissions (gRPC ConnectionGuard::write and the   *)
(* admin AdminMutationAdmission), the worker pool's claim loop and its job *)
(* tasks, and the admin drain/resume endpoints.  They share four atomics   *)
(* and nothing else; every load, store or read-modify-write is one action. *)
(***************************************************************************)
EXTENDS Integers, FiniteSets

CONSTANTS
    Writers,   \* write requests (RPC or admin), each arriving at most once
    Triggers,  \* shutdown triggers: SIGTERM, Shutdown RPC
    Resumes,   \* calls of POST /admin/api/resume
    Tasks      \* job tasks the pool may spawn; Permits of them at a time

CONSTANT Permits

ASSUME DrainConstants ==
    /\ IsFiniteSet(Writers) /\ IsFiniteSet(Tasks)
    /\ Permits \in Nat \ {0}

VARIABLES
    drained,           \* AtomicBool shared by admin API, worker pool, poller
    shutdown_started,  \* AtomicBool, set once
    active_writes,     \* AtomicU32
    in_flight,         \* AtomicU32, IndexingStatus.in_flight
    writer,            \* write request -> where it is
    trigger,           \* shutdown trigger -> where it is
    resume,            \* resume call -> where it is
    worker,            \* where the claim loop is
    task,              \* job task -> where it is
    drain,             \* where the drain task is; "none" until it is spawned
    drains,            \* history: drain tasks spawned
    broadcast          \* the shutdown watch channel

vars == <<drained, shutdown_started, active_writes, in_flight, writer, trigger,
          resume, worker, task, drain, drains, broadcast>>

TypeOK ==
    /\ drained \in BOOLEAN /\ shutdown_started \in BOOLEAN /\ broadcast \in BOOLEAN
    /\ active_writes \in Nat /\ in_flight \in Nat /\ drains \in Nat
    /\ writer \in [Writers -> {"new", "counted", "writing", "refused", "done"}]
    /\ trigger \in [Triggers -> {"new", "marked", "done"}]
    /\ resume \in [Resumes -> {"new", "checked", "stored", "overtaken", "done"}]
    /\ worker \in {"top", "waiting", "permit", "counted", "claiming", "exited"}
    /\ task \in [Tasks -> {"free", "running", "recorded", "done"}]
    /\ drain \in {"none", "sample", "noWrites", "done"}

Init ==
    /\ drained = FALSE /\ shutdown_started = FALSE /\ broadcast = FALSE
    /\ active_writes = 0 /\ in_flight = 0 /\ drains = 0
    /\ writer = [w \in Writers |-> "new"]
    /\ trigger = [t \in Triggers |-> "new"]
    /\ resume = [a \in Resumes |-> "new"]
    /\ worker = "top"
    /\ task = [k \in Tasks |-> "free"]
    /\ drain = "none"

-----------------------------------------------------------------------------
(* A write: increment first, check second, roll back when refused.         *)

CountWrite(w) ==
    /\ writer[w] = "new"
    /\ ~broadcast                  \* the listeners close on the broadcast
    /\ active_writes' = active_writes + 1
    /\ writer' = [writer EXCEPT ![w] = "counted"]
    /\ UNCHANGED <<drained, shutdown_started, in_flight, trigger, resume, worker,
                   task, drain, drains, broadcast>>

\* Mutants: the refusal rolls back, and so does the dropped guard; the flag is
\* not checked at all.
CheckWriteRollsBackTwice(w) ==
    /\ writer[w] = "counted"
    /\ writer' = [writer EXCEPT ![w] = IF shutdown_started THEN "refused" ELSE "writing"]
    /\ active_writes' = IF shutdown_started THEN active_writes - 1 ELSE active_writes
    /\ UNCHANGED <<drained, shutdown_started, in_flight, trigger, resume, worker,
                   task, drain, drains, broadcast>>

CheckWriteNever(w) ==
    /\ writer[w] = "counted"
    /\ writer' = [writer EXCEPT ![w] = "writing"]
    /\ UNCHANGED <<drained, shutdown_started, active_writes, in_flight, trigger,
                   resume, worker, task, drain, drains, broadcast>>

CheckWrite(w) ==
    /\ writer[w] = "counted"
    /\ writer' = [writer EXCEPT ![w] = IF shutdown_started THEN "refused" ELSE "writing"]
    /\ UNCHANGED <<drained, shutdown_started, active_writes, in_flight, trigger,
                   resume, worker, task, drain, drains, broadcast>>

\* Roll back a refused admission, or drop the guard when the owned task ends.
UncountWrite(w) ==
    /\ writer[w] \in {"refused", "writing"}
    /\ active_writes' = active_writes - 1
    /\ writer' = [writer EXCEPT ![w] = "done"]
    /\ UNCHANGED <<drained, shutdown_started, in_flight, trigger, resume, worker,
                   task, drain, drains, broadcast>>

WriterStep(w) == CountWrite(w) \/ CheckWrite(w) \/ UncountWrite(w)

-----------------------------------------------------------------------------
(* The claim loop of run_with_drain and the tasks it spawns.               *)

\* Two loads, drained first: shutdown_started never falls back, so reading both
\* clear means both were clear at the first load.
claims_blocked == drained \/ shutdown_started

Running == {k \in Tasks : task[k] \in {"running", "recorded"}}

\* Top of the loop: leave on the broadcast.
LeaveLoop ==
    /\ worker = "top" /\ broadcast
    /\ worker' = "exited"
    /\ UNCHANGED <<drained, shutdown_started, active_writes, in_flight, writer,
                   trigger, resume, task, drain, drains, broadcast>>

\* Top of the loop: not blocked (otherwise it sleeps and starts over).
LoopCheck ==
    /\ worker = "top" /\ ~broadcast /\ ~claims_blocked
    /\ worker' = "waiting"
    /\ UNCHANGED <<drained, shutdown_started, active_writes, in_flight, writer,
                   trigger, resume, task, drain, drains, broadcast>>

\* The wait for a permit, which may be long, also ends on the broadcast.
AcquirePermit ==
    /\ worker = "waiting"
    /\ \/ Cardinality(Running) < Permits /\ worker' = "permit"
       \/ broadcast /\ worker' = "top"
    /\ UNCHANGED <<drained, shutdown_started, active_writes, in_flight, writer,
                   trigger, resume, task, drain, drains, broadcast>>

CountClaim ==
    /\ worker = "permit"
    /\ in_flight' = in_flight + 1
    /\ worker' = "counted"
    /\ UNCHANGED <<drained, shutdown_started, active_writes, writer, trigger,
                   resume, task, drain, drains, broadcast>>

\* Re-check after the increment: back off and undo it, or go on to claim.
RecheckBlocked ==
    /\ worker = "counted" /\ claims_blocked
    /\ in_flight' = in_flight - 1
    /\ worker' = "top"
    /\ UNCHANGED <<drained, shutdown_started, active_writes, writer, trigger,
                   resume, task, drain, drains, broadcast>>

\* Mutant: no second look after the increment.
RecheckNever ==
    /\ worker = "counted"
    /\ worker' = "claiming"
    /\ UNCHANGED <<drained, shutdown_started, active_writes, in_flight, writer,
                   trigger, resume, task, drain, drains, broadcast>>

RecheckOpen ==
    /\ worker = "counted" /\ ~claims_blocked
    /\ worker' = "claiming"
    /\ UNCHANGED <<drained, shutdown_started, active_writes, in_flight, writer,
                   trigger, resume, task, drain, drains, broadcast>>

ClaimJob(k) ==
    /\ worker = "claiming"
    /\ task[k] = "free"
    /\ task' = [task EXCEPT ![k] = "running"]
    /\ worker' = "top"
    /\ UNCHANGED <<drained, shutdown_started, active_writes, in_flight, writer,
                   trigger, resume, drain, drains, broadcast>>

\* Mutant: an empty claim keeps its provisional count.
ClaimNothingKeepsCount ==
    /\ worker = "claiming"
    /\ worker' = "top"
    /\ UNCHANGED <<drained, shutdown_started, active_writes, in_flight, writer, trigger,
                   resume, task, drain, drains, broadcast>>

\* No pending job, or the claim statement failed.
ClaimNothing ==
    /\ worker = "claiming"
    /\ in_flight' = in_flight - 1
    /\ worker' = "top"
    /\ UNCHANGED <<drained, shutdown_started, active_writes, writer, trigger,
                   resume, task, drain, drains, broadcast>>

\* The outcome is written to the queue; then the counter falls.
RecordOutcome(k) ==
    /\ task[k] = "running"
    /\ task' = [task EXCEPT ![k] = "recorded"]
    /\ UNCHANGED <<drained, shutdown_started, active_writes, in_flight, writer,
                   trigger, resume, worker, drain, drains, broadcast>>

UncountTask(k) ==
    /\ task[k] = "recorded"
    /\ in_flight' = in_flight - 1
    /\ task' = [task EXCEPT ![k] = "done"]
    /\ UNCHANGED <<drained, shutdown_started, active_writes, writer, trigger,
                   resume, worker, drain, drains, broadcast>>

TaskStep(k) == ClaimJob(k) \/ RecordOutcome(k) \/ UncountTask(k)

LoopStep ==
    LeaveLoop \/ LoopCheck \/ AcquirePermit \/ CountClaim \/ RecheckBlocked
        \/ RecheckOpen \/ ClaimNothing

-----------------------------------------------------------------------------
(* POST /admin/api/drain and /admin/api/resume.                            *)

AdminDrain ==
    /\ ~broadcast
    /\ drained' = TRUE
    /\ UNCHANGED <<shutdown_started, active_writes, in_flight, writer, trigger,
                   resume, worker, task, drain, drains, broadcast>>

ResumeCheck(a) ==
    /\ resume[a] = "new" /\ ~broadcast
    /\ resume' = [resume EXCEPT ![a] = IF shutdown_started THEN "done" ELSE "checked"]
    /\ UNCHANGED <<drained, shutdown_started, active_writes, in_flight, writer,
                   trigger, worker, task, drain, drains, broadcast>>

ResumeStore(a) ==
    /\ resume[a] = "checked"
    /\ drained' = FALSE
    /\ resume' = [resume EXCEPT ![a] = "stored"]
    /\ UNCHANGED <<shutdown_started, active_writes, in_flight, writer, trigger,
                   worker, task, drain, drains, broadcast>>

ResumeRecheck(a) ==
    /\ resume[a] = "stored"
    /\ resume' = [resume EXCEPT ![a] = IF shutdown_started THEN "overtaken" ELSE "done"]
    /\ UNCHANGED <<drained, shutdown_started, active_writes, in_flight, writer,
                   trigger, worker, task, drain, drains, broadcast>>

ResumeReassert(a) ==
    /\ resume[a] = "overtaken"
    /\ drained' = TRUE
    /\ resume' = [resume EXCEPT ![a] = "done"]
    /\ UNCHANGED <<shutdown_started, active_writes, in_flight, writer, trigger,
                   worker, task, drain, drains, broadcast>>

ResumeStep(a) ==
    ResumeCheck(a) \/ ResumeStore(a) \/ ResumeRecheck(a) \/ ResumeReassert(a)

-----------------------------------------------------------------------------
(* begin_shutdown_drain and run_drain.                                     *)

MarkDrained(t) ==
    /\ trigger[t] = "new" /\ ~broadcast
    /\ drained' = TRUE
    /\ trigger' = [trigger EXCEPT ![t] = "marked"]
    /\ UNCHANGED <<shutdown_started, active_writes, in_flight, writer, resume,
                   worker, task, drain, drains, broadcast>>

\* Mutant: every trigger spawns a drain.
StartShutdownEach(t) ==
    /\ trigger[t] = "marked"
    /\ trigger' = [trigger EXCEPT ![t] = "done"]
    /\ shutdown_started' = TRUE
    /\ drain' = "sample" /\ drains' = drains + 1
    /\ UNCHANGED <<drained, active_writes, in_flight, writer, resume, worker, task,
                   broadcast>>

\* shutdown_started.swap(true): only the first trigger spawns the drain.
StartShutdown(t) ==
    /\ trigger[t] = "marked"
    /\ trigger' = [trigger EXCEPT ![t] = "done"]
    /\ shutdown_started' = TRUE
    /\ IF shutdown_started THEN UNCHANGED <<drain, drains>>
       ELSE drain' = "sample" /\ drains' = drains + 1
    /\ UNCHANGED <<drained, active_writes, in_flight, writer, resume, worker, task,
                   broadcast>>

TriggerStep(t) == MarkDrained(t) \/ StartShutdown(t)

\* active_writes is loaded first ...
SampleWrites ==
    /\ drain = "sample"
    /\ active_writes = 0
    /\ drain' = "noWrites"
    /\ UNCHANGED <<drained, shutdown_started, active_writes, in_flight, writer,
                   trigger, resume, worker, task, drains, broadcast>>

\* ... in_flight after it; when either is not zero the loop sleeps and starts
\* over (a nonzero write count is the same turn of the loop: it stays put).
SampleInFlight ==
    /\ drain = "noWrites"
    /\ IF in_flight = 0 THEN drain' = "done" /\ broadcast' = TRUE
                        ELSE drain' = "sample" /\ UNCHANGED broadcast
    /\ UNCHANGED <<drained, shutdown_started, active_writes, in_flight, writer,
                   trigger, resume, worker, task, drains>>

DrainStep == SampleWrites \/ SampleInFlight

-----------------------------------------------------------------------------
Next ==
    \/ \E w \in Writers : WriterStep(w)
    \/ \E t \in Triggers : TriggerStep(t)
    \/ \E a \in Resumes : ResumeStep(a)
    \/ \E k \in Tasks : TaskStep(k)
    \/ LoopStep
    \/ AdminDrain
    \/ DrainStep

Spec == Init /\ [][Next]_vars

\* Admitted writes and claimed jobs finish (git and index work is bounded by
\* timeouts), and the runtime schedules every runnable task.  Nothing obliges
\* anybody to send a request or to trigger a shutdown.
Fairness ==
    /\ \A w \in Writers : WF_vars(CheckWrite(w)) /\ WF_vars(UncountWrite(w))
    /\ \A k \in Tasks : WF_vars(RecordOutcome(k)) /\ WF_vars(UncountTask(k))
    /\ WF_vars(LoopStep)
    /\ \A t \in Triggers : WF_vars(StartShutdown(t))
    /\ WF_vars(DrainStep)

FairSpec == Spec /\ Fairness

-----------------------------------------------------------------------------
Writing == {w \in Writers : writer[w] = "writing"}

\* When the shutdown broadcast goes out, and ever after, no admitted write is
\* running and no job is claimed or about to be: what the increment-then-check
\* admissions and the drain's two separate loads are for.
QuietAtBroadcast ==
    broadcast => Writing = {} /\ Running = {} /\ worker # "claiming"

\* Once shutdown has started the set of admitted writes only shrinks, and at
\* most the one claim already past its re-check is added to the running jobs,
\* whatever resume does to the drained flag.
DrainIsMonotone ==
    [][shutdown_started =>
          /\ Writing' \subseteq Writing
          /\ Running' \subseteq Running \/ worker = "claiming"
          /\ worker' = "claiming" => worker = "claiming"]_vars

\* Two triggers never run two drains.
OneDrain == drains <= 1 /\ (shutdown_started <=> drains = 1)

\* A shutdown that has started ends in the broadcast (no request waits on the
\* drain and no refused request holds it up for good), and then the worker
\* pool's loop ends too.
ShutdownCompletes ==
    shutdown_started ~> (broadcast /\ worker = "exited" /\ Running = {})

=============================================================================
