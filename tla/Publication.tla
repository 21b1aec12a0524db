----------------------------- MODULE Publication -----------------------------
(***************************************************************************)
(* Publications: the offline rebuild of the whole graph into a slot of its *)
(* own, driven by a durable operation journal, and the switch of CURRENT   *)
(* to it; resume after a crash, a failure or a change of the inputs;       *)
(* cancellation, discard, prune and rollback by other processes; and the   *)
(* daemon that opens the selected slot.                                    *)
(*                                                                         *)
(* One process holds the publication root lock at a time: the command      *)
(* whose steps `cli' has, or a daemon that is starting.  Only a request to *)
(* cancel does without it, which is why journal writes carry the revision  *)
(* they expect.  Revisions are compared for equality and nothing else, so  *)
(* the model keeps what that comparison gives: cli.stale, the journal was  *)
(* written since the command last read or wrote it.  An operation and its  *)
(* target slot have the same name.                                         *)
(***************************************************************************)
EXTENDS Naturals, Sequences, FiniteSets

CONSTANTS
    Ops,            \* publication operations, and their target slots
    Base,           \* the database used while CURRENT selects no slot
    NoOp,
    Unborn, Gone,   \* an operation not yet created, or discarded
    None,           \* a file that is not there
    Sources,        \* repositories and vaults
    Content,        \* version of an input -> its content
    Edited,         \* the inputs that change
    MaxEdits, MaxFaults, MaxCancels   \* bounds: edits, crashes and failures, cancellations

\* What a rebuild reads: every source, the instance config, the preserved history.
Inputs == Sources \cup {"config", "history"}

Derived == {"TextSearch", "Regex", "Embeddings", "Metadata"}
Phases == <<"Planned", "Graph", "TextSearch", "Regex", "Embeddings", "Metadata",
            "Validating", "Ready", "Activating", "Activated">>
Staging == {Phases[i] : i \in 1..7}
Terminal == {"Activated", "Cancelled"}
PhaseNames == {Phases[i] : i \in 1..10} \cup Terminal
Successor(p) == Phases[(CHOOSE i \in 1..9 : Phases[i] = p) + 1]

\* What a command captures of the inputs, what a journal and a slot hold.
Captures == [Inputs -> DOMAIN Content]
Failures == {"none", "retryable", "permanent"}
Journals ==
    [phase : PhaseNames, cancel : BOOLEAN, failure : Failures,
     input : Captures, expected : Ops \cup {Base}, done : [Sources -> Nat], embedded : BOOLEAN]
Slots ==
    [graph : [Sources -> Nat], vectors : [Sources -> Nat], history : Nat,
     built : SUBSET Derived, manifest : BOOLEAN, touched : BOOLEAN]

ASSUME PublicationConstants ==
    /\ Base \notin Ops /\ NoOp \notin Ops \cup {Base}
    /\ Unborn # Gone /\ Unborn \notin Journals /\ Gone \notin Journals
    /\ None \notin Captures /\ None \notin Slots
    /\ Edited \subseteq Inputs
    /\ Content \in Seq(Nat \ {0}) /\ Content # <<>>
    /\ {MaxEdits, MaxFaults, MaxCancels} \subseteq Nat

VARIABLES
    live,     \* input -> its version now
    journal,  \* operation -> its state.json, Unborn or Gone
    rec,      \* operation -> the inputs of its inputs.json, or None
    slot,     \* operation -> its target slot, or None
    current,  \* CURRENT: selected slot, its predecessor, the slot it was rolled back from
    cli,      \* the command that holds the root lock
    daemon,   \* the daemon and the database it opens
    edits, faults, cancels

\* What no step of a command changes.
world == <<live, daemon, edits, faults, cancels>>
vars == <<live, journal, rec, slot, current, cli, daemon, edits, faults, cancels>>

Known(o) == journal[o] \notin {Unborn, Gone}
Staged(o) == slot[o] # None
\* The digest of a source, and the fingerprint of all inputs: a source's manifest has the
\* change tokens of its files, config and history count by their bytes.
Digest(m, i) == Content[m[i]]
Fingerprint(m) == [i \in Inputs |-> IF i \in Sources THEN m[i] ELSE Digest(m, i)]

NoCommand == [pc |-> "idle", op |-> NoOp, stale |-> FALSE, seen |-> [i \in Inputs |-> 1],
              activate |-> FALSE, err |-> "none", picked |-> {}, before |-> 0,
              restart |-> FALSE]
EmptySlot == [graph |-> [s \in Sources |-> 0], vectors |-> [s \in Sources |-> 0],
              history |-> 0, built |-> {}, manifest |-> FALSE, touched |-> FALSE]

Init ==
    /\ live = [i \in Inputs |-> 1]
    /\ journal = [o \in Ops |-> Unborn]
    /\ rec = [o \in Ops |-> None]
    /\ slot = [o \in Ops |-> None]
    /\ current = [target |-> Base, prev |-> Base, from |-> NoOp]
    /\ cli = NoCommand
    /\ daemon = [st |-> "down", db |-> Base]
    /\ edits = 0 /\ faults = 0 /\ cancels = 0

Places == {"idle", "create", "inputs", "resume", "rescope", "loop", "work", "indexed",
           "checkpoint", "advance", "cas", "selected", "fail", "failing", "discard", "entomb"}
Commands ==
    [pc : Places, op : Ops \cup {NoOp}, stale : BOOLEAN, seen : Captures, activate : BOOLEAN,
     err : Failures, picked : SUBSET Sources, before : Nat, restart : BOOLEAN]

TypeOK ==
    /\ live \in Captures
    /\ journal \in [Ops -> Journals \cup {Unborn, Gone}]
    /\ rec \in [Ops -> Captures \cup {None}]
    /\ slot \in [Ops -> Slots \cup {None}]
    /\ current \in [target : Ops \cup {Base}, prev : Ops \cup {Base}, from : Ops \cup {NoOp}]
    /\ cli \in Commands
    /\ daemon \in [st : {"down", "starting", "up"}, db : Ops \cup {Base}]
    /\ edits \in Nat /\ faults \in Nat /\ cancels \in Nat

RootFree == cli.pc = "idle" /\ daemon.st # "starting"
\* The stable anchor of the journal is held across these two windows.
JournalLocked(o) == cli.op = o /\ cli.pc \in {"cas", "entomb"}
DaemonOn(db) == daemon.st = "up" /\ daemon.db = db
Openable(db) == db = Base \/ (db \in Ops /\ Staged(db) /\ slot[db].manifest)

At(pc) == cli.pc = pc
J == journal[cli.op]
S == slot[cli.op]
Go(pc) == cli' = [cli EXCEPT !.pc = pc]
Exit == cli' = NoCommand
Bail(kind) == cli' = [cli EXCEPT !.pc = "fail", !.err = kind]
Write(o, j) == journal' = [journal EXCEPT ![o] = j]
Cancelled(j) == [j EXCEPT !.phase = "Cancelled"]
SetSlot(o, s) == slot' = [slot EXCEPT ![o] = s]

(***************************************************************************)
(* The start of a rebuild: capture the inputs, then create an operation or *)
(* resume one.                                                             *)
(***************************************************************************)
Begin(o, activate, pc) ==
    /\ RootFree /\ ~DaemonOn(current.target)
    /\ Openable(current.target)
    /\ cli' = [NoCommand EXCEPT !.pc = pc, !.op = o, !.seen = live, !.activate = activate]
    /\ UNCHANGED <<journal, rec, slot, current, world>>

BeginNew(o, activate) == journal[o] = Unborn /\ Begin(o, activate, "create")
BeginResume(o, activate) == Known(o) /\ Begin(o, activate, "resume")

CreateOperation ==
    /\ At("create")
    /\ Write(cli.op, [phase |-> "Planned", cancel |-> FALSE, failure |-> "none",
                      input |-> cli.seen, expected |-> current.target,
                      done |-> [s \in Sources |-> 0], embedded |-> FALSE])
    /\ Go("inputs")
    /\ UNCHANGED <<rec, slot, current, world>>

\* The inputs are recorded after the journal of a new operation is there.
RecordInputs ==
    /\ At("inputs")
    /\ rec' = [rec EXCEPT ![cli.op] = cli.seen]
    /\ Go("loop")
    /\ UNCHANGED <<journal, slot, current, world>>

ResumeCancelled ==
    /\ At("resume") /\ J.cancel
    /\ Write(cli.op, IF J.phase \in Terminal THEN J ELSE Cancelled(J))
    /\ Exit
    /\ UNCHANGED <<rec, slot, current, world>>

Drifted == /\ Fingerprint(J.input) # Fingerprint(cli.seen)
           /\ ~J.cancel /\ J.phase \in Staging

\* plan_resume_scope: the sources to index again, and whether the change has a scope.
Changed == {s \in Sources : Digest(rec[cli.op], s) # Digest(cli.seen, s)}
Scoped ==
    /\ ~(Staged(cli.op) /\ S.manifest)
    /\ rec[cli.op] # None
    /\ Fingerprint(rec[cli.op]) = Fingerprint(J.input)
    /\ Digest(rec[cli.op], "config") = Digest(cli.seen, "config")
Attributable == Changed # {} \/ Digest(rec[cli.op], "history") # Digest(cli.seen, "history")

\* The change has no scope: fail the operation for good, discard it, start a new one.
ResumeRestart ==
    /\ At("resume") /\ Drifted /\ ~Scoped
    /\ Write(cli.op, [J EXCEPT !.failure = IF @ = "none" THEN "permanent" ELSE @])
    /\ cli' = [cli EXCEPT !.pc = "discard", !.restart = TRUE]
    /\ UNCHANGED <<rec, slot, current, world>>

ResumeUnattributable ==
    /\ At("resume") /\ Drifted /\ Scoped /\ ~Attributable
    /\ Exit
    /\ UNCHANGED <<journal, rec, slot, current, world>>

\* The new inputs are recorded first: a crash here leaves a record the journal does not match.
ResumeRescope ==
    /\ At("resume") /\ Drifted /\ Scoped /\ Attributable
    /\ rec' = [rec EXCEPT ![cli.op] = cli.seen]
    /\ cli' = [cli EXCEPT !.pc = "rescope", !.picked = Changed]
    /\ UNCHANGED <<journal, slot, current, world>>

\* Mutant: a rescoped operation goes on in the phase it had reached.
RescopedInPlace(j, invalidated, seen) ==
    [j EXCEPT !.input = seen, !.failure = "none",
              !.done = [s \in Sources |-> IF s \in invalidated THEN 0 ELSE @[s]]]

Rescoped(j, invalidated, seen) ==
    [j EXCEPT !.input = seen, !.failure = "none",
              !.phase = IF @ = "Planned" THEN @ ELSE "Graph",
              !.done = [s \in Sources |-> IF s \in invalidated THEN 0 ELSE @[s]]]

RescopeOperation ==
    /\ At("rescope")
    /\ IF cli.stale \/ J.failure = "permanent"
       THEN Exit /\ UNCHANGED journal
       ELSE /\ Write(cli.op, Rescoped(J, cli.picked, cli.seen))
            /\ cli' = [cli EXCEPT !.pc = "loop", !.picked = {}]
    /\ UNCHANGED <<rec, slot, current, world>>

\* No drift, or an operation past staging: resumable_with, and a retryable failure is cleared.
ResumeAsIs ==
    /\ At("resume") /\ ~J.cancel /\ ~Drifted
    /\ IF /\ J.phase \notin Terminal
          /\ Fingerprint(J.input) = Fingerprint(cli.seen)
          /\ J.failure # "permanent"
       THEN Write(cli.op, [J EXCEPT !.failure = "none"]) /\ Go("loop")
       ELSE Exit /\ UNCHANGED journal
    /\ UNCHANGED <<rec, slot, current, world>>

(***************************************************************************)
(* The worker loop: reload the journal, honour a cancellation, do the work *)
(* of the phase, advance.                                                  *)
(***************************************************************************)
LoopCancelled ==
    /\ At("loop") /\ J.cancel
    /\ Write(cli.op, Cancelled(J))
    /\ Exit
    /\ UNCHANGED <<rec, slot, current, world>>

LoopEnds ==
    /\ At("loop") /\ ~J.cancel
    /\ J.phase = "Ready" /\ ~cli.activate
    /\ Exit
    /\ UNCHANGED <<journal, rec, slot, current, world>>

LoopWorks ==
    /\ At("loop") /\ ~J.cancel
    /\ J.phase # "Ready" \/ cli.activate
    /\ cli' = [cli EXCEPT !.pc = "work", !.stale = FALSE]
    /\ UNCHANGED <<journal, rec, slot, current, world>>

Working(phase) == At("work") /\ J.phase = phase

\* A progress checkpoint or the reload between two sources meets another revision.
WorkStale ==
    /\ At("work") /\ cli.stale
    /\ Bail("retryable")
    /\ UNCHANGED <<journal, rec, slot, current, world>>

\* The slot is gone (a discard that did not finish): its database cannot be opened.
WorkWithoutSlot ==
    /\ At("work") /\ J.phase \notin {"Planned", "Ready", "Activating"} /\ ~Staged(cli.op)
    /\ Bail("retryable")
    /\ UNCHANGED <<journal, rec, slot, current, world>>

EnsurePlannedDatabase ==
    /\ Working("Planned")
    /\ SetSlot(cli.op, IF Staged(cli.op) THEN S ELSE EmptySlot)
    /\ Go("advance")
    /\ UNCHANGED <<journal, rec, current, world>>

\* The working tree is read as it is now, whatever was captured.
IndexSource(s) ==
    /\ Working("Graph") /\ Staged(cli.op)
    /\ J.done[s] = 0
    /\ SetSlot(cli.op, [S EXCEPT !.graph[s] = Digest(live, s), !.built = {}])
    /\ cli' = [cli EXCEPT !.pc = "indexed", !.picked = {s}, !.before = S.graph[s]]
    /\ UNCHANGED <<journal, rec, current, world>>

\* invalidate_changed_embeddings, against what the slot held before the source was indexed.
InvalidateEmbeddings ==
    /\ At("indexed")
    /\ \E s \in cli.picked :
          SetSlot(cli.op, [S EXCEPT !.vectors[s] =
                             IF cli.before \notin {0, S.graph[s]} THEN 0 ELSE @])
    /\ Go("checkpoint")
    /\ UNCHANGED <<journal, rec, current, world>>

\* The checkpoint has the captured digest.
CheckpointSource ==
    /\ At("checkpoint")
    /\ IF cli.stale
       THEN Bail("retryable") /\ UNCHANGED journal
       ELSE /\ \E s \in cli.picked :
                  Write(cli.op, [J EXCEPT !.done[s] = Digest(cli.seen, s)])
            /\ cli' = [cli EXCEPT !.pc = "work", !.picked = {}, !.before = 0]
    /\ UNCHANGED <<rec, slot, current, world>>

\* Every source is checkpointed with the captured digest.  The code ends the command when one
\* has another digest; here it would be stuck, and the absence of deadlock shows that it never
\* happens.  Links over the whole graph, then the history captured at the start is imported.
FinishGraph ==
    /\ Working("Graph") /\ Staged(cli.op)
    /\ \A s \in Sources : J.done[s] = Digest(cli.seen, s)
    /\ SetSlot(cli.op, [S EXCEPT !.history = Digest(cli.seen, "history"), !.built = {}])
    /\ Go("advance")
    /\ UNCHANGED <<journal, rec, current, world>>

\* After one complete pass the embedding phase only fills in missing vectors.
Embedded == [s \in Sources |->
                IF J.embedded /\ S.vectors[s] # 0 THEN S.vectors[s] ELSE S.graph[s]]

BuildDerived ==
    /\ At("work") /\ J.phase \in Derived /\ Staged(cli.op)
    /\ SetSlot(cli.op, [S EXCEPT !.built = @ \cup {J.phase},
                                 !.vectors = IF J.phase = "Embeddings" THEN Embedded ELSE @])
    /\ Go("advance")
    /\ UNCHANGED <<journal, rec, current, world>>

\* The gate: sources and inputs are still the captured ones, then the slot is sealed.
Stable == /\ \A s \in Sources : live[s] = cli.seen[s]
          /\ Fingerprint(live) = Fingerprint(J.input)

Validate ==
    /\ Working("Validating") /\ Staged(cli.op)
    /\ IF Stable
       THEN SetSlot(cli.op, [S EXCEPT !.manifest = TRUE]) /\ Go("advance")
       ELSE Bail("retryable") /\ UNCHANGED slot
    /\ UNCHANGED <<journal, rec, current, world>>

\* record_artifact: the first complete embed is a checkpoint of its own, before the phase ends.
Unrecorded == J.phase = "Embeddings" /\ ~J.embedded

RecordEmbedded ==
    /\ At("advance") /\ Unrecorded
    /\ IF cli.stale
       THEN Bail("retryable") /\ UNCHANGED journal
       ELSE Write(cli.op, [J EXCEPT !.embedded = TRUE]) /\ UNCHANGED cli
    /\ UNCHANGED <<rec, slot, current, world>>

\* advance_phase and mark_ready.
Advance ==
    /\ At("advance") /\ ~Unrecorded
    /\ IF cli.stale
       THEN Bail("retryable") /\ UNCHANGED journal
       ELSE Write(cli.op, [J EXCEPT !.phase = Successor(@)]) /\ Go("loop")
    /\ UNCHANGED <<rec, slot, current, world>>

\* Anything a phase does may fail; staged links that are not current fail for good.
WorkFails(kind) ==
    /\ At("work") /\ faults < MaxFaults
    /\ kind = "retryable" \/ J.phase = "Validating"
    /\ Bail(kind)
    /\ faults' = faults + 1
    /\ UNCHANGED <<journal, rec, slot, current, live, daemon, edits, cancels>>

(***************************************************************************)
(* Activation.                                                             *)
(***************************************************************************)
\* select_operation up to the journal checkpoint, whose lock it keeps.
Select ==
    /\ At("work") /\ J.phase \in {"Ready", "Activating"}
    /\ IF cli.stale \/ ~Openable(J.expected)
       THEN Bail("retryable") /\ UNCHANGED journal
       ELSE Write(cli.op, [J EXCEPT !.phase = "Activating"]) /\ Go("cas")
    /\ UNCHANGED <<rec, slot, current, world>>

Sealed(o) == Staged(o) /\ slot[o].manifest

CompareAndSwapCurrent ==
    /\ At("cas")
    /\ IF current.target = cli.op
       THEN Go("selected") /\ UNCHANGED current
       ELSE IF ~Sealed(cli.op)
       THEN Bail("retryable") /\ UNCHANGED current
       ELSE IF S.touched \/ current.target # J.expected
       THEN Bail("permanent") /\ UNCHANGED current
       ELSE /\ current' = [target |-> cli.op, prev |-> J.expected, from |-> NoOp]
            /\ Go("selected")
    /\ UNCHANGED <<journal, rec, slot, world>>

\* rollback_current_under_lock: one step back, never two.
RolledBack ==
    IF current.prev = Base THEN [target |-> Base, prev |-> Base, from |-> NoOp]
    ELSE [target |-> current.prev, prev |-> Base, from |-> current.target]
MayRollBack ==
    /\ current.target # Base /\ current.from = NoOp
    /\ Openable(current.prev)

\* The selected slot fails its startup smoke; the selection is taken back.
SmokeFails ==
    /\ At("selected") /\ faults < MaxFaults
    /\ current' = IF MayRollBack THEN RolledBack ELSE current
    /\ Bail("retryable")
    /\ faults' = faults + 1
    /\ UNCHANGED <<journal, rec, slot, live, daemon, edits, cancels>>

CompleteActivation ==
    /\ At("selected")
    /\ IF cli.stale
       THEN Bail("retryable") /\ UNCHANGED journal
       ELSE Write(cli.op, [J EXCEPT !.phase = "Activated"]) /\ Exit
    /\ UNCHANGED <<rec, slot, current, world>>

(***************************************************************************)
(* The error path: acknowledge a cancellation, or record the failure.      *)
(***************************************************************************)
FailCancelled ==
    /\ At("fail") /\ J.cancel /\ J.phase \notin Terminal
    /\ Write(cli.op, Cancelled(J))
    /\ Exit
    /\ UNCHANGED <<rec, slot, current, world>>

FailLoaded ==
    /\ At("fail") /\ ~J.cancel
    /\ cli' = [cli EXCEPT !.pc = "failing", !.stale = FALSE]
    /\ UNCHANGED <<journal, rec, slot, current, world>>

\* A cancellation that lands first makes the record stale, which nobody looks at.
RecordFailure ==
    /\ At("failing")
    /\ IF cli.stale \/ J.failure # "none" THEN UNCHANGED journal
       ELSE Write(cli.op, [J EXCEPT !.failure = cli.err])
    /\ Exit
    /\ UNCHANGED <<rec, slot, current, world>>

(***************************************************************************)
(* The other commands.                                                     *)
(***************************************************************************)
\* Mutant: without the journal's lock.
RequestCancelUnlocked(o) ==
    /\ cancels < MaxCancels
    /\ Known(o) /\ journal[o].phase \notin Terminal /\ ~journal[o].cancel
    /\ Write(o, [journal[o] EXCEPT !.cancel = TRUE])
    /\ cli' = [cli EXCEPT !.stale = @ \/ cli.op = o]
    /\ cancels' = cancels + 1
    /\ UNCHANGED <<live, rec, slot, current, daemon, edits, faults>>

RequestCancel(o) ==
    /\ cancels < MaxCancels
    /\ Known(o) /\ journal[o].phase \notin Terminal /\ ~journal[o].cancel
    /\ ~JournalLocked(o)
    /\ Write(o, [journal[o] EXCEPT !.cancel = TRUE])
    /\ cli' = [cli EXCEPT !.stale = @ \/ cli.op = o]
    /\ cancels' = cancels + 1
    /\ UNCHANGED <<live, rec, slot, current, daemon, edits, faults>>

\* publication discard; with force a pending cancellation is acknowledged first.
BeginDiscard(o, force) ==
    /\ RootFree /\ Known(o)
    /\ LET j == IF /\ force /\ journal[o].cancel /\ journal[o].failure = "none"
                    /\ journal[o].phase # "Cancelled"
                THEN Cancelled(journal[o]) ELSE journal[o]
       IN  Write(o, j)
    /\ cli' = [NoCommand EXCEPT !.pc = "discard", !.op = o]
    /\ UNCHANGED <<rec, slot, current, world>>

\* Mutants: the selected slot is not looked up; the journal goes before the slot.
DiscardableUnselected(o) == journal[o].phase = "Cancelled" \/ journal[o].failure # "none"
Discardable(o) ==
    /\ journal[o].phase = "Cancelled" \/ journal[o].failure # "none"
    /\ current.target # o

\* discard_operation: the slot is moved below the operation, then the operation is renamed
\* out of the way and deleted.
DiscardRefused ==
    /\ At("discard") /\ (cli.stale \/ ~Discardable(cli.op))
    /\ Exit
    /\ UNCHANGED <<journal, rec, slot, current, world>>

DiscardJournalFirst ==
    /\ At("discard") /\ ~cli.stale /\ Discardable(cli.op)
    /\ Write(cli.op, Gone)
    /\ Go("entomb")
    /\ UNCHANGED <<rec, slot, current, world>>

DiscardSlot ==
    /\ At("discard") /\ ~cli.stale /\ Discardable(cli.op)
    /\ SetSlot(cli.op, None)
    /\ Go("entomb")
    /\ UNCHANGED <<journal, rec, current, world>>

\* The rename of the operation directory; a resume that restarts goes on with a new one.
Entomb ==
    /\ At("entomb")
    /\ Write(cli.op, Gone)
    /\ rec' = [rec EXCEPT ![cli.op] = None]
    /\ slot' = [slot EXCEPT ![cli.op] = None]
    /\ \/ \E o \in Ops : /\ cli.restart /\ journal[o] = Unborn
                        /\ cli' = [cli EXCEPT !.pc = "create", !.op = o, !.restart = FALSE]
       \/ /\ ~cli.restart \/ (\A o \in Ops : journal[o] # Unborn)   \* the bound on Ops
          /\ Exit
    /\ UNCHANGED <<current, world>>

\* prune_slots keeps CURRENT, its predecessor and what operations that are not over target;
\* it removes the others one by one.  Its daemon check asks about the base database.
Retained ==
    {current.target, current.prev}
      \cup {o \in Ops : Known(o) /\ journal[o].phase \notin Terminal}
Prune(gone) ==
    /\ RootFree /\ ~DaemonOn(Base)
    /\ gone # {} /\ gone \cap Retained = {}
    /\ \A o \in gone : Staged(o)
    /\ slot' = [o \in Ops |-> IF o \in gone THEN None ELSE slot[o]]
    /\ UNCHANGED <<journal, rec, current, cli, world>>

Rollback ==
    /\ RootFree /\ MayRollBack
    /\ ~DaemonOn(current.target) /\ ~DaemonOn(current.prev)
    /\ current' = RolledBack
    /\ UNCHANGED <<journal, rec, slot, cli, world>>

(***************************************************************************)
(* The daemon, the inputs and crashes.                                     *)
(***************************************************************************)
\* Mutant: CURRENT is resolved without the root lock.
DaemonResolveUnlocked ==
    /\ daemon.st = "down" /\ Openable(current.target)
    /\ daemon' = [st |-> "starting", db |-> current.target]
    /\ UNCHANGED <<journal, rec, slot, current, cli, live, edits, faults, cancels>>

\* The daemon takes the root lock, resolves CURRENT ...
DaemonResolve ==
    /\ daemon.st = "down" /\ RootFree /\ Openable(current.target)
    /\ daemon' = [st |-> "starting", db |-> current.target]
    /\ UNCHANGED <<journal, rec, slot, current, cli, live, edits, faults, cancels>>

\* ... and gives it back once the graph is open and its write lock held.
DaemonOpen ==
    /\ daemon.st = "starting"
    /\ daemon' = [daemon EXCEPT !.st = "up"]
    /\ UNCHANGED <<journal, rec, slot, current, cli, live, edits, faults, cancels>>

\* It writes to its slot: the bytes are no longer those the manifest declares.
DaemonWrites ==
    /\ daemon.st = "up" /\ daemon.db \in Ops /\ Staged(daemon.db)
    /\ SetSlot(daemon.db, [slot[daemon.db] EXCEPT !.touched = TRUE])
    /\ UNCHANGED <<journal, rec, current, cli, world>>

DaemonStops ==
    /\ daemon.st # "down"
    /\ daemon' = [st |-> "down", db |-> Base]
    /\ UNCHANGED <<journal, rec, slot, current, cli, live, edits, faults, cancels>>

\* An input is written; a version with the content of an older one was only touched, which only
\* the manifest of a source shows.
Edit(i, v) ==
    /\ edits < MaxEdits /\ v > live[i]
    /\ i \in Sources \/ Content[v] # Digest(live, i)
    /\ live' = [live EXCEPT ![i] = v]
    /\ edits' = edits + 1
    /\ UNCHANGED <<journal, rec, slot, current, cli, daemon, faults, cancels>>

Crash ==
    /\ cli.pc # "idle" /\ faults < MaxFaults
    /\ Exit
    /\ faults' = faults + 1
    /\ UNCHANGED <<journal, rec, slot, current, live, daemon, edits, cancels>>

Rebuild ==
    \/ \E o \in Ops, a \in BOOLEAN : BeginNew(o, a) \/ BeginResume(o, a)
    \/ CreateOperation \/ RecordInputs
    \/ ResumeCancelled \/ ResumeRestart \/ ResumeUnattributable \/ ResumeRescope
    \/ RescopeOperation \/ ResumeAsIs
    \/ LoopCancelled \/ LoopEnds \/ LoopWorks \/ WorkStale \/ WorkWithoutSlot
    \/ EnsurePlannedDatabase
    \/ \E s \in Sources : IndexSource(s)
    \/ InvalidateEmbeddings \/ CheckpointSource \/ FinishGraph \/ BuildDerived
    \/ Validate \/ RecordEmbedded \/ Advance
    \/ \E kind \in {"retryable", "permanent"} : WorkFails(kind)
    \/ Select \/ CompareAndSwapCurrent \/ SmokeFails \/ CompleteActivation
    \/ FailCancelled \/ FailLoaded \/ RecordFailure

Operator ==
    \/ \E o \in Ops : RequestCancel(o)
    \/ \E o \in Ops, force \in BOOLEAN : BeginDiscard(o, force)
    \/ DiscardRefused \/ DiscardSlot \/ Entomb
    \/ \E gone \in SUBSET Ops : Prune(gone)
    \/ Rollback

Environment ==
    \/ DaemonResolve \/ DaemonOpen \/ DaemonWrites \/ DaemonStops
    \/ \E i \in Edited, v \in DOMAIN Content : Edit(i, v)
    \/ Crash

Next == Rebuild \/ Operator \/ Environment
Spec == Init /\ [][Next]_vars

(***************************************************************************)
(* Properties.                                                             *)
(***************************************************************************)
\* CURRENT always selects the base database or a slot that is there and sealed: no crash,
\* discard, prune or rollback leaves the selector pointing at nothing (resolve_selected_database,
\* discard_operation, prune_slots).
CurrentIsSealed == Openable(current.target)

\* A running daemon serves what CURRENT selects: no command moves the selector or removes the
\* slot under it, and none slips in between its resolution of CURRENT and its open.
DaemonServesCurrent ==
    daemon.st = "up" => daemon.db = current.target /\ Openable(daemon.db)

\* A slot past the validation gate was built, whole, from the inputs of its operation's plan,
\* whatever crashes, failures, changes of the inputs and scoped resumes led to it.  It is said
\* of inputs that are never changed back to what they were before.
SealedMatchesPlan ==
    \A o \in Ops :
      (Known(o) /\ journal[o].phase \in {"Ready", "Activating", "Activated"}
         /\ Staged(o) /\ ~slot[o].touched) =>
        /\ \A s \in Sources : slot[o].graph[s] = Digest(journal[o].input, s)
        /\ slot[o].history = Digest(journal[o].input, "history")
        /\ slot[o].built = Derived

\* CURRENT is never switched to the target of an operation whose cancellation was requested.
CancelHonoured ==
    [][(current'.target # current.target /\ current'.target \in Ops /\ current'.from = NoOp)
         => ~journal[current'.target].cancel]_vars

\* An operation that was discarded leaves no slot behind that nothing accounts for, even when
\* the discard is interrupted: the journal goes last.
NoOrphanSlot == \A o \in Ops : journal[o] = Gone => ~Staged(o)

\* What run_publication_rebuild says of indexing a source again, "remember its nodes' content so
\* the ones whose content changed are re-embedded": the vectors of a sealed slot are those of
\* the graph it has.
SealedVectorsMatchGraph ==
    \A o \in Ops :
      (Known(o) /\ journal[o].phase \in {"Ready", "Activating", "Activated"}
         /\ Staged(o) /\ ~slot[o].touched) => slot[o].vectors = slot[o].graph

=============================================================================
