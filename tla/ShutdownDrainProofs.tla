------------------------- MODULE ShutdownDrainProofs -------------------------
(***************************************************************************)
(* TypeOK, QuietAtBroadcast, OneDrain and DrainIsMonotone for any finite   *)
(* sets of writes and tasks and any number of triggers and resumes.  The   *)
(* counters are tied to the sets they count; the drain's two loads are     *)
(* then sound because nothing is admitted once shutdown has started.       *)
(***************************************************************************)
EXTENDS ShutdownDrain, FiniteSetTheorems, TLAPS

\* Writes between their increment and their decrement.
Counted == {w \in Writers : writer[w] \in {"counted", "writing", "refused"}}

\* The claim loop's provisional increment.
Provisional == IF worker \in {"counted", "claiming"} THEN 1 ELSE 0

CountsRight ==
    /\ active_writes = Cardinality(Counted)
    /\ in_flight = Cardinality(Running) + Provisional

\* The four control variables of finite range, without the counters.
ControlTypes ==
    /\ writer \in [Writers -> {"new", "counted", "writing", "refused", "done"}]
    /\ worker \in {"top", "waiting", "permit", "counted", "claiming", "exited"}
    /\ task \in [Tasks -> {"free", "running", "recorded", "done"}]
    /\ drain \in {"none", "sample", "noWrites", "done"}

\* What the drain knows at each of its steps.
DrainKnows ==
    /\ drain # "none" => shutdown_started
    /\ drain \in {"noWrites", "done"} => Writing = {}
    /\ drain = "done" => Running = {} /\ worker # "claiming"
    /\ broadcast => drain = "done"

-----------------------------------------------------------------------------
(* Counting.                                                               *)

\* Only these steps touch the writes or their counter, and each moves both.
LEMMA WritesCounted ==
    ASSUME ControlTypes, active_writes = Cardinality(Counted), NEW w \in Writers,
           WriterStep(w)
    PROVE  active_writes' = Cardinality(Counted')
<1>0. IsFiniteSet(Counted) /\ Cardinality(Counted) \in Nat
  BY DrainConstants, FS_Subset, FS_CardinalityType DEF Counted
<1>1. CASE CountWrite(w)
  <2>1. w \notin Counted /\ Counted' = Counted \cup {w}
    BY <1>1 DEF CountWrite, Counted, ControlTypes
  <2>. QED
    BY <1>0, <1>1, <2>1, FS_AddElement DEF CountWrite
<1>2. CASE CheckWrite(w)
  <2>1. Counted' = Counted
    BY <1>2 DEF CheckWrite, Counted, ControlTypes
  <2>. QED
    BY <1>2, <2>1 DEF CheckWrite
<1>3. CASE UncountWrite(w)
  <2>1. w \in Counted /\ Counted' = Counted \ {w}
    BY <1>3 DEF UncountWrite, Counted, ControlTypes
  <2>. QED
    BY <1>0, <1>3, <2>1, FS_RemoveElement DEF UncountWrite
<1>. QED
  BY <1>1, <1>2, <1>3 DEF WriterStep

\* The same for the tasks: a claim hands its provisional count to its task.
LEMMA TasksCounted ==
    ASSUME ControlTypes, in_flight = Cardinality(Running) + Provisional,
           NEW k \in Tasks, TaskStep(k)
    PROVE  in_flight' = Cardinality(Running') + Provisional'
<1>0. IsFiniteSet(Running) /\ Cardinality(Running) \in Nat
  BY DrainConstants, FS_Subset, FS_CardinalityType DEF Running
<1>1. CASE ClaimJob(k)
  <2>1. k \notin Running /\ Running' = Running \cup {k}
    BY <1>1 DEF ClaimJob, Running, ControlTypes
  <2>2. Cardinality(Running') = Cardinality(Running) + 1
    BY <1>0, <2>1, FS_AddElement
  <2>3. Provisional = 1 /\ Provisional' = 0 /\ in_flight' = in_flight
    BY <1>1 DEF ClaimJob, Provisional
  <2>. QED
    BY <1>0, <2>2, <2>3
<1>2. CASE RecordOutcome(k)
  <2>1. Running' = Running
    BY <1>2 DEF RecordOutcome, Running, ControlTypes
  <2>2. Provisional' = Provisional /\ in_flight' = in_flight
    BY <1>2 DEF RecordOutcome, Provisional
  <2>. QED
    BY <2>1, <2>2
<1>3. CASE UncountTask(k)
  <2>1. k \in Running /\ Running' = Running \ {k}
    BY <1>3 DEF UncountTask, Running, ControlTypes
  <2>2. Cardinality(Running') = Cardinality(Running) - 1
    BY <1>0, <2>1, FS_RemoveElement
  <2>3. /\ Provisional' = Provisional /\ Provisional \in {0, 1}
        /\ in_flight' = in_flight - 1
    BY <1>3 DEF UncountTask, Provisional
  <2>. QED
    BY <1>0, <2>2, <2>3
<1>. QED
  BY <1>1, <1>2, <1>3 DEF TaskStep

\* The loop adds and removes its provisional count itself.
LEMMA LoopCounted ==
    ASSUME ControlTypes, in_flight = Cardinality(Running) + Provisional, LoopStep
    PROVE  in_flight' = Cardinality(Running') + Provisional'
<1>0. Cardinality(Running) \in Nat
  BY DrainConstants, FS_Subset, FS_CardinalityType DEF Running
<1>1. Running' = Running
  BY DEF LoopStep, LeaveLoop, LoopCheck, AcquirePermit, CountClaim, RecheckBlocked,
         RecheckOpen, ClaimNothing, Running
<1>2. CASE LeaveLoop \/ LoopCheck \/ AcquirePermit \/ RecheckOpen
  BY <1>1, <1>2 DEF LeaveLoop, LoopCheck, AcquirePermit, RecheckOpen, Provisional
<1>3. CASE CountClaim \/ RecheckBlocked \/ ClaimNothing
  BY <1>0, <1>1, <1>3 DEF CountClaim, RecheckBlocked, ClaimNothing, Provisional
<1>. QED
  BY <1>2, <1>3 DEF LoopStep

\* Every other step leaves the counters and what they count alone.
LEMMA OthersCount ==
    ASSUME CountsRight,
           \/ \E t \in Triggers : TriggerStep(t)
           \/ \E a \in Resumes : ResumeStep(a)
           \/ AdminDrain \/ DrainStep \/ UNCHANGED vars
    PROVE  /\ CountsRight'
           /\ UNCHANGED <<active_writes, in_flight, writer, worker, task>>
<1>1. UNCHANGED <<active_writes, in_flight, writer, worker, task>>
  BY DEF TriggerStep, MarkDrained, StartShutdown, ResumeStep, ResumeCheck, ResumeStore,
         ResumeRecheck, ResumeReassert, AdminDrain, DrainStep, SampleWrites,
         SampleInFlight, vars
<1>. QED
  BY <1>1 DEF CountsRight, Counted, Running, Provisional

\* Steps of one kind leave the other kind's counter and set alone.
LEMMA KindsApart ==
    ASSUME TRUE
    PROVE  /\ \A w \in Writers : WriterStep(w) =>
                  UNCHANGED <<in_flight, worker, task, drain, broadcast, shutdown_started>>
           /\ \A k \in Tasks : TaskStep(k) =>
                  UNCHANGED <<active_writes, writer, drain, broadcast, shutdown_started>>
           /\ LoopStep =>
                  UNCHANGED <<active_writes, writer, task, drain, broadcast, shutdown_started>>
<1>1. ASSUME NEW w \in Writers, WriterStep(w)
      PROVE  UNCHANGED <<in_flight, worker, task, drain, broadcast, shutdown_started>>
  BY <1>1 DEF WriterStep, CountWrite, CheckWrite, UncountWrite
<1>2. ASSUME NEW k \in Tasks, TaskStep(k)
      PROVE  UNCHANGED <<active_writes, writer, drain, broadcast, shutdown_started>>
  BY <1>2 DEF TaskStep, ClaimJob, RecordOutcome, UncountTask
<1>3. ASSUME LoopStep
      PROVE  UNCHANGED <<active_writes, writer, task, drain, broadcast, shutdown_started>>
  BY <1>3 DEF LoopStep, LeaveLoop, LoopCheck, AcquirePermit, CountClaim, RecheckBlocked,
     RecheckOpen, ClaimNothing
<1>. QED
  BY <1>1, <1>2, <1>3

\* The counters are exact.
LEMMA CountsStep ==
    ASSUME ControlTypes, CountsRight, [Next]_vars
    PROVE  CountsRight'
<1>1. ASSUME NEW w \in Writers, WriterStep(w) PROVE CountsRight'
  BY <1>1, WritesCounted, KindsApart DEF CountsRight, Running, Provisional
<1>2. ASSUME NEW k \in Tasks, TaskStep(k) PROVE CountsRight'
  BY <1>2, TasksCounted, KindsApart DEF CountsRight, Counted
<1>3. ASSUME LoopStep PROVE CountsRight'
  BY <1>3, LoopCounted, KindsApart DEF CountsRight, Counted
<1>. QED
  BY <1>1, <1>2, <1>3, OthersCount DEF Next

\* The control variables keep their ranges.
LEMMA ControlStep ==
    ASSUME ControlTypes, [Next]_vars
    PROVE  ControlTypes'
<1>1. ASSUME NEW w \in Writers, WriterStep(w) PROVE ControlTypes'
  BY <1>1 DEF ControlTypes, WriterStep, CountWrite, CheckWrite, UncountWrite
<1>2. ASSUME NEW k \in Tasks, TaskStep(k) PROVE ControlTypes'
  BY <1>2 DEF ControlTypes, TaskStep, ClaimJob, RecordOutcome, UncountTask
<1>3. ASSUME LoopStep PROVE ControlTypes'
  BY <1>3 DEF ControlTypes, LoopStep, LeaveLoop, LoopCheck, AcquirePermit, CountClaim,
     RecheckBlocked, RecheckOpen, ClaimNothing
<1>4. ASSUME NEW t \in Triggers, TriggerStep(t) PROVE ControlTypes'
  BY <1>4 DEF ControlTypes, TriggerStep, MarkDrained, StartShutdown
<1>5. ASSUME NEW a \in Resumes, ResumeStep(a) PROVE ControlTypes'
  BY <1>5 DEF ControlTypes, ResumeStep, ResumeCheck, ResumeStore, ResumeRecheck,
     ResumeReassert
<1>6. CASE AdminDrain \/ DrainStep \/ UNCHANGED vars
  BY <1>6 DEF ControlTypes, AdminDrain, DrainStep, SampleWrites, SampleInFlight, vars
<1>. QED
  BY <1>1, <1>2, <1>3, <1>4, <1>5, <1>6 DEF Next

-----------------------------------------------------------------------------
(* The drain.                                                              *)

\* Once shutdown has started, no step admits a write or passes the re-check.
LEMMA NothingAdmitted ==
    ASSUME ControlTypes, shutdown_started, Next
    PROVE  /\ shutdown_started'
           /\ Writing' \subseteq Writing
           /\ Running' \subseteq Running \/ worker = "claiming"
           /\ worker' = "claiming" => worker = "claiming"
<1>1. ASSUME NEW w \in Writers, WriterStep(w)
      PROVE  Writing' \subseteq Writing
  BY <1>1 DEF ControlTypes, WriterStep, CountWrite, CheckWrite, UncountWrite, Writing
<1>2. ASSUME NEW k \in Tasks, TaskStep(k)
      PROVE  /\ Running' \subseteq Running \/ worker = "claiming"
             /\ worker' = "claiming" => worker = "claiming"
  BY <1>2 DEF ControlTypes, TaskStep, ClaimJob, RecordOutcome, UncountTask, Running
<1>3. ASSUME LoopStep
      PROVE  worker' = "claiming" => worker = "claiming"
  BY <1>3 DEF LoopStep, LeaveLoop, LoopCheck, AcquirePermit, CountClaim, RecheckBlocked,
     RecheckOpen, ClaimNothing, claims_blocked
<1>4. ASSUME \/ \E t \in Triggers : TriggerStep(t)
             \/ \E a \in Resumes : ResumeStep(a)
             \/ AdminDrain \/ DrainStep
      PROVE  UNCHANGED <<writer, worker, task>> /\ shutdown_started'
  BY <1>4 DEF TriggerStep, MarkDrained, StartShutdown, ResumeStep, ResumeCheck,
     ResumeStore, ResumeRecheck, ResumeReassert, AdminDrain, DrainStep, SampleWrites,
     SampleInFlight
<1>. QED
  BY <1>1, <1>2, <1>3, <1>4, KindsApart DEF Next, Writing, Running

\* One step keeps what the drain knows.
LEMMA DrainKnowsStep ==
    ASSUME ControlTypes, CountsRight, DrainKnows, [Next]_vars
    PROVE  DrainKnows'
<1>1. CASE UNCHANGED vars
  BY <1>1 DEF vars, DrainKnows, Writing, Running
<1>2. ASSUME NEW t \in Triggers, TriggerStep(t) PROVE DrainKnows'
  BY <1>2 DEF DrainKnows, TriggerStep, MarkDrained, StartShutdown, Writing, Running
<1>3. ASSUME SampleWrites PROVE DrainKnows'
  <2>1. Counted = {}
    <3>1. IsFiniteSet(Counted)
      BY DrainConstants, FS_Subset DEF Counted
    <3>. QED
      BY <1>3, <3>1, FS_EmptySet DEF SampleWrites, CountsRight
  <2>2. Writing = {}
    BY <2>1 DEF Counted, Writing
  <2>. QED
    BY <1>3, <2>2 DEF SampleWrites, DrainKnows, Writing, Running
<1>4. ASSUME SampleInFlight PROVE DrainKnows'
  <2>1. in_flight = 0 => Running = {} /\ worker # "claiming"
    <3>1. IsFiniteSet(Running) /\ Cardinality(Running) \in Nat
      BY DrainConstants, FS_Subset, FS_CardinalityType DEF Running
    <3>2. in_flight = 0 => Cardinality(Running) = 0 /\ Provisional = 0
      BY <3>1 DEF CountsRight, Provisional
    <3>. QED
      BY <3>1, <3>2, FS_EmptySet DEF Provisional
  <2>. QED
    BY <1>4, <2>1 DEF SampleInFlight, DrainKnows, Writing, Running
<1>5. ASSUME Next, UNCHANGED <<drain, broadcast, shutdown_started>> PROVE DrainKnows'
  BY <1>5, NothingAdmitted DEF DrainKnows
<1>6. ASSUME NEW a \in Resumes, ResumeStep(a)
      PROVE  UNCHANGED <<drain, broadcast, shutdown_started>>
  BY <1>6 DEF ResumeStep, ResumeCheck, ResumeStore, ResumeRecheck, ResumeReassert
<1>7. AdminDrain => UNCHANGED <<drain, broadcast, shutdown_started>>
  BY DEF AdminDrain
<1>. QED
  BY <1>1, <1>2, <1>3, <1>4, <1>5, <1>6, <1>7, KindsApart DEF Next, DrainStep

\* The inductive invariant.
DrainInv == ControlTypes /\ CountsRight /\ DrainKnows

\* It holds in every reachable state.
LEMMA DrainInvariant == Spec => []DrainInv
<1>1. ASSUME Init PROVE DrainInv
  <2>1. Counted = {} /\ Running = {} /\ Writing = {} /\ Provisional = 0
    BY <1>1 DEF Init, Counted, Running, Writing, Provisional
  <2>2. ControlTypes /\ DrainKnows
    BY <1>1, <2>1 DEF Init, ControlTypes, DrainKnows
  <2>3. CountsRight
    BY <1>1, <2>1, FS_EmptySet DEF Init, CountsRight
  <2>. QED
    BY <2>2, <2>3 DEF DrainInv
<1>2. DrainInv /\ [Next]_vars => DrainInv'
  BY ControlStep, CountsStep, DrainKnowsStep DEF DrainInv
<1>. QED
  BY <1>1, <1>2, PTL DEF Spec

\* At the broadcast and ever after, no admitted write runs and no job is claimed
\* or about to be: increment-then-check admission makes the drain's two
\* separate loads sound.
THEOREM BroadcastIsQuiet == Spec => []QuietAtBroadcast
<1>1. DrainInv => QuietAtBroadcast
  BY DEF DrainInv, DrainKnows, QuietAtBroadcast
<1>. QED
  BY <1>1, DrainInvariant, PTL

\* After shutdown has started the work in progress only shrinks, but for the one
\* claim that is past its re-check, whatever resume does to `drained`.
THEOREM DrainMonotone == Spec => DrainIsMonotone
<1>1. DrainInv /\ [Next]_vars
      => [shutdown_started =>
            /\ Writing' \subseteq Writing
            /\ Running' \subseteq Running \/ worker = "claiming"
            /\ worker' = "claiming" => worker = "claiming"]_vars
  BY NothingAdmitted DEF DrainInv
<1>. QED
  BY <1>1, DrainInvariant, PTL DEF Spec, DrainIsMonotone

\* However many triggers fire, one drain is spawned, by the swap that set
\* shutdown_started.
THEOREM SingleDrain == Spec => []OneDrain
<1>. DEFINE Swapped == IF shutdown_started THEN drains = 1 ELSE drains = 0
<1>1. Init => Swapped
  BY DEF Init
<1>2. ASSUME Swapped, [Next]_vars PROVE Swapped'
  <2>1. ASSUME NEW t \in Triggers, TriggerStep(t) PROVE Swapped'
    BY <1>2, <2>1 DEF TriggerStep, MarkDrained, StartShutdown
  <2>2. CASE UNCHANGED <<shutdown_started, drains>>
    BY <1>2, <2>2
  <2>3. ASSUME NEW w \in Writers, WriterStep(w)
        PROVE  UNCHANGED <<shutdown_started, drains>>
    BY <2>3 DEF WriterStep, CountWrite, CheckWrite, UncountWrite
  <2>4. ASSUME NEW k \in Tasks, TaskStep(k)
        PROVE  UNCHANGED <<shutdown_started, drains>>
    BY <2>4 DEF TaskStep, ClaimJob, RecordOutcome, UncountTask
  <2>5. ASSUME NEW a \in Resumes, ResumeStep(a)
        PROVE  UNCHANGED <<shutdown_started, drains>>
    BY <2>5 DEF ResumeStep, ResumeCheck, ResumeStore, ResumeRecheck, ResumeReassert
  <2>6. LoopStep \/ AdminDrain \/ DrainStep \/ UNCHANGED vars
        => UNCHANGED <<shutdown_started, drains>>
    BY DEF LoopStep, LeaveLoop, LoopCheck, AcquirePermit, CountClaim, RecheckBlocked,
           RecheckOpen, ClaimNothing, AdminDrain, DrainStep, SampleWrites,
           SampleInFlight, vars
  <2>. QED
    BY <1>2, <2>1, <2>2, <2>3, <2>4, <2>5, <2>6 DEF Next
<1>3. Swapped => OneDrain
  BY DEF OneDrain
<1>. QED
  BY <1>1, <1>2, <1>3, PTL DEF Spec

\* The flags, the drain count and where the triggers and resumes are.
FlagTypes ==
    /\ drained \in BOOLEAN /\ shutdown_started \in BOOLEAN /\ broadcast \in BOOLEAN
    /\ drains \in Nat
    /\ trigger \in [Triggers -> {"new", "marked", "done"}]
    /\ resume \in [Resumes -> {"new", "checked", "stored", "overtaken", "done"}]

\* The AtomicU32 counters never fall below zero, whatever is refused, rolled back,
\* claimed, or found missing, and every variable keeps its range.
THEOREM CountersNeverUnderflow == Spec => []TypeOK
<1>1. ASSUME Init PROVE FlagTypes
  <2>1. drained \in BOOLEAN /\ shutdown_started \in BOOLEAN /\ broadcast \in BOOLEAN
    BY <1>1, Zenon DEF Init
  <2>2. drains \in Nat
    BY <1>1 DEF Init
  <2>3. trigger \in [Triggers -> {"new", "marked", "done"}]
    BY <1>1 DEF Init
  <2>4. resume \in [Resumes -> {"new", "checked", "stored", "overtaken", "done"}]
    BY <1>1 DEF Init
  <2>. QED
    BY <2>1, <2>2, <2>3, <2>4 DEF FlagTypes
<1>2. ASSUME FlagTypes, [Next]_vars PROVE FlagTypes'
  <2>1. ASSUME NEW t \in Triggers, TriggerStep(t) PROVE FlagTypes'
    <3>1. drained' \in BOOLEAN /\ shutdown_started' \in BOOLEAN /\ broadcast' \in BOOLEAN
      <4>1. CASE MarkDrained(t)
        BY <1>2, <4>1, Zenon DEF FlagTypes, MarkDrained
      <4>2. CASE StartShutdown(t)
        BY <1>2, <4>2, Zenon DEF FlagTypes, StartShutdown
      <4>. QED
        BY <2>1, <4>1, <4>2 DEF TriggerStep
    <3>2. drains' \in Nat
      BY <1>2, <2>1 DEF FlagTypes, TriggerStep, MarkDrained, StartShutdown
    <3>3. trigger' \in [Triggers -> {"new", "marked", "done"}]
      BY <1>2, <2>1 DEF FlagTypes, TriggerStep, MarkDrained, StartShutdown
    <3>4. resume' = resume
      BY <2>1 DEF TriggerStep, MarkDrained, StartShutdown
    <3>. QED
      BY <1>2, <3>1, <3>2, <3>3, <3>4 DEF FlagTypes
  <2>2. ASSUME NEW a \in Resumes, ResumeStep(a) PROVE FlagTypes'
    BY <1>2, <2>2 DEF FlagTypes, ResumeStep, ResumeCheck, ResumeStore, ResumeRecheck, ResumeReassert
  <2>3. ASSUME AdminDrain \/ DrainStep PROVE FlagTypes'
    BY <1>2, <2>3 DEF FlagTypes, AdminDrain, DrainStep, SampleWrites, SampleInFlight
  <2>4. ASSUME UNCHANGED <<drained, shutdown_started, broadcast, drains, trigger, resume>>
        PROVE  FlagTypes'
    BY <1>2, <2>4 DEF FlagTypes
  <2>5. ASSUME NEW w \in Writers, WriterStep(w)
        PROVE  UNCHANGED <<drained, shutdown_started, broadcast, drains, trigger, resume>>
    BY <2>5 DEF WriterStep, CountWrite, CheckWrite, UncountWrite
  <2>6. ASSUME NEW k \in Tasks, TaskStep(k)
        PROVE  UNCHANGED <<drained, shutdown_started, broadcast, drains, trigger, resume>>
    BY <2>6 DEF TaskStep, ClaimJob, RecordOutcome, UncountTask
  <2>7. LoopStep \/ UNCHANGED vars
        => UNCHANGED <<drained, shutdown_started, broadcast, drains, trigger, resume>>
    BY DEF LoopStep, LeaveLoop, LoopCheck, AcquirePermit, CountClaim, RecheckBlocked,
           RecheckOpen, ClaimNothing, vars
  <2>. QED
    BY <1>2, <2>1, <2>2, <2>3, <2>4, <2>5, <2>6, <2>7 DEF Next
<1>3. DrainInv => active_writes \in Nat /\ in_flight \in Nat
  <2>1. Cardinality(Counted) \in Nat /\ Cardinality(Running) \in Nat
    BY DrainConstants, FS_Subset, FS_CardinalityType DEF Counted, Running
  <2>. QED
    BY <2>1 DEF DrainInv, CountsRight, Provisional
<1>4. DrainInv /\ FlagTypes => TypeOK
  BY <1>3 DEF DrainInv, ControlTypes, FlagTypes, TypeOK
<1>. QED
  BY <1>1, <1>2, <1>4, DrainInvariant, PTL DEF Spec

=============================================================================
