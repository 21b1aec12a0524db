--------------------------- MODULE CircuitBreaker ----------------------------
(***************************************************************************)
(* The per-host circuit breaker around remote git operations               *)
(* (nestweaver-engine/src/circuit_breaker.rs).  Hosts share nothing but    *)
(* the registry's mutex, so one host is modelled.  Each method reads the   *)
(* clock and updates the host under that mutex: one action.  A guarded     *)
(* call admits, runs the git operation with the mutex free, and records    *)
(* its outcome later, so outcomes arrive in any order.                     *)
(***************************************************************************)
EXTENDS Integers, Sequences, FiniteSets

CONSTANTS
    Callers,    \* worker tasks that fetch from the host
    Threshold,  \* FAILURE_THRESHOLD
    Window,     \* FAILURE_WINDOW
    Cooldown,   \* COOLDOWN
    MaxNow      \* bound on the clock

ASSUME BreakerConstants ==
    /\ Threshold \in Nat \ {0} /\ Window \in Nat \ {0}
    /\ Cooldown \in Nat \ {0} /\ MaxNow \in Nat \ {0}

VARIABLES
    now,              \* the monotonic clock
    failures,         \* HostState.failures: [n, at], a Vec of instants in no order
                      \* that matters; n tells those of one instant apart
    opened_at,        \* HostState.opened_at, None = 0
    probe_in_flight,  \* HostState.probe_in_flight
    call,             \* Idle, or the Admission the caller holds
    lastFailure,      \* history: when a failure was last recorded, or 0
    sinceSuccess      \* history: every failure recorded since the last success

vars == <<now, failures, opened_at, probe_in_flight, call, lastFailure, sinceSuccess>>

None == 0
Idle == -1
ViaClosed == 0      \* Admission::Closed; a stamp > 0 is Admission::Probe(stamp)

TypeOK ==
    /\ now \in Nat \ {0}
    /\ failures \in SUBSET [n : Nat, at : Nat]
    /\ opened_at \in Nat
    /\ probe_in_flight \in BOOLEAN
    /\ call \in [Callers -> Nat \cup {Idle}]
    /\ lastFailure \in Nat
    /\ sinceSuccess \in Seq(Nat)

Init ==
    /\ now = 1
    /\ failures = {}
    /\ opened_at = None
    /\ probe_in_flight = FALSE
    /\ call = [c \in Callers |-> Idle]
    /\ lastFailure = 0
    /\ sinceSuccess = <<>>

-----------------------------------------------------------------------------
Closed == opened_at = None
HalfOpen == opened_at # None /\ now - opened_at >= Cooldown

\* CLOSED: always admitted.
AdmitClosed(c) ==
    /\ call[c] = Idle
    /\ Closed
    /\ call' = [call EXCEPT ![c] = ViaClosed]
    /\ UNCHANGED <<now, failures, opened_at, probe_in_flight, lastFailure, sinceSuccess>>

\* HALF_OPEN: the first caller reserves the permit and remembers the opening it
\* belongs to.  Every other caller, and every caller while OPEN, gets
\* CircuitOpen and changes nothing.
AdmitProbe(c) ==
    /\ call[c] = Idle
    /\ HalfOpen
    /\ ~probe_in_flight
    /\ probe_in_flight' = TRUE
    /\ call' = [call EXCEPT ![c] = opened_at]
    /\ UNCHANGED <<now, failures, opened_at, lastFailure, sinceSuccess>>

\* What retain keeps, and what is pushed.
Recent == {f \in failures : now - f.at < Window}
ThisFailure == [n |-> Len(sinceSuccess) + 1, at |-> now]

\* Mutants: the cutoff is stored instead of the clock; the threshold is off by
\* one; an open circuit is not stamped again.
RecordFailureCutoff ==
    /\ failures' = failures \cup {[n |-> Len(sinceSuccess) + 1, at |-> now - Window]}
    /\ lastFailure' = now
    /\ sinceSuccess' = Append(sinceSuccess, now)
    /\ UNCHANGED <<opened_at, probe_in_flight>>

RecordFailureLate ==
    LET kept == Recent \cup {ThisFailure} IN
    /\ failures' = kept
    /\ IF opened_at # None \/ Cardinality(kept) > Threshold
       THEN opened_at' = now /\ probe_in_flight' = FALSE
       ELSE UNCHANGED <<opened_at, probe_in_flight>>
    /\ lastFailure' = now
    /\ sinceSuccess' = Append(sinceSuccess, now)

RecordFailureOnce ==
    LET kept == Recent \cup {ThisFailure} IN
    /\ failures' = kept
    /\ IF opened_at = None /\ Cardinality(kept) >= Threshold
       THEN opened_at' = now /\ probe_in_flight' = FALSE
       ELSE UNCHANGED <<opened_at, probe_in_flight>>
    /\ lastFailure' = now
    /\ sinceSuccess' = Append(sinceSuccess, now)

RecordFailure ==
    LET kept == Recent \cup {ThisFailure} IN
    /\ failures' = kept
    /\ IF opened_at # None \/ Cardinality(kept) >= Threshold
       THEN opened_at' = now /\ probe_in_flight' = FALSE
       ELSE UNCHANGED <<opened_at, probe_in_flight>>
    /\ lastFailure' = now
    /\ sinceSuccess' = Append(sinceSuccess, now)

RecordSuccess ==
    /\ opened_at' = None
    /\ probe_in_flight' = FALSE
    /\ failures' = {}
    /\ sinceSuccess' = <<>>
    /\ UNCHANGED lastFailure

\* Mutant: a late probe frees the permit of another opening.
ReleaseAnyProbe(admission) ==
    /\ probe_in_flight' = (probe_in_flight /\ admission = ViaClosed)
    /\ UNCHANGED <<failures, opened_at, lastFailure, sinceSuccess>>

\* A neutral outcome frees the permit of the opening it was admitted under only.
ReleaseNeutralProbe(admission) ==
    /\ IF admission # ViaClosed /\ opened_at = admission
       THEN probe_in_flight' = FALSE
       ELSE UNCHANGED probe_in_flight
    /\ UNCHANGED <<failures, opened_at, lastFailure, sinceSuccess>>

Return(c) ==
    /\ call[c] # Idle
    /\ call' = [call EXCEPT ![c] = Idle]
    /\ UNCHANGED now

Succeed(c) == Return(c) /\ RecordSuccess

\* An error counted against the host, or a panic caught by ProbeGuard.
FailHost(c) == Return(c) /\ RecordFailure

\* An error of the repository or of this machine.
FailNeutral(c) == Return(c) /\ ReleaseNeutralProbe(call[c])

Tick ==
    /\ now < MaxNow
    /\ now' = now + 1
    /\ UNCHANGED <<failures, opened_at, probe_in_flight, call, lastFailure, sinceSuccess>>

CallStep(c) ==
    \/ AdmitClosed(c)
    \/ AdmitProbe(c)
    \/ Succeed(c)
    \/ FailHost(c)
    \/ FailNeutral(c)

Next == Tick \/ \E c \in Callers : CallStep(c)

Spec == Init /\ [][Next]_vars

-----------------------------------------------------------------------------
CurrentProbes == {c \in Callers : opened_at # None /\ call[c] = opened_at}

\* The permit of the current opening is out exactly when one call in flight was
\* admitted under that opening: late outcomes of other calls neither leak the
\* permit (which would block the host for good) nor hand it out twice.
PermitMatchesProbe ==
    /\ \A c, d \in CurrentProbes : c = d
    /\ probe_in_flight <=> CurrentProbes # {}

\* No probe starts before Cooldown has passed since the last recorded failure,
\* whichever call recorded it (re-stamping in record_failure).
CooldownRespected ==
    [][\A c \in Callers :
          (call[c] = Idle /\ call'[c] > 0) => now - lastFailure >= Cooldown]_vars

\* The eviction window never hides a burst: while the circuit is closed, no
\* failure recorded since the last success has Threshold of them, itself
\* included, in the window that ends with it.
BurstTrips ==
    Closed => \A i \in DOMAIN sinceSuccess :
        Cardinality({j \in 1..i : sinceSuccess[i] - sinceSuccess[j] < Window})
            < Threshold

=============================================================================
