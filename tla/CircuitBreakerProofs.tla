------------------------ MODULE CircuitBreakerProofs -------------------------
(***************************************************************************)
(* TypeOK, PermitMatchesProbe, CooldownRespected and BurstTrips for every  *)
(* number of callers, threshold, window and cooldown.  What `failures`     *)
(* holds plays no part in the first part, BreakerInv, where whether the    *)
(* threshold is reached is left open; WindowInv is about nothing else.     *)
(***************************************************************************)
EXTENDS CircuitBreaker, FunctionTheorems, FiniteSetTheorems, TLAPS

\* The variables the argument looks at have their types.
ClockTypes ==
    /\ now \in Nat \ {0}
    /\ opened_at \in Nat
    /\ probe_in_flight \in BOOLEAN
    /\ call \in [Callers -> Nat \cup {Idle}]
    /\ lastFailure \in Nat

\* A probe carries the stamp of an opening that is at least Cooldown old, so a
\* failure recorded now opens the circuit under a stamp no call carries.
StampsAreOld ==
    \A c \in Callers : call[c] > 0 => call[c] + Cooldown <= now

\* The circuit is stamped by every failure it is open for.
StampedByLastFailure ==
    opened_at # None => opened_at = lastFailure /\ opened_at <= now

BreakerInv ==
    /\ ClockTypes
    /\ StampsAreOld
    /\ StampedByLastFailure
    /\ PermitMatchesProbe

\* What record_failure does, as far as the argument goes: it stamps the circuit
\* and takes the permit back, or leaves a closed circuit closed.
LEMMA FailureStampsOrStaysClosed ==
    ASSUME RecordFailure
    PROVE  /\ lastFailure' = now
           /\ \/ opened_at' = now /\ probe_in_flight' = FALSE
              \/ opened_at = None /\ UNCHANGED <<opened_at, probe_in_flight>>
<1>. DEFINE kept == Recent \cup {ThisFailure}
            tripped == opened_at # None \/ Cardinality(kept) >= Threshold
<1>1. /\ IF tripped THEN opened_at' = now /\ probe_in_flight' = FALSE
                    ELSE UNCHANGED <<opened_at, probe_in_flight>>
      /\ lastFailure' = now
  BY DEF RecordFailure
<1>2. ~tripped => opened_at = None
  OBVIOUS
<1>. HIDE DEF tripped
<1>. QED
  BY <1>1, <1>2

\* Each action preserves the invariant.
LEMMA BreakerStep ==
    ASSUME BreakerInv, [Next]_vars
    PROVE  BreakerInv'
<1>0. /\ Cooldown \in Nat \ {0} /\ now \in Nat \ {0} /\ opened_at \in Nat
      /\ lastFailure \in Nat /\ probe_in_flight \in BOOLEAN
      /\ call \in [Callers -> Nat \cup {Idle}]
      /\ StampsAreOld /\ StampedByLastFailure /\ PermitMatchesProbe
  BY BreakerConstants DEF BreakerInv, ClockTypes
<1>. USE DEF None, Idle, ViaClosed
\* A returned call, with the permit matching the circuit it leaves.
<1>r. ASSUME NEW c \in Callers, call' = [call EXCEPT ![c] = Idle], now' = now,
             lastFailure' \in Nat, opened_at' \in Nat, StampedByLastFailure',
             \/ probe_in_flight' = FALSE /\ CurrentProbes' = {}
             \/ probe_in_flight' \in BOOLEAN /\ PermitMatchesProbe'
      PROVE  BreakerInv'
  <2>0. probe_in_flight' \in BOOLEAN
    BY <1>r
  <2>1. ClockTypes' /\ StampsAreOld'
    BY <1>0, <1>r, <2>0 DEF ClockTypes, StampsAreOld
  <2>2. probe_in_flight' = FALSE /\ CurrentProbes' = {} => PermitMatchesProbe'
    BY Zenon DEF PermitMatchesProbe
  <2>. QED
    BY <1>r, <2>1, <2>2 DEF BreakerInv
<1>1. ASSUME Tick PROVE BreakerInv'
  BY <1>0, <1>1 DEF Tick, BreakerInv, ClockTypes, StampsAreOld, StampedByLastFailure,
     PermitMatchesProbe, CurrentProbes
<1>2. ASSUME NEW c \in Callers, AdmitClosed(c) PROVE BreakerInv'
  BY <1>0, <1>2 DEF AdmitClosed, Closed, BreakerInv, ClockTypes, StampsAreOld,
     StampedByLastFailure, PermitMatchesProbe, CurrentProbes
<1>3. ASSUME NEW c \in Callers, AdmitProbe(c) PROVE BreakerInv'
  <2>1. CurrentProbes = {}
    BY <1>0, <1>3 DEF AdmitProbe, PermitMatchesProbe
  <2>2. /\ opened_at > 0 /\ opened_at + Cooldown <= now
        /\ UNCHANGED <<now, opened_at, lastFailure>>
        /\ probe_in_flight' = TRUE
        /\ call' = [call EXCEPT ![c] = opened_at]
    BY <1>0, <1>3 DEF AdmitProbe, HalfOpen
  <2>3. CurrentProbes' = {c}
    BY <1>0, <2>1, <2>2 DEF CurrentProbes
  <2>4. PermitMatchesProbe'
    BY <2>2, <2>3 DEF PermitMatchesProbe
  <2>. QED
    BY <1>0, <2>2, <2>4 DEF BreakerInv, ClockTypes, StampsAreOld, StampedByLastFailure
<1>4. ASSUME NEW c \in Callers, Succeed(c) PROVE BreakerInv'
  <2>1. /\ opened_at' = None /\ probe_in_flight' = FALSE
        /\ call' = [call EXCEPT ![c] = Idle] /\ UNCHANGED <<now, lastFailure>>
    BY <1>4 DEF Succeed, Return, RecordSuccess
  <2>2. CurrentProbes' = {}
    BY <2>1 DEF CurrentProbes
  <2>3. opened_at' \in Nat /\ lastFailure' \in Nat /\ StampedByLastFailure'
    BY <1>0, <2>1 DEF StampedByLastFailure
  <2>. QED
    BY <1>r, <2>1, <2>2, <2>3
<1>5. ASSUME NEW c \in Callers, FailHost(c) PROVE BreakerInv'
  <2>1. /\ lastFailure' = now /\ now' = now /\ call' = [call EXCEPT ![c] = Idle]
        /\ \/ opened_at' = now /\ probe_in_flight' = FALSE
           \/ opened_at = None /\ UNCHANGED <<opened_at, probe_in_flight>>
    BY <1>5, FailureStampsOrStaysClosed DEF FailHost, Return
  <2>2. CurrentProbes' = {}
    BY <1>0, <2>1 DEF CurrentProbes, StampsAreOld
  <2>3. probe_in_flight' = FALSE
    BY <1>0, <2>1 DEF PermitMatchesProbe, CurrentProbes
  <2>4. opened_at' \in Nat /\ StampedByLastFailure'
    BY <1>0, <2>1 DEF StampedByLastFailure
  <2>. QED
    BY <1>0, <1>r, <2>1, <2>2, <2>3, <2>4
<1>6. ASSUME NEW c \in Callers, FailNeutral(c) PROVE BreakerInv'
  <2>1. /\ UNCHANGED <<now, opened_at, lastFailure>>
        /\ call' = [call EXCEPT ![c] = Idle]
        /\ IF call[c] # ViaClosed /\ opened_at = call[c]
           THEN probe_in_flight' = FALSE ELSE UNCHANGED probe_in_flight
    BY <1>6 DEF FailNeutral, Return, ReleaseNeutralProbe
  <2>2. CurrentProbes' = CurrentProbes \ {c}
    BY <1>0, <2>1 DEF CurrentProbes
  <2>3. c \in CurrentProbes <=> call[c] # ViaClosed /\ opened_at = call[c]
    BY <1>0 DEF CurrentProbes
  <2>4. PermitMatchesProbe'
    BY <1>0, <2>1, <2>2, <2>3 DEF PermitMatchesProbe
  <2>5. opened_at' \in Nat /\ lastFailure' \in Nat /\ StampedByLastFailure'
    BY <1>0, <2>1 DEF StampedByLastFailure
  <2>6. probe_in_flight' \in BOOLEAN
    BY <1>0, <2>1
  <2>. QED
    BY <1>r, <2>1, <2>4, <2>5, <2>6
<1>7. CASE UNCHANGED vars
  <2>1. UNCHANGED <<now, opened_at, probe_in_flight, call, lastFailure>>
    BY <1>7 DEF vars
  <2>2. PermitMatchesProbe'
    BY <1>0, <2>1 DEF PermitMatchesProbe, CurrentProbes
  <2>. QED
    BY <1>0, <2>1, <2>2 DEF BreakerInv, ClockTypes, StampsAreOld, StampedByLastFailure
<1>. QED
  BY <1>1, <1>2, <1>3, <1>4, <1>5, <1>6, <1>7 DEF Next, CallStep

\* The invariant holds in every reachable state.
LEMMA BreakerInvariant == Spec => []BreakerInv
<1>1. ASSUME Init PROVE BreakerInv
  <2>1. call \in [Callers -> {Idle}]
    BY <1>1 DEF Init
  <2>2. /\ StampedByLastFailure
        /\ now \in Nat \ {0} /\ opened_at \in Nat /\ lastFailure \in Nat
    BY <1>1 DEF Init, StampedByLastFailure, None
  <2>3. StampsAreOld
    BY <2>1 DEF StampsAreOld, Idle
  <2>4. probe_in_flight \in BOOLEAN /\ call \in [Callers -> Nat \cup {Idle}]
    BY <1>1, <2>1 DEF Init
  <2>5. CurrentProbes = {} /\ probe_in_flight = FALSE
    BY <1>1 DEF Init, CurrentProbes
  <2>6. PermitMatchesProbe
    BY <2>5, Zenon DEF PermitMatchesProbe
  <2>. QED
    BY <2>2, <2>6, <2>3, <2>4 DEF BreakerInv, ClockTypes
<1>2. BreakerInv /\ [Next]_vars => BreakerInv'
  BY BreakerStep
<1>. QED
  BY <1>1, <1>2, PTL DEF Spec

\* The half-open permit is out exactly while one call of the current opening is
\* in flight: late outcomes neither leak it nor hand it out twice.
THEOREM PermitSafe == Spec => []PermitMatchesProbe
<1>1. BreakerInv => PermitMatchesProbe
  BY DEF BreakerInv
<1>. QED
  BY <1>1, BreakerInvariant, PTL

\* No probe starts within Cooldown of the last recorded failure, whichever call
\* recorded it.
THEOREM CooldownKept == Spec => CooldownRespected
<1>1. ASSUME BreakerInv, Next, NEW c \in Callers, call[c] = Idle, call'[c] > 0
      PROVE  now - lastFailure >= Cooldown
  <2>0. /\ call \in [Callers -> Nat \cup {Idle}] /\ opened_at \in Nat
        /\ StampedByLastFailure
    BY <1>1 DEF BreakerInv, ClockTypes
  <2>1. ASSUME NEW d \in Callers, CallStep(d), ~AdmitProbe(d) PROVE FALSE
    BY <1>1, <2>0, <2>1 DEF CallStep, AdmitClosed, Succeed, FailHost, FailNeutral, Return,
       Idle, ViaClosed
  <2>2. Tick => FALSE
    BY <1>1, <2>0 DEF Tick, Idle
  <2>3. \E d \in Callers : AdmitProbe(d)
    BY <1>1, <2>1, <2>2 DEF Next
  <2>. QED
    BY <2>0, <2>3 DEF AdmitProbe, HalfOpen, StampedByLastFailure
<1>2. BreakerInv /\ [Next]_vars
      => [\A c \in Callers :
             (call[c] = Idle /\ call'[c] > 0) => now - lastFailure >= Cooldown]_vars
  BY <1>1
<1>. QED
  BY <1>2, BreakerInvariant, PTL DEF Spec, CooldownRespected


-----------------------------------------------------------------------------
(* The sliding window.                                                     *)

\* The failure number j since the last success, as `failures` holds it.
Entry(j) == [n |-> j, at |-> sinceSuccess[j]]

\* `failures` has every failure since the last success that is still in the
\* window: retain only drops what has left it, and the clock never runs back.
WindowKept ==
    \A j \in DOMAIN sinceSuccess :
        sinceSuccess[j] <= now /\ (now - sinceSuccess[j] < Window => Entry(j) \in failures)

WindowInv ==
    /\ sinceSuccess \in Seq(Nat)
    /\ failures \in SUBSET [n : Nat, at : Nat] /\ IsFiniteSet(failures)
    /\ WindowKept
    /\ BurstTrips

\* record_failure: what is in the window of the failure it records is counted.
LEMMA FailureCountsWindow ==
    ASSUME WindowInv, now \in Nat \ {0}, opened_at \in Nat, RecordFailure, now' = now
    PROVE  WindowInv'
<1>. DEFINE kept == Recent \cup {ThisFailure}
            m == Len(sinceSuccess) + 1
<1>0. /\ Threshold \in Nat \ {0} /\ Window \in Nat \ {0}
      /\ sinceSuccess \in Seq(Nat) /\ Len(sinceSuccess) \in Nat
      /\ failures \in SUBSET [n : Nat, at : Nat] /\ IsFiniteSet(failures)
      /\ \A j \in 1..Len(sinceSuccess) : sinceSuccess[j] \in Nat
      /\ DOMAIN sinceSuccess = 1..Len(sinceSuccess)
  BY BreakerConstants DEF WindowInv
<1>1. /\ failures' = kept
      /\ sinceSuccess' = Append(sinceSuccess, now)
      /\ IF opened_at # None \/ Cardinality(kept) >= Threshold
         THEN opened_at' = now ELSE opened_at' = opened_at
  BY DEF RecordFailure
<1>2. /\ sinceSuccess' \in Seq(Nat) /\ Len(sinceSuccess') = m
      /\ DOMAIN sinceSuccess' = 1..m
      /\ sinceSuccess'[m] = now
      /\ \A j \in 1..Len(sinceSuccess) : sinceSuccess'[j] = sinceSuccess[j]
  BY <1>0, <1>1
<1>3. kept \in SUBSET [n : Nat, at : Nat]
  BY <1>0 DEF Recent, ThisFailure
<1>4. IsFiniteSet(kept) /\ Cardinality(kept) \in Nat
  <2>1. IsFiniteSet(Recent)
    BY <1>0, FS_Subset DEF Recent
  <2>2. IsFiniteSet(kept)
    BY <2>1, FS_AddElement
  <2>. QED
    BY <2>2, FS_CardinalityType
<1>5. WindowKept'
  <2>. SUFFICES ASSUME NEW j \in 1..m
                PROVE  /\ sinceSuccess'[j] <= now
                       /\ now - sinceSuccess'[j] < Window
                             => [n |-> j, at |-> sinceSuccess'[j]] \in kept
    BY <1>1, <1>2 DEF WindowKept, Entry
  <2>1. CASE j = m
    BY <1>2, <2>1 DEF ThisFailure
  <2>2. CASE j # m
    <3>1. j \in 1..Len(sinceSuccess) /\ sinceSuccess'[j] = sinceSuccess[j]
      BY <1>0, <1>2, <2>2
    <3>2. /\ sinceSuccess[j] <= now
          /\ now - sinceSuccess[j] < Window => [n |-> j, at |-> sinceSuccess[j]] \in failures
      BY <1>0, <3>1 DEF WindowInv, WindowKept, Entry
    <3>. QED
      BY <3>1, <3>2 DEF Recent
  <2>. QED
    BY <2>1, <2>2
<1>6. BurstTrips'
  <2>. SUFFICES ASSUME Closed', NEW i \in 1..m
                PROVE  Cardinality({j \in 1..i : sinceSuccess'[i] - sinceSuccess'[j] < Window})
                          < Threshold
    BY <1>2 DEF BurstTrips
  <2>1. opened_at = None /\ Cardinality(kept) < Threshold
    BY <1>0, <1>1, <1>4 DEF Closed, None
  <2>2. CASE i = m
    <3>. DEFINE W == {j \in 1..m : sinceSuccess'[m] - sinceSuccess'[j] < Window}
                f == [j \in W |-> [n |-> j, at |-> sinceSuccess'[j]]]
    <3>1. \A j \in W : f[j] \in kept
      BY <1>1, <1>2, <1>5 DEF WindowKept, Entry
    <3>2. f \in Injection(W, kept)
      <4>1. f \in [W -> kept]
        BY <3>1
      <4>2. \A j, k \in W : f[j] = f[k] => j = k
        OBVIOUS
      <4>. QED
        BY <4>1, <4>2 DEF Injection, IsInjective
    <3>. HIDE DEF f
    <3>3. IsFiniteSet(W) /\ Cardinality(W) <= Cardinality(kept)
      BY <1>4, <3>2, FS_Injection
    <3>4. Cardinality(W) \in Nat
      BY <3>3, FS_CardinalityType
    <3>. HIDE DEF W, kept
    <3>5. Cardinality(W) < Threshold
      BY <1>0, <1>4, <2>1, <3>3, <3>4
    <3>. QED
      BY <2>2, <3>5 DEF W
  <2>3. CASE i # m
    <3>1. i \in 1..Len(sinceSuccess)
      BY <1>0, <2>3
    <3>2. Cardinality({j \in 1..i : sinceSuccess[i] - sinceSuccess[j] < Window}) < Threshold
      BY <1>0, <2>1, <3>1 DEF WindowInv, BurstTrips, Closed
    <3>3. {j \in 1..i : sinceSuccess'[i] - sinceSuccess'[j] < Window}
             = {j \in 1..i : sinceSuccess[i] - sinceSuccess[j] < Window}
      BY <1>0, <1>2, <3>1
    <3>. QED
      BY <3>2, <3>3
  <2>. QED
    BY <2>2, <2>3
<1>. QED
  BY <1>1, <1>2, <1>3, <1>4, <1>5, <1>6 DEF WindowInv

\* Each action preserves the window's invariant.
LEMMA WindowStep ==
    ASSUME BreakerInv, WindowInv, [Next]_vars
    PROVE  WindowInv'
<1>0. now \in Nat \ {0} /\ opened_at \in Nat
  BY DEF BreakerInv, ClockTypes
<1>1. ASSUME UNCHANGED <<now, failures, opened_at, sinceSuccess>> PROVE WindowInv'
  BY <1>1 DEF WindowInv, WindowKept, Entry, BurstTrips, Closed
<1>2. CASE Tick
  <2>1. UNCHANGED <<failures, opened_at, sinceSuccess>> /\ now' = now + 1
    BY <1>2 DEF Tick
  <2>2. BurstTrips'
    BY <2>1 DEF WindowInv, BurstTrips, Closed
  <2>3. \A j \in DOMAIN sinceSuccess : sinceSuccess[j] \in Nat
    BY DEF WindowInv
  <2>4. WindowKept'
    BY <1>0, <2>1, <2>3, BreakerConstants DEF WindowInv, WindowKept, Entry
  <2>. QED
    BY <2>1, <2>2, <2>4 DEF WindowInv
<1>3. ASSUME NEW c \in Callers, Succeed(c) PROVE WindowInv'
  <2>1. failures' = {} /\ sinceSuccess' = <<>>
    BY <1>3 DEF Succeed, RecordSuccess
  <2>2. IsFiniteSet(failures') /\ DOMAIN sinceSuccess' = {} /\ sinceSuccess' \in Seq(Nat)
    BY <2>1, FS_EmptySet
  <2>. QED
    BY <2>1, <2>2 DEF WindowInv, WindowKept, BurstTrips
<1>4. ASSUME NEW c \in Callers, FailHost(c) PROVE WindowInv'
  BY <1>0, <1>4, FailureCountsWindow DEF FailHost, Return
<1>5. ASSUME NEW c \in Callers, AdmitClosed(c) \/ AdmitProbe(c) \/ FailNeutral(c)
      PROVE  WindowInv'
  BY <1>1, <1>5 DEF AdmitClosed, AdmitProbe, FailNeutral, Return, ReleaseNeutralProbe
<1>6. CASE UNCHANGED vars
  BY <1>1, <1>6 DEF vars
<1>. QED
  BY <1>2, <1>3, <1>4, <1>5, <1>6 DEF Next, CallStep

\* The window's invariant holds in every reachable state.
LEMMA WindowInvariant == Spec => []WindowInv
<1>1. Init => WindowInv
  <2>. SUFFICES ASSUME Init PROVE WindowInv
    OBVIOUS
  <2>1. failures = {} /\ sinceSuccess = <<>>
    BY DEF Init
  <2>2. IsFiniteSet(failures) /\ DOMAIN sinceSuccess = {} /\ sinceSuccess \in Seq(Nat)
    BY <2>1, FS_EmptySet
  <2>. QED
    BY <2>1, <2>2 DEF WindowInv, WindowKept, BurstTrips
<1>2. BreakerInv /\ WindowInv /\ [Next]_vars => WindowInv'
  BY WindowStep
<1>. QED
  BY <1>1, <1>2, BreakerInvariant, PTL DEF Spec

\* Evicting by the window at each failure hides no burst: while the circuit is
\* closed no failure since the last success ends a window with Threshold of them.
THEOREM BurstsTrip == Spec => []BurstTrips
<1>1. WindowInv => BurstTrips
  BY DEF WindowInv
<1>. QED
  BY <1>1, WindowInvariant, PTL

\* The host's state keeps its types: no instant before the first is recorded.
THEOREM BreakerTypes == Spec => []TypeOK
<1>1. BreakerInv /\ WindowInv => TypeOK
  BY DEF BreakerInv, ClockTypes, WindowInv, TypeOK
<1>. QED
  BY <1>1, BreakerInvariant, WindowInvariant, PTL

=============================================================================
