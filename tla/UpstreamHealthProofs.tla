------------------------ MODULE UpstreamHealthProofs -------------------------
(* Proofs about UpstreamHealth: type correctness and the blast-radius cap. *)
EXTENDS UpstreamHealth, FiniteSetTheorems, TLAPS

(***************************************************************************)
(* The inductive invariant.                                                *)
(***************************************************************************)

\* An actor under way knows its upstream, and the maintenance task only probes
\* and folds.
PlacesOK ==
    /\ \A a \in Actors : pc[a] # "idle" => at[a] \in Upstreams
    /\ pc[Prober] \in {"idle", "probe", "up", "fail"}

\* The guard belongs to the one caller that is between its decision to eject
\* and the last store of mark_down.
GuardOK == \A t \in Callers : pc[t] = "down" <=> guard = t

\* Until that caller has lowered the flag there is room for one more ejection.
RoomLeft ==
    \A t \in Callers :
        pc[t] = "down" /\ "healthy" \in todo[t] => Cardinality(Ejected) < ejection_cap

HealthInv == TypeOK /\ PlacesOK /\ GuardOK /\ RoomLeft /\ CapHeld

-----------------------------------------------------------------------------
\* The cap is a natural number, at least one (ejection_cap's max(1)).
LEMMA CapIsPositive == ejection_cap \in Nat /\ ejection_cap >= 1
<1>1. Cardinality(Upstreams) \in Nat
  BY HealthConstants, FS_CardinalityType
<1> QED
  BY <1>1 DEF ejection_cap, Most, MAX_EJECTION_PERCENT

\* The ejected upstreams are finitely many.
LEMMA EjectedFinite == IsFiniteSet(Ejected) /\ Cardinality(Ejected) \in Nat
  BY HealthConstants, FS_Subset, FS_CardinalityType DEF Ejected

\* The window of an ejection is within its bound.
LEMMA BackoffType ==
    \A n \in 0..MaxCount :
        /\ ejection_backoff(n) \in 0..EjectionCap
        /\ Bump(n) \in 0..MaxCount
<1> SUFFICES ASSUME NEW n \in 0..MaxCount
             PROVE  ejection_backoff(n) \in 0..EjectionCap /\ Bump(n) \in 0..MaxCount
  OBVIOUS
<1>1. Most(n, 1) \in Nat
  BY HealthConstants DEF Most
<1>2. EjectionBase * Most(n, 1) \in Nat
  BY <1>1, HealthConstants
<1>3. ejection_backoff(n) \in 0..EjectionCap
  BY <1>2, HealthConstants DEF ejection_backoff, Least
<1> QED
  BY <1>3, HealthConstants DEF Bump, Least

-----------------------------------------------------------------------------
\* Init establishes the invariant.
LEMMA InitInv == Init => HealthInv
<1> SUFFICES ASSUME Init PROVE HealthInv
  OBVIOUS
<1>1. TypeOK
  BY HealthConstants DEF Init, TypeOK, Actors, Cells, Places
<1>2. PlacesOK /\ GuardOK /\ RoomLeft
  BY HealthConstants DEF Init, PlacesOK, GuardOK, RoomLeft, Actors
<1>3. Ejected = {}
  BY DEF Init, Ejected
<1>4. CapHeld
  BY <1>3, FS_EmptySet, CapIsPositive DEF CapHeld
<1> QED
  BY <1>1, <1>2, <1>4 DEF HealthInv

-----------------------------------------------------------------------------
\* Every step keeps the types and the places.
LEMMA TypeStep == TypeOK /\ PlacesOK /\ [Next]_vars => TypeOK' /\ PlacesOK'
<1> SUFFICES ASSUME TypeOK, PlacesOK, [Next]_vars PROVE TypeOK' /\ PlacesOK'
  OBVIOUS
<1> USE HealthConstants DEF TypeOK, PlacesOK, Actors, Places
<1> DEFINE Goal == TypeOK' /\ PlacesOK'
<1>1. ASSUME NEW t \in Callers, NEW u \in Upstreams, NEW k \in {"query", "trace", "web"},
             Start(t, u, k)
      PROVE  Goal
  BY <1>1 DEF Start, cells, latency
<1>2. ASSUME NEW u \in Upstreams, ProbeStart(u) PROVE Goal
  BY <1>2 DEF ProbeStart, cells, latency, servers
<1>3. ASSUME NEW u \in Upstreams, EnvChanges(u) PROVE Goal
  BY <1>3 DEF EnvChanges, cells, latency, local
<1>4. ASSUME NEW a \in Actors, FoldStep(a) PROVE Goal
  <2>1. CASE ProbeSucceeds(a)
    BY <2>1 DEF ProbeSucceeds, AfterFold, Begin, Return, Goto, Cells, latency, servers
  <2>2. CASE ProbeFails(a)
    BY <2>2 DEF ProbeFails, Begin, Cells, cells, latency, servers
  <2>3. CASE Folded(a)
    BY <2>3 DEF Folded, AfterFold, Return, Goto, cells, latency, servers
  <2>4. CASE StoreHealthy(a)
    BY <2>4 DEF StoreHealthy, latency, servers
  <2>5. CASE StoreRise(a)
    BY <2>5 DEF StoreRise, latency, servers
  <2>6. CASE StoreCount(a)
    <3>1. at[a] \in Upstreams
      BY <2>6 DEF StoreCount
    <3>2. (IF pc[a] = "up" THEN 0 ELSE Bump(ejection_count[at[a]])) \in 0..MaxCount
      BY <3>1, BackoffType
    <3> QED
      BY <2>6, <3>1, <3>2 DEF StoreCount, latency, servers
  <2>7. CASE StoreUntil(a)
    <3>1. at[a] \in Upstreams
      BY <2>7 DEF StoreUntil
    <3>2. (IF pc[a] = "up" THEN 0 ELSE ejection_backoff(count[a])) \in 0..EjectionCap
      BY <3>1, BackoffType
    <3> QED
      BY <2>7, <3>1, <3>2 DEF StoreUntil, latency, servers
  <2> QED
    BY <1>4, <2>1, <2>2, <2>3, <2>4, <2>5, <2>6, <2>7 DEF FoldStep
<1>5. ASSUME NEW t \in Callers, CallerStep(t) PROVE Goal
  <2>1. CASE Recheck(t)
    BY <2>1 DEF Recheck, Goto, Return, cells, latency, servers
  <2>2. CASE Unlock(t)
    BY <2>2 DEF Unlock, Return, cells, latency, servers
  <2>3. CASE Connected(t)
    BY <2>3 DEF Connected, Query, cells, latency, servers
  <2>4. CASE ConnectRejected(t)
    BY <2>4 DEF ConnectRejected, Return, cells, latency, servers
  <2>5. CASE ConnectFails(t)
    BY <2>5 DEF ConnectFails, Goto, Return, cells, latency, servers
  <2>6. CASE Answered(t)
    BY <2>6 DEF Answered, Return, cells, servers
  <2>7. CASE Rejected(t)
    BY <2>7 DEF Rejected, Return, cells, latency, servers
  <2>8. CASE Unavailable(t)
    BY <2>8 DEF Unavailable, Goto, cells, latency, servers
  <2>9. CASE TimesOut(t)
    <3>1. at[t] \in Upstreams
      BY <2>9 DEF TimesOut
    <3>2. Most(level[at[t]], Widened(deadline[t])) \in 0..Top
      BY <3>1 DEF Most, Widened, Least
    <3>3. level' \in [Upstreams -> 0..Top]
      BY <2>9, <3>1, <3>2 DEF TimesOut
    <3>4. streak' \in [Upstreams -> Nat]
      BY <2>9, <3>1 DEF TimesOut
    <3>5. Goto(t, "reset") \/ Return(t)
      BY <2>9 DEF TimesOut
    <3>6. UNCHANGED <<process, servers, cells, connected, guard>>
      BY <2>9 DEF TimesOut
    <3> QED
      BY <3>1, <3>3, <3>4, <3>5, <3>6 DEF Goto, Return, cells, servers
  <2>10. CASE ResetStreak(t)
    BY <2>10 DEF ResetStreak, Goto, cells, servers
  <2>11. CASE Eject(t)
    BY <2>11 DEF Eject, Begin, Cells, cells, latency, servers
  <2>12. CASE Capped(t)
    BY <2>12 DEF Capped, Return, cells, latency, servers
  <2> QED
    BY <1>5, <2>1, <2>2, <2>3, <2>4, <2>5, <2>6, <2>7, <2>8, <2>9, <2>10, <2>11, <2>12
       DEF CallerStep
<1>6. ASSUME Tick PROVE Goal
  <2>1. window' \in [Upstreams -> 0..EjectionCap]
    BY <1>6 DEF Tick, Most
  <2> QED
    BY <1>6, <2>1 DEF Tick, latency, local, servers
<1>7. ASSUME UNCHANGED vars PROVE Goal
  BY <1>7 DEF vars, cells, latency, local, servers
<1> HIDE HealthConstants DEF TypeOK, PlacesOK, Actors, Places, Goal
<1>8. Goal
  BY <1>1, <1>2, <1>3, <1>4, <1>5, <1>6, <1>7 DEF Next
<1> QED
  BY <1>8 DEF Goal

-----------------------------------------------------------------------------
\* A step that lowers and raises no flag and starts no mark_down keeps the cap
\* and the room for the one under way.
LEMMA FlagsKept ==
    ASSUME HealthInv, UNCHANGED healthy,
           \A t \in Callers :
               /\ pc'[t] = "down" => pc[t] = "down" /\ todo'[t] \subseteq todo[t]
               /\ pc'[t] = "down" <=> guard' = t
    PROVE  GuardOK' /\ RoomLeft' /\ CapHeld'
<1>1. Ejected' = Ejected
  BY DEF Ejected
<1> QED
  BY <1>1 DEF HealthInv, GuardOK, RoomLeft, CapHeld, ejection_cap

\* The one action that changes a flag: mark_up only frees a place, mark_down
\* takes the place its caller found free under the guard.
LEMMA StoreHealthyStep ==
    ASSUME HealthInv, NEW a \in Actors, StoreHealthy(a)
    PROVE  GuardOK' /\ RoomLeft' /\ CapHeld'
<1> DEFINE u == at[a]
<1>1. u \in Upstreams /\ healthy \in [Upstreams -> BOOLEAN]
  BY DEF HealthInv, PlacesOK, TypeOK, StoreHealthy
<1>2. /\ UNCHANGED <<pc, guard>>
      /\ todo \in [Actors -> SUBSET Cells]
      /\ todo' = [todo EXCEPT ![a] = @ \ {"healthy"}]
  BY DEF StoreHealthy, HealthInv, TypeOK
<1>3. GuardOK'
  BY <1>2 DEF HealthInv, GuardOK
<1>4. IsFiniteSet(Ejected) /\ Cardinality(Ejected) \in Nat /\ Cardinality(Ejected') \in Nat
  BY EjectedFinite, HealthConstants, FS_Subset, FS_CardinalityType DEF Ejected
<1>5. CASE pc[a] = "up"
  <2>1. Ejected' \subseteq Ejected
    BY <1>1, <1>5 DEF StoreHealthy, Ejected
  <2>2. Cardinality(Ejected') <= Cardinality(Ejected)
    BY <1>4, <2>1, FS_Subset
  <2>3. \A t \in Callers : todo'[t] \subseteq todo[t]
    BY <1>2 DEF Actors
  <2> QED
    BY <1>2, <1>3, <1>4, <2>2, <2>3, CapIsPositive
       DEF HealthInv, RoomLeft, CapHeld, ejection_cap
<1>6. CASE pc[a] = "down"
  <2>1. a \in Callers /\ guard = a /\ Cardinality(Ejected) < ejection_cap
    BY <1>6 DEF HealthInv, PlacesOK, GuardOK, RoomLeft, StoreHealthy, Actors
  <2>2. Ejected' = Ejected \cup {u}
    BY <1>1, <1>6 DEF StoreHealthy, Ejected
  <2>3. Cardinality(Ejected') <= Cardinality(Ejected) + 1
    <3>1. CASE u \in Ejected
      <4>1. Ejected' = Ejected
        BY <2>2, <3>1
      <4> QED
        BY <1>4, <4>1
    <3>2. CASE u \notin Ejected
      BY <1>4, <2>2, <3>2, FS_AddElement
    <3> QED
      BY <3>1, <3>2
  <2>4. CapHeld'
    BY <1>4, <2>1, <2>3, CapIsPositive DEF CapHeld, ejection_cap
  <2>5. \A t \in Callers : pc[t] = "down" => t = a
    BY <2>1 DEF HealthInv, GuardOK
  <2>6. "healthy" \notin todo'[a]
    BY <1>2
  <2> QED
    BY <1>2, <1>3, <2>4, <2>5, <2>6 DEF RoomLeft
<1> QED
  BY <1>5, <1>6 DEF StoreHealthy

\* The decision under the guard: nobody else is ejecting, and there is room.
LEMMA EjectStep ==
    ASSUME HealthInv, NEW t \in Callers, Eject(t)
    PROVE  GuardOK' /\ RoomLeft' /\ CapHeld'
<1>1. /\ guard = None /\ guard' = t /\ can_eject /\ Ejected' = Ejected
      /\ pc' = [pc EXCEPT ![t] = "down"] /\ pc \in [Actors -> Places]
  BY DEF Eject, Begin, HealthInv, TypeOK, cells, Ejected
<1>2. \A s \in Callers : pc[s] # "down"
  BY <1>1, HealthConstants DEF HealthInv, GuardOK
<1> QED
  BY <1>1, <1>2 DEF HealthInv, GuardOK, RoomLeft, CapHeld, can_eject, ejection_cap, Actors

-----------------------------------------------------------------------------
\* Every step keeps the invariant.
LEMMA StepInv == HealthInv /\ [Next]_vars => HealthInv'
<1> SUFFICES ASSUME HealthInv, [Next]_vars PROVE HealthInv'
  OBVIOUS
<1>0. TypeOK' /\ PlacesOK'
  BY TypeStep DEF HealthInv
<1>t. /\ pc \in [Actors -> Places] /\ todo \in [Actors -> SUBSET Cells]
      /\ \A s \in Callers : pc[s] = "down" <=> guard = s
      /\ pc[Prober] # "down"
      /\ Prober \notin Callers /\ None \notin Callers
  BY HealthConstants DEF HealthInv, TypeOK, GuardOK, PlacesOK
<1> DEFINE Goal == GuardOK' /\ RoomLeft' /\ CapHeld'
<1> DEFINE Quiet ==
      /\ UNCHANGED healthy
      /\ \A s \in Callers :
             /\ pc'[s] = "down" => pc[s] = "down" /\ todo'[s] \subseteq todo[s]
             /\ pc'[s] = "down" <=> guard' = s
<1>q. Quiet => Goal
  BY FlagsKept
<1> HIDE DEF Goal
<1>1. ASSUME NEW t \in Callers, NEW u \in Upstreams, NEW k \in {"query", "trace", "web"},
             Start(t, u, k)
      PROVE  Goal
  BY <1>1, <1>t, <1>q DEF Start, cells, Actors
<1>2. ASSUME NEW u \in Upstreams, ProbeStart(u) PROVE Goal
  BY <1>2, <1>t, <1>q DEF ProbeStart, cells, Actors
<1>3. ASSUME NEW u \in Upstreams, EnvChanges(u) PROVE Goal
  BY <1>3, <1>t, <1>q DEF EnvChanges, cells, local
<1>4. ASSUME NEW a \in Actors, FoldStep(a) PROVE Goal
  <2>1. CASE ProbeSucceeds(a)
    BY <2>1, <1>t, <1>q DEF ProbeSucceeds, AfterFold, Begin, Return, Goto, Actors
  <2>2. CASE ProbeFails(a)
    BY <2>2, <1>t, <1>q DEF ProbeFails, Begin, cells, Actors
  <2>3. CASE Folded(a)
    BY <2>3, <1>t, <1>q DEF Folded, AfterFold, Return, Goto, cells, Actors
  <2>4. CASE StoreHealthy(a)
    BY <2>4, StoreHealthyStep DEF Goal
  <2>5. CASE StoreRise(a)
    BY <2>5, <1>t, <1>q DEF StoreRise, Actors
  <2>6. CASE StoreCount(a)
    BY <2>6, <1>t, <1>q DEF StoreCount, Actors
  <2>7. CASE StoreUntil(a)
    BY <2>7, <1>t, <1>q DEF StoreUntil, Actors
  <2> QED
    BY <1>4, <2>1, <2>2, <2>3, <2>4, <2>5, <2>6, <2>7 DEF FoldStep
<1>5. ASSUME NEW t \in Callers, CallerStep(t) PROVE Goal
  <2>1. CASE Recheck(t)
    BY <2>1, <1>t, <1>q DEF Recheck, Goto, Return, cells, Actors
  <2>2. CASE Unlock(t)
    BY <2>2, <1>t, <1>q DEF Unlock, Return, cells, Actors
  <2>3. CASE Connected(t)
    BY <2>3, <1>t, <1>q DEF Connected, Query, cells, Actors
  <2>4. CASE ConnectRejected(t)
    BY <2>4, <1>t, <1>q DEF ConnectRejected, Return, cells, Actors
  <2>5. CASE ConnectFails(t)
    BY <2>5, <1>t, <1>q DEF ConnectFails, Goto, Return, cells, Actors
  <2>6. CASE Answered(t)
    BY <2>6, <1>t, <1>q DEF Answered, Return, cells, Actors
  <2>7. CASE Rejected(t)
    BY <2>7, <1>t, <1>q DEF Rejected, Return, cells, Actors
  <2>8. CASE Unavailable(t)
    BY <2>8, <1>t, <1>q DEF Unavailable, Goto, cells, Actors
  <2>9. CASE TimesOut(t)
    BY <2>9, <1>t, <1>q DEF TimesOut, Goto, Return, cells, Actors
  <2>10. CASE ResetStreak(t)
    BY <2>10, <1>t, <1>q DEF ResetStreak, Goto, cells, Actors
  <2>11. CASE Eject(t)
    BY <2>11, EjectStep DEF Goal
  <2>12. CASE Capped(t)
    BY <2>12, <1>t, <1>q DEF Capped, Return, cells, Actors
  <2> QED
    BY <1>5, <2>1, <2>2, <2>3, <2>4, <2>5, <2>6, <2>7, <2>8, <2>9, <2>10, <2>11, <2>12
       DEF CallerStep
<1>6. ASSUME Tick PROVE Goal
  BY <1>6, <1>t, <1>q DEF Tick, local
<1>7. ASSUME UNCHANGED vars PROVE Goal
  BY <1>7, <1>t, <1>q DEF vars, cells, local
<1>8. Goal
  BY <1>1, <1>2, <1>3, <1>4, <1>5, <1>6, <1>7 DEF Next
<1> QED
  BY <1>0, <1>8 DEF HealthInv, Goal

\* The invariant holds in every behaviour.
THEOREM HealthInvariant == Spec => []HealthInv
  BY InitInv, StepInv, PTL DEF Spec

\* Whatever queries fail, time out or recover at once, the state of every
\* upstream and of every actor keeps its type; in particular windows and
\* deadlines stay within their caps.
THEOREM HealthTypes == Spec => []TypeOK
<1>1. HealthInv => TypeOK
  BY DEF HealthInv
<1> QED
  BY <1>1, HealthInvariant, PTL

\* eject_with_cap keeps its promise for any number of upstreams and of
\* concurrent queries: mark_down runs under the guard after a recount, and
\* mark_up, which takes no lock, only frees a place.
THEOREM CapAlwaysHeld == Spec => []CapHeld
<1>1. HealthInv => CapHeld
  BY DEF HealthInv
<1> QED
  BY <1>1, HealthInvariant, PTL

=============================================================================
