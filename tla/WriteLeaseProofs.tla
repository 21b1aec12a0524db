-------------------------- MODULE WriteLeaseProofs ---------------------------
(***************************************************************************)
(* The write lease gives at most one authority, for any threads, processes *)
(* and bounds.  No single lock carries the argument: the process claim     *)
(* separates the threads of one process, the record lock the processes     *)
(* over one database inode, the sidecar's flock the processes over the     *)
(* path, and the namespace lock the writers from a restore.  Each has its  *)
(* part of the invariant, which says at which places of the protocol a     *)
(* thread has it; since the locks are taken and dropped in a fixed order,  *)
(* a thread that is about to use one has all those before it.              *)
(*                                                                         *)
(* Before that, the registry entry implements the readers-writer lock, for *)
(* any callers and gc passes and however often the entry is unlinked and   *)
(* made again.  The heart of it: a descriptor that was seen behind the     *)
(* name while it was locked stays behind the name, since the only step     *)
(* that takes the name away needs the exclusive lock on that same inode.   *)
(***************************************************************************)
EXTENDS WriteLease, TLAPS

-----------------------------------------------------------------------------
(* The registry entry.                                                     *)


\* Inodes are never reused, and a lock belongs to a step of its protocol.
FdsMade == \A u \in Users : fd[u] <= made
LocksByStep ==
    /\ \A u \in Users : at[u] \in {"idle", "opened"} => flock[u] = "none"
    /\ \A u \in Users : at[u] \in {"opened", "locked", "held"} => fd[u] # 0
    /\ \A c \in Clients : at[c] \in {"locked", "held"} => flock[c] = want[c]
    /\ \A g \in Gcs : at[g] \in {"locked", "held"} => flock[g] = "ex"

\* flock(2) on one inode: two locks are both shared.
LocksCompatible ==
    \A u, v \in Users :
        (u # v /\ fd[u] = fd[v] /\ flock[u] # "none" /\ flock[v] # "none")
            => flock[u] = "sh" /\ flock[v] = "sh"

\* Whoever holds the entry has its descriptor on the inode the name means.
HeldIsNamed == \A u \in Users : at[u] = "held" => fd[u] = entry

AnchorInv ==
    /\ AnchorTypeOK
    /\ FdsMade
    /\ LocksByStep
    /\ LocksCompatible
    /\ HeldIsNamed

-----------------------------------------------------------------------------
\* Closing descriptors (a drop, a failed attempt, a refused gc pass) keeps the invariant.
LEMMA ClosingKeepsInv ==
    ASSUME AnchorInv, NEW U \in SUBSET Users, CloseAnchor(U),
           UNCHANGED <<entry, made>>,
           want' \in [Clients -> {"sh", "ex"}], tries' \in [Clients -> Nat],
           \A c \in Clients \ U : want'[c] = want[c]
    PROVE  AnchorInv'
<1>1. AnchorTypeOK'
  BY DEF AnchorInv, AnchorTypeOK, CloseAnchor, Closed, Users
<1>2. \A u \in Users : \/ u \notin U /\ fd'[u] = fd[u] /\ flock'[u] = flock[u] /\ at'[u] = at[u]
                       \/ u \in U /\ fd'[u] = 0 /\ flock'[u] = "none" /\ at'[u] = "idle"
  BY DEF AnchorInv, AnchorTypeOK, CloseAnchor, Closed
<1>3. FdsMade'
  BY <1>2 DEF AnchorInv, AnchorTypeOK, FdsMade
<1>4. LocksByStep'
  BY <1>2 DEF AnchorInv, AnchorTypeOK, LocksByStep, Users
<1>5. LocksCompatible'
  BY <1>2 DEF AnchorInv, LocksCompatible
<1>6. HeldIsNamed'
  BY <1>2 DEF AnchorInv, HeldIsNamed
<1>. QED
  BY <1>1, <1>3, <1>4, <1>5, <1>6 DEF AnchorInv

\* Opening the entry, which may create it, keeps the invariant.
LEMMA OpeningKeepsInv ==
    ASSUME AnchorInv, NEW c \in Clients, at[c] = "idle", OpenEntry(c),
           want' \in [Clients -> {"sh", "ex"}], tries' \in [Clients -> Nat],
           \A d \in Clients \ {c} : want'[d] = want[d]
    PROVE  AnchorInv'
<1>. USE DEF OpenEntry
<1>0. c \in Users
  BY DEF Users
<1>1. made' \in Nat /\ entry' \in Nat /\ entry' # 0 /\ entry' <= made' /\ made <= made'
  BY AnchorConstants DEF AnchorInv, AnchorTypeOK
<1>2. AnchorTypeOK'
  BY <1>0, <1>1 DEF AnchorInv, AnchorTypeOK, Users
<1>3. FdsMade'
  BY <1>0, <1>1 DEF AnchorInv, AnchorTypeOK, FdsMade
<1>4. LocksByStep'
  BY <1>0, <1>1 DEF AnchorInv, AnchorTypeOK, LocksByStep, Users
<1>5. LocksCompatible'
  BY <1>0 DEF AnchorInv, AnchorTypeOK, LocksByStep, LocksCompatible
<1>6. HeldIsNamed'
  <2>1. entry # 0 => entry' = entry
    OBVIOUS
  <2>. QED
    BY <1>0, <2>1 DEF AnchorInv, AnchorTypeOK, LocksByStep, HeldIsNamed
<1>. QED
  BY <1>2, <1>3, <1>4, <1>5, <1>6 DEF AnchorInv

\* Taking the lock flock(2) grants keeps the invariant.
LEMMA LockingKeepsInv ==
    ASSUME AnchorInv, NEW u \in Users, NEW m \in {"sh", "ex"},
           at[u] = "opened", ~Conflict(u, m),
           u \in Clients => m = want[u], u \in Gcs => m = "ex",
           flock' = [flock EXCEPT ![u] = m], at' = [at EXCEPT ![u] = "locked"],
           UNCHANGED <<entry, made, fd, want, tries>>
    PROVE  AnchorInv'
<1>1. AnchorTypeOK' /\ FdsMade' /\ HeldIsNamed'
  BY DEF AnchorInv, AnchorTypeOK, FdsMade, HeldIsNamed
<1>2. LocksByStep'
  BY DEF AnchorInv, AnchorTypeOK, LocksByStep, Users
<1>3. LocksCompatible'
  BY DEF AnchorInv, AnchorTypeOK, LocksCompatible, Conflict
<1>. QED
  BY <1>1, <1>2, <1>3 DEF AnchorInv

\* Finding the locked inode behind the name keeps the invariant.
LEMMA HoldingKeepsInv ==
    ASSUME AnchorInv, NEW u \in Users, at[u] = "locked", fd[u] = entry,
           at' = [at EXCEPT ![u] = "held"], tries' \in [Clients -> Nat],
           UNCHANGED <<entry, made, fd, flock, want>>
    PROVE  AnchorInv'
<1>1. AnchorTypeOK' /\ FdsMade' /\ LocksCompatible' /\ HeldIsNamed'
  BY DEF AnchorInv, AnchorTypeOK, FdsMade, LocksCompatible, HeldIsNamed
<1>2. LocksByStep'
  BY DEF AnchorInv, AnchorTypeOK, LocksByStep, Users
<1>. QED
  BY <1>1, <1>2 DEF AnchorInv

\* gc takes the name away only from an inode that nobody else holds.
LEMMA UnlinkKeepsInv ==
    ASSUME AnchorInv, NEW g \in Gcs, GcUnlink(g)
    PROVE  AnchorInv'
<1>. USE DEF GcUnlink
<1>1. g \in Users /\ flock[g] = "ex" /\ fd[g] = entry /\ entry # 0
  BY DEF AnchorInv, LocksByStep, HeldIsNamed, Users
<1>2. \A u \in Users \ {g} : at[u] # "held"
  <2>. SUFFICES ASSUME NEW u \in Users \ {g}, at[u] = "held"
                PROVE  FALSE
    OBVIOUS
  <2>1. flock[u] # "none" /\ fd[u] = fd[g]
    BY <1>1 DEF AnchorInv, AnchorTypeOK, LocksByStep, HeldIsNamed, Users
  <2>. QED
    BY <1>1, <2>1 DEF AnchorInv, LocksCompatible
<1>3. entry' \in Nat /\ entry' <= made
  BY DEF AnchorInv, AnchorTypeOK
<1>. USE DEF CloseAnchor, Closed
<1>4. \A u \in Users : \/ u # g /\ fd'[u] = fd[u] /\ flock'[u] = flock[u] /\ at'[u] = at[u]
                       \/ u = g /\ fd'[u] = 0 /\ flock'[u] = "none" /\ at'[u] = "idle"
  BY DEF AnchorInv, AnchorTypeOK
<1>5. AnchorTypeOK'
  BY <1>3 DEF AnchorInv, AnchorTypeOK, Users
<1>6. FdsMade' /\ LocksCompatible'
  BY <1>4 DEF AnchorInv, AnchorTypeOK, FdsMade, LocksCompatible
<1>7. LocksByStep'
  BY <1>4 DEF AnchorInv, AnchorTypeOK, LocksByStep, Users
<1>8. HeldIsNamed'
  BY <1>2, <1>4 DEF HeldIsNamed
<1>. QED
  BY <1>5, <1>6, <1>7, <1>8 DEF AnchorInv

-----------------------------------------------------------------------------
\* No step of the abstract lock: nobody's holding changes.
LEMMA HoldsUnchanged ==
    ASSUME \A c \in Clients : \/ at'[c] = "held" /\ at[c] = "held" /\ flock'[c] = flock[c]
                              \/ at'[c] # "held" /\ at[c] # "held"
    PROVE  Holds' = Holds
BY DEF Holds

\* The verified caller joins holders that are compatible with it.
LEMMA VerifyAcquires ==
    ASSUME AnchorInv, NEW c \in Clients, AnchorVerify(c), fd[c] = entry
    PROVE  RW!Acquire(c, want[c])
<1>. USE DEF AnchorVerify
<1>1. Holds[c] = "none"
  BY DEF Holds
<1>2. \A d \in Clients \ {c} : RW!Compatible(want[c], Holds[d])
  <2>. SUFFICES ASSUME NEW d \in Clients \ {c}, at[d] = "held"
                PROVE  want[c] = "sh" /\ flock[d] = "sh"
    BY DEF RW!Compatible, Holds
  <2>1. fd[d] = fd[c] /\ flock[c] = want[c] /\ flock[d] = want[d]
    BY DEF AnchorInv, HeldIsNamed, LocksByStep, Users
  <2>. QED
    BY <2>1 DEF AnchorInv, AnchorTypeOK, LocksCompatible, Users
<1>3. Holds' = [Holds EXCEPT ![c] = want[c]]
  BY DEF AnchorInv, AnchorTypeOK, LocksByStep, Holds, Users
<1>. QED
  BY <1>1, <1>2, <1>3 DEF RW!Acquire

\* Callers that drop their anchors release what they hold.
LEMMA DropReleases ==
    ASSUME AnchorInv, NEW C \in SUBSET Clients, AnchorDrop(C)
    PROVE  RW!Release(C)
<1>1. \A c \in Clients : /\ at'[c] = IF c \in C THEN "idle" ELSE at[c]
                         /\ flock'[c] = IF c \in C THEN "none" ELSE flock[c]
  BY DEF AnchorDrop, CloseAnchor, Closed, AnchorInv, AnchorTypeOK, Users
<1>. QED
  BY <1>1 DEF Holds, RW!Release

-----------------------------------------------------------------------------
\* Every step keeps the invariant and is a step of the lock or none.
LEMMA AnchorStepRefines ==
    ASSUME AnchorInv, [AnchorNext]_anchorVars
    PROVE  AnchorInv' /\ [RW!Next]_Holds
<1>1. ASSUME NEW c \in Clients, NEW m \in {"sh", "ex"}, AnchorBegin(c, m)
      PROVE  AnchorInv' /\ Holds' = Holds
  <2>1. AnchorInv'
    BY <1>1, OpeningKeepsInv DEF AnchorBegin, AnchorInv, AnchorTypeOK
  <2>. QED
    BY <1>1, <2>1, HoldsUnchanged DEF AnchorBegin, OpenEntry, AnchorInv, AnchorTypeOK, Users
<1>2. ASSUME NEW c \in Clients, AnchorReopen(c)
      PROVE  AnchorInv' /\ Holds' = Holds
  <2>1. tries' \in [Clients -> Nat]
    BY <1>2 DEF AnchorReopen, AnchorInv, AnchorTypeOK
  <2>2. AnchorInv'
    BY <1>2, <2>1, OpeningKeepsInv DEF AnchorReopen, AnchorInv, AnchorTypeOK
  <2>. QED
    BY <1>2, <2>2, HoldsUnchanged DEF AnchorReopen, OpenEntry, AnchorInv, AnchorTypeOK, Users
<1>3. ASSUME NEW c \in Clients, AnchorLock(c)
      PROVE  AnchorInv' /\ Holds' = Holds
  <2>1. c \in Users /\ c \notin Gcs /\ want[c] \in {"sh", "ex"}
    BY AnchorConstants DEF Users, AnchorInv, AnchorTypeOK
  <2>2. AnchorInv'
    BY <1>3, <2>1, LockingKeepsInv DEF AnchorLock
  <2>. QED
    BY <1>3, <2>1, <2>2, HoldsUnchanged DEF AnchorLock, AnchorInv, AnchorTypeOK, Users
<1>4. ASSUME NEW c \in Clients, AnchorVerify(c)
      PROVE  AnchorInv' /\ [RW!Next]_Holds
  <2>1. c \in Users /\ want[c] \in {"sh", "ex"}
    BY DEF Users, AnchorInv, AnchorTypeOK
  <2>2. CASE fd[c] = entry
    <3>1. AnchorInv'
      BY <1>4, <2>1, <2>2, HoldingKeepsInv DEF AnchorVerify, AnchorInv, AnchorTypeOK
    <3>2. RW!Acquire(c, want[c])
      BY <1>4, <2>2, VerifyAcquires
    <3>. QED
      BY <2>1, <3>1, <3>2 DEF RW!Next
  <2>3. CASE fd[c] # entry
    <3>1. CloseAnchor({c}) /\ UNCHANGED <<entry, made, want, tries>> /\ at[c] = "locked"
      BY <1>4, <2>3 DEF AnchorVerify
    <3>2. AnchorInv'
      BY <2>1, <3>1, ClosingKeepsInv DEF AnchorInv, AnchorTypeOK
    <3>3. Holds' = Holds
      BY <3>1, HoldsUnchanged DEF CloseAnchor, Closed, AnchorInv, AnchorTypeOK, Users
    <3>. QED
      BY <3>2, <3>3
  <2>. QED
    BY <2>2, <2>3
<1>5. ASSUME NEW C \in SUBSET Clients, AnchorDrop(C)
      PROVE  AnchorInv' /\ [RW!Next]_Holds
  <2>1. AnchorInv'
    <3>1. /\ want' \in [Clients -> {"sh", "ex"}] /\ tries' \in [Clients -> Nat]
          /\ \A c \in Clients \ C : want'[c] = want[c]
      BY <1>5 DEF AnchorDrop, Closed, AnchorInv, AnchorTypeOK
    <3>. QED
      BY <1>5, <3>1, ClosingKeepsInv DEF AnchorDrop, Users
  <2>2. RW!Release(C)
    BY <1>5, DropReleases
  <2>. QED
    BY <2>1, <2>2 DEF RW!Next
<1>6. ASSUME NEW g \in Gcs, GcStep(g)
      PROVE  AnchorInv' /\ Holds' = Holds
  <2>0. g \in Users /\ g \notin Clients
    BY AnchorConstants DEF Users
  <2>1. CASE GcOpen(g)
    <3>1. AnchorTypeOK' /\ FdsMade' /\ HeldIsNamed'
      BY <2>0, <2>1 DEF GcOpen, AnchorInv, AnchorTypeOK, FdsMade, HeldIsNamed
    <3>2. LocksByStep' /\ LocksCompatible'
      BY <2>0, <2>1 DEF GcOpen, AnchorInv, AnchorTypeOK, LocksByStep, LocksCompatible, Users
    <3>3. Holds' = Holds
      BY <2>0, <2>1, HoldsUnchanged DEF GcOpen, AnchorInv, AnchorTypeOK, Users
    <3>. QED
      BY <3>1, <3>2, <3>3 DEF AnchorInv
  <2>2. CASE CloseAnchor({g}) /\ UNCHANGED <<entry, made, want, tries>>
    <3>1. AnchorInv'
      BY <2>0, <2>2, ClosingKeepsInv DEF AnchorInv, AnchorTypeOK
    <3>2. Holds' = Holds
      BY <2>0, <2>2, HoldsUnchanged DEF CloseAnchor, Closed, AnchorInv, AnchorTypeOK, Users
    <3>. QED
      BY <3>1, <3>2
  <2>3. CASE GcLock(g) /\ ~Conflict(g, "ex")
    <3>1. AnchorInv'
      BY <2>0, <2>3, LockingKeepsInv DEF GcLock
    <3>2. Holds' = Holds
      BY <2>0, <2>3, HoldsUnchanged DEF GcLock, AnchorInv, AnchorTypeOK, Users
    <3>. QED
      BY <3>1, <3>2
  <2>4. CASE GcRecheck(g) /\ fd[g] = entry
    <3>1. AnchorInv'
      BY <2>0, <2>4, HoldingKeepsInv DEF GcRecheck, AnchorInv, AnchorTypeOK
    <3>2. Holds' = Holds
      BY <2>0, <2>4, HoldsUnchanged DEF GcRecheck, AnchorInv, AnchorTypeOK, Users
    <3>. QED
      BY <3>1, <3>2
  <2>5. CASE GcUnlink(g)
    <3>1. Holds' = Holds
      BY <2>0, <2>5, HoldsUnchanged DEF GcUnlink, CloseAnchor, Closed, AnchorInv, AnchorTypeOK, Users
    <3>. QED
      BY <2>5, <3>1, UnlinkKeepsInv
  <2>. QED
    BY <1>6, <2>1, <2>2, <2>3, <2>4, <2>5 DEF GcStep, GcLock, GcRecheck
<1>7. ASSUME UNCHANGED anchorVars
      PROVE  AnchorInv' /\ Holds' = Holds
  BY <1>7 DEF anchorVars, AnchorInv, AnchorTypeOK, FdsMade, LocksByStep, LocksCompatible,
              HeldIsNamed, Conflict, Holds
<1>8. ASSUME NEW c \in Clients, AnchorGiveUp(c)
      PROVE  AnchorInv' /\ [RW!Next]_Holds
  BY <1>5, <1>8 DEF AnchorGiveUp
<1>. QED
  BY <1>1, <1>2, <1>3, <1>4, <1>5, <1>6, <1>7, <1>8 DEF AnchorNext, AnchorStep

-----------------------------------------------------------------------------
\* The invariant the refinement rests on: a held entry's descriptor is on the inode the name
\* means (HeldIsNamed), so a held anchor is never displaced by prune_authority_registry_in.
THEOREM AnchorNeverDisplaced == AnchorSpec => [](AnchorTypeOK /\ HeldIsNamed)
<1>1. AnchorInit => AnchorInv
  BY DEF AnchorInit, AnchorInv, AnchorTypeOK, FdsMade, LocksByStep, LocksCompatible,
         HeldIsNamed, Users
<1>2. AnchorInv /\ [AnchorNext]_anchorVars => AnchorInv'
  BY AnchorStepRefines
<1>3. AnchorInv => AnchorTypeOK /\ HeldIsNamed
  BY DEF AnchorInv
<1>. QED
  BY <1>1, <1>2, <1>3, PTL DEF AnchorSpec

\* acquire_in, drop and gc together implement a readers-writer lock, for any callers and any
\* number of gc passes.
THEOREM AnchorImplementsLock == AnchorSpec => AnchorIsLock
<1>1. AnchorInit => AnchorInv /\ RW!Init
  BY DEF AnchorInit, AnchorInv, AnchorTypeOK, FdsMade, LocksByStep, LocksCompatible,
         HeldIsNamed, Users, Holds, RW!Init
<1>2. AnchorInv /\ [AnchorNext]_anchorVars => AnchorInv' /\ [RW!Next]_Holds
  BY AnchorStepRefines
<1>. QED
  BY <1>1, <1>2, PTL DEF AnchorSpec, AnchorIsLock, RW!Spec

-----------------------------------------------------------------------------
(* The write lease.                                                        *)


\* Where a thread has the process claim, the record lock, the sidecar's flock.
ClaimPlaces == InNamespace \cup
    {"claimed", "undo_anchor", "drop_anchor", "drop_db", "drop_side", "drop_claim"}
RecordPlaces == {"posix", "side", "held"}
SidePlaces == {"held", "drop_anchor", "drop_db", "drop_side"}

\* Whoever is inside has the namespace; a restore has it exclusively.
NamespaceInv ==
    /\ \A t \in Threads : pc[t] \in InNamespace \cup {"closed"} => nsMode[t] # "none"
    /\ \A t \in Threads : restoring[t] => nsMode[t] = "ex"
    /\ \A t, u \in Threads : t # u /\ nsMode[t] = "ex" => nsMode[u] = "none"

\* One thread of a process at a time is between its claim and the drop of it.
ClaimInv ==
    /\ \A t \in Threads : pc[t] \in ClaimPlaces => ProcOf[t] \in claimed
    /\ \A t, u \in Threads : t # u /\ ProcOf[t] = ProcOf[u] =>
          pc[t] \notin ClaimPlaces \/ pc[u] \notin ClaimPlaces

\* The record lock is the process's from LockDb on, save where a probe dropped it.
RecordInv ==
    /\ \A t \in Threads : pc[t] \in {"db"} \cup RecordPlaces => dbFd[t] # 0
    /\ \A t \in Threads : pc[t] \in RecordPlaces =>
          posix[dbFd[t]] = ProcOf[t] \/ <<ProcOf[t], dbFd[t]>> \in leaked

\* A writer has the flock of its sidecar inode, which is the one behind the
\* path as long as nobody removed the file.
SideInv ==
    /\ \A t \in Threads : pc[t] \in {"side"} \cup SidePlaces => sideFd[t] # 0
    /\ \A t \in Threads : pc[t] \in SidePlaces => sideLock[sideFd[t]] = t
    /\ unlinks = 0 => \A t \in Threads : pc[t] \in {"side", "held"} => sideFd[t] = sidePath

\* Only a thread that waits for the anchor is inside an acquisition of it.
SettledInv ==
    \A t \in Threads : pc[t] \notin {"claimed", "restore"} =>
        at[t] = "held" \/ (at[t] = "idle" /\ tries[t] = 0)

\* The file an acquisition created is behind the path until the acquisition is
\* over, and no two acquisitions created the same.
CreatedInv ==
    /\ \A t \in Threads : created[t] # 0 => pc[t] \in InNamespace \cup {"drop_anchor", "drop_db"}
    /\ \A t \in Threads : pc[t] \in InNamespace /\ created[t] # 0 => dbPath = created[t]
    /\ \A t \in Threads : pc[t] \in {"ns", "exists", "undo_ns"} => created[t] = 0
    /\ \A t \in Threads : pc[t] = "unlink" => created[t] # 0
    /\ \A t, u \in Threads : t # u /\ created[t] # 0 => created[t] # created[u]

LeaseParts ==
    LeaseTypeOK /\ NamespaceInv /\ ClaimInv /\ RecordInv /\ SideInv /\ SettledInv /\ CreatedInv

LeaseInv == LeaseParts /\ AnchorInv

-----------------------------------------------------------------------------
(* One lemma per action: it keeps every part of the invariant.             *)

USE LeaseConstants, AnchorConstants
    DEF Threads, Goto, nsVars, dbVars, sideVars, anchorVars, InNamespace, Places,
        ClaimPlaces, RecordPlaces, SidePlaces, LeaseInv, LeaseParts

\* The claim is the thread's alone: the registry refuses a second one.
LEMMA ClaimKeeps ==
    ASSUME LeaseInv, NEW t \in Threads, NEW c \in BOOLEAN, Claim(t, c)
    PROVE  LeaseParts'
<1>1. LeaseTypeOK'
  BY DEF Claim, LeaseTypeOK
<1>2. NamespaceInv'
  BY DEF Claim, NamespaceInv, LeaseTypeOK
<1>3. ClaimInv'
  <2>1. pc[t] = "idle" /\ pc' = [pc EXCEPT ![t] = "claimed"]
    BY DEF Claim
  <2>2. ProcOf[t] \notin claimed /\ claimed' = claimed \cup {ProcOf[t]}
    BY DEF Claim
  <2>3. \A u \in Threads : ProcOf[u] = ProcOf[t] => pc[u] \notin ClaimPlaces
    BY <2>2 DEF ClaimInv
  <2>4. \A u \in Threads : pc'[u] = IF u = t THEN "claimed" ELSE pc[u]
    BY <2>1 DEF LeaseTypeOK
  <2>. QED
    BY <2>2, <2>3, <2>4 DEF ClaimInv
<1>4. RecordInv'
  BY DEF Claim, RecordInv, LeaseTypeOK
<1>5. SideInv'
  BY DEF Claim, SideInv, LeaseTypeOK
<1>6. SettledInv'
  BY DEF Claim, SettledInv, LeaseTypeOK
<1>7. CreatedInv'
  BY DEF Claim, CreatedInv, LeaseTypeOK
<1>. QED
  BY <1>1, <1>2, <1>3, <1>4, <1>5, <1>6, <1>7

\* Starting on the anchor touches nothing but the anchor.
LEMMA NamespaceAnchorKeeps ==
    ASSUME LeaseInv, NEW t \in Threads, NamespaceAnchor(t)
    PROVE  LeaseParts'
<1>1. LeaseTypeOK'
  BY DEF NamespaceAnchor, LeaseTypeOK
<1>2. NamespaceInv'
  BY DEF NamespaceAnchor, NamespaceInv, LeaseTypeOK
<1>3. ClaimInv'
  BY DEF NamespaceAnchor, ClaimInv, LeaseTypeOK
<1>4. RecordInv'
  BY DEF NamespaceAnchor, RecordInv, LeaseTypeOK
<1>5. SideInv'
  BY DEF NamespaceAnchor, SideInv, LeaseTypeOK
<1>6. SettledInv'
  BY DEF NamespaceAnchor, SettledInv, AnchorBegin, OpenEntry, AnchorInv, AnchorTypeOK,
         Users, LeaseTypeOK
<1>7. CreatedInv'
  BY DEF NamespaceAnchor, CreatedInv, LeaseTypeOK
<1>. QED
  BY <1>1, <1>2, <1>3, <1>4, <1>5, <1>6, <1>7

\* Nor does going on with it.
LEMMA WaitAnchorKeeps ==
    ASSUME LeaseInv, NEW t \in Threads, WaitAnchor(t)
    PROVE  LeaseParts'
<1>1. UNCHANGED <<pc, nsVars, dbVars, sideVars>>
  BY DEF WaitAnchor
<1>2. pc[t] \in {"claimed", "restore"}
  BY DEF WaitAnchor, AnchorStep, AnchorReopen, AnchorLock, AnchorVerify, SettledInv,
         AnchorInv, AnchorTypeOK
<1>3. \A u \in Threads \ {t} : at'[u] = at[u] /\ tries'[u] = tries[u]
  BY DEF WaitAnchor, AnchorStep, AnchorReopen, AnchorLock, AnchorVerify, OpenEntry,
         CloseAnchor, Closed, AnchorInv, AnchorTypeOK, Users
<1>4. SettledInv'
  BY <1>1, <1>2, <1>3 DEF SettledInv
<1>. QED
  BY <1>1, <1>4 DEF LeaseTypeOK, NamespaceInv, ClaimInv, RecordInv, SideInv, CreatedInv

\* Without the anchor the acquisition has only the claim to give back.
LEMMA AnchorRefusedKeeps ==
    ASSUME LeaseInv, NEW t \in Threads, AnchorRefused(t)
    PROVE  LeaseParts'
<1>1. CASE pc[t] = "claimed"
  <2>0. /\ AnchorDrop({t})
        /\ pc' = [pc EXCEPT ![t] = "drop_claim"]
        /\ UNCHANGED <<nsVars, dbVars, sideVars>>
    BY <1>1 DEF AnchorRefused, AnchorGiveUp, AnchorFails, SettledInv, AnchorInv,
           AnchorTypeOK, Users, LeaseTypeOK
  <2>8. \A u \in Threads : pc'[u] = IF u = t THEN "drop_claim" ELSE pc[u]
    BY <2>0 DEF LeaseTypeOK
  <2>9. \A u \in Threads : \/ u # t /\ at'[u] = at[u] /\ tries'[u] = tries[u]
                           \/ u = t /\ at'[u] = "idle" /\ tries'[u] = 0
    BY <2>0 DEF AnchorDrop, CloseAnchor, Closed, AnchorInv, AnchorTypeOK, Users
  <2>1. LeaseTypeOK'
    BY <1>1, <2>0, <2>8 DEF LeaseTypeOK
  <2>2. NamespaceInv'
    BY <1>1, <2>0, <2>8 DEF NamespaceInv, LeaseTypeOK
  <2>3. ClaimInv'
    BY <1>1, <2>0, <2>8 DEF ClaimInv
  <2>4. RecordInv'
    BY <1>1, <2>0, <2>8 DEF RecordInv, LeaseTypeOK
  <2>5. SideInv'
    BY <1>1, <2>0, <2>8 DEF SideInv, LeaseTypeOK
  <2>6. SettledInv'
    BY <1>1, <2>0, <2>8, <2>9 DEF SettledInv, LeaseTypeOK
  <2>7. CreatedInv'
    BY <1>1, <2>0, <2>8 DEF CreatedInv
  <2>. QED
    BY <2>1, <2>2, <2>3, <2>4, <2>5, <2>6, <2>7
<1>2. CASE pc[t] # "claimed"
  <2>0. /\ AnchorDrop({t})
        /\ pc' = [pc EXCEPT ![t] = "idle"]
        /\ pc[t] = "restore"
        /\ UNCHANGED <<nsVars, dbVars, sideVars>>
    BY <1>2 DEF AnchorRefused, AnchorGiveUp, AnchorFails, SettledInv, AnchorInv,
           AnchorTypeOK, Users, LeaseTypeOK
  <2>8. \A u \in Threads : pc'[u] = IF u = t THEN "idle" ELSE pc[u]
    BY <2>0 DEF LeaseTypeOK
  <2>9. \A u \in Threads : \/ u # t /\ at'[u] = at[u] /\ tries'[u] = tries[u]
                           \/ u = t /\ at'[u] = "idle" /\ tries'[u] = 0
    BY <2>0 DEF AnchorDrop, CloseAnchor, Closed, AnchorInv, AnchorTypeOK, Users
  <2>1. LeaseTypeOK'
    BY <1>2, <2>0, <2>8 DEF LeaseTypeOK
  <2>2. NamespaceInv'
    BY <1>2, <2>0, <2>8 DEF NamespaceInv, LeaseTypeOK
  <2>3. ClaimInv'
    BY <1>2, <2>0, <2>8 DEF ClaimInv
  <2>4. RecordInv'
    BY <1>2, <2>0, <2>8 DEF RecordInv, LeaseTypeOK
  <2>5. SideInv'
    BY <1>2, <2>0, <2>8 DEF SideInv, LeaseTypeOK
  <2>6. SettledInv'
    BY <1>2, <2>0, <2>8, <2>9 DEF SettledInv, LeaseTypeOK
  <2>7. CreatedInv'
    BY <1>2, <2>0, <2>8 DEF CreatedInv
  <2>. QED
    BY <2>1, <2>2, <2>3, <2>4, <2>5, <2>6, <2>7
<1>. QED
  BY <1>1, <1>2

\* The shared namespace is taken only while nobody has it exclusively.
LEMMA NamespaceLockKeeps ==
    ASSUME LeaseInv, NEW t \in Threads, NamespaceLock(t)
    PROVE  LeaseParts'
<1>1. CASE \E u \in Threads : nsMode[u] = "ex"
  <2>0. /\ pc[t] = "claimed" /\ at[t] = "held"
        /\ pc' = [pc EXCEPT ![t] = "undo_anchor"]
        /\ UNCHANGED <<anchorVars, nsVars, dbVars, sideVars>>
    BY <1>1 DEF NamespaceLock
  <2>8. \A u \in Threads : pc'[u] = IF u = t THEN "undo_anchor" ELSE pc[u]
    BY <2>0 DEF LeaseTypeOK
  <2>1. LeaseTypeOK'
    BY <1>1, <2>0, <2>8 DEF LeaseTypeOK
  <2>2. NamespaceInv'
    BY <1>1, <2>0, <2>8 DEF NamespaceInv, LeaseTypeOK
  <2>3. ClaimInv'
    BY <1>1, <2>0, <2>8 DEF ClaimInv
  <2>4. RecordInv'
    BY <1>1, <2>0, <2>8 DEF RecordInv, LeaseTypeOK
  <2>5. SideInv'
    BY <1>1, <2>0, <2>8 DEF SideInv, LeaseTypeOK
  <2>6. SettledInv'
    BY <1>1, <2>0, <2>8 DEF SettledInv, LeaseTypeOK
  <2>7. CreatedInv'
    BY <1>1, <2>0, <2>8 DEF CreatedInv
  <2>. QED
    BY <2>1, <2>2, <2>3, <2>4, <2>5, <2>6, <2>7
<1>2. CASE ~\E u \in Threads : nsMode[u] = "ex"
  <2>0. /\ pc[t] = "claimed" /\ at[t] = "held"
        /\ pc' = [pc EXCEPT ![t] = "ns"]
        /\ nsMode' = [nsMode EXCEPT ![t] = "sh"]
        /\ UNCHANGED <<anchorVars, creates, restoring, claimed, dbVars, sideVars>>
    BY <1>2 DEF NamespaceLock
  <2>8. \A u \in Threads : pc'[u] = IF u = t THEN "ns" ELSE pc[u]
    BY <2>0 DEF LeaseTypeOK
  <2>1. LeaseTypeOK'
    BY <1>2, <2>0, <2>8 DEF LeaseTypeOK
  <2>2. NamespaceInv'
    BY <1>2, <2>0, <2>8 DEF NamespaceInv, LeaseTypeOK
  <2>3. ClaimInv'
    BY <1>2, <2>0, <2>8 DEF ClaimInv
  <2>4. RecordInv'
    BY <1>2, <2>0, <2>8 DEF RecordInv, LeaseTypeOK
  <2>5. SideInv'
    BY <1>2, <2>0, <2>8 DEF SideInv, LeaseTypeOK
  <2>6. SettledInv'
    BY <1>2, <2>0, <2>8 DEF SettledInv, LeaseTypeOK
  <2>7. CreatedInv'
    BY <1>2, <2>0, <2>8 DEF CreatedInv
  <2>. QED
    BY <2>1, <2>2, <2>3, <2>4, <2>5, <2>6, <2>7
<1>. QED
  BY <1>1, <1>2

\* create_new makes an inode nobody else created or opened.
LEMMA CreateDbKeeps ==
    ASSUME LeaseInv, NEW t \in Threads, CreateDb(t)
    PROVE  LeaseParts'
<1>1. CASE creates[t] /\ dbPath = 0
  <2>0. /\ pc[t] = "ns"
        /\ dbMade < MaxDb
        /\ dbMade' = dbMade + 1
        /\ dbPath' = dbMade + 1
        /\ dbFd' = [dbFd EXCEPT ![t] = dbMade + 1]
        /\ created' = [created EXCEPT ![t] = dbMade + 1]
        /\ pc' = [pc EXCEPT ![t] = "db"]
        /\ creates' = [creates EXCEPT ![t] = FALSE]
        /\ UNCHANGED <<anchorVars, restoring, claimed, nsMode, posix, leaked, sideVars>>
    BY <1>1 DEF CreateDb
  <2>8. \A u \in Threads : pc'[u] = IF u = t THEN "db" ELSE pc[u]
    BY <2>0 DEF LeaseTypeOK
  <2>9. /\ dbFd' \in [Threads -> 0..(dbMade + 1)] /\ created' \in [Threads -> 0..(dbMade + 1)]
        /\ \A u \in Threads : dbFd'[u] = IF u = t THEN dbMade + 1 ELSE dbFd[u]
    BY <2>0 DEF LeaseTypeOK
  <2>1. LeaseTypeOK'
    BY <1>1, <2>0, <2>8, <2>9 DEF LeaseTypeOK
  <2>2. NamespaceInv'
    BY <1>1, <2>0, <2>8 DEF NamespaceInv, LeaseTypeOK
  <2>3. ClaimInv'
    BY <1>1, <2>0, <2>8 DEF ClaimInv
  <2>4. RecordInv'
    BY <1>1, <2>0, <2>8, <2>9 DEF RecordInv, LeaseTypeOK
  <2>5. SideInv'
    BY <1>1, <2>0, <2>8 DEF SideInv, LeaseTypeOK
  <2>6. SettledInv'
    BY <1>1, <2>0, <2>8 DEF SettledInv, LeaseTypeOK
  <2>7. CreatedInv'
    BY <1>1, <2>0, <2>8 DEF CreatedInv, LeaseTypeOK
  <2>. QED
    BY <2>1, <2>2, <2>3, <2>4, <2>5, <2>6, <2>7
<1>2. CASE ~(creates[t] /\ dbPath = 0)
  <2>0. /\ pc[t] = "ns"
        /\ pc' = [pc EXCEPT ![t] = "exists"]
        /\ creates' = [creates EXCEPT ![t] = FALSE]
        /\ UNCHANGED <<anchorVars, restoring, claimed, nsMode, dbVars, sideVars>>
    BY <1>2 DEF CreateDb
  <2>8. \A u \in Threads : pc'[u] = IF u = t THEN "exists" ELSE pc[u]
    BY <2>0 DEF LeaseTypeOK
  <2>1. LeaseTypeOK'
    BY <1>2, <2>0, <2>8 DEF LeaseTypeOK
  <2>2. NamespaceInv'
    BY <1>2, <2>0, <2>8 DEF NamespaceInv, LeaseTypeOK
  <2>3. ClaimInv'
    BY <1>2, <2>0, <2>8 DEF ClaimInv
  <2>4. RecordInv'
    BY <1>2, <2>0, <2>8 DEF RecordInv, LeaseTypeOK
  <2>5. SideInv'
    BY <1>2, <2>0, <2>8 DEF SideInv, LeaseTypeOK
  <2>6. SettledInv'
    BY <1>2, <2>0, <2>8 DEF SettledInv, LeaseTypeOK
  <2>7. CreatedInv'
    BY <1>2, <2>0, <2>8 DEF CreatedInv, LeaseTypeOK
  <2>. QED
    BY <2>1, <2>2, <2>3, <2>4, <2>5, <2>6, <2>7
<1>. QED
  BY <1>1, <1>2

\* The plain open takes no lock yet.
LEMMA OpenDbKeeps ==
    ASSUME LeaseInv, NEW t \in Threads, OpenDb(t)
    PROVE  LeaseParts'
<1>1. LeaseTypeOK'
  BY DEF OpenDb, LeaseTypeOK
<1>2. NamespaceInv'
  BY DEF OpenDb, NamespaceInv, LeaseTypeOK
<1>3. ClaimInv'
  BY DEF OpenDb, ClaimInv, LeaseTypeOK
<1>4. RecordInv'
  BY DEF OpenDb, RecordInv, LeaseTypeOK
<1>5. SideInv'
  BY DEF OpenDb, SideInv, LeaseTypeOK
<1>6. SettledInv'
  BY DEF OpenDb, SettledInv, LeaseTypeOK
<1>7. CreatedInv'
  BY DEF OpenDb, CreatedInv, LeaseTypeOK
<1>. QED
  BY <1>1, <1>2, <1>3, <1>4, <1>5, <1>6, <1>7

\* F_SETLK succeeds only where no other process has the record lock.
LEMMA LockDbKeeps ==
    ASSUME LeaseInv, NEW t \in Threads, LockDb(t)
    PROVE  LeaseParts'
<1>1. CASE posix[dbFd[t]] \in {NoOne, ProcOf[t]}
  <2>0. /\ pc[t] = "db"
        /\ pc' = [pc EXCEPT ![t] = "posix"]
        /\ posix' = [posix EXCEPT ![dbFd[t]] = ProcOf[t]]
        /\ UNCHANGED <<anchorVars, nsVars, dbPath, dbMade, dbFd, created, leaked, sideVars>>
    BY <1>1 DEF LockDb
  <2>8. \A u \in Threads : pc'[u] = IF u = t THEN "posix" ELSE pc[u]
    BY <2>0 DEF LeaseTypeOK
  <2>1. LeaseTypeOK'
    BY <1>1, <2>0, <2>8 DEF LeaseTypeOK
  <2>2. NamespaceInv'
    BY <1>1, <2>0, <2>8 DEF NamespaceInv, LeaseTypeOK
  <2>3. ClaimInv'
    BY <1>1, <2>0, <2>8 DEF ClaimInv
  <2>4. RecordInv'
    BY <1>1, <2>0, <2>8 DEF RecordInv, ClaimInv, LeaseTypeOK
  <2>5. SideInv'
    BY <1>1, <2>0, <2>8 DEF SideInv, LeaseTypeOK
  <2>6. SettledInv'
    BY <1>1, <2>0, <2>8 DEF SettledInv, LeaseTypeOK
  <2>7. CreatedInv'
    BY <1>1, <2>0, <2>8 DEF CreatedInv
  <2>. QED
    BY <2>1, <2>2, <2>3, <2>4, <2>5, <2>6, <2>7
<1>2. CASE posix[dbFd[t]] \notin {NoOne, ProcOf[t]}
  <2>0. /\ pc[t] = "db"
        /\ pc' = [pc EXCEPT ![t] = "undo_db"]
        /\ UNCHANGED <<anchorVars, nsVars, dbVars, sideVars>>
    BY <1>2 DEF LockDb
  <2>8. \A u \in Threads : pc'[u] = IF u = t THEN "undo_db" ELSE pc[u]
    BY <2>0 DEF LeaseTypeOK
  <2>1. LeaseTypeOK'
    BY <1>2, <2>0, <2>8 DEF LeaseTypeOK
  <2>2. NamespaceInv'
    BY <1>2, <2>0, <2>8 DEF NamespaceInv, LeaseTypeOK
  <2>3. ClaimInv'
    BY <1>2, <2>0, <2>8 DEF ClaimInv
  <2>4. RecordInv'
    BY <1>2, <2>0, <2>8 DEF RecordInv, ClaimInv, LeaseTypeOK
  <2>5. SideInv'
    BY <1>2, <2>0, <2>8 DEF SideInv, LeaseTypeOK
  <2>6. SettledInv'
    BY <1>2, <2>0, <2>8 DEF SettledInv, LeaseTypeOK
  <2>7. CreatedInv'
    BY <1>2, <2>0, <2>8 DEF CreatedInv
  <2>. QED
    BY <2>1, <2>2, <2>3, <2>4, <2>5, <2>6, <2>7
<1>. QED
  BY <1>1, <1>2

\* The sidecar's descriptor is on the inode behind the path.
LEMMA OpenSidecarKeeps ==
    ASSUME LeaseInv, NEW t \in Threads, OpenSidecar(t)
    PROVE  LeaseParts'
<1>1. CASE sidePath # 0
  <2>0. /\ pc[t] = "posix"
        /\ pc' = [pc EXCEPT ![t] = "side"]
        /\ sideFd' = [sideFd EXCEPT ![t] = sidePath]
        /\ UNCHANGED <<anchorVars, nsVars, dbVars, sidePath, sideMade, sideLock, unlinks>>
    BY <1>1 DEF OpenSidecar
  <2>8. \A u \in Threads : pc'[u] = IF u = t THEN "side" ELSE pc[u]
    BY <2>0 DEF LeaseTypeOK
  <2>1. LeaseTypeOK'
    BY <1>1, <2>0, <2>8 DEF LeaseTypeOK
  <2>2. NamespaceInv'
    BY <1>1, <2>0, <2>8 DEF NamespaceInv, LeaseTypeOK
  <2>3. ClaimInv'
    BY <1>1, <2>0, <2>8 DEF ClaimInv
  <2>4. RecordInv'
    BY <1>1, <2>0, <2>8 DEF RecordInv, LeaseTypeOK
  <2>5. SideInv'
    BY <1>1, <2>0, <2>8 DEF SideInv, LeaseTypeOK
  <2>6. SettledInv'
    BY <1>1, <2>0, <2>8 DEF SettledInv, LeaseTypeOK
  <2>7. CreatedInv'
    BY <1>1, <2>0, <2>8 DEF CreatedInv
  <2>. QED
    BY <2>1, <2>2, <2>3, <2>4, <2>5, <2>6, <2>7
<1>2. CASE sidePath = 0
  <2>0. /\ pc[t] = "posix"
        /\ pc' = [pc EXCEPT ![t] = "side"]
        /\ sideMade < MaxSide
        /\ sideMade' = sideMade + 1
        /\ sidePath' = sideMade + 1
        /\ sideFd' = [sideFd EXCEPT ![t] = sideMade + 1]
        /\ UNCHANGED <<anchorVars, nsVars, dbVars, sideLock, unlinks>>
    BY <1>2 DEF OpenSidecar
  <2>8. \A u \in Threads : pc'[u] = IF u = t THEN "side" ELSE pc[u]
    BY <2>0 DEF LeaseTypeOK
  <2>1. LeaseTypeOK'
    BY <1>2, <2>0, <2>8 DEF LeaseTypeOK
  <2>2. NamespaceInv'
    BY <1>2, <2>0, <2>8 DEF NamespaceInv, LeaseTypeOK
  <2>3. ClaimInv'
    BY <1>2, <2>0, <2>8 DEF ClaimInv
  <2>4. RecordInv'
    BY <1>2, <2>0, <2>8 DEF RecordInv, LeaseTypeOK
  <2>5. SideInv'
    BY <1>2, <2>0, <2>8 DEF SideInv, LeaseTypeOK
  <2>6. SettledInv'
    BY <1>2, <2>0, <2>8 DEF SettledInv, LeaseTypeOK
  <2>7. CreatedInv'
    BY <1>2, <2>0, <2>8 DEF CreatedInv
  <2>. QED
    BY <2>1, <2>2, <2>3, <2>4, <2>5, <2>6, <2>7
<1>. QED
  BY <1>1, <1>2

\* A sidecar that cannot be opened sends the acquisition back.
LEMMA SidecarUnavailableKeeps ==
    ASSUME LeaseInv, NEW t \in Threads, SidecarUnavailable(t)
    PROVE  LeaseParts'
<1>1. LeaseTypeOK'
  BY DEF SidecarUnavailable, LeaseTypeOK
<1>2. NamespaceInv'
  BY DEF SidecarUnavailable, NamespaceInv, LeaseTypeOK
<1>3. ClaimInv'
  BY DEF SidecarUnavailable, ClaimInv, LeaseTypeOK
<1>4. RecordInv'
  BY DEF SidecarUnavailable, RecordInv, LeaseTypeOK
<1>5. SideInv'
  BY DEF SidecarUnavailable, SideInv, LeaseTypeOK
<1>6. SettledInv'
  BY DEF SidecarUnavailable, SettledInv, LeaseTypeOK
<1>7. CreatedInv'
  BY DEF SidecarUnavailable, CreatedInv, LeaseTypeOK
<1>. QED
  BY <1>1, <1>2, <1>3, <1>4, <1>5, <1>6, <1>7

\* The flock goes to one descriptor of an inode.
LEMMA LockSidecarKeeps ==
    ASSUME LeaseInv, NEW t \in Threads, LockSidecar(t)
    PROVE  LeaseParts'
<1>1. CASE sideLock[sideFd[t]] = NoOne
  <2>0. /\ pc[t] = "side"
        /\ pc' = [pc EXCEPT ![t] = "held"]
        /\ sideLock' = [sideLock EXCEPT ![sideFd[t]] = t]
        /\ UNCHANGED <<anchorVars, nsVars, dbVars, sidePath, sideMade, sideFd, unlinks>>
    BY <1>1 DEF LockSidecar
  <2>8. \A u \in Threads : pc'[u] = IF u = t THEN "held" ELSE pc[u]
    BY <2>0 DEF LeaseTypeOK
  <2>1. LeaseTypeOK'
    BY <1>1, <2>0, <2>8 DEF LeaseTypeOK
  <2>2. NamespaceInv'
    BY <1>1, <2>0, <2>8 DEF NamespaceInv, LeaseTypeOK
  <2>3. ClaimInv'
    BY <1>1, <2>0, <2>8 DEF ClaimInv
  <2>4. RecordInv'
    BY <1>1, <2>0, <2>8 DEF RecordInv, LeaseTypeOK
  <2>5. SideInv'
    BY <1>1, <2>0, <2>8 DEF SideInv, LeaseTypeOK
  <2>6. SettledInv'
    BY <1>1, <2>0, <2>8 DEF SettledInv, LeaseTypeOK
  <2>7. CreatedInv'
    BY <1>1, <2>0, <2>8 DEF CreatedInv
  <2>. QED
    BY <2>1, <2>2, <2>3, <2>4, <2>5, <2>6, <2>7
<1>2. CASE sideLock[sideFd[t]] # NoOne
  <2>0. /\ pc[t] = "side"
        /\ pc' = [pc EXCEPT ![t] = "undo_db"]
        /\ sideFd' = [sideFd EXCEPT ![t] = 0]
        /\ UNCHANGED <<anchorVars, nsVars, dbVars, sidePath, sideMade, sideLock, unlinks>>
    BY <1>2 DEF LockSidecar
  <2>8. \A u \in Threads : pc'[u] = IF u = t THEN "undo_db" ELSE pc[u]
    BY <2>0 DEF LeaseTypeOK
  <2>1. LeaseTypeOK'
    BY <1>2, <2>0, <2>8 DEF LeaseTypeOK
  <2>2. NamespaceInv'
    BY <1>2, <2>0, <2>8 DEF NamespaceInv, LeaseTypeOK
  <2>3. ClaimInv'
    BY <1>2, <2>0, <2>8 DEF ClaimInv
  <2>4. RecordInv'
    BY <1>2, <2>0, <2>8 DEF RecordInv, LeaseTypeOK
  <2>5. SideInv'
    BY <1>2, <2>0, <2>8 DEF SideInv, LeaseTypeOK
  <2>6. SettledInv'
    BY <1>2, <2>0, <2>8 DEF SettledInv, LeaseTypeOK
  <2>7. CreatedInv'
    BY <1>2, <2>0, <2>8 DEF CreatedInv
  <2>. QED
    BY <2>1, <2>2, <2>3, <2>4, <2>5, <2>6, <2>7
<1>. QED
  BY <1>1, <1>2

\* The closing thread has the claim, so no holder of its process loses the record lock.
LEMMA UndoDbKeeps ==
    ASSUME LeaseInv, NEW t \in Threads, UndoDb(t)
    PROVE  LeaseParts'
<1>1. LeaseTypeOK'
  BY DEF UndoDb, Unlocked, LeaseTypeOK
<1>2. NamespaceInv'
  BY DEF UndoDb, NamespaceInv, LeaseTypeOK
<1>3. ClaimInv'
  BY DEF UndoDb, ClaimInv, LeaseTypeOK
<1>4. RecordInv'
  BY DEF UndoDb, RecordInv, ClaimInv, Unlocked, LeaseTypeOK
<1>5. SideInv'
  BY DEF UndoDb, SideInv, LeaseTypeOK
<1>6. SettledInv'
  BY DEF UndoDb, SettledInv, LeaseTypeOK
<1>7. CreatedInv'
  BY DEF UndoDb, CreatedInv, LeaseTypeOK
<1>. QED
  BY <1>1, <1>2, <1>3, <1>4, <1>5, <1>6, <1>7

\* The path that goes is the file of this acquisition and of no other.
LEMMA UnlinkDbKeeps ==
    ASSUME LeaseInv, NEW t \in Threads, UnlinkDb(t)
    PROVE  LeaseParts'
<1>1. LeaseTypeOK'
  BY DEF UnlinkDb, LeaseTypeOK
<1>2. NamespaceInv'
  BY DEF UnlinkDb, NamespaceInv, LeaseTypeOK
<1>3. ClaimInv'
  BY DEF UnlinkDb, ClaimInv, LeaseTypeOK
<1>4. RecordInv'
  BY DEF UnlinkDb, RecordInv, LeaseTypeOK
<1>5. SideInv'
  BY DEF UnlinkDb, SideInv, LeaseTypeOK
<1>6. SettledInv'
  BY DEF UnlinkDb, SettledInv, LeaseTypeOK
<1>7. CreatedInv'
  BY DEF UnlinkDb, CreatedInv, LeaseTypeOK
<1>. QED
  BY <1>1, <1>2, <1>3, <1>4, <1>5, <1>6, <1>7

\* Only the lease's own namespace lock goes; a restore's is a duplicate and stays.
LEMMA DropNamespaceKeeps ==
    ASSUME LeaseInv, NEW t \in Threads, DropNamespace(t)
    PROVE  LeaseParts'
<1>1. CASE pc[t] = "held"
  <2>0. /\ pc' = [pc EXCEPT ![t] = "drop_anchor"]
        /\ nsMode' = IF restoring[t] THEN nsMode ELSE [nsMode EXCEPT ![t] = "none"]
        /\ UNCHANGED <<anchorVars, creates, restoring, claimed, dbVars, sideVars>>
    BY <1>1 DEF DropNamespace
  <2>8. \A u \in Threads : pc'[u] = IF u = t THEN "drop_anchor" ELSE pc[u]
    BY <2>0 DEF LeaseTypeOK
  <2>1. LeaseTypeOK'
    BY <1>1, <2>0, <2>8 DEF LeaseTypeOK
  <2>2. NamespaceInv'
    BY <1>1, <2>0, <2>8 DEF NamespaceInv, LeaseTypeOK
  <2>3. ClaimInv'
    BY <1>1, <2>0, <2>8 DEF ClaimInv
  <2>4. RecordInv'
    BY <1>1, <2>0, <2>8 DEF RecordInv, LeaseTypeOK
  <2>5. SideInv'
    BY <1>1, <2>0, <2>8 DEF SideInv, LeaseTypeOK
  <2>6. SettledInv'
    BY <1>1, <2>0, <2>8 DEF SettledInv, LeaseTypeOK
  <2>7. CreatedInv'
    BY <1>1, <2>0, <2>8 DEF CreatedInv
  <2>. QED
    BY <2>1, <2>2, <2>3, <2>4, <2>5, <2>6, <2>7
<1>2. CASE pc[t] = "undo_ns"
  <2>0. /\ pc' = [pc EXCEPT ![t] = "undo_anchor"]
        /\ nsMode' = IF restoring[t] THEN nsMode ELSE [nsMode EXCEPT ![t] = "none"]
        /\ UNCHANGED <<anchorVars, creates, restoring, claimed, dbVars, sideVars>>
    BY <1>2 DEF DropNamespace
  <2>8. \A u \in Threads : pc'[u] = IF u = t THEN "undo_anchor" ELSE pc[u]
    BY <2>0 DEF LeaseTypeOK
  <2>1. LeaseTypeOK'
    BY <1>2, <2>0, <2>8 DEF LeaseTypeOK
  <2>2. NamespaceInv'
    BY <1>2, <2>0, <2>8 DEF NamespaceInv, LeaseTypeOK
  <2>3. ClaimInv'
    BY <1>2, <2>0, <2>8 DEF ClaimInv
  <2>4. RecordInv'
    BY <1>2, <2>0, <2>8 DEF RecordInv, LeaseTypeOK
  <2>5. SideInv'
    BY <1>2, <2>0, <2>8 DEF SideInv, LeaseTypeOK
  <2>6. SettledInv'
    BY <1>2, <2>0, <2>8 DEF SettledInv, LeaseTypeOK
  <2>7. CreatedInv'
    BY <1>2, <2>0, <2>8 DEF CreatedInv
  <2>. QED
    BY <2>1, <2>2, <2>3, <2>4, <2>5, <2>6, <2>7
<1>. QED
  BY <1>1, <1>2 DEF DropNamespace

\* The anchor goes after the namespace lock.
LEMMA DropAnchorKeeps ==
    ASSUME LeaseInv, NEW t \in Threads, DropAnchor(t)
    PROVE  LeaseParts'
<1>1. CASE pc[t] = "undo_anchor"
  <2>0. /\ pc' = [pc EXCEPT ![t] = "drop_claim"]
        /\ IF restoring[t] THEN UNCHANGED anchorVars ELSE AnchorDrop({t})
        /\ UNCHANGED <<nsVars, dbVars, sideVars>>
    BY <1>1 DEF DropAnchor
  <2>8. \A u \in Threads : pc'[u] = IF u = t THEN "drop_claim" ELSE pc[u]
    BY <2>0 DEF LeaseTypeOK
  <2>9. \A u \in Threads : \/ at'[u] = at[u] /\ tries'[u] = tries[u]
                           \/ at'[u] = "idle" /\ tries'[u] = 0
    BY <2>0 DEF AnchorDrop, CloseAnchor, Closed, AnchorInv, AnchorTypeOK, Users
  <2>1. LeaseTypeOK'
    BY <1>1, <2>0, <2>8 DEF LeaseTypeOK
  <2>2. NamespaceInv'
    BY <1>1, <2>0, <2>8 DEF NamespaceInv, LeaseTypeOK
  <2>3. ClaimInv'
    BY <1>1, <2>0, <2>8 DEF ClaimInv
  <2>4. RecordInv'
    BY <1>1, <2>0, <2>8 DEF RecordInv, LeaseTypeOK
  <2>5. SideInv'
    BY <1>1, <2>0, <2>8 DEF SideInv, LeaseTypeOK
  <2>6. SettledInv'
    BY <1>1, <2>0, <2>8, <2>9 DEF SettledInv, LeaseTypeOK
  <2>7. CreatedInv'
    BY <1>1, <2>0, <2>8 DEF CreatedInv
  <2>. QED
    BY <2>1, <2>2, <2>3, <2>4, <2>5, <2>6, <2>7
<1>2. CASE pc[t] = "drop_anchor"
  <2>0. /\ pc' = [pc EXCEPT ![t] = "drop_db"]
        /\ IF restoring[t] THEN UNCHANGED anchorVars ELSE AnchorDrop({t})
        /\ UNCHANGED <<nsVars, dbVars, sideVars>>
    BY <1>2 DEF DropAnchor
  <2>8. \A u \in Threads : pc'[u] = IF u = t THEN "drop_db" ELSE pc[u]
    BY <2>0 DEF LeaseTypeOK
  <2>9. \A u \in Threads : \/ at'[u] = at[u] /\ tries'[u] = tries[u]
                           \/ at'[u] = "idle" /\ tries'[u] = 0
    BY <2>0 DEF AnchorDrop, CloseAnchor, Closed, AnchorInv, AnchorTypeOK, Users
  <2>1. LeaseTypeOK'
    BY <1>2, <2>0, <2>8 DEF LeaseTypeOK
  <2>2. NamespaceInv'
    BY <1>2, <2>0, <2>8 DEF NamespaceInv, LeaseTypeOK
  <2>3. ClaimInv'
    BY <1>2, <2>0, <2>8 DEF ClaimInv
  <2>4. RecordInv'
    BY <1>2, <2>0, <2>8 DEF RecordInv, LeaseTypeOK
  <2>5. SideInv'
    BY <1>2, <2>0, <2>8 DEF SideInv, LeaseTypeOK
  <2>6. SettledInv'
    BY <1>2, <2>0, <2>8, <2>9 DEF SettledInv, LeaseTypeOK
  <2>7. CreatedInv'
    BY <1>2, <2>0, <2>8 DEF CreatedInv
  <2>. QED
    BY <2>1, <2>2, <2>3, <2>4, <2>5, <2>6, <2>7
<1>. QED
  BY <1>1, <1>2 DEF DropAnchor

\* As UndoDb, for a lease that was held.
LEMMA DropDbKeeps ==
    ASSUME LeaseInv, NEW t \in Threads, DropDb(t)
    PROVE  LeaseParts'
<1>1. LeaseTypeOK'
  BY DEF DropDb, Unlocked, LeaseTypeOK
<1>2. NamespaceInv'
  BY DEF DropDb, NamespaceInv, LeaseTypeOK
<1>3. ClaimInv'
  BY DEF DropDb, ClaimInv, LeaseTypeOK
<1>4. RecordInv'
  BY DEF DropDb, RecordInv, ClaimInv, Unlocked, LeaseTypeOK
<1>5. SideInv'
  BY DEF DropDb, SideInv, LeaseTypeOK
<1>6. SettledInv'
  BY DEF DropDb, SettledInv, LeaseTypeOK
<1>7. CreatedInv'
  BY DEF DropDb, CreatedInv, LeaseTypeOK
<1>. QED
  BY <1>1, <1>2, <1>3, <1>4, <1>5, <1>6, <1>7

\* The flock goes while the claim is still there.
LEMMA DropSidecarKeeps ==
    ASSUME LeaseInv, NEW t \in Threads, DropSidecar(t)
    PROVE  LeaseParts'
<1>1. LeaseTypeOK'
  BY DEF DropSidecar, SideInv, LeaseTypeOK
<1>2. NamespaceInv'
  BY DEF DropSidecar, NamespaceInv, LeaseTypeOK
<1>3. ClaimInv'
  BY DEF DropSidecar, ClaimInv, LeaseTypeOK
<1>4. RecordInv'
  BY DEF DropSidecar, RecordInv, LeaseTypeOK
<1>5. SideInv'
  BY DEF DropSidecar, SideInv, LeaseTypeOK
<1>6. SettledInv'
  BY DEF DropSidecar, SettledInv, LeaseTypeOK
<1>7. CreatedInv'
  BY DEF DropSidecar, CreatedInv, LeaseTypeOK
<1>. QED
  BY <1>1, <1>2, <1>3, <1>4, <1>5, <1>6, <1>7

\* The claim goes last, when nothing else is left.
LEMMA DropClaimKeeps ==
    ASSUME LeaseInv, NEW t \in Threads, DropClaim(t)
    PROVE  LeaseParts'
<1>1. LeaseTypeOK'
  BY DEF DropClaim, LeaseTypeOK
<1>2. NamespaceInv'
  BY DEF DropClaim, NamespaceInv, LeaseTypeOK
<1>3. ClaimInv'
  BY DEF DropClaim, ClaimInv, LeaseTypeOK
<1>4. RecordInv'
  BY DEF DropClaim, RecordInv, LeaseTypeOK
<1>5. SideInv'
  BY DEF DropClaim, SideInv, LeaseTypeOK
<1>6. SettledInv'
  BY DEF DropClaim, SettledInv, LeaseTypeOK
<1>7. CreatedInv'
  BY DEF DropClaim, CreatedInv, LeaseTypeOK
<1>. QED
  BY <1>1, <1>2, <1>3, <1>4, <1>5, <1>6, <1>7

\* A restore starts on the anchor.
LEMMA RestoreBeginKeeps ==
    ASSUME LeaseInv, NEW t \in Threads, RestoreBegin(t)
    PROVE  LeaseParts'
<1>1. LeaseTypeOK'
  BY DEF RestoreBegin, LeaseTypeOK
<1>2. NamespaceInv'
  BY DEF RestoreBegin, NamespaceInv, LeaseTypeOK
<1>3. ClaimInv'
  BY DEF RestoreBegin, ClaimInv, LeaseTypeOK
<1>4. RecordInv'
  BY DEF RestoreBegin, RecordInv, LeaseTypeOK
<1>5. SideInv'
  BY DEF RestoreBegin, SideInv, LeaseTypeOK
<1>6. SettledInv'
  BY DEF RestoreBegin, SettledInv, AnchorBegin, OpenEntry, AnchorInv, AnchorTypeOK,
         Users, LeaseTypeOK
<1>7. CreatedInv'
  BY DEF RestoreBegin, CreatedInv, LeaseTypeOK
<1>. QED
  BY <1>1, <1>2, <1>3, <1>4, <1>5, <1>6, <1>7

\* The exclusive namespace is taken only while nobody has it at all.
LEMMA RestoreNamespaceKeeps ==
    ASSUME LeaseInv, NEW t \in Threads, RestoreNamespace(t)
    PROVE  LeaseParts'
<1>1. CASE \E u \in Threads : nsMode[u] # "none"
  <2>0. /\ pc[t] = "restore" /\ at[t] = "held"
        /\ pc' = [pc EXCEPT ![t] = "reopening"]
        /\ UNCHANGED <<anchorVars, nsVars, dbVars, sideVars>>
    BY <1>1 DEF RestoreNamespace
  <2>8. \A u \in Threads : pc'[u] = IF u = t THEN "reopening" ELSE pc[u]
    BY <2>0 DEF LeaseTypeOK
  <2>1. LeaseTypeOK'
    BY <1>1, <2>0, <2>8 DEF LeaseTypeOK
  <2>2. NamespaceInv'
    BY <1>1, <2>0, <2>8 DEF NamespaceInv, LeaseTypeOK
  <2>3. ClaimInv'
    BY <1>1, <2>0, <2>8 DEF ClaimInv
  <2>4. RecordInv'
    BY <1>1, <2>0, <2>8 DEF RecordInv, LeaseTypeOK
  <2>5. SideInv'
    BY <1>1, <2>0, <2>8 DEF SideInv, LeaseTypeOK
  <2>6. SettledInv'
    BY <1>1, <2>0, <2>8 DEF SettledInv, LeaseTypeOK
  <2>7. CreatedInv'
    BY <1>1, <2>0, <2>8 DEF CreatedInv
  <2>. QED
    BY <2>1, <2>2, <2>3, <2>4, <2>5, <2>6, <2>7
<1>2. CASE ~\E u \in Threads : nsMode[u] # "none"
  <2>0. /\ pc[t] = "restore" /\ at[t] = "held"
        /\ pc' = [pc EXCEPT ![t] = "closed"]
        /\ nsMode' = [nsMode EXCEPT ![t] = "ex"]
        /\ restoring' = [restoring EXCEPT ![t] = TRUE]
        /\ UNCHANGED <<anchorVars, creates, claimed, dbVars, sideVars>>
    BY <1>2 DEF RestoreNamespace
  <2>8. \A u \in Threads : pc'[u] = IF u = t THEN "closed" ELSE pc[u]
    BY <2>0 DEF LeaseTypeOK
  <2>1. LeaseTypeOK'
    BY <1>2, <2>0, <2>8 DEF LeaseTypeOK
  <2>2. NamespaceInv'
    BY <1>2, <2>0, <2>8 DEF NamespaceInv, LeaseTypeOK
  <2>3. ClaimInv'
    BY <1>2, <2>0, <2>8 DEF ClaimInv
  <2>4. RecordInv'
    BY <1>2, <2>0, <2>8 DEF RecordInv, LeaseTypeOK
  <2>5. SideInv'
    BY <1>2, <2>0, <2>8 DEF SideInv, LeaseTypeOK
  <2>6. SettledInv'
    BY <1>2, <2>0, <2>8 DEF SettledInv, LeaseTypeOK
  <2>7. CreatedInv'
    BY <1>2, <2>0, <2>8 DEF CreatedInv
  <2>. QED
    BY <2>1, <2>2, <2>3, <2>4, <2>5, <2>6, <2>7
<1>. QED
  BY <1>1, <1>2

\* A restore's own lease is claimed like any other.
LEMMA RestoreClaimKeeps ==
    ASSUME LeaseInv, NEW t \in Threads, RestoreClaim(t)
    PROVE  LeaseParts'
<1>1. CASE ProcOf[t] \in claimed
  <2>0. /\ pc[t] = "closed"
        /\ pc' = [pc EXCEPT ![t] = "restored"]
        /\ UNCHANGED <<anchorVars, nsVars, dbVars, sideVars>>
    BY <1>1 DEF RestoreClaim, CreatedInv
  <2>8. \A u \in Threads : pc'[u] = IF u = t THEN "restored" ELSE pc[u]
    BY <2>0 DEF LeaseTypeOK
  <2>1. LeaseTypeOK'
    BY <1>1, <2>0, <2>8 DEF LeaseTypeOK
  <2>2. NamespaceInv'
    BY <1>1, <2>0, <2>8 DEF NamespaceInv, LeaseTypeOK
  <2>3. ClaimInv'
    BY <1>1, <2>0, <2>8 DEF ClaimInv
  <2>4. RecordInv'
    BY <1>1, <2>0, <2>8 DEF RecordInv, LeaseTypeOK
  <2>5. SideInv'
    BY <1>1, <2>0, <2>8 DEF SideInv, LeaseTypeOK
  <2>6. SettledInv'
    BY <1>1, <2>0, <2>8 DEF SettledInv, LeaseTypeOK
  <2>7. CreatedInv'
    BY <1>1, <2>0, <2>8 DEF CreatedInv
  <2>. QED
    BY <2>1, <2>2, <2>3, <2>4, <2>5, <2>6, <2>7
<1>2. CASE ProcOf[t] \notin claimed
  <2>0. /\ pc[t] = "closed" /\ created[t] = 0
        /\ pc' = [pc EXCEPT ![t] = "ns"]
        /\ claimed' = claimed \cup {ProcOf[t]}
        /\ creates' = [creates EXCEPT ![t] = TRUE]
        /\ UNCHANGED <<anchorVars, restoring, nsMode, dbVars, sideVars>>
    BY <1>2 DEF RestoreClaim, CreatedInv
  <2>8. \A u \in Threads : pc'[u] = IF u = t THEN "ns" ELSE pc[u]
    BY <2>0 DEF LeaseTypeOK
  <2>1. LeaseTypeOK'
    BY <1>2, <2>0, <2>8 DEF LeaseTypeOK
  <2>2. NamespaceInv'
    BY <1>2, <2>0, <2>8 DEF NamespaceInv, LeaseTypeOK
  <2>3. ClaimInv'
    BY <1>2, <2>0, <2>8 DEF ClaimInv
  <2>4. RecordInv'
    BY <1>2, <2>0, <2>8 DEF RecordInv, LeaseTypeOK
  <2>5. SideInv'
    BY <1>2, <2>0, <2>8 DEF SideInv, LeaseTypeOK
  <2>6. SettledInv'
    BY <1>2, <2>0, <2>8 DEF SettledInv, LeaseTypeOK
  <2>7. CreatedInv'
    BY <1>2, <2>0, <2>8 DEF CreatedInv
  <2>. QED
    BY <2>1, <2>2, <2>3, <2>4, <2>5, <2>6, <2>7
<1>. QED
  BY <1>1, <1>2

\* The swap happens while nobody else is inside, so no created file is lost from the path.
LEMMA CutOverKeeps ==
    ASSUME LeaseInv, NEW t \in Threads, CutOver(t)
    PROVE  LeaseParts'
<1>1. LeaseTypeOK'
  <2>1. /\ dbMade' \in 0..MaxDb /\ dbPath' \in 0..dbMade' /\ dbMade <= dbMade'
    BY DEF CutOver, LeaseTypeOK
  <2>2. dbFd' \in [Threads -> 0..dbMade'] /\ created' \in [Threads -> 0..dbMade']
    BY <2>1 DEF CutOver, LeaseTypeOK
  <2>3. pc' \in [Threads -> Places] /\ sidePath' = 0
    BY DEF CutOver, LeaseTypeOK
  <2>. QED
    BY <2>1, <2>2, <2>3 DEF CutOver, LeaseTypeOK
<1>2. NamespaceInv'
  BY DEF CutOver, NamespaceInv, MayCutOver, LeaseTypeOK
<1>3. ClaimInv'
  BY DEF CutOver, ClaimInv, MayCutOver, LeaseTypeOK
<1>4. RecordInv'
  BY DEF CutOver, RecordInv, MayCutOver, LeaseTypeOK
<1>5. SideInv'
  BY DEF CutOver, SideInv, NamespaceInv, MayCutOver, LeaseTypeOK
<1>6. SettledInv'
  BY DEF CutOver, SettledInv, MayCutOver, LeaseTypeOK
<1>7. CreatedInv'
  BY DEF CutOver, CreatedInv, NamespaceInv, MayCutOver, LeaseTypeOK
<1>. QED
  BY <1>1, <1>2, <1>3, <1>4, <1>5, <1>6, <1>7

\* The namespace opens again.
LEMMA RestoreDoneKeeps ==
    ASSUME LeaseInv, NEW t \in Threads, RestoreDone(t)
    PROVE  LeaseParts'
<1>1. LeaseTypeOK'
  BY DEF RestoreDone, LeaseTypeOK
<1>2. NamespaceInv'
  BY DEF RestoreDone, NamespaceInv, LeaseTypeOK
<1>3. ClaimInv'
  BY DEF RestoreDone, ClaimInv, LeaseTypeOK
<1>4. RecordInv'
  BY DEF RestoreDone, RecordInv, LeaseTypeOK
<1>5. SideInv'
  BY DEF RestoreDone, SideInv, LeaseTypeOK
<1>6. SettledInv'
  BY DEF RestoreDone, SettledInv, LeaseTypeOK
<1>7. CreatedInv'
  BY DEF RestoreDone, CreatedInv, LeaseTypeOK
<1>. QED
  BY <1>1, <1>2, <1>3, <1>4, <1>5, <1>6, <1>7

\* And the anchor is given back.
LEMMA RestoreDropAnchorKeeps ==
    ASSUME LeaseInv, NEW t \in Threads, RestoreDropAnchor(t)
    PROVE  LeaseParts'
<1>1. LeaseTypeOK'
  BY DEF RestoreDropAnchor, LeaseTypeOK
<1>2. NamespaceInv'
  BY DEF RestoreDropAnchor, NamespaceInv, LeaseTypeOK
<1>3. ClaimInv'
  BY DEF RestoreDropAnchor, ClaimInv, LeaseTypeOK
<1>4. RecordInv'
  BY DEF RestoreDropAnchor, RecordInv, LeaseTypeOK
<1>5. SideInv'
  BY DEF RestoreDropAnchor, SideInv, LeaseTypeOK
<1>6. SettledInv'
  BY DEF RestoreDropAnchor, SettledInv, AnchorDrop, CloseAnchor, Closed, AnchorInv,
         AnchorTypeOK, Users, LeaseTypeOK
<1>7. CreatedInv'
  BY DEF RestoreDropAnchor, CreatedInv, LeaseTypeOK
<1>. QED
  BY <1>1, <1>2, <1>3, <1>4, <1>5, <1>6, <1>7

\* A probe starts only without the claim.
LEMMA ProbeKeeps ==
    ASSUME LeaseInv, NEW t \in Threads, Probe(t)
    PROVE  LeaseParts'
<1>1. LeaseTypeOK'
  BY DEF Probe, LeaseTypeOK
<1>2. NamespaceInv'
  BY DEF Probe, NamespaceInv, LeaseTypeOK
<1>3. ClaimInv'
  BY DEF Probe, ClaimInv, LeaseTypeOK
<1>4. RecordInv'
  BY DEF Probe, RecordInv, LeaseTypeOK
<1>5. SideInv'
  BY DEF Probe, SideInv, LeaseTypeOK
<1>6. SettledInv'
  BY DEF Probe, SettledInv, LeaseTypeOK
<1>7. CreatedInv'
  BY DEF Probe, CreatedInv, LeaseTypeOK
<1>. QED
  BY <1>1, <1>2, <1>3, <1>4, <1>5, <1>6, <1>7

\* Looking at the sidecar changes nothing.
LEMMA ProbeSidecarKeeps ==
    ASSUME LeaseInv, NEW t \in Threads, ProbeSidecar(t)
    PROVE  LeaseParts'
<1>1. LeaseTypeOK'
  BY DEF ProbeSidecar, LeaseTypeOK
<1>2. NamespaceInv'
  BY DEF ProbeSidecar, NamespaceInv, LeaseTypeOK
<1>3. ClaimInv'
  BY DEF ProbeSidecar, ClaimInv, LeaseTypeOK
<1>4. RecordInv'
  BY DEF ProbeSidecar, RecordInv, LeaseTypeOK
<1>5. SideInv'
  BY DEF ProbeSidecar, SideInv, LeaseTypeOK
<1>6. SettledInv'
  BY DEF ProbeSidecar, SettledInv, LeaseTypeOK
<1>7. CreatedInv'
  BY DEF ProbeSidecar, CreatedInv, LeaseTypeOK
<1>. QED
  BY <1>1, <1>2, <1>3, <1>4, <1>5, <1>6, <1>7

\* The record lock a probe's close drops is written down in leaked.
LEMMA ProbeDbKeeps ==
    ASSUME LeaseInv, NEW t \in Threads, ProbeDb(t)
    PROVE  LeaseParts'
<1>1. CASE dbPath # 0 /\ posix[dbPath] = ProcOf[t]
  <2>1. LeaseTypeOK'
    BY <1>1 DEF ProbeDb, Unlocked, LeaseTypeOK
  <2>2. NamespaceInv'
    BY <1>1 DEF ProbeDb, NamespaceInv, LeaseTypeOK
  <2>3. ClaimInv'
    BY <1>1 DEF ProbeDb, ClaimInv, LeaseTypeOK
  <2>4. RecordInv'
    BY <1>1 DEF ProbeDb, RecordInv, ClaimInv, Unlocked, LeaseTypeOK
  <2>5. SideInv'
    BY <1>1 DEF ProbeDb, SideInv, LeaseTypeOK
  <2>6. SettledInv'
    BY <1>1 DEF ProbeDb, SettledInv, LeaseTypeOK
  <2>7. CreatedInv'
    BY <1>1 DEF ProbeDb, CreatedInv, LeaseTypeOK
  <2>. QED
    BY <2>1, <2>2, <2>3, <2>4, <2>5, <2>6, <2>7
<1>2. CASE ~(dbPath # 0 /\ posix[dbPath] = ProcOf[t])
  <2>1. LeaseTypeOK'
    BY <1>2 DEF ProbeDb, Unlocked, LeaseTypeOK
  <2>2. NamespaceInv'
    BY <1>2 DEF ProbeDb, NamespaceInv, LeaseTypeOK
  <2>3. ClaimInv'
    BY <1>2 DEF ProbeDb, ClaimInv, LeaseTypeOK
  <2>4. RecordInv'
    BY <1>2 DEF ProbeDb, RecordInv, ClaimInv, Unlocked, LeaseTypeOK
  <2>5. SideInv'
    BY <1>2 DEF ProbeDb, SideInv, LeaseTypeOK
  <2>6. SettledInv'
    BY <1>2 DEF ProbeDb, SettledInv, LeaseTypeOK
  <2>7. CreatedInv'
    BY <1>2 DEF ProbeDb, CreatedInv, LeaseTypeOK
  <2>. QED
    BY <2>1, <2>2, <2>3, <2>4, <2>5, <2>6, <2>7
<1>. QED
  BY <1>1, <1>2

\* A writer of an older release respects the record lock.
LEMMA LegacyOpenKeeps ==
    ASSUME LeaseInv, NEW l \in Legacy, LegacyOpen(l)
    PROVE  LeaseParts'
<1>1. LeaseTypeOK'
  BY DEF LegacyOpen, LeaseTypeOK
<1>2. NamespaceInv'
  BY DEF LegacyOpen, NamespaceInv, LeaseTypeOK
<1>3. ClaimInv'
  BY DEF LegacyOpen, ClaimInv, LeaseTypeOK
<1>4. RecordInv'
  BY DEF LegacyOpen, RecordInv, LeaseTypeOK
<1>5. SideInv'
  BY DEF LegacyOpen, SideInv, LeaseTypeOK
<1>6. SettledInv'
  BY DEF LegacyOpen, SettledInv, LeaseTypeOK
<1>7. CreatedInv'
  BY DEF LegacyOpen, CreatedInv, LeaseTypeOK
<1>. QED
  BY <1>1, <1>2, <1>3, <1>4, <1>5, <1>6, <1>7

\* And drops only its own.
LEMMA LegacyCloseKeeps ==
    ASSUME LeaseInv, NEW l \in Legacy, LegacyClose(l)
    PROVE  LeaseParts'
<1>1. LeaseTypeOK'
  BY DEF LegacyClose, LeaseTypeOK
<1>2. NamespaceInv'
  BY DEF LegacyClose, NamespaceInv, LeaseTypeOK
<1>3. ClaimInv'
  BY DEF LegacyClose, ClaimInv, LeaseTypeOK
<1>4. RecordInv'
  BY DEF LegacyClose, RecordInv, LeaseTypeOK
<1>5. SideInv'
  BY DEF LegacyClose, SideInv, LeaseTypeOK
<1>6. SettledInv'
  BY DEF LegacyClose, SettledInv, LeaseTypeOK
<1>7. CreatedInv'
  BY DEF LegacyClose, CreatedInv, LeaseTypeOK
<1>. QED
  BY <1>1, <1>2, <1>3, <1>4, <1>5, <1>6, <1>7

\* After a removal the sidecar separates nobody any more.
LEMMA UnlinkSidecarKeeps ==
    ASSUME LeaseInv, UnlinkSidecar
    PROVE  LeaseParts'
<1>1. LeaseTypeOK'
  BY DEF UnlinkSidecar, LeaseTypeOK
<1>2. NamespaceInv'
  BY DEF UnlinkSidecar, NamespaceInv, LeaseTypeOK
<1>3. ClaimInv'
  BY DEF UnlinkSidecar, ClaimInv, LeaseTypeOK
<1>4. RecordInv'
  BY DEF UnlinkSidecar, RecordInv, LeaseTypeOK
<1>5. SideInv'
  BY DEF UnlinkSidecar, SideInv, LeaseTypeOK
<1>6. SettledInv'
  BY DEF UnlinkSidecar, SettledInv, LeaseTypeOK
<1>7. CreatedInv'
  BY DEF UnlinkSidecar, CreatedInv, LeaseTypeOK
<1>. QED
  BY <1>1, <1>2, <1>3, <1>4, <1>5, <1>6, <1>7

\* All that the threads of a dead process had goes at once.
LEMMA CrashKeeps ==
    ASSUME LeaseInv, NEW p \in Procs, Crash(p)
    PROVE  LeaseParts'
<1>1. LeaseTypeOK'
  <2>1. /\ pc' \in [Threads -> Places] /\ nsMode' \in [Threads -> {"none", "sh", "ex"}]
        /\ creates' \in [Threads -> BOOLEAN] /\ restoring' \in [Threads -> BOOLEAN]
    BY DEF Crash, Closed, LeaseTypeOK
  <2>2. /\ dbFd' \in [Threads -> 0..dbMade] /\ created' \in [Threads -> 0..dbMade]
        /\ sideFd' \in [Threads -> 0..sideMade]
    BY DEF Crash, Closed, LeaseTypeOK
  <2>3. /\ posix' \in [1..MaxDb -> Procs \cup Legacy \cup {NoOne}]
        /\ sideLock' \in [1..MaxSide -> Threads \cup {NoOne}]
    BY DEF Crash, LeaseTypeOK
  <2>4. claimed' \in SUBSET Procs /\ leaked' \in SUBSET (Procs \X (1..MaxDb))
    BY DEF Crash, LeaseTypeOK
  <2>. QED
    BY <2>1, <2>2, <2>3, <2>4 DEF Crash, LeaseTypeOK
<1>2. NamespaceInv'
  BY DEF Crash, NamespaceInv, Closed, LeaseTypeOK
<1>3. ClaimInv'
  BY DEF Crash, ClaimInv, Closed, LeaseTypeOK
<1>4. RecordInv'
  BY DEF Crash, RecordInv, Closed, LeaseTypeOK
<1>5. SideInv'
  BY DEF Crash, SideInv, Closed, LeaseTypeOK
<1>6. SettledInv'
  BY DEF Crash, SettledInv, AnchorDrop, CloseAnchor, Closed, AnchorInv, AnchorTypeOK,
         Users, LeaseTypeOK
<1>7. CreatedInv'
  BY DEF Crash, CreatedInv, Closed, LeaseTypeOK
<1>. QED
  BY <1>1, <1>2, <1>3, <1>4, <1>5, <1>6, <1>7

\* gc touches the registry entry only.
LEMMA PruneKeeps ==
    ASSUME LeaseInv, NEW g \in Gcs, Prune(g)
    PROVE  LeaseParts'
<1>1. UNCHANGED <<pc, nsVars, dbVars, sideVars>>
  BY DEF Prune
<1>2. tries' = tries
  BY DEF Prune, GcStep, GcOpen, GcLock, GcRecheck, GcUnlink
<1>3. \A t \in Threads : at'[t] = at[t]
  BY DEF Prune, GcStep, GcOpen, GcLock, GcRecheck, GcUnlink, CloseAnchor, Closed,
         AnchorInv, AnchorTypeOK, Users
<1>4. SettledInv'
  BY <1>1, <1>2, <1>3 DEF SettledInv
<1>. QED
  BY <1>1, <1>4 DEF LeaseTypeOK, NamespaceInv, ClaimInv, RecordInv, SideInv, CreatedInv

-----------------------------------------------------------------------------
\* Every step of a thread, a process, the environment or gc keeps the invariant,
\* and is a step of the registry entry's own specification or none.
LEMMA LeaseStep ==
    ASSUME LeaseInv, [Next]_vars
    PROVE  LeaseInv' /\ [AnchorNext]_anchorVars
<1>1. LeaseParts' /\ [AnchorNext]_anchorVars
  <2>1. ASSUME NEW t \in Threads, Acquire(t)
        PROVE  LeaseParts' /\ [AnchorNext]_anchorVars
    <3>1. LeaseParts'
      BY <2>1, ClaimKeeps, NamespaceAnchorKeeps, WaitAnchorKeeps, AnchorRefusedKeeps,
         NamespaceLockKeeps, CreateDbKeeps, OpenDbKeeps, LockDbKeeps, OpenSidecarKeeps,
         SidecarUnavailableKeeps, LockSidecarKeeps DEF Acquire
    <3>2. [AnchorNext]_anchorVars
      BY <2>1 DEF Acquire, Claim, NamespaceAnchor, WaitAnchor, AnchorRefused,
             NamespaceLock,
             CreateDb, OpenDb, LockDb, OpenSidecar, SidecarUnavailable, LockSidecar, AnchorNext
    <3>. QED  BY <3>1, <3>2
  <2>2. ASSUME NEW t \in Threads, Drop(t)
        PROVE  LeaseParts' /\ [AnchorNext]_anchorVars
    <3>1. LeaseParts'
      BY <2>2, UndoDbKeeps, UnlinkDbKeeps, DropNamespaceKeeps, DropAnchorKeeps,
             DropDbKeeps,
         DropSidecarKeeps, DropClaimKeeps DEF Drop
    <3>2. [AnchorNext]_anchorVars
      BY <2>2 DEF Drop, UndoDb, UnlinkDb, DropNamespace, DropAnchor, DropDb,
             DropSidecar,
             DropClaim, AnchorNext
    <3>. QED  BY <3>1, <3>2
  <2>3. ASSUME NEW t \in Restorers, Restore(t)
        PROVE  LeaseParts' /\ [AnchorNext]_anchorVars
    <3>1. LeaseParts'
      BY <2>3, RestoreBeginKeeps, RestoreNamespaceKeeps, RestoreClaimKeeps,
             CutOverKeeps,
         RestoreDoneKeeps, RestoreDropAnchorKeeps DEF Restore
    <3>2. [AnchorNext]_anchorVars
      BY <2>3 DEF Restore, RestoreBegin, RestoreNamespace, RestoreClaim, CutOver,
             RestoreDone, RestoreDropAnchor, AnchorNext
    <3>. QED  BY <3>1, <3>2
  <2>4. ASSUME NEW t \in Probers, Probe(t) \/ ProbeSidecar(t) \/ ProbeDb(t)
        PROVE  LeaseParts' /\ [AnchorNext]_anchorVars
    <3>1. LeaseParts'
      BY <2>4, ProbeKeeps, ProbeSidecarKeeps, ProbeDbKeeps
    <3>2. UNCHANGED anchorVars
      BY <2>4 DEF Probe, ProbeSidecar, ProbeDb
    <3>. QED  BY <3>1, <3>2
  <2>5. ASSUME NEW l \in Legacy, LegacyOpen(l) \/ LegacyClose(l)
        PROVE  LeaseParts' /\ [AnchorNext]_anchorVars
    <3>1. LeaseParts'
      BY <2>5, LegacyOpenKeeps, LegacyCloseKeeps
    <3>2. UNCHANGED anchorVars
      BY <2>5 DEF LegacyOpen, LegacyClose
    <3>. QED  BY <3>1, <3>2
  <2>6. ASSUME NEW p \in Procs, Crash(p)
        PROVE  LeaseParts' /\ [AnchorNext]_anchorVars
    <3>1. LeaseParts'
      BY <2>6, CrashKeeps
    <3>2. \E C \in SUBSET Clients : AnchorDrop(C)
      BY <2>6 DEF Crash
    <3>. QED  BY <3>1, <3>2 DEF AnchorNext
  <2>7. ASSUME NEW g \in Gcs, Prune(g)
        PROVE  LeaseParts' /\ [AnchorNext]_anchorVars
    <3>1. LeaseParts'
      BY <2>7, PruneKeeps
    <3>. QED  BY <2>7, <3>1 DEF Prune, AnchorNext
  <2>8. CASE UnlinkSidecar
    <3>1. LeaseParts'
      BY <2>8, UnlinkSidecarKeeps
    <3>. QED  BY <2>8, <3>1 DEF UnlinkSidecar
  <2>9. CASE UNCHANGED vars
    BY <2>9 DEF vars, LeaseTypeOK, NamespaceInv, ClaimInv, RecordInv, SideInv,
           SettledInv,
           CreatedInv
  <2>. QED
    BY <2>1, <2>2, <2>3, <2>4, <2>5, <2>6, <2>7, <2>8, <2>9 DEF Next
<1>. QED
  BY <1>1, AnchorStepRefines

\* Nobody holds anything at the start.
LEMMA LeaseInitially == Init => LeaseInv /\ AnchorInit
<1>. SUFFICES ASSUME Init PROVE LeaseInv
  BY DEF Init
<1>1. AnchorInv
  BY DEF Init, AnchorInit, AnchorInv, AnchorTypeOK, FdsMade, LocksByStep,
         LocksCompatible,
         HeldIsNamed, Users
<1>2. LeaseTypeOK
  BY DEF Init, LeaseTypeOK
<1>3. NamespaceInv /\ ClaimInv /\ RecordInv /\ SideInv /\ CreatedInv
  BY DEF Init, NamespaceInv, ClaimInv, RecordInv, SideInv, CreatedInv
<1>4. SettledInv
  BY DEF Init, AnchorInit, SettledInv, Users
<1>. QED
  BY <1>1, <1>2, <1>3, <1>4

\* The invariant holds in every behaviour.
LEMMA LeaseInvariant == Spec => []LeaseInv
<1>1. LeaseInv /\ [Next]_vars => LeaseInv'
  BY LeaseStep
<1>. QED
  BY LeaseInitially, <1>1, PTL DEF Spec

\* A second writer would hold the flock of the same sidecar inode, or, with the
\* sidecar removed, the record lock of the same database inode as another
\* process, or the claim of the same process.
THEOREM OneAuthority == Spec => []AtMostOneAuthority
<1>1. LeaseInv => AtMostOneAuthority
  <2>. SUFFICES ASSUME LeaseInv, NEW t \in Threads, NEW u \in Threads,
                       pc[t] = "held", pc[u] = "held", t # u
                PROVE  /\ unlinks > 0
                       /\ \/ dbFd[t] # dbFd[u]
                          \/ {<<ProcOf[t], dbFd[t]>>, <<ProcOf[u], dbFd[t]>>} \cap leaked # {}
    BY DEF AtMostOneAuthority
  <2>1. unlinks # 0
    BY DEF SideInv
  <2>2. ProcOf[t] # ProcOf[u]
    BY DEF ClaimInv
  <2>3. dbFd[t] = dbFd[u] => <<ProcOf[t], dbFd[t]>> \in leaked \/ <<ProcOf[u], dbFd[t]>> \in leaked
    BY <2>2 DEF RecordInv
  <2>. QED
    BY <2>1, <2>3 DEF LeaseTypeOK
<1>. QED
  BY LeaseInvariant, <1>1, PTL

\* The record lock that keeps writers of older releases out stays with the
\* holder: whoever closes the database in the same process has the claim, and
\* the holder has it.
THEOREM HolderKeepsRecordLock == Spec => []RecordLockKept
<1>1. LeaseInv => RecordLockKept
  BY DEF RecordLockKept, RecordInv
<1>. QED
  BY LeaseInvariant, <1>1, PTL

\* The path a failed acquisition unlinks is the file it created: while it is
\* inside the namespace no restore swaps the directory, and no other thread
\* creates a file over an existing one.
THEOREM UnlinksItsOwnFile == Spec => []RemovesWhatItCreated
<1>1. LeaseInv => RemovesWhatItCreated
  BY DEF RemovesWhatItCreated, CreatedInv
<1>. QED
  BY LeaseInvariant, <1>1, PTL

\* A restore that may swap the directory has the namespace exclusively, and
\* every other thread inside it would have it shared.
THEOREM RestoreSwapsAlone == Spec => []CutsOverAlone
<1>1. LeaseInv => CutsOverAlone
  BY DEF CutsOverAlone, MayCutOver, NamespaceInv
<1>. QED
  BY LeaseInvariant, <1>1, PTL

\* The registry entry inside the whole lease protocol, with crashes and gc,
\* still implements the readers-writer lock.
THEOREM LeaseAnchorIsLock == Spec => AnchorIsLock
<1>1. Init => AnchorInit
  BY LeaseInitially
<1>2. LeaseInv /\ [Next]_vars => [AnchorNext]_anchorVars
  BY LeaseStep
<1>3. Spec => AnchorSpec
  BY LeaseInvariant, <1>1, <1>2, PTL DEF Spec, AnchorSpec
<1>. QED
  BY <1>3, AnchorImplementsLock

=============================================================================
