------------------------------ MODULE WriteLease -----------------------------
(***************************************************************************)
(* The writer authority over one database file, between the threads of     *)
(* several processes: the process-wide claim, the shared namespace lock    *)
(* (registry anchor and lock file), the record lock on the database inode  *)
(* that also stops writers of older releases, and the flock on the stable  *)
(* sidecar file; the restore that closes the namespace exclusively and     *)
(* swaps the data directory; and the probe that asks who holds the lease.  *)
(* Each system call is one action.                                         *)
(***************************************************************************)
EXTENDS StableAnchor, FiniteSets

CONSTANTS
    Procs, ProcOf,   \* the processes, and the one each thread belongs to
    Restorers,       \* threads that run restores as well
    Probers,         \* threads that ask who holds the lease as well
    Legacy,          \* processes of a release without sidecar or namespace lock
    NoOne,
    MaxDb, MaxSide,  \* bounds: inodes of the database, of its sidecar
    MaxUnlinks       \* bound: removals of the sidecar by someone else

Threads == Clients

ASSUME LeaseConstants ==
    /\ ProcOf \in [Clients -> Procs]
    /\ Restorers \subseteq Clients /\ Probers \subseteq Clients
    /\ Procs \cap Legacy = {} /\ NoOne \notin Procs \cup Legacy \cup Clients
    /\ MaxDb \in Nat \ {0} /\ MaxSide \in Nat /\ MaxUnlinks \in Nat

VARIABLES
    pc,         \* thread -> where it is
    creates,    \* thread -> allow_creation of its acquisition
    restoring,  \* thread -> it runs a restore and holds the namespace lease
    claimed,    \* processes whose PROCESS_DB_LEASES has the path
    nsMode,     \* thread -> its lock on the namespace lock file
    dbPath,     \* inode the database path means; 0 when there is no file
    dbMade,     \* database inodes created so far
    dbFd,       \* thread -> inode of its database descriptor
    created,    \* thread -> the inode its acquisition created; 0 when none
    posix,      \* database inode -> process with the record lock
    sidePath, sideMade, sideFd, sideLock,  \* the same for the sidecar, flocked
    unlinks,    \* removals of the sidecar so far
    leaked      \* history: <<process, inode>>, record locks a probe took from a descriptor
                \* that is still open

nsVars == <<creates, restoring, claimed, nsMode>>
dbVars == <<dbPath, dbMade, dbFd, created, posix, leaked>>
sideVars == <<sidePath, sideMade, sideFd, sideLock, unlinks>>
vars == <<anchorVars, pc, nsVars, dbVars, sideVars>>

\* Where a thread is while it has the namespace, and later on.
InNamespace == {"ns", "exists", "db", "posix", "side", "held",
                "undo_db", "unlink", "undo_ns"}
Places == InNamespace \cup
    {"idle", "claimed", "undo_anchor", "drop_anchor", "drop_db", "drop_side",
     "drop_claim", "restore", "closed", "restored", "reopening", "probe", "probe_db"}

LeaseTypeOK ==
    /\ pc \in [Threads -> Places]
    /\ creates \in [Threads -> BOOLEAN] /\ restoring \in [Threads -> BOOLEAN]
    /\ claimed \in SUBSET Procs
    /\ nsMode \in [Threads -> {"none", "sh", "ex"}]
    /\ dbMade \in 0..MaxDb /\ dbPath \in 0..dbMade
    /\ dbFd \in [Threads -> 0..dbMade] /\ created \in [Threads -> 0..dbMade]
    /\ posix \in [1..MaxDb -> Procs \cup Legacy \cup {NoOne}]
    /\ sideMade \in 0..MaxSide /\ sidePath \in 0..sideMade
    /\ sideFd \in [Threads -> 0..sideMade]
    /\ sideLock \in [1..MaxSide -> Threads \cup {NoOne}]
    /\ unlinks \in 0..MaxUnlinks
    /\ leaked \in SUBSET (Procs \X (1..MaxDb))

TypeOK == AnchorTypeOK /\ LeaseTypeOK

Init ==
    /\ AnchorInit
    /\ pc = [t \in Threads |-> "idle"]
    /\ creates = [t \in Threads |-> FALSE] /\ restoring = [t \in Threads |-> FALSE]
    /\ claimed = {}
    /\ nsMode = [t \in Threads |-> "none"]
    /\ dbMade \in {0, 1} /\ dbPath = dbMade
    /\ dbFd = [t \in Threads |-> 0] /\ created = [t \in Threads |-> 0]
    /\ posix = [i \in 1..MaxDb |-> NoOne]
    /\ sidePath = 0 /\ sideMade = 0
    /\ sideFd = [t \in Threads |-> 0]
    /\ sideLock = [i \in 1..MaxSide |-> NoOne]
    /\ unlinks = 0 /\ leaked = {}

Goto(t, place) == pc' = [pc EXCEPT ![t] = place]

\* Closing any descriptor of an inode drops the process's record lock on it.
Unlocked(p, i) == [j \in DOMAIN posix |-> IF j = i /\ posix[j] = p THEN NoOne ELSE posix[j]]

-----------------------------------------------------------------------------
(* acquire_db_write_lease_inner_with_hook                                  *)

\* Mutants: the registry does not refuse a second claim of the process; a
\* writer goes on without the namespace although its parent is writable.
ClaimTwice(t, c) ==
    /\ pc[t] = "idle"
    /\ c \/ dbPath # 0
    /\ claimed' = claimed \cup {ProcOf[t]}
    /\ creates' = [creates EXCEPT ![t] = c]
    /\ Goto(t, "claimed")
    /\ UNCHANGED <<anchorVars, restoring, nsMode, dbVars, sideVars>>

ClaimWithoutNamespace(t, c) ==
    /\ pc[t] = "idle"
    /\ c \/ dbPath # 0
    /\ ProcOf[t] \notin claimed
    /\ claimed' = claimed \cup {ProcOf[t]}
    /\ creates' = [creates EXCEPT ![t] = c]
    /\ Goto(t, "ns")
    /\ UNCHANGED <<anchorVars, restoring, nsMode, dbVars, sideVars>>

\* The existence check of acquire_existing_db_write_lease, then the claim.
Claim(t, c) ==
    /\ pc[t] = "idle"
    /\ c \/ dbPath # 0
    /\ ProcOf[t] \notin claimed
    /\ claimed' = claimed \cup {ProcOf[t]}
    /\ creates' = [creates EXCEPT ![t] = c]
    /\ Goto(t, "claimed")
    /\ UNCHANGED <<anchorVars, restoring, nsMode, dbVars, sideVars>>

\* The anchor, shared; a restore takes it exclusive (RestoreBegin).
NamespaceAnchor(t) ==
    /\ pc[t] = "claimed"
    /\ AnchorBegin(t, "sh")
    /\ UNCHANGED <<pc, nsVars, dbVars, sideVars>>

WaitAnchor(t) ==
    /\ AnchorStep(t)
    /\ UNCHANGED <<pc, nsVars, dbVars, sideVars>>

AnchorRefused(t) ==
    /\ AnchorGiveUp(t)
    /\ Goto(t, IF pc[t] = "claimed" THEN "drop_claim" ELSE "idle")
    /\ UNCHANGED <<nsVars, dbVars, sideVars>>

\* flock LOCK_SH on the namespace lock file.
NamespaceLock(t) ==
    /\ pc[t] = "claimed" /\ at[t] = "held"
    /\ IF \E u \in Threads : nsMode[u] = "ex"
       THEN Goto(t, "undo_anchor") /\ UNCHANGED nsMode
       ELSE Goto(t, "ns") /\ nsMode' = [nsMode EXCEPT ![t] = "sh"]
    /\ UNCHANGED <<anchorVars, creates, restoring, claimed, dbVars, sideVars>>

\* create_new, or on to the plain open when the file is there.
CreateDb(t) ==
    /\ pc[t] = "ns"
    /\ IF creates[t] /\ dbPath = 0
       THEN /\ dbMade < MaxDb
            /\ dbMade' = dbMade + 1
            /\ dbPath' = dbMade + 1
            /\ dbFd' = [dbFd EXCEPT ![t] = dbMade + 1]
            /\ created' = [created EXCEPT ![t] = dbMade + 1]
            /\ Goto(t, "db")
       ELSE /\ Goto(t, "exists")
            /\ UNCHANGED <<dbMade, dbPath, dbFd, created>>
    /\ creates' = [creates EXCEPT ![t] = FALSE]
    /\ UNCHANGED <<anchorVars, restoring, claimed, nsMode, posix, leaked, sideVars>>

OpenDb(t) ==
    /\ pc[t] = "exists"
    /\ dbFd' = [dbFd EXCEPT ![t] = dbPath]
    /\ Goto(t, IF dbPath # 0 THEN "db" ELSE "undo_ns")
    /\ UNCHANGED <<anchorVars, nsVars, dbPath, dbMade, created, posix, leaked, sideVars>>

\* F_SETLK on the whole database inode.
LockDb(t) ==
    /\ pc[t] = "db"
    /\ IF posix[dbFd[t]] \in {NoOne, ProcOf[t]}
       THEN Goto(t, "posix") /\ posix' = [posix EXCEPT ![dbFd[t]] = ProcOf[t]]
       ELSE Goto(t, "undo_db") /\ UNCHANGED posix
    /\ UNCHANGED <<anchorVars, nsVars, dbPath, dbMade, dbFd, created, leaked, sideVars>>

OpenSidecar(t) ==
    /\ pc[t] = "posix"
    /\ IF sidePath # 0
       THEN UNCHANGED <<sidePath, sideMade>>
       ELSE sideMade < MaxSide /\ sideMade' = sideMade + 1 /\ sidePath' = sideMade + 1
    /\ sideFd' = [sideFd EXCEPT ![t] = sidePath']
    /\ Goto(t, "side")
    /\ UNCHANGED <<anchorVars, nsVars, dbVars, sideLock, unlinks>>

\* The sidecar cannot be opened.
SidecarUnavailable(t) ==
    /\ pc[t] = "posix"
    /\ Goto(t, "undo_db")
    /\ UNCHANGED <<anchorVars, nsVars, dbVars, sideVars>>

\* Mutant: the sidecar is opened and left unlocked.
LockSidecarNever(t) ==
    /\ pc[t] = "side"
    /\ Goto(t, "held")
    /\ UNCHANGED <<anchorVars, nsVars, dbVars, sideVars>>

LockSidecar(t) ==
    /\ pc[t] = "side"
    /\ IF sideLock[sideFd[t]] = NoOne
       THEN /\ sideLock' = [sideLock EXCEPT ![sideFd[t]] = t]
            /\ Goto(t, "held")
            /\ UNCHANGED sideFd
       ELSE /\ sideFd' = [sideFd EXCEPT ![t] = 0]
            /\ Goto(t, "undo_db")
            /\ UNCHANGED sideLock
    /\ UNCHANGED <<anchorVars, nsVars, dbVars, sidePath, sideMade, unlinks>>

\* Mutant: the namespace is given back before the file is removed.
UndoDbReopensNamespace(t) ==
    /\ pc[t] = "undo_db"
    /\ dbFd' = [dbFd EXCEPT ![t] = 0]
    /\ posix' = Unlocked(ProcOf[t], dbFd[t])
    /\ leaked' = {x \in leaked : x[1] # ProcOf[t]}
    /\ AnchorDrop({t})
    /\ nsMode' = [nsMode EXCEPT ![t] = "none"]
    /\ Goto(t, IF created[t] # 0 THEN "unlink" ELSE "undo_ns")
    /\ UNCHANGED <<creates, restoring, claimed, dbPath, dbMade, created, sideVars>>

\* A failed acquisition closes its database descriptor, removes the file it
\* created and drops the namespace, the anchor and the claim, in this order.
\* Under a restore the namespace descriptors are duplicates and stay locked.
UndoDb(t) ==
    /\ pc[t] = "undo_db"
    /\ dbFd' = [dbFd EXCEPT ![t] = 0]
    /\ posix' = Unlocked(ProcOf[t], dbFd[t])
    /\ leaked' = {x \in leaked : x[1] # ProcOf[t]}
    /\ Goto(t, IF created[t] # 0 THEN "unlink" ELSE "undo_ns")
    /\ UNCHANGED <<anchorVars, nsVars, dbPath, dbMade, created, sideVars>>

UnlinkDb(t) ==
    /\ pc[t] = "unlink"
    /\ dbPath' = 0
    /\ created' = [created EXCEPT ![t] = 0]
    /\ Goto(t, "undo_ns")
    /\ UNCHANGED <<anchorVars, nsVars, dbMade, dbFd, posix, leaked, sideVars>>

DropNamespace(t) ==
    /\ pc[t] \in {"undo_ns", "held"}
    /\ nsMode' = IF restoring[t] THEN nsMode ELSE [nsMode EXCEPT ![t] = "none"]
    /\ Goto(t, IF pc[t] = "held" THEN "drop_anchor" ELSE "undo_anchor")
    /\ UNCHANGED <<anchorVars, creates, restoring, claimed, dbVars, sideVars>>

DropAnchor(t) ==
    /\ pc[t] \in {"undo_anchor", "drop_anchor"}
    /\ IF restoring[t] THEN UNCHANGED anchorVars ELSE AnchorDrop({t})
    /\ Goto(t, IF pc[t] = "drop_anchor" THEN "drop_db" ELSE "drop_claim")
    /\ UNCHANGED <<nsVars, dbVars, sideVars>>

\* DbWriteLease's fields close in declaration order: namespace file and anchor
\* (DropNamespace, DropAnchor), database, sidecar, and the claim last.
DropDb(t) ==
    /\ pc[t] = "drop_db"
    /\ dbFd' = [dbFd EXCEPT ![t] = 0]
    /\ created' = [created EXCEPT ![t] = 0]
    /\ posix' = Unlocked(ProcOf[t], dbFd[t])
    /\ leaked' = {x \in leaked : x[1] # ProcOf[t]}
    /\ Goto(t, "drop_side")
    /\ UNCHANGED <<anchorVars, nsVars, dbPath, dbMade, sideVars>>

DropSidecar(t) ==
    /\ pc[t] = "drop_side"
    /\ sideFd' = [sideFd EXCEPT ![t] = 0]
    /\ sideLock' = [sideLock EXCEPT ![sideFd[t]] = NoOne]
    /\ Goto(t, "drop_claim")
    /\ UNCHANGED <<anchorVars, nsVars, dbVars, sidePath, sideMade, unlinks>>

DropClaim(t) ==
    /\ pc[t] = "drop_claim"
    /\ claimed' = claimed \ {ProcOf[t]}
    /\ creates' = [creates EXCEPT ![t] = FALSE]
    /\ Goto(t, IF restoring[t] THEN "restored" ELSE "idle")
    /\ UNCHANGED <<anchorVars, restoring, nsMode, dbVars, sideVars>>

-----------------------------------------------------------------------------
(* A restore: acquire_db_namespace_lease, the write lease of the database  *)
(* that is there, the swap of the data directory, and the way back.        *)

RestoreBegin(t) ==
    /\ pc[t] = "idle"
    /\ AnchorBegin(t, "ex")
    /\ Goto(t, "restore")
    /\ UNCHANGED <<nsVars, dbVars, sideVars>>

RestoreNamespace(t) ==
    /\ pc[t] = "restore" /\ at[t] = "held"
    /\ IF \E u \in Threads : nsMode[u] # "none"
       THEN Goto(t, "reopening") /\ UNCHANGED <<nsMode, restoring>>
       ELSE /\ nsMode' = [nsMode EXCEPT ![t] = "ex"]
            /\ restoring' = [restoring EXCEPT ![t] = TRUE]
            /\ Goto(t, "closed")
    /\ UNCHANGED <<anchorVars, creates, claimed, dbVars, sideVars>>

\* acquire_db_write_lease_under_namespace for the database that is there; the
\* restore is refused when the process already claims it.
RestoreClaim(t) ==
    /\ pc[t] = "closed" /\ dbPath # 0
    /\ IF ProcOf[t] \in claimed
       THEN Goto(t, "restored") /\ UNCHANGED <<claimed, creates>>
       ELSE /\ claimed' = claimed \cup {ProcOf[t]}
            /\ creates' = [creates EXCEPT ![t] = TRUE]
            /\ Goto(t, "ns")
    /\ UNCHANGED <<anchorVars, restoring, nsMode, dbVars, sideVars>>

\* The restore may swap the directory: it has the namespace, and the lease of
\* every database in it.
MayCutOver(t) ==
    restoring[t] /\ (pc[t] = "held" \/ (pc[t] = "closed" /\ dbPath = 0))

\* The data directory is renamed aside with its sidecar, and the restored one,
\* with or without this database, takes its place.
CutOver(t) ==
    /\ MayCutOver(t)
    /\ \/ dbPath' = 0 /\ UNCHANGED dbMade
       \/ dbMade < MaxDb /\ dbMade' = dbMade + 1 /\ dbPath' = dbMade + 1
    /\ sidePath' = 0
    /\ Goto(t, IF pc[t] = "held" THEN "drop_db" ELSE "restored")
    /\ UNCHANGED <<anchorVars, nsVars, dbFd, created, posix, leaked,
                   sideMade, sideFd, sideLock, unlinks>>

RestoreDone(t) ==
    /\ pc[t] = "restored"
    /\ nsMode' = [nsMode EXCEPT ![t] = "none"]
    /\ restoring' = [restoring EXCEPT ![t] = FALSE]
    /\ Goto(t, "reopening")
    /\ UNCHANGED <<anchorVars, creates, claimed, dbVars, sideVars>>

RestoreDropAnchor(t) ==
    /\ pc[t] = "reopening"
    /\ AnchorDrop({t})
    /\ Goto(t, "idle")
    /\ UNCHANGED <<nsVars, dbVars, sideVars>>

-----------------------------------------------------------------------------
(* write_lease_state                                                       *)

\* The process claim answers first.
Probe(t) ==
    /\ pc[t] = "idle" /\ ProcOf[t] \notin claimed
    /\ Goto(t, "probe")
    /\ UNCHANGED <<anchorVars, nsVars, dbVars, sideVars>>

\* Then the sidecar; the lock the probe takes on it for an instant is absorbed
\* by the acquirer's retries.
ProbeSidecar(t) ==
    /\ pc[t] = "probe"
    /\ Goto(t, IF sidePath # 0 /\ sideLock[sidePath] # NoOne THEN "idle" ELSE "probe_db")
    /\ UNCHANGED <<anchorVars, nsVars, dbVars, sideVars>>

\* Last the record lock: the descriptor it opens and closes costs the process
\* whatever record lock it has by now.
ProbeDb(t) ==
    /\ pc[t] = "probe_db"
    /\ posix' = Unlocked(ProcOf[t], dbPath)
    /\ leaked' = IF posix' # posix THEN leaked \cup {<<ProcOf[t], dbPath>>} ELSE leaked
    /\ Goto(t, "idle")
    /\ UNCHANGED <<anchorVars, nsVars, dbPath, dbMade, dbFd, created, sideVars>>

-----------------------------------------------------------------------------
(* The environment.                                                        *)

\* A writer of an older release opens the database, creating it when it is not
\* there, under the record lock alone.
LegacyOpen(l) ==
    /\ \A i \in 1..MaxDb : posix[i] # l
    /\ IF dbPath = 0
       THEN dbMade < MaxDb /\ dbMade' = dbMade + 1 /\ dbPath' = dbMade + 1
       ELSE posix[dbPath] = NoOne /\ UNCHANGED <<dbMade, dbPath>>
    /\ posix' = [posix EXCEPT ![dbPath'] = l]
    /\ UNCHANGED <<anchorVars, pc, nsVars, dbFd, created, leaked, sideVars>>

LegacyClose(l) ==
    /\ \E i \in 1..MaxDb : posix[i] = l /\ posix' = [posix EXCEPT ![i] = NoOne]
    /\ UNCHANGED <<anchorVars, pc, nsVars, dbPath, dbMade, dbFd, created, leaked, sideVars>>

\* Someone removes the sidecar file.
UnlinkSidecar ==
    /\ sidePath # 0 /\ unlinks < MaxUnlinks
    /\ sidePath' = 0
    /\ unlinks' = unlinks + 1
    /\ UNCHANGED <<anchorVars, pc, nsVars, dbVars, sideMade, sideFd, sideLock>>

\* A process dies; the kernel drops all it holds.  Files stay.
Crash(p) ==
    LET dead == {t \in Threads : ProcOf[t] = p} IN
    /\ AnchorDrop(dead)
    /\ pc' = Closed(pc, dead, "idle")
    /\ restoring' = Closed(restoring, dead, FALSE)
    /\ nsMode' = Closed(nsMode, dead, "none")
    /\ claimed' = claimed \ {p}
    /\ dbFd' = Closed(dbFd, dead, 0)
    /\ created' = Closed(created, dead, 0)
    /\ posix' = [i \in DOMAIN posix |-> IF posix[i] = p THEN NoOne ELSE posix[i]]
    /\ sideFd' = Closed(sideFd, dead, 0)
    /\ sideLock' = [i \in DOMAIN sideLock |-> IF sideLock[i] \in dead THEN NoOne ELSE sideLock[i]]
    /\ creates' = Closed(creates, dead, FALSE)
    /\ leaked' = {x \in leaked : x[1] # p}
    /\ UNCHANGED <<dbPath, dbMade, sidePath, sideMade, unlinks>>

Prune(g) == GcStep(g) /\ UNCHANGED <<pc, nsVars, dbVars, sideVars>>

-----------------------------------------------------------------------------
Acquire(t) ==
    \/ \E c \in BOOLEAN : Claim(t, c)
    \/ NamespaceAnchor(t) \/ WaitAnchor(t) \/ AnchorRefused(t) \/ NamespaceLock(t)
    \/ CreateDb(t) \/ OpenDb(t) \/ LockDb(t)
    \/ OpenSidecar(t) \/ SidecarUnavailable(t) \/ LockSidecar(t)

Drop(t) ==
    \/ UndoDb(t) \/ UnlinkDb(t)
    \/ DropNamespace(t) \/ DropAnchor(t) \/ DropDb(t) \/ DropSidecar(t) \/ DropClaim(t)

Restore(t) ==
    \/ RestoreBegin(t) \/ RestoreNamespace(t) \/ RestoreClaim(t) \/ CutOver(t)
    \/ RestoreDone(t) \/ RestoreDropAnchor(t)

Next ==
    \/ \E t \in Threads :
          Acquire(t) \/ Drop(t)
    \/ \E t \in Restorers : Restore(t)
    \/ \E t \in Probers : Probe(t) \/ ProbeSidecar(t) \/ ProbeDb(t)
    \/ \E l \in Legacy : LegacyOpen(l) \/ LegacyClose(l)
    \/ \E p \in Procs : Crash(p)
    \/ \E g \in Gcs : Prune(g)
    \/ UnlinkSidecar

Spec == Init /\ [][Next]_vars

-----------------------------------------------------------------------------
\* "the database lock prevents unlinking and recreating only the sidecar from
\* manufacturing a second authority" (write_lease_path): two threads, of one
\* process or of two, are never writers at once, and with the sidecar removed
\* never over the same database file unless a probe dropped its record lock.
AtMostOneAuthority ==
    \A t, u \in Threads :
        pc[t] = "held" /\ pc[u] = "held" /\ t # u =>
            /\ unlinks > 0
            /\ dbFd[t] # dbFd[u] \/ {<<ProcOf[t], dbFd[t]>>, <<ProcOf[u], dbFd[t]>>} \cap leaked # {}

\* The claim "must precede every database open" and is dropped after every
\* descriptor: no failed or finishing acquisition of the same process costs the
\* holder the record lock that keeps older writers out.  Only a probe can.
RecordLockKept ==
    \A t \in Threads :
        pc[t] = "held" => posix[dbFd[t]] = ProcOf[t] \/ <<ProcOf[t], dbFd[t]>> \in leaked

\* "A database we did NOT create is never removed": the path a failed
\* acquisition is about to unlink still means the inode it created, whatever
\* other writers, restores and crashes did since.
RemovesWhatItCreated ==
    \A t \in Threads : pc[t] = "unlink" => dbPath = created[t]

\* A restore swaps the directory only while no writer is inside it: whoever
\* creates, opens or locks the database does so under the shared namespace.
CutsOverAlone ==
    \A t \in Threads : MayCutOver(t) =>
        \A u \in Threads \ {t} : pc[u] \notin InNamespace

=============================================================================
