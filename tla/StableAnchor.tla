---------------------------- MODULE StableAnchor -----------------------------
(***************************************************************************)
(* One entry of the authority registry: a lock file that callers lock      *)
(* shared or exclusive and that `daemon gc` unlinks when it is unused.     *)
(* The hard part is that flock locks an inode while callers meet on a      *)
(* name: an acquirer may have opened the file gc is about to unlink, so it *)
(* checks, once the lock is its own, that the name still means the locked  *)
(* inode, and starts over when it does not.                                *)
(***************************************************************************)
EXTENDS Integers

CONSTANTS
    Clients,     \* threads that acquire the anchor
    Gcs,         \* `daemon gc` passes
    Attempts,    \* acquire_in opens the entry at most this many times
    MaxEntries   \* bound: inodes the entry's name ever has

ASSUME AnchorConstants ==
    /\ Clients \cap Gcs = {}
    /\ Attempts \in Nat \ {0} /\ MaxEntries \in Nat \ {0}

VARIABLES
    entry,    \* inode the entry's name means; 0 when there is no file
    made,     \* inodes created so far under that name
    fd,       \* caller or gc -> inode of its descriptor; 0 when it has none
    flock,    \* caller or gc -> mode of the lock its descriptor holds
    at,       \* caller -> "idle", "opened", "locked" or "held"; gc alike
    want,     \* caller -> mode it asked for
    tries     \* caller -> opens of the acquisition under way

anchorVars == <<entry, made, fd, flock, at, want, tries>>

Users == Clients \cup Gcs

AnchorTypeOK ==
    /\ entry \in Nat /\ made \in Nat /\ entry <= made
    /\ fd \in [Users -> Nat]
    /\ flock \in [Users -> {"none", "sh", "ex"}]
    /\ at \in [Users -> {"idle", "opened", "locked", "held"}]
    /\ want \in [Clients -> {"sh", "ex"}]
    /\ tries \in [Clients -> Nat]

AnchorInit ==
    /\ entry = 0 /\ made = 0
    /\ fd = [u \in Users |-> 0]
    /\ flock = [u \in Users |-> "none"]
    /\ at = [u \in Users |-> "idle"]
    /\ want = [c \in Clients |-> "sh"]
    /\ tries = [c \in Clients |-> 0]

\* flock(2): another descriptor's lock on the same inode stands in the way.
Conflict(u, m) ==
    \E v \in Users \ {u} :
        fd[v] = fd[u] /\ flock[v] # "none" /\ (m = "ex" \/ flock[v] = "ex")

\* What closing the descriptor of each u in U leaves behind.
Closed(f, U, none) == [u \in DOMAIN f |-> IF u \in U THEN none ELSE f[u]]

-----------------------------------------------------------------------------
(* StableAnchor::acquire_in                                                *)

\* Open the entry, creating it when there is none: the first open of an
\* acquisition (Begin) and every later one.
OpenEntry(c) ==
    /\ IF entry # 0
       THEN UNCHANGED <<entry, made>>
       ELSE made < MaxEntries /\ made' = made + 1 /\ entry' = made + 1
    /\ fd' = [fd EXCEPT ![c] = entry']
    /\ at' = [at EXCEPT ![c] = "opened"]
    /\ UNCHANGED flock

AnchorBegin(c, m) ==
    /\ at[c] = "idle" /\ tries[c] = 0
    /\ OpenEntry(c)
    /\ want' = [want EXCEPT ![c] = m]
    /\ tries' = [tries EXCEPT ![c] = 1]

AnchorReopen(c) ==
    /\ at[c] = "idle" /\ tries[c] \in 1..(Attempts - 1)
    /\ OpenEntry(c)
    /\ tries' = [tries EXCEPT ![c] = tries[c] + 1]
    /\ UNCHANGED want

AnchorLock(c) ==
    /\ at[c] = "opened" /\ ~Conflict(c, want[c])
    /\ flock' = [flock EXCEPT ![c] = want[c]]
    /\ at' = [at EXCEPT ![c] = "locked"]
    /\ UNCHANGED <<entry, made, fd, want, tries>>

\* Drop what the callers C have: their descriptors close, their locks go.
CloseAnchor(C) ==
    /\ fd' = Closed(fd, C, 0)
    /\ flock' = Closed(flock, C, "none")
    /\ at' = Closed(at, C, "idle")

\* Callers C end their acquisitions or drop their anchors.
AnchorDrop(C) ==
    /\ CloseAnchor(C)
    /\ want' = Closed(want, C, "sh")
    /\ tries' = Closed(tries, C, 0)
    /\ UNCHANGED <<entry, made>>

\* The lock stayed taken for all the attempts, or the name changed its meaning
\* at every open: the acquisition fails.
AnchorFails(c) ==
    \/ at[c] = "opened" /\ Conflict(c, want[c])
    \/ at[c] = "idle" /\ tries[c] = Attempts

AnchorGiveUp(c) ==
    /\ AnchorFails(c)
    /\ AnchorDrop({c})

\* Mutant: the lock is enough, whatever the name means by now.
AnchorVerifyNever(c) ==
    /\ at[c] = "locked"
    /\ at' = [at EXCEPT ![c] = "held"]
    /\ tries' = [tries EXCEPT ![c] = 0]
    /\ UNCHANGED <<entry, made, fd, flock, want>>

\* is_current: the descriptor's inode is still the one the name means.
AnchorVerify(c) ==
    /\ at[c] = "locked"
    /\ IF fd[c] = entry
       THEN /\ at' = [at EXCEPT ![c] = "held"]
            /\ tries' = [tries EXCEPT ![c] = 0]
            /\ UNCHANGED <<fd, flock>>
       ELSE CloseAnchor({c}) /\ UNCHANGED tries
    /\ UNCHANGED <<entry, made, want>>

AnchorStep(c) == AnchorReopen(c) \/ AnchorLock(c) \/ AnchorVerify(c)

-----------------------------------------------------------------------------
(* prune_authority_registry_in: an entry that classifies as unused (its    *)
(* scope is gone, or it names none and is old) is locked, checked again    *)
(* and unlinked.  The classification is left open: any entry may look      *)
(* unused.                                                                 *)

GcOpen(g) ==
    /\ at[g] = "idle" /\ entry # 0
    /\ fd' = [fd EXCEPT ![g] = entry]
    /\ at' = [at EXCEPT ![g] = "opened"]
    /\ UNCHANGED <<entry, made, flock, want, tries>>

GcLock(g) ==
    /\ at[g] = "opened"
    /\ IF Conflict(g, "ex")
       THEN CloseAnchor({g})
       ELSE /\ flock' = [flock EXCEPT ![g] = "ex"]
            /\ at' = [at EXCEPT ![g] = "locked"]
            /\ UNCHANGED fd
    /\ UNCHANGED <<entry, made, want, tries>>

\* The name is compared under the lock; a replaced entry is left alone.
GcRecheck(g) ==
    /\ at[g] = "locked"
    /\ IF fd[g] = entry
       THEN at' = [at EXCEPT ![g] = "held"] /\ UNCHANGED <<fd, flock>>
       ELSE CloseAnchor({g})
    /\ UNCHANGED <<entry, made, want, tries>>

\* Unlink by name, or keep the entry after all (its scope is back, dry run).
GcUnlink(g) ==
    /\ at[g] = "held"
    /\ entry' \in {0, entry}
    /\ CloseAnchor({g})
    /\ UNCHANGED <<made, want, tries>>

GcStep(g) == GcOpen(g) \/ GcLock(g) \/ GcRecheck(g) \/ GcUnlink(g)

-----------------------------------------------------------------------------
AnchorNext ==
    \/ \E c \in Clients :
          \/ \E m \in {"sh", "ex"} : AnchorBegin(c, m)
          \/ AnchorStep(c) \/ AnchorGiveUp(c)
    \/ \E C \in SUBSET Clients : AnchorDrop(C)
    \/ \E g \in Gcs : GcStep(g)

AnchorSpec == AnchorInit /\ [][AnchorNext]_anchorVars

-----------------------------------------------------------------------------
\* The anchor is the lock ReadersWriter specifies: a caller holds its mode from
\* the moment it has seen its inode behind the name until it drops the anchor.
Holds == [c \in Clients |-> IF at[c] = "held" THEN flock[c] ELSE "none"]

RW == INSTANCE ReadersWriter WITH holds <- Holds

\* "An entry is unlinked only while this pass holds its exclusive lock and the
\* pathname still names the locked inode, so a held anchor is never displaced"
\* (prune_authority_registry_in): every acquisition and release of an anchor,
\* with gc unlinking entries in between, is one of a readers-writer lock.
AnchorIsLock == RW!Spec

=============================================================================
