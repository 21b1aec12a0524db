-------------------------- MODULE PublicationProofs --------------------------
(***************************************************************************)
(* The selector always points at a sealed slot, a running daemon serves    *)
(* it, a discard leaves no slot behind, a cancelled operation is never     *)
(* selected, and a sealed slot has the content of its plan: for any        *)
(* operations, sources, contents and bounds.                               *)
(*                                                                         *)
(* The first four follow from who holds the root lock and what a command   *)
(* knows of its journal at each of its places.  The last one rests on      *)
(* versions: what a source was indexed at lies between the version the     *)
(* plan captured and the version now, and the gate closes that interval.   *)
(***************************************************************************)
EXTENDS Publication, TLAPS

\* A command knows its operation, and how far that is at the places that depend on it.
PlacesKnown ==
    /\ cli.pc # "idle" => cli.op \in Ops
    /\ At("create") => journal[cli.op] = Unborn
    /\ cli.pc \notin {"idle", "create"} => Known(cli.op)
    /\ At("advance") => J.phase \in Staging
    /\ cli.pc \in {"indexed", "checkpoint"} => J.phase = "Graph" /\ Staged(cli.op)
    /\ cli.pc \in {"cas", "selected"} => J.phase = "Activating"

\* The daemon's database is the selected one, from the moment it holds the root lock on; a
\* rebuild, and the discard that is part of one, runs while it is down.
RootLockHeld ==
    /\ daemon.st # "down" => daemon.db = current.target
    /\ daemon.st = "starting" => cli.pc = "idle"
    /\ cli.pc \notin {"idle", "discard", "entomb"} => daemon.st = "down"
    /\ cli.restart => cli.pc \in {"discard", "entomb"} /\ daemon.st = "down"

\* Between the two steps of a discard the slot is gone, so it is not the selected one.
EntombedIsEmpty == At("entomb") => ~Staged(cli.op)

\* A worker whose journal nobody wrote to since it was read was not cancelled.
FreshIsUncancelled ==
    /\ cli.pc \in {"work", "indexed", "checkpoint", "advance", "cas"} /\ ~cli.stale => ~J.cancel
    /\ At("cas") => ~cli.stale

SelectorInv ==
    /\ PlacesKnown
    /\ RootLockHeld
    /\ CurrentIsSealed
    /\ EntombedIsEmpty
    /\ NoOrphanSlot
    /\ FreshIsUncancelled

-----------------------------------------------------------------------------
\* The contents of the versions come in runs: nothing is changed back to an older content.
NeverChangedBack ==
    \A u, v, w \in DOMAIN Content :
        u <= v /\ v <= w /\ Content[u] = Content[w] => Content[v] = Content[u]

\* The places of a command that works by its journal.
Worker == {"inputs", "loop", "work", "indexed", "checkpoint", "advance", "cas", "selected"}

\* What was captured is not in the future, and a worker goes by the inputs of the plan.
CapturesArePast ==
    /\ \A i \in Inputs : cli.seen[i] <= live[i]
    /\ \A o \in Ops : Known(o) => \A i \in Inputs : journal[o].input[i] <= live[i]
    /\ cli.pc \in Worker => Fingerprint(J.input) = Fingerprint(cli.seen)

\* The slot has source s as it was at some time between the plan's capture and `now'.
IndexedBetween(o, s, now) ==
    \E v \in DOMAIN Content :
        journal[o].input[s] <= v /\ v <= now[s] /\ slot[o].graph[s] = Content[v]

Later == {"TextSearch", "Regex", "Embeddings", "Metadata", "Validating"}
Over == {"Ready", "Activating", "Activated"}

\* What the checkpoints of an operation's sources say.
CheckpointsRight(o) ==
    /\ journal[o].phase = "Planned" => \A s \in Sources : journal[o].done[s] = 0
    /\ journal[o].phase \in Later \cup Over => \A s \in Sources : journal[o].done[s] # 0
    /\ Staged(o) => \A s \in Sources : journal[o].done[s] # 0 => IndexedBetween(o, s, live)

\* The derived indexes that are built when a phase begins.
BuiltBefore(phase) ==
    CASE phase = "TextSearch" -> {}
      [] phase = "Regex" -> {"TextSearch"}
      [] phase = "Embeddings" -> {"TextSearch", "Regex"}
      [] phase = "Metadata" -> {"TextSearch", "Regex", "Embeddings"}
      [] OTHER -> Derived

GraphIsPlans(o) == \A s \in Sources : slot[o].graph[s] = Digest(journal[o].input, s)
HistoryIsPlans(o) == slot[o].history = Digest(journal[o].input, "history")

\* What its slot has got by each phase.
SlotFollowsPhase(o) ==
    Staged(o) =>
        /\ journal[o].phase \in Later \cup Over =>
             HistoryIsPlans(o) /\ BuiltBefore(journal[o].phase) \subseteq slot[o].built
        /\ journal[o].phase \in Over => GraphIsPlans(o)

\* What a command knows of its operation and slot: a resume, of the sources that stay
\* checkpointed; a worker, of the source it indexed, and of the phase it has done the work of.
CommandKnows ==
    /\ cli.pc \in {"resume", "rescope"} /\ Staged(cli.op) =>
         \A s \in Sources : J.done[s] # 0 => IndexedBetween(cli.op, s, cli.seen)
    /\ At("rescope") =>
         \A s \in Sources \ cli.picked : Digest(J.input, s) = Digest(cli.seen, s)
    /\ cli.pc \in {"indexed", "checkpoint"} =>
         \A s \in cli.picked : IndexedBetween(cli.op, s, live)
    /\ At("advance") /\ J.phase = "Graph" => \A s \in Sources : J.done[s] # 0
    /\ At("advance") /\ Staged(cli.op) =>
         /\ J.phase = "Graph" => HistoryIsPlans(cli.op)
         /\ J.phase \in Derived => J.phase \in S.built
         /\ J.phase = "Validating" => GraphIsPlans(cli.op)

PlanInv ==
    /\ CapturesArePast
    /\ \A o \in Ops : Known(o) => CheckpointsRight(o) /\ SlotFollowsPhase(o)
    /\ CommandKnows

-----------------------------------------------------------------------------
(* Facts about the constants.                                              *)

\* The phases in order, as far as an operation advances through them one by one.
LEMMA PhaseFacts ==
    /\ Staging = {"Planned", "Graph"} \cup Later
    /\ PhaseNames = Staging \cup Over \cup {"Cancelled"}
    /\ Successor("Planned") = "Graph" /\ Successor("Graph") = "TextSearch"
    /\ Successor("TextSearch") = "Regex" /\ Successor("Regex") = "Embeddings"
    /\ Successor("Embeddings") = "Metadata" /\ Successor("Metadata") = "Validating"
    /\ Successor("Validating") = "Ready"
<1>1. /\ Phases[1] = "Planned" /\ Phases[2] = "Graph" /\ Phases[3] = "TextSearch"
      /\ Phases[4] = "Regex" /\ Phases[5] = "Embeddings" /\ Phases[6] = "Metadata"
      /\ Phases[7] = "Validating" /\ Phases[8] = "Ready" /\ Phases[9] = "Activating"
      /\ Phases[10] = "Activated"
  BY DEF Phases
<1>2. Staging = {Phases[1], Phases[2], Phases[3], Phases[4], Phases[5], Phases[6], Phases[7]}
  BY DEF Staging
<1>3. PhaseNames = {Phases[1], Phases[2], Phases[3], Phases[4], Phases[5], Phases[6],
                    Phases[7], Phases[8], Phases[9], Phases[10]} \cup Terminal
  BY DEF PhaseNames
<1>4. ASSUME NEW i \in 1..9 PROVE Successor(Phases[i]) = Phases[i + 1]
  <2>1. \A j \in 1..9 : Phases[j] = Phases[i] => j = i
    BY <1>1
  <2>2. (CHOOSE j \in 1..9 : Phases[j] = Phases[i]) = i
    BY <2>1
  <2>. QED BY <2>2 DEF Successor
<1>. QED BY <1>1, <1>2, <1>3, <1>4 DEF Later, Over, Terminal

\* Every version has a content, and 0 stands for none.
LEMMA ContentType ==
    /\ 1 \in DOMAIN Content
    /\ \A v \in DOMAIN Content : v \in Nat /\ Content[v] \in Nat /\ Content[v] # 0
BY PublicationConstants

-----------------------------------------------------------------------------
(* Types.                                                                  *)

USE DEF At, J, S, Go, Exit, Bail, Write, SetSlot, Working, Known, Staged, world

LEMMA InitialTypes ==
    /\ [i \in Inputs |-> 1] \in Captures
    /\ EmptySlot \in Slots
    /\ NoCommand \in Commands
<1>1. [i \in Inputs |-> 1] \in Captures
  BY ContentType DEF Captures
<1>2. EmptySlot \in Slots
  BY DEF EmptySlot, Slots
<1>3. "idle" \in Places /\ "none" \in Failures
  BY DEF Places, Failures
<1>. QED BY <1>1, <1>2, <1>3 DEF NoCommand, Commands

\* A captured or live input has a digest.
LEMMA DigestType ==
    ASSUME NEW m \in Captures, NEW i \in Inputs
    PROVE  Digest(m, i) \in Nat /\ Digest(m, i) # 0
BY ContentType DEF Digest, Captures

LEMMA TypesInitially == Init => TypeOK
<1>. SUFFICES ASSUME Init PROVE TypeOK
  OBVIOUS
<1>. QED BY InitialTypes DEF Init, TypeOK

\* The updates that several actions make keep the types.
LEMMA CommandMoves ==
    ASSUME NEW c \in Commands
    PROVE  /\ \A pc \in Places : [c EXCEPT !.pc = pc] \in Commands
           /\ \A kind \in {"retryable", "permanent"} :
                 [c EXCEPT !.pc = "fail", !.err = kind] \in Commands
           /\ \A o \in Ops : [c EXCEPT !.stale = @ \/ c.op = o] \in Commands
           /\ [c EXCEPT !.pc = "loop", !.picked = {}] \in Commands
           /\ [c EXCEPT !.pc = "work", !.picked = {}, !.before = 0] \in Commands
           /\ \A o \in Ops : [c EXCEPT !.pc = "create", !.op = o, !.restart = FALSE] \in Commands
           /\ \A o \in Ops : [NoCommand EXCEPT !.pc = "discard", !.op = o] \in Commands
<1>1. "fail" \in Places /\ "loop" \in Places /\ "work" \in Places /\ "create" \in Places
      /\ "discard" \in Places /\ {"retryable", "permanent"} \subseteq Failures
  BY DEF Places, Failures
<1>2. ASSUME NEW o \in Ops PROVE [c EXCEPT !.stale = @ \/ c.op = o] \in Commands
  BY DEF Commands
<1>3. ASSUME NEW o \in Ops PROVE [NoCommand EXCEPT !.pc = "discard", !.op = o] \in Commands
  BY <1>1, InitialTypes DEF Commands
<1>. QED BY <1>1, <1>2, <1>3 DEF Commands

LEMMA JournalMoves ==
    ASSUME NEW j \in Journals
    PROVE  /\ \A p \in PhaseNames : [j EXCEPT !.phase = p] \in Journals
           /\ [j EXCEPT !.cancel = TRUE] \in Journals
           /\ \A s \in Sources, d \in Nat : [j EXCEPT !.done[s] = d] \in Journals
           /\ [j EXCEPT !.embedded = TRUE] \in Journals
           /\ Cancelled(j) \in Journals
           /\ \A p \in SUBSET Sources, m \in Captures : Rescoped(j, p, m) \in Journals
<1>1. "Cancelled" \in PhaseNames /\ "Graph" \in PhaseNames /\ "none" \in Failures
  BY PhaseFacts DEF Failures
<1>2. ASSUME NEW p \in SUBSET Sources, NEW m \in Captures PROVE Rescoped(j, p, m) \in Journals
  <2>1. [s \in Sources |-> IF s \in p THEN 0 ELSE j.done[s]] \in [Sources -> Nat]
    BY DEF Journals
  <2>2. (IF j.phase = "Planned" THEN j.phase ELSE "Graph") \in PhaseNames
    BY <1>1 DEF Journals
  <2>. QED BY <2>1, <2>2, <1>1 DEF Rescoped, Journals
<1>3. ASSUME NEW s \in Sources, NEW d \in Nat PROVE [j EXCEPT !.done[s] = d] \in Journals
  BY DEF Journals
<1>. QED BY <1>1, <1>2, <1>3 DEF Cancelled, Journals

LEMMA TypeStep ==
    TypeOK /\ PlacesKnown /\ [Next]_vars => TypeOK'
<1>. SUFFICES ASSUME TypeOK, PlacesKnown, [Next]_vars PROVE TypeOK'
  OBVIOUS
<1>j. /\ cli.pc # "idle" => cli.op \in Ops
      /\ cli.pc \notin {"idle", "create"} => J \in Journals
      /\ cli.op \in Ops /\ Staged(cli.op) => S \in Slots
      /\ cli.pc \in {"indexed", "checkpoint"} => Staged(cli.op)
      /\ At("advance") => J.phase \in Staging
  BY DEF TypeOK, PlacesKnown
<1>c. /\ cli \in Commands
      /\ [cli EXCEPT !.pc = "advance"] \in Commands
      /\ [cli EXCEPT !.pc = "loop"] \in Commands
      /\ [cli EXCEPT !.pc = "cas"] \in Commands
      /\ [cli EXCEPT !.pc = "selected"] \in Commands
      /\ [cli EXCEPT !.pc = "fail", !.err = "retryable"] \in Commands
      /\ [cli EXCEPT !.pc = "fail", !.err = "permanent"] \in Commands
      /\ [cli EXCEPT !.pc = "loop", !.picked = {}] \in Commands
      /\ [cli EXCEPT !.pc = "work", !.picked = {}, !.before = 0] \in Commands
  <2>1. cli \in Commands
    BY DEF TypeOK
  <2>2. {"advance", "loop", "cas", "selected"} \subseteq Places
    BY DEF Places
  <2>. QED BY <2>1, <2>2, CommandMoves
<1>n. NoCommand \in Commands
  BY InitialTypes
<1>m. J \in Journals => /\ [J EXCEPT !.phase = "Activating"] \in Journals
                       /\ [J EXCEPT !.phase = "Activated"] \in Journals
  BY PhaseFacts, JournalMoves DEF Over
<1>r. J \in Journals => Rescoped(J, cli.picked, cli.seen) \in Journals
  BY JournalMoves DEF TypeOK, Commands
<1>s. Staged(cli.op) /\ cli.op \in Ops => [S EXCEPT !.manifest = TRUE] \in Slots
  BY <1>j DEF Slots
<1>1. ASSUME NEW o \in Ops, NEW a \in BOOLEAN, BeginNew(o, a) PROVE TypeOK'
  BY <1>1, <1>j, InitialTypes DEF BeginNew, Begin, TypeOK, Commands, Places
<1>2. ASSUME NEW o \in Ops, NEW a \in BOOLEAN, BeginResume(o, a) PROVE TypeOK'
  BY <1>2, <1>j, InitialTypes DEF BeginResume, Begin, TypeOK, Commands, Places
<1>3. ASSUME CreateOperation PROVE TypeOK'
  BY <1>3, <1>j, PhaseFacts DEF CreateOperation, TypeOK, Commands, Places, Journals,
     Failures, Later, Over
<1>4. ASSUME RecordInputs PROVE TypeOK'
  BY <1>4, <1>j DEF RecordInputs, TypeOK, Commands, Places
<1>5. ASSUME ResumeCancelled PROVE TypeOK'
  BY <1>5, <1>j, InitialTypes, PhaseFacts DEF ResumeCancelled, TypeOK, Journals, Cancelled
<1>6. ASSUME ResumeRestart PROVE TypeOK'
  BY <1>6, <1>j DEF ResumeRestart, TypeOK, Commands, Places, Journals, Failures
<1>7. ASSUME ResumeUnattributable PROVE TypeOK'
  BY <1>7, <1>j, InitialTypes DEF ResumeUnattributable, TypeOK
<1>8. ASSUME ResumeRescope PROVE TypeOK'
  BY <1>8, <1>j DEF ResumeRescope, TypeOK, Commands, Places, Changed
<1>9. ASSUME RescopeOperation PROVE TypeOK'
  BY <1>9, <1>j, <1>c, <1>n, <1>r DEF RescopeOperation, TypeOK
<1>10. ASSUME ResumeAsIs PROVE TypeOK'
  BY <1>10, <1>j, InitialTypes DEF ResumeAsIs, TypeOK, Commands, Places, Journals, Failures
<1>11. ASSUME LoopCancelled PROVE TypeOK'
  BY <1>11, <1>j, InitialTypes, PhaseFacts DEF LoopCancelled, TypeOK, Journals, Cancelled
<1>12. ASSUME LoopEnds PROVE TypeOK'
  BY <1>12, <1>j, InitialTypes DEF LoopEnds, TypeOK
<1>13. ASSUME LoopWorks PROVE TypeOK'
  BY <1>13, <1>j DEF LoopWorks, TypeOK, Commands, Places
<1>14. ASSUME WorkStale PROVE TypeOK'
  BY <1>14, <1>j DEF WorkStale, TypeOK, Commands, Places, Failures
<1>15. ASSUME WorkWithoutSlot PROVE TypeOK'
  BY <1>15, <1>j DEF WorkWithoutSlot, TypeOK, Commands, Places, Failures
<1>16. ASSUME EnsurePlannedDatabase PROVE TypeOK'
  BY <1>16, <1>j, InitialTypes DEF EnsurePlannedDatabase, TypeOK, Commands, Places
<1>17. ASSUME NEW s \in Sources, IndexSource(s) PROVE TypeOK'
  BY <1>17, <1>j, DigestType DEF IndexSource, TypeOK, Commands, Places, Slots, Inputs
<1>18. ASSUME InvalidateEmbeddings PROVE TypeOK'
  <2>1. PICK s \in cli.picked : slot' = [slot EXCEPT ![cli.op] = [S EXCEPT !.vectors[s] =
                                   IF cli.before \notin {0, S.graph[s]} THEN 0 ELSE @]]
    BY <1>18 DEF InvalidateEmbeddings
  <2>2. S \in Slots
    BY <1>18, <1>j DEF InvalidateEmbeddings
  <2>3. [S EXCEPT !.vectors[s] = IF cli.before \notin {0, S.graph[s]} THEN 0 ELSE @] \in Slots
    <3>1. s \in Sources /\ S.vectors \in [Sources -> Nat]
      BY <2>2 DEF TypeOK, Commands, Slots
    <3>2. \A d \in Nat : [S EXCEPT !.vectors[s] = d] \in Slots
      BY <2>2, <3>1 DEF Slots
    <3>. QED BY <3>1, <3>2
  <2>4. [cli EXCEPT !.pc = "checkpoint"] \in Commands
    BY <1>c, CommandMoves DEF Places
  <2>. QED BY <1>18, <1>j, <2>1, <2>3, <2>4 DEF InvalidateEmbeddings, TypeOK
<1>19. ASSUME CheckpointSource PROVE TypeOK'
  <2>1. CASE cli.stale
    BY <1>19, <2>1, <1>c DEF CheckpointSource, TypeOK
  <2>2. CASE ~cli.stale
    <3>1. PICK s \in cli.picked : Write(cli.op, [J EXCEPT !.done[s] = Digest(cli.seen, s)])
      BY <1>19, <2>2 DEF CheckpointSource
    <3>2. s \in Sources /\ s \in Inputs /\ cli.seen \in Captures
      BY DEF TypeOK, Commands, Inputs
    <3>3. J \in Journals /\ Digest(cli.seen, s) \in Nat
      BY <1>19, <1>j, <3>2, DigestType DEF CheckpointSource
    <3>4. [J EXCEPT !.done[s] = Digest(cli.seen, s)] \in Journals
      BY <3>2, <3>3, JournalMoves
    <3>5. journal' \in [Ops -> Journals \cup {Unborn, Gone}]
      BY <1>19, <1>j, <3>1, <3>4 DEF CheckpointSource, TypeOK
    <3>. QED BY <1>19, <2>2, <3>5, <1>c DEF CheckpointSource, TypeOK
  <2>. QED BY <2>1, <2>2
<1>20. ASSUME FinishGraph PROVE TypeOK'
  BY <1>20, <1>j, DigestType DEF FinishGraph, TypeOK, Commands, Places, Slots, Inputs
<1>21. ASSUME BuildDerived PROVE TypeOK'
  BY <1>21, <1>j DEF BuildDerived, TypeOK, Commands, Places, Slots, Embedded, Derived
<1>22. ASSUME Validate PROVE TypeOK'
  BY <1>22, <1>j, <1>c, <1>s DEF Validate, TypeOK
<1>23. ASSUME Advance PROVE TypeOK'
  <2>1. CASE cli.stale
    BY <1>23, <2>1, <1>c DEF Advance, TypeOK
  <2>2. CASE ~cli.stale
    <3>1. J \in Journals /\ Successor(J.phase) \in PhaseNames
      BY <1>23, <1>j, PhaseFacts DEF Advance, Later, Over
    <3>2. [J EXCEPT !.phase = Successor(@)] \in Journals
      BY <3>1, JournalMoves
    <3>. QED BY <1>23, <1>j, <1>c, <2>2, <3>2 DEF Advance, TypeOK
  <2>. QED BY <2>1, <2>2
<1>45. ASSUME RecordEmbedded PROVE TypeOK'
  <2>1. [J EXCEPT !.embedded = TRUE] \in Journals
    BY <1>45, <1>j, JournalMoves DEF RecordEmbedded
  <2>. QED BY <1>45, <2>1, <1>j, <1>c DEF RecordEmbedded, TypeOK
<1>24. ASSUME NEW k \in {"retryable", "permanent"}, WorkFails(k) PROVE TypeOK'
  <2>1. cli' \in Commands
    BY <1>24, <1>c DEF WorkFails
  <2>. QED BY <1>24, <2>1 DEF WorkFails, TypeOK
<1>25. ASSUME Select PROVE TypeOK'
  BY <1>25, <1>j, <1>c, <1>m DEF Select, TypeOK
<1>26. ASSUME CompareAndSwapCurrent PROVE TypeOK'
  <2>1. cli' \in Commands
    BY <1>26, <1>c DEF CompareAndSwapCurrent
  <2>2. J.expected \in Ops \cup {Base} /\ cli.op \in Ops
    BY <1>26, <1>j DEF CompareAndSwapCurrent, Journals
  <2>3. current' \in [target : Ops \cup {Base}, prev : Ops \cup {Base}, from : Ops \cup {NoOp}]
    BY <1>26, <2>2 DEF CompareAndSwapCurrent, TypeOK
  <2>. QED BY <1>26, <2>1, <2>3 DEF CompareAndSwapCurrent, TypeOK
<1>27. ASSUME SmokeFails PROVE TypeOK'
  <2>1. current' \in [target : Ops \cup {Base}, prev : Ops \cup {Base}, from : Ops \cup {NoOp}]
    BY <1>27 DEF SmokeFails, RolledBack, MayRollBack, TypeOK
  <2>2. cli' \in Commands
    BY <1>27, <1>c DEF SmokeFails
  <2>. QED BY <1>27, <2>1, <2>2 DEF SmokeFails, TypeOK
<1>28. ASSUME CompleteActivation PROVE TypeOK'
  BY <1>28, <1>j, <1>c, <1>m, <1>n DEF CompleteActivation, TypeOK
<1>29. ASSUME FailCancelled PROVE TypeOK'
  BY <1>29, <1>j, InitialTypes, PhaseFacts DEF FailCancelled, TypeOK, Journals, Cancelled
<1>30. ASSUME FailLoaded PROVE TypeOK'
  BY <1>30, <1>j DEF FailLoaded, TypeOK, Commands, Places
<1>31. ASSUME RecordFailure PROVE TypeOK'
  BY <1>31, <1>j, InitialTypes DEF RecordFailure, TypeOK, Journals, Failures, Commands
<1>32. ASSUME NEW o \in Ops, RequestCancel(o) PROVE TypeOK'
  <2>1. journal[o] \in Journals
    BY <1>32 DEF RequestCancel, TypeOK
  <2>2. [journal[o] EXCEPT !.cancel = TRUE] \in Journals
    BY <2>1, JournalMoves
  <2>3. [cli EXCEPT !.stale = @ \/ cli.op = o] \in Commands
    BY <1>c, CommandMoves
  <2>. QED BY <1>32, <2>2, <2>3 DEF RequestCancel, TypeOK
<1>33. ASSUME NEW o \in Ops, NEW f \in BOOLEAN, BeginDiscard(o, f) PROVE TypeOK'
  <2>1. journal[o] \in Journals
    BY <1>33 DEF BeginDiscard, TypeOK
  <2>2. Cancelled(journal[o]) \in Journals
    BY <2>1, JournalMoves
  <2>. QED BY <1>33, <2>1, <2>2, CommandMoves DEF BeginDiscard, TypeOK
<1>34. ASSUME DiscardRefused PROVE TypeOK'
  BY <1>34, <1>j, InitialTypes DEF DiscardRefused, TypeOK
<1>35. ASSUME DiscardSlot PROVE TypeOK'
  BY <1>35, <1>j DEF DiscardSlot, TypeOK, Commands, Places
<1>36. ASSUME Entomb PROVE TypeOK'
  <2>c. ASSUME NEW o \in Ops PROVE [cli EXCEPT !.pc = "create", !.op = o, !.restart = FALSE] \in
        Commands
    BY <1>c, CommandMoves
  <2>1. cli' \in Commands
    BY <1>36, <2>c, <1>n DEF Entomb
  <2>. QED BY <1>36, <1>j, <2>1 DEF Entomb, TypeOK
<1>37. ASSUME NEW gone \in SUBSET Ops, Prune(gone) PROVE TypeOK'
  BY <1>37, <1>j DEF Prune, TypeOK
<1>38. ASSUME Rollback PROVE TypeOK'
  BY <1>38, <1>j DEF Rollback, TypeOK, RolledBack, MayRollBack
<1>39. ASSUME DaemonResolve PROVE TypeOK'
  BY <1>39, <1>j DEF DaemonResolve, TypeOK
<1>40. ASSUME DaemonOpen PROVE TypeOK'
  BY <1>40, <1>j DEF DaemonOpen, TypeOK
<1>41. ASSUME DaemonWrites PROVE TypeOK'
  BY <1>41, <1>j DEF DaemonWrites, TypeOK, Slots
<1>42. ASSUME DaemonStops PROVE TypeOK'
  BY <1>42, <1>j DEF DaemonStops, TypeOK
<1>43. ASSUME NEW i \in Edited, NEW v \in DOMAIN Content, Edit(i, v) PROVE TypeOK'
  BY <1>43, <1>j, PublicationConstants DEF Edit, TypeOK, Captures
<1>44. ASSUME Crash PROVE TypeOK'
  BY <1>44, <1>j, InitialTypes DEF Crash, TypeOK
<1>v. CASE UNCHANGED vars
  BY <1>v DEF TypeOK, vars
<1>. QED
  BY <1>1, <1>2, <1>3, <1>4, <1>5, <1>6, <1>7, <1>8, <1>9, <1>10, <1>11, <1>12, <1>13, <1>14,
        <1>15, <1>16, <1>17, <1>18, <1>19, <1>20, <1>21, <1>22, <1>23, <1>24, <1>25, <1>26,
        <1>27, <1>28, <1>29, <1>30, <1>31, <1>32, <1>33, <1>34, <1>35, <1>36, <1>37, <1>38,
        <1>39, <1>40, <1>41, <1>42, <1>43, <1>44, <1>45, <1>v
     DEF Next, Rebuild, Operator, Environment

-----------------------------------------------------------------------------
(* Files are written whole.                                                *)

\* What a command may write over its journal.
MayWrite ==
    /\ At("create") =>
         [phase |-> "Planned", cancel |-> FALSE, failure |-> "none",
          input |-> cli.seen, expected |-> current.target,
          done |-> [s \in Sources |-> 0], embedded |-> FALSE] \in Journals
    /\ cli.pc \notin {"idle", "create"} =>
         /\ cli.op \in Ops /\ J \in Journals /\ Cancelled(J) \in Journals
         /\ Rescoped(J, cli.picked, cli.seen) \in Journals
         /\ [J EXCEPT !.failure = IF @ = "none" THEN "permanent" ELSE @] \in Journals
         /\ [J EXCEPT !.failure = "none"] \in Journals
         /\ [J EXCEPT !.failure = cli.err] \in Journals
         /\ [J EXCEPT !.phase = "Activating"] \in Journals
         /\ [J EXCEPT !.phase = "Activated"] \in Journals
         /\ \A s \in cli.picked : [J EXCEPT !.done[s] = Digest(cli.seen, s)] \in Journals
         /\ [J EXCEPT !.embedded = TRUE] \in Journals
    /\ At("advance") => [J EXCEPT !.phase = Successor(@)] \in Journals

\* It is a journal, hence neither Unborn nor Gone.
LEMMA WritesJournals ==
    ASSUME TypeOK, PlacesKnown
    PROVE  MayWrite
<1>c. cli \in Commands /\ cli.seen \in Captures /\ cli.err \in Failures
      /\ cli.picked \in SUBSET Sources
  BY DEF TypeOK, Commands
<1>1. ASSUME At("create")
      PROVE  [phase |-> "Planned", cancel |-> FALSE, failure |-> "none",
              input |-> cli.seen, expected |-> current.target,
              done |-> [s \in Sources |-> 0], embedded |-> FALSE] \in Journals
  <2>1. "Planned" \in PhaseNames /\ "none" \in Failures /\ current.target \in Ops \cup {Base}
    BY PhaseFacts DEF Failures, TypeOK
  <2>. QED BY <1>c, <2>1 DEF Journals
<1>2. ASSUME cli.pc \notin {"idle", "create"}
      PROVE  /\ cli.op \in Ops /\ J \in Journals /\ Cancelled(J) \in Journals
             /\ Rescoped(J, cli.picked, cli.seen) \in Journals
             /\ [J EXCEPT !.failure = IF @ = "none" THEN "permanent" ELSE @] \in Journals
             /\ [J EXCEPT !.failure = "none"] \in Journals
             /\ [J EXCEPT !.failure = cli.err] \in Journals
             /\ [J EXCEPT !.phase = "Activating"] \in Journals
             /\ [J EXCEPT !.phase = "Activated"] \in Journals
             /\ \A s \in cli.picked : [J EXCEPT !.done[s] = Digest(cli.seen, s)] \in Journals
             /\ [J EXCEPT !.embedded = TRUE] \in Journals
  <2>1. cli.op \in Ops /\ J \in Journals
    BY <1>2 DEF TypeOK, PlacesKnown
  <2>2. Cancelled(J) \in Journals /\ Rescoped(J, cli.picked, cli.seen) \in Journals
    BY <2>1, <1>c, JournalMoves
  <2>3. \A f \in Failures : [J EXCEPT !.failure = f] \in Journals
    BY <2>1 DEF Journals
  <2>4. "none" \in Failures /\ (IF J.failure = "none" THEN "permanent" ELSE J.failure) \in
        Failures
    BY <2>1 DEF Journals, Failures
  <2>5. /\ [J EXCEPT !.phase = "Activating"] \in Journals
        /\ [J EXCEPT !.phase = "Activated"] \in Journals
    BY <2>1, JournalMoves, PhaseFacts DEF Over
  <2>6. ASSUME NEW s \in cli.picked
        PROVE  [J EXCEPT !.done[s] = Digest(cli.seen, s)] \in Journals
    <3>1. s \in Sources /\ s \in Inputs
      BY <1>c DEF Inputs
    <3>2. Digest(cli.seen, s) \in Nat
      BY <3>1, <1>c, DigestType
    <3>. QED BY <2>1, <3>1, <3>2, JournalMoves
  <2>7. [J EXCEPT !.embedded = TRUE] \in Journals
    BY <2>1 DEF Journals
  <2>. QED BY <1>c, <2>1, <2>2, <2>3, <2>4, <2>5, <2>6, <2>7
<1>3. ASSUME At("advance") PROVE [J EXCEPT !.phase = Successor(@)] \in Journals
  <2>1. J \in Journals /\ J.phase \in Staging
    BY <1>3, <1>2 DEF PlacesKnown
  <2>2. Successor(J.phase) \in PhaseNames
    BY <2>1, PhaseFacts DEF Later, Over
  <2>. QED BY <2>1, <2>2, JournalMoves
<1>. QED BY <1>1, <1>2, <1>3 DEF MayWrite

\* And what it may write over its slot is a slot, hence not None.
LEMMA WritesSlots ==
    ASSUME TypeOK, NEW o \in Ops, Staged(o)
    PROVE  /\ slot[o] \in Slots
           /\ \A s \in Sources, d \in Nat : [slot[o] EXCEPT !.graph[s] = d, !.built =
                 {}] \in Slots
           /\ \A s \in Sources, d \in Nat : [slot[o] EXCEPT !.vectors[s] = d] \in Slots
           /\ \A d \in Nat : [slot[o] EXCEPT !.history = d, !.built = {}] \in Slots
           /\ \A b \in SUBSET Derived, v \in [Sources -> Nat] :
                 [slot[o] EXCEPT !.built = b, !.vectors = v] \in Slots
           /\ [slot[o] EXCEPT !.manifest = TRUE] \in Slots
           /\ [slot[o] EXCEPT !.touched = TRUE] \in Slots
<1>1. slot[o] \in Slots
  BY DEF TypeOK
<1>2. ASSUME NEW s \in Sources, NEW d \in Nat
      PROVE  [slot[o] EXCEPT !.graph[s] = d, !.built = {}] \in Slots
  BY <1>1 DEF Slots
<1>3. ASSUME NEW s \in Sources, NEW d \in Nat PROVE [slot[o] EXCEPT !.vectors[s] = d] \in Slots
  BY <1>1 DEF Slots
<1>4. ASSUME NEW b \in SUBSET Derived, NEW v \in [Sources -> Nat]
      PROVE  [slot[o] EXCEPT !.built = b, !.vectors = v] \in Slots
  BY <1>1 DEF Slots
<1>. QED BY <1>1, <1>2, <1>3, <1>4 DEF Slots

\* A slot that is there is only ever removed by a discard or a prune.
LEMMA SlotStays ==
    ASSUME TypeOK, PlacesKnown
    PROVE  /\ \A s \in Sources : IndexSource(s) => slot'[cli.op] \in Slots
           /\ InvalidateEmbeddings => slot'[cli.op] \in Slots
           /\ FinishGraph => slot'[cli.op] \in Slots
           /\ BuildDerived => slot'[cli.op] \in Slots
           /\ Validate => slot'[cli.op] \in Slots
           /\ EnsurePlannedDatabase => slot'[cli.op] \in Slots
           /\ DaemonWrites => slot'[daemon.db] \in Slots
<1>t. /\ slot \in [Ops -> Slots \cup {None}] /\ live \in Captures /\ cli.seen \in Captures
      /\ cli.pc # "idle" => cli.op \in Ops
      /\ cli.pc \in {"indexed", "checkpoint"} => Staged(cli.op)
      /\ cli.picked \in SUBSET Sources
      /\ Sources \subseteq Inputs /\ "history" \in Inputs
  BY DEF TypeOK, PlacesKnown, Commands, Inputs
<1>1. ASSUME NEW s \in Sources, IndexSource(s) PROVE slot'[cli.op] \in Slots
  <2>1. cli.op \in Ops /\ Staged(cli.op) /\ Digest(live, s) \in Nat
    BY <1>1, <1>t, DigestType DEF IndexSource
  <2>2. [S EXCEPT !.graph[s] = Digest(live, s), !.built = {}] \in Slots
    BY <2>1, WritesSlots
  <2>. QED BY <1>1, <1>t, <2>1, <2>2 DEF IndexSource
<1>2. ASSUME InvalidateEmbeddings PROVE slot'[cli.op] \in Slots
  <2>1. PICK s \in cli.picked : slot'[cli.op] = [S EXCEPT !.vectors[s] =
                                  IF cli.before \notin {0, S.graph[s]} THEN 0 ELSE @]
    BY <1>2, <1>t DEF InvalidateEmbeddings
  <2>2. cli.op \in Ops /\ Staged(cli.op) /\ s \in Sources /\ S \in Slots
    BY <1>2, <1>t DEF InvalidateEmbeddings
  <2>3. (IF cli.before \notin {0, S.graph[s]} THEN 0 ELSE S.vectors[s]) \in Nat
    BY <2>2 DEF Slots
  <2>4. \A t \in Sources, d \in Nat : [S EXCEPT !.vectors[t] = d] \in Slots
    BY <2>2, WritesSlots
  <2>. QED BY <2>1, <2>2, <2>3, <2>4
<1>3. ASSUME FinishGraph PROVE slot'[cli.op] \in Slots
  <2>1. cli.op \in Ops /\ Staged(cli.op) /\ Digest(cli.seen, "history") \in Nat
    BY <1>3, <1>t, DigestType DEF FinishGraph
  <2>2. [S EXCEPT !.history = Digest(cli.seen, "history"), !.built = {}] \in Slots
    BY <2>1, WritesSlots
  <2>. QED BY <1>3, <1>t, <2>1, <2>2 DEF FinishGraph
<1>4. ASSUME BuildDerived PROVE slot'[cli.op] \in Slots
  <2>1. cli.op \in Ops /\ Staged(cli.op) /\ S \in Slots
    BY <1>4, <1>t DEF BuildDerived
  <2>2. S.built \cup {J.phase} \in SUBSET Derived
    BY <1>4, <2>1 DEF BuildDerived, Slots
  <2>3. (IF J.phase = "Embeddings" THEN Embedded ELSE S.vectors) \in [Sources -> Nat]
    BY <2>1 DEF Embedded, Slots
  <2>4. \A b \in SUBSET Derived, v \in [Sources -> Nat] :
           [S EXCEPT !.built = b, !.vectors = v] \in Slots
    BY <2>1, WritesSlots
  <2>. QED BY <1>4, <1>t, <2>1, <2>2, <2>3, <2>4 DEF BuildDerived
<1>5. ASSUME Validate PROVE slot'[cli.op] \in Slots
  <2>1. cli.op \in Ops /\ Staged(cli.op) /\ S \in Slots
    BY <1>5, <1>t DEF Validate
  <2>2. [S EXCEPT !.manifest = TRUE] \in Slots
    BY <2>1, WritesSlots
  <2>. QED BY <1>5, <1>t, <2>1, <2>2 DEF Validate
<1>6. ASSUME EnsurePlannedDatabase PROVE slot'[cli.op] \in Slots
  BY <1>6, <1>t, InitialTypes DEF EnsurePlannedDatabase
<1>7. ASSUME DaemonWrites PROVE slot'[daemon.db] \in Slots
  <2>1. daemon.db \in Ops /\ Staged(daemon.db)
    BY <1>7 DEF DaemonWrites
  <2>2. [slot[daemon.db] EXCEPT !.touched = TRUE] \in Slots
    BY <2>1, WritesSlots
  <2>. QED BY <1>7, <1>t, <2>1, <2>2 DEF DaemonWrites
<1>. QED BY <1>1, <1>2, <1>3, <1>4, <1>5, <1>6, <1>7

LEMMA PlacesStep ==
    TypeOK /\ PlacesKnown /\ [Next]_vars => PlacesKnown'
<1>. SUFFICES ASSUME TypeOK, PlacesKnown, [Next]_vars PROVE PlacesKnown'
  OBVIOUS
<1>t. DOMAIN journal = Ops /\ DOMAIN slot = Ops
  BY DEF TypeOK
<1>j. /\ cli \in Commands
      /\ cli.pc # "idle" => cli.op \in Ops
  BY DEF TypeOK, PlacesKnown
<1>s. /\ \A s \in Sources : IndexSource(s) => slot'[cli.op] # None
      /\ InvalidateEmbeddings => slot'[cli.op] # None
      /\ DaemonWrites => slot'[daemon.db] # None
  BY SlotStays, PublicationConstants
<1>w. MayWrite
  BY WritesJournals
<1>1. ASSUME NEW o \in Ops, NEW a \in BOOLEAN, BeginNew(o, a) PROVE PlacesKnown'
  BY <1>1, <1>j, <1>t, PublicationConstants DEF BeginNew, Begin, PlacesKnown, Commands,
     NoCommand, RootFree
<1>2. ASSUME NEW o \in Ops, NEW a \in BOOLEAN, BeginResume(o, a) PROVE PlacesKnown'
  BY <1>2, <1>j, <1>t, PublicationConstants DEF BeginResume, Begin, PlacesKnown, Commands,
     NoCommand, RootFree
<1>3. ASSUME CreateOperation PROVE PlacesKnown'
  BY <1>3, <1>j, <1>t, PublicationConstants, <1>w DEF CreateOperation, PlacesKnown,
     Commands, MayWrite
<1>4. ASSUME RecordInputs PROVE PlacesKnown'
  BY <1>4, <1>j, <1>t, PublicationConstants DEF RecordInputs, PlacesKnown, Commands
<1>5. ASSUME ResumeCancelled PROVE PlacesKnown'
  BY <1>5, <1>j, <1>t, PublicationConstants, <1>w DEF ResumeCancelled, PlacesKnown,
     Commands, MayWrite, NoCommand
<1>6. ASSUME ResumeRestart PROVE PlacesKnown'
  BY <1>6, <1>j, <1>t, PublicationConstants, <1>w DEF ResumeRestart, PlacesKnown, Commands,
     MayWrite
<1>7. ASSUME ResumeUnattributable PROVE PlacesKnown'
  BY <1>7, <1>j, <1>t, PublicationConstants DEF ResumeUnattributable, PlacesKnown, Commands,
     NoCommand
<1>8. ASSUME ResumeRescope PROVE PlacesKnown'
  BY <1>8, <1>j, <1>t, PublicationConstants DEF ResumeRescope, PlacesKnown, Commands
<1>9. ASSUME RescopeOperation PROVE PlacesKnown'
  <2>1. journal'[cli.op] \in Journals
    BY <1>9, <1>w, <1>t DEF MayWrite, RescopeOperation
  <2>a. cli' = NoCommand \/ cli' = [cli EXCEPT !.pc = "loop", !.picked = {}]
    BY <1>9 DEF RescopeOperation
  <2>2. cli'.pc \in {"idle", "loop"} /\ (cli'.op = cli.op \/ cli'.pc = "idle")
    <3>1. [cli EXCEPT !.pc = "loop", !.picked = {}].pc \in {"idle", "loop"} /\ [cli EXCEPT
          !.pc = "loop", !.picked = {}].op = cli.op
      BY <1>j DEF Commands
    <3>2. NoCommand.pc = "idle"
      BY DEF NoCommand
    <3>. QED BY <2>a, <3>1, <3>2
  <2>3. cli.op \in Ops
    BY <1>9, <1>w DEF MayWrite, RescopeOperation
  <2>. QED BY <2>1, <2>2, <2>3, PublicationConstants DEF PlacesKnown
<1>10. ASSUME ResumeAsIs PROVE PlacesKnown'
  <2>1. journal'[cli.op] \in Journals
    BY <1>10, <1>w, <1>t DEF MayWrite, ResumeAsIs
  <2>2. cli'.pc \in {"idle", "loop"} /\ (cli'.op = cli.op \/ cli'.pc = "idle")
    BY <1>10, <1>j DEF ResumeAsIs, NoCommand, Commands
  <2>3. cli.op \in Ops
    BY <1>10, <1>w DEF MayWrite, ResumeAsIs
  <2>. QED BY <2>1, <2>2, <2>3, PublicationConstants DEF PlacesKnown
<1>11. ASSUME LoopCancelled PROVE PlacesKnown'
  BY <1>11, <1>j, <1>t, PublicationConstants, <1>w DEF LoopCancelled, PlacesKnown, Commands,
     MayWrite, NoCommand
<1>12. ASSUME LoopEnds PROVE PlacesKnown'
  BY <1>12, <1>j, <1>t, PublicationConstants DEF LoopEnds, PlacesKnown, Commands, NoCommand
<1>13. ASSUME LoopWorks PROVE PlacesKnown'
  BY <1>13, <1>j, <1>t, PublicationConstants DEF LoopWorks, PlacesKnown, Commands
<1>14. ASSUME WorkStale PROVE PlacesKnown'
  BY <1>14, <1>j, <1>t, PublicationConstants DEF WorkStale, PlacesKnown, Commands
<1>15. ASSUME WorkWithoutSlot PROVE PlacesKnown'
  BY <1>15, <1>j, <1>t, PublicationConstants DEF WorkWithoutSlot, PlacesKnown, Commands
<1>16. ASSUME EnsurePlannedDatabase PROVE PlacesKnown'
  BY <1>16, <1>j, <1>t, PublicationConstants, PhaseFacts DEF EnsurePlannedDatabase,
     PlacesKnown, Commands, Later, Derived
<1>17. ASSUME NEW s \in Sources, IndexSource(s) PROVE PlacesKnown'
  BY <1>17, <1>j, <1>t, PublicationConstants, <1>s DEF IndexSource, PlacesKnown, Commands
<1>18. ASSUME InvalidateEmbeddings PROVE PlacesKnown'
  BY <1>18, <1>j, <1>t, PublicationConstants, <1>s DEF InvalidateEmbeddings, PlacesKnown,
     Commands
<1>19. ASSUME CheckpointSource PROVE PlacesKnown'
  <2>1. CASE cli.stale
    BY <1>19, <2>1, <1>j DEF CheckpointSource, PlacesKnown, Commands
  <2>2. CASE ~cli.stale
    <3>1. PICK s \in cli.picked : Write(cli.op, [J EXCEPT !.done[s] = Digest(cli.seen, s)])
      BY <1>19, <2>2 DEF CheckpointSource
    <3>2. journal'[cli.op] \in Journals
      BY <1>19, <3>1, <1>w, <1>t DEF MayWrite, CheckpointSource
    <3>. QED BY <1>19, <2>2, <3>2, <1>j, PublicationConstants DEF CheckpointSource,
          PlacesKnown, Commands
  <2>. QED BY <2>1, <2>2
<1>20. ASSUME FinishGraph PROVE PlacesKnown'
  BY <1>20, <1>j, <1>t, PublicationConstants, PhaseFacts DEF FinishGraph, PlacesKnown,
     Commands, Later, Derived
<1>21. ASSUME BuildDerived PROVE PlacesKnown'
  BY <1>21, <1>j, <1>t, PublicationConstants, PhaseFacts DEF BuildDerived, PlacesKnown,
     Commands, Later, Derived
<1>22. ASSUME Validate PROVE PlacesKnown'
  BY <1>22, <1>j, <1>t, PublicationConstants, PhaseFacts DEF Validate, PlacesKnown,
     Commands, Later, Derived
<1>23. ASSUME Advance PROVE PlacesKnown'
  <2>1. journal'[cli.op] \in Journals
    BY <1>23, <1>w, <1>t DEF MayWrite, Advance
  <2>2. cli'.pc \in {"loop", "fail"} /\ (cli'.op = cli.op \/ cli'.pc = "idle")
    BY <1>23, <1>j DEF Advance, NoCommand, Commands
  <2>3. cli.op \in Ops
    BY <1>23, <1>w DEF MayWrite, Advance
  <2>. QED BY <2>1, <2>2, <2>3, PublicationConstants DEF PlacesKnown
<1>45. ASSUME RecordEmbedded PROVE PlacesKnown'
  <2>1. journal'[cli.op] \in Journals
    BY <1>45, <1>w, <1>t DEF MayWrite, RecordEmbedded
  <2>2. cli'.pc \in {"advance", "fail"} /\ cli'.op = cli.op
    BY <1>45, <1>j DEF RecordEmbedded, Commands
  <2>3. cli.op \in Ops
    BY <1>45, <1>w DEF MayWrite, RecordEmbedded
  <2>4. journal'[cli.op].phase = J.phase /\ J.phase \in Staging
    BY <1>45, <1>w, <1>t DEF RecordEmbedded, MayWrite, PlacesKnown, Journals
  <2>. QED BY <2>1, <2>2, <2>3, <2>4, PublicationConstants DEF PlacesKnown
<1>24. ASSUME NEW k \in {"retryable", "permanent"}, WorkFails(k) PROVE PlacesKnown'
  BY <1>24, <1>j, <1>t, PublicationConstants DEF WorkFails, PlacesKnown, Commands
<1>25. ASSUME Select PROVE PlacesKnown'
  <2>1. journal'[cli.op] \in Journals
    BY <1>25, <1>w, <1>t DEF MayWrite, Select
  <2>2. cli'.pc \in {"fail", "cas"} /\ (cli'.op = cli.op \/ cli'.pc = "idle")
    BY <1>25, <1>j DEF Select, NoCommand, Commands
  <2>3. cli.op \in Ops
    BY <1>25, <1>w DEF MayWrite, Select
  <2>4. cli'.pc = "cas" => journal'[cli.op].phase = "Activating"
    <3>1. cli'.pc = "cas" => journal' = [journal EXCEPT ![cli.op] = [J EXCEPT !.phase =
          "Activating"]]
      BY <1>25, <1>j DEF Select, Commands
    <3>2. J \in Journals
      BY <1>25, <1>w DEF Select, MayWrite
    <3>. QED BY <3>1, <3>2, <2>3, <1>t DEF Journals
  <2>. QED BY <2>1, <2>2, <2>3, <2>4, PublicationConstants DEF PlacesKnown
<1>26. ASSUME CompareAndSwapCurrent PROVE PlacesKnown'
  BY <1>26, <1>j, <1>t, PublicationConstants DEF CompareAndSwapCurrent, PlacesKnown,
     Commands
<1>27. ASSUME SmokeFails PROVE PlacesKnown'
  BY <1>27, <1>j, <1>t, PublicationConstants DEF SmokeFails, PlacesKnown, Commands
<1>28. ASSUME CompleteActivation PROVE PlacesKnown'
  <2>1. journal'[cli.op] \in Journals
    BY <1>28, <1>w, <1>t DEF MayWrite, CompleteActivation
  <2>a. cli' = NoCommand \/ cli' = [cli EXCEPT !.pc = "fail", !.err = "retryable"]
    BY <1>28 DEF CompleteActivation
  <2>2. cli'.pc \in {"idle", "fail"} /\ (cli'.op = cli.op \/ cli'.pc = "idle")
    <3>1. [cli EXCEPT !.pc = "fail", !.err = "retryable"].pc \in {"idle", "fail"} /\ [cli
          EXCEPT !.pc = "fail", !.err = "retryable"].op = cli.op
      BY <1>j DEF Commands
    <3>2. NoCommand.pc = "idle"
      BY DEF NoCommand
    <3>. QED BY <2>a, <3>1, <3>2
  <2>3. cli.op \in Ops
    BY <1>28, <1>w DEF MayWrite, CompleteActivation
  <2>. QED BY <2>1, <2>2, <2>3, PublicationConstants DEF PlacesKnown
<1>29. ASSUME FailCancelled PROVE PlacesKnown'
  BY <1>29, <1>j, <1>t, PublicationConstants, <1>w DEF FailCancelled, PlacesKnown, Commands,
     MayWrite, NoCommand
<1>30. ASSUME FailLoaded PROVE PlacesKnown'
  BY <1>30, <1>j, <1>t, PublicationConstants DEF FailLoaded, PlacesKnown, Commands
<1>31. ASSUME RecordFailure PROVE PlacesKnown'
  BY <1>31, <1>j, <1>t, PublicationConstants, <1>w DEF RecordFailure, PlacesKnown, Commands,
     MayWrite, NoCommand
<1>32. ASSUME NEW o \in Ops, RequestCancel(o) PROVE PlacesKnown'
  <2>1. journal[o] \in Journals
    BY <1>32 DEF RequestCancel, TypeOK
  <2>2. [journal[o] EXCEPT !.cancel = TRUE] \in Journals
    BY <2>1, JournalMoves
  <2>3. [journal[o] EXCEPT !.cancel = TRUE].phase = journal[o].phase
    BY <2>1 DEF Journals
  <2>. QED BY <1>32, <2>2, <2>3, <1>j, <1>t, PublicationConstants DEF RequestCancel,
        PlacesKnown, Commands
<1>33. ASSUME NEW o \in Ops, NEW f \in BOOLEAN, BeginDiscard(o, f) PROVE PlacesKnown'
  <2>1. journal[o] \in Journals
    BY <1>33 DEF BeginDiscard, TypeOK
  <2>2. Cancelled(journal[o]) \in Journals
    BY <2>1, JournalMoves
  <2>3. journal'[o] \in Journals
    BY <1>33, <2>1, <2>2, <1>t DEF BeginDiscard
  <2>4. cli'.pc = "discard" /\ cli'.op = o
    BY <1>33 DEF BeginDiscard, NoCommand
  <2>. QED BY <2>3, <2>4, PublicationConstants DEF PlacesKnown
<1>34. ASSUME DiscardRefused PROVE PlacesKnown'
  BY <1>34, <1>j, <1>t, PublicationConstants DEF DiscardRefused, PlacesKnown, Commands,
     NoCommand
<1>35. ASSUME DiscardSlot PROVE PlacesKnown'
  BY <1>35, <1>j, <1>t, PublicationConstants DEF DiscardSlot, PlacesKnown, Commands
<1>36. ASSUME Entomb PROVE PlacesKnown'
  <2>1. CASE cli' = NoCommand
    BY <2>1 DEF NoCommand, PlacesKnown
  <2>2. CASE ~(cli' = NoCommand)
    <3>1. PICK o \in Ops : /\ journal[o] = Unborn
                          /\ cli' = [cli EXCEPT !.pc = "create", !.op = o, !.restart = FALSE]
      BY <1>36, <2>2 DEF Entomb
    <3>2. journal[cli.op] # Unborn
      BY <1>36 DEF Entomb, PlacesKnown
    <3>3. journal'[o] = Unborn
      BY <1>36, <3>1, <3>2, <1>t DEF Entomb
    <3>4. cli'.pc = "create" /\ cli'.op = o
      BY <3>1, <1>j DEF Commands
    <3>. QED BY <3>3, <3>4 DEF PlacesKnown
  <2>. QED BY <2>1, <2>2
<1>37. ASSUME NEW gone \in SUBSET Ops, Prune(gone) PROVE PlacesKnown'
  BY <1>37, <1>j, <1>t, PublicationConstants DEF Prune, PlacesKnown, Commands, RootFree
<1>38. ASSUME Rollback PROVE PlacesKnown'
  BY <1>38, <1>j, <1>t, PublicationConstants DEF Rollback, PlacesKnown, Commands, RootFree
<1>39. ASSUME DaemonResolve PROVE PlacesKnown'
  BY <1>39, <1>j, <1>t, PublicationConstants DEF DaemonResolve, PlacesKnown, Commands,
     RootFree
<1>40. ASSUME DaemonOpen PROVE PlacesKnown'
  BY <1>40, <1>j, <1>t, PublicationConstants DEF DaemonOpen, PlacesKnown, Commands
<1>41. ASSUME DaemonWrites PROVE PlacesKnown'
  BY <1>41, <1>j, <1>t, PublicationConstants, <1>s DEF DaemonWrites, PlacesKnown, Commands
<1>42. ASSUME DaemonStops PROVE PlacesKnown'
  BY <1>42, <1>j, <1>t, PublicationConstants DEF DaemonStops, PlacesKnown, Commands
<1>43. ASSUME NEW i \in Edited, NEW v \in DOMAIN Content, Edit(i, v) PROVE PlacesKnown'
  BY <1>43, <1>j, <1>t, PublicationConstants DEF Edit, PlacesKnown, Commands
<1>44. ASSUME Crash PROVE PlacesKnown'
  BY <1>44, <1>j, <1>t, PublicationConstants DEF Crash, PlacesKnown, Commands, NoCommand
<1>v. CASE UNCHANGED vars
  BY <1>v DEF PlacesKnown, vars
<1>. QED
  BY <1>1, <1>2, <1>3, <1>4, <1>5, <1>6, <1>7, <1>8, <1>9, <1>10, <1>11, <1>12, <1>13, <1>14,
        <1>15, <1>16, <1>17, <1>18, <1>19, <1>20, <1>21, <1>22, <1>23, <1>24, <1>25, <1>26,
        <1>27, <1>28, <1>29, <1>30, <1>31, <1>32, <1>33, <1>34, <1>35, <1>36, <1>37, <1>38,
        <1>39, <1>40, <1>41, <1>42, <1>43, <1>44, <1>45, <1>v
     DEF Next, Rebuild, Operator, Environment

\* The root lock and the daemon.
LEMMA RootLockStep ==
    TypeOK /\ PlacesKnown /\ RootLockHeld /\ [Next]_vars => RootLockHeld'
<1>. SUFFICES ASSUME TypeOK, PlacesKnown, RootLockHeld, [Next]_vars PROVE RootLockHeld'
  OBVIOUS
<1>c. /\ cli \in [pc : Places, op : Ops \cup {NoOp}, stale : BOOLEAN, seen : Captures,
                 activate : BOOLEAN, err : Failures, picked : SUBSET Sources, before : Nat,
                 restart : BOOLEAN]
      /\ daemon \in [st : {"down", "starting", "up"}, db : Ops \cup {Base}]
  BY DEF TypeOK, Commands
<1>1. ASSUME NEW o \in Ops, NEW a \in BOOLEAN, BeginNew(o, a) PROVE RootLockHeld'
  BY <1>1, <1>c DEF BeginNew, Begin, RootLockHeld, NoCommand, RootFree, DaemonOn
<1>2. ASSUME NEW o \in Ops, NEW a \in BOOLEAN, BeginResume(o, a) PROVE RootLockHeld'
  BY <1>2, <1>c DEF BeginResume, Begin, RootLockHeld, NoCommand, RootFree, DaemonOn
<1>3. ASSUME CreateOperation PROVE RootLockHeld'
  BY <1>3, <1>c DEF CreateOperation, RootLockHeld
<1>4. ASSUME RecordInputs PROVE RootLockHeld'
  BY <1>4, <1>c DEF RecordInputs, RootLockHeld
<1>5. ASSUME ResumeCancelled PROVE RootLockHeld'
  BY <1>5, <1>c DEF ResumeCancelled, RootLockHeld, NoCommand
<1>6. ASSUME ResumeRestart PROVE RootLockHeld'
  BY <1>6, <1>c DEF ResumeRestart, RootLockHeld
<1>7. ASSUME ResumeUnattributable PROVE RootLockHeld'
  BY <1>7, <1>c DEF ResumeUnattributable, RootLockHeld, NoCommand
<1>8. ASSUME ResumeRescope PROVE RootLockHeld'
  BY <1>8, <1>c DEF ResumeRescope, RootLockHeld
<1>9. ASSUME RescopeOperation PROVE RootLockHeld'
  <2>1. CASE cli.stale \/ J.failure = "permanent"
    BY <1>9, <2>1, <1>c DEF RescopeOperation, RootLockHeld, NoCommand
  <2>2. CASE ~(cli.stale \/ J.failure = "permanent")
    BY <1>9, <2>2, <1>c DEF RescopeOperation, RootLockHeld, NoCommand
  <2>. QED BY <2>1, <2>2
<1>10. ASSUME ResumeAsIs PROVE RootLockHeld'
  BY <1>10, <1>c DEF ResumeAsIs, RootLockHeld, NoCommand
<1>11. ASSUME LoopCancelled PROVE RootLockHeld'
  BY <1>11, <1>c DEF LoopCancelled, RootLockHeld, NoCommand
<1>12. ASSUME LoopEnds PROVE RootLockHeld'
  BY <1>12, <1>c DEF LoopEnds, RootLockHeld, NoCommand
<1>13. ASSUME LoopWorks PROVE RootLockHeld'
  BY <1>13, <1>c DEF LoopWorks, RootLockHeld
<1>14. ASSUME WorkStale PROVE RootLockHeld'
  BY <1>14, <1>c DEF WorkStale, RootLockHeld
<1>15. ASSUME WorkWithoutSlot PROVE RootLockHeld'
  BY <1>15, <1>c DEF WorkWithoutSlot, RootLockHeld
<1>16. ASSUME EnsurePlannedDatabase PROVE RootLockHeld'
  BY <1>16, <1>c DEF EnsurePlannedDatabase, RootLockHeld
<1>17. ASSUME NEW s \in Sources, IndexSource(s) PROVE RootLockHeld'
  BY <1>17, <1>c DEF IndexSource, RootLockHeld
<1>18. ASSUME InvalidateEmbeddings PROVE RootLockHeld'
  BY <1>18, <1>c DEF InvalidateEmbeddings, RootLockHeld
<1>19. ASSUME CheckpointSource PROVE RootLockHeld'
  BY <1>19, <1>c DEF CheckpointSource, RootLockHeld
<1>20. ASSUME FinishGraph PROVE RootLockHeld'
  BY <1>20, <1>c DEF FinishGraph, RootLockHeld
<1>21. ASSUME BuildDerived PROVE RootLockHeld'
  BY <1>21, <1>c DEF BuildDerived, RootLockHeld
<1>22. ASSUME Validate PROVE RootLockHeld'
  BY <1>22, <1>c DEF Validate, RootLockHeld
<1>23. ASSUME Advance PROVE RootLockHeld'
  BY <1>23, <1>c DEF Advance, RootLockHeld
<1>45. ASSUME RecordEmbedded PROVE RootLockHeld'
  BY <1>45, <1>c DEF RecordEmbedded, RootLockHeld
<1>24. ASSUME NEW k \in {"retryable", "permanent"}, WorkFails(k) PROVE RootLockHeld'
  BY <1>24, <1>c DEF WorkFails, RootLockHeld
<1>25. ASSUME Select PROVE RootLockHeld'
  BY <1>25, <1>c DEF Select, RootLockHeld
<1>26. ASSUME CompareAndSwapCurrent PROVE RootLockHeld'
  BY <1>26, <1>c DEF CompareAndSwapCurrent, RootLockHeld, Sealed
<1>27. ASSUME SmokeFails PROVE RootLockHeld'
  BY <1>27, <1>c DEF SmokeFails, RootLockHeld, RolledBack, MayRollBack
<1>28. ASSUME CompleteActivation PROVE RootLockHeld'
  <2>1. CASE cli.stale
    BY <1>28, <2>1, <1>c DEF CompleteActivation, RootLockHeld, NoCommand
  <2>2. CASE ~(cli.stale)
    BY <1>28, <2>2, <1>c DEF CompleteActivation, RootLockHeld, NoCommand
  <2>. QED BY <2>1, <2>2
<1>29. ASSUME FailCancelled PROVE RootLockHeld'
  BY <1>29, <1>c DEF FailCancelled, RootLockHeld, NoCommand
<1>30. ASSUME FailLoaded PROVE RootLockHeld'
  BY <1>30, <1>c DEF FailLoaded, RootLockHeld
<1>31. ASSUME RecordFailure PROVE RootLockHeld'
  BY <1>31, <1>c DEF RecordFailure, RootLockHeld, NoCommand
<1>32. ASSUME NEW o \in Ops, RequestCancel(o) PROVE RootLockHeld'
  BY <1>32, <1>c DEF RequestCancel, RootLockHeld
<1>33. ASSUME NEW o \in Ops, NEW f \in BOOLEAN, BeginDiscard(o, f) PROVE RootLockHeld'
  BY <1>33, <1>c DEF BeginDiscard, RootLockHeld, NoCommand, RootFree, DaemonOn
<1>34. ASSUME DiscardRefused PROVE RootLockHeld'
  BY <1>34, <1>c DEF DiscardRefused, RootLockHeld, NoCommand
<1>35. ASSUME DiscardSlot PROVE RootLockHeld'
  BY <1>35, <1>c DEF DiscardSlot, RootLockHeld, Discardable
<1>36. ASSUME Entomb PROVE RootLockHeld'
  <2>1. CASE cli' = NoCommand
    BY <1>36, <2>1 DEF Entomb, NoCommand, RootLockHeld
  <2>2. CASE ~(cli' = NoCommand)
    <3>1. PICK o \in Ops : /\ cli.restart
                          /\ cli' = [cli EXCEPT !.pc = "create", !.op = o, !.restart = FALSE]
      BY <1>36, <2>2 DEF Entomb
    <3>. QED BY <1>36, <3>1, <1>c DEF Entomb, RootLockHeld
  <2>. QED BY <2>1, <2>2
<1>37. ASSUME NEW gone \in SUBSET Ops, Prune(gone) PROVE RootLockHeld'
  BY <1>37, <1>c DEF Prune, RootLockHeld, RootFree, DaemonOn, Retained
<1>38. ASSUME Rollback PROVE RootLockHeld'
  BY <1>38, <1>c DEF Rollback, RootLockHeld, RootFree, DaemonOn, RolledBack, MayRollBack
<1>39. ASSUME DaemonResolve PROVE RootLockHeld'
  BY <1>39, <1>c DEF DaemonResolve, RootLockHeld, RootFree
<1>40. ASSUME DaemonOpen PROVE RootLockHeld'
  BY <1>40, <1>c DEF DaemonOpen, RootLockHeld
<1>41. ASSUME DaemonWrites PROVE RootLockHeld'
  BY <1>41, <1>c DEF DaemonWrites, RootLockHeld
<1>42. ASSUME DaemonStops PROVE RootLockHeld'
  BY <1>42, <1>c DEF DaemonStops, RootLockHeld
<1>43. ASSUME NEW i \in Edited, NEW v \in DOMAIN Content, Edit(i, v) PROVE RootLockHeld'
  BY <1>43, <1>c DEF Edit, RootLockHeld
<1>44. ASSUME Crash PROVE RootLockHeld'
  BY <1>44, <1>c DEF Crash, RootLockHeld, NoCommand
<1>v. CASE UNCHANGED vars
  BY <1>v DEF RootLockHeld, vars
<1>. QED
  BY <1>1, <1>2, <1>3, <1>4, <1>5, <1>6, <1>7, <1>8, <1>9, <1>10, <1>11, <1>12, <1>13, <1>14,
        <1>15, <1>16, <1>17, <1>18, <1>19, <1>20, <1>21, <1>22, <1>23, <1>24, <1>25, <1>26,
        <1>27, <1>28, <1>29, <1>30, <1>31, <1>32, <1>33, <1>34, <1>35, <1>36, <1>37, <1>38,
        <1>39, <1>40, <1>41, <1>42, <1>43, <1>44, <1>45, <1>v
     DEF Next, Rebuild, Operator, Environment

\* The selector.
LEMMA SealedStep ==
    TypeOK /\ PlacesKnown /\ EntombedIsEmpty /\ CurrentIsSealed /\ [Next]_vars => CurrentIsSealed'
<1>. SUFFICES ASSUME TypeOK, PlacesKnown, EntombedIsEmpty, CurrentIsSealed, [Next]_vars
              PROVE  CurrentIsSealed'
  OBVIOUS
<1>t. /\ slot \in [Ops -> Slots \cup {None}]
      /\ current \in [target : Ops \cup {Base}, prev : Ops \cup {Base}, from : Ops \cup {NoOp}]
      /\ cli.pc # "idle" => cli.op \in Ops
  BY DEF TypeOK, PlacesKnown
<1>p. cli.pc \in {"indexed", "checkpoint"} => Staged(cli.op)
  BY DEF PlacesKnown
<1>n. EmptySlot \in Slots
  BY InitialTypes
<1>1. ASSUME EnsurePlannedDatabase PROVE CurrentIsSealed'
  BY <1>1, <1>t, <1>n, PublicationConstants DEF EnsurePlannedDatabase, CurrentIsSealed,
     Openable
<1>2. ASSUME NEW s \in Sources, IndexSource(s) PROVE CurrentIsSealed'
  <2>1. Staged(cli.op) /\ S \in Slots /\ cli.op \in Ops
    BY <1>2, <1>t, <1>p DEF IndexSource
  <2>2. slot'[cli.op] # None
    BY <1>2, SlotStays, PublicationConstants
  <2>3. S.manifest => slot'[cli.op].manifest
    BY <1>2, <2>1, <1>t DEF IndexSource, Slots
  <2>4. UNCHANGED current /\ \A o \in Ops \ {cli.op} : slot'[o] = slot[o]
    BY <1>2, <2>1, <1>t DEF IndexSource
  <2>. QED BY <2>1, <2>2, <2>3, <2>4 DEF CurrentIsSealed, Openable
<1>3. ASSUME InvalidateEmbeddings PROVE CurrentIsSealed'
  <2>1. Staged(cli.op) /\ S \in Slots /\ cli.op \in Ops
    BY <1>3, <1>t, <1>p DEF InvalidateEmbeddings
  <2>2. slot'[cli.op] # None
    BY <1>3, SlotStays, PublicationConstants
  <2>3. S.manifest => slot'[cli.op].manifest
    BY <1>3, <2>1, <1>t DEF InvalidateEmbeddings, Slots
  <2>4. UNCHANGED current /\ \A o \in Ops \ {cli.op} : slot'[o] = slot[o]
    BY <1>3, <2>1, <1>t DEF InvalidateEmbeddings
  <2>. QED BY <2>1, <2>2, <2>3, <2>4 DEF CurrentIsSealed, Openable
<1>4. ASSUME FinishGraph PROVE CurrentIsSealed'
  <2>1. Staged(cli.op) /\ S \in Slots /\ cli.op \in Ops
    BY <1>4, <1>t, <1>p DEF FinishGraph
  <2>2. slot'[cli.op] # None
    BY <1>4, SlotStays, PublicationConstants
  <2>3. S.manifest => slot'[cli.op].manifest
    BY <1>4, <2>1, <1>t DEF FinishGraph, Slots
  <2>4. UNCHANGED current /\ \A o \in Ops \ {cli.op} : slot'[o] = slot[o]
    BY <1>4, <2>1, <1>t DEF FinishGraph
  <2>. QED BY <2>1, <2>2, <2>3, <2>4 DEF CurrentIsSealed, Openable
<1>5. ASSUME BuildDerived PROVE CurrentIsSealed'
  <2>1. Staged(cli.op) /\ S \in Slots /\ cli.op \in Ops
    BY <1>5, <1>t, <1>p DEF BuildDerived
  <2>2. slot'[cli.op] # None
    BY <1>5, SlotStays, PublicationConstants
  <2>3. S.manifest => slot'[cli.op].manifest
    BY <1>5, <2>1, <1>t DEF BuildDerived, Slots
  <2>4. UNCHANGED current /\ \A o \in Ops \ {cli.op} : slot'[o] = slot[o]
    BY <1>5, <2>1, <1>t DEF BuildDerived
  <2>. QED BY <2>1, <2>2, <2>3, <2>4 DEF CurrentIsSealed, Openable
<1>6. ASSUME Validate PROVE CurrentIsSealed'
  <2>1. Staged(cli.op) /\ S \in Slots /\ cli.op \in Ops
    BY <1>6, <1>t, <1>p DEF Validate
  <2>2. slot'[cli.op] # None
    BY <1>6, SlotStays, PublicationConstants
  <2>3. S.manifest => slot'[cli.op].manifest
    BY <1>6, <2>1, <1>t DEF Validate, Slots
  <2>4. UNCHANGED current /\ \A o \in Ops \ {cli.op} : slot'[o] = slot[o]
    BY <1>6, <2>1, <1>t DEF Validate
  <2>. QED BY <2>1, <2>2, <2>3, <2>4 DEF CurrentIsSealed, Openable
<1>7. ASSUME CompareAndSwapCurrent PROVE CurrentIsSealed'
  <2>1. CASE UNCHANGED current
    BY <1>7, <2>1 DEF CompareAndSwapCurrent, CurrentIsSealed, Openable
  <2>2. CASE ~UNCHANGED current
    <3>1. current'.target = cli.op /\ Sealed(cli.op)
      BY <1>7, <2>2 DEF CompareAndSwapCurrent
    <3>. QED BY <1>7, <3>1, <1>t DEF CompareAndSwapCurrent, CurrentIsSealed, Openable, Sealed
  <2>. QED BY <2>1, <2>2
<1>8. ASSUME SmokeFails PROVE CurrentIsSealed'
  BY <1>8, <1>t, PublicationConstants DEF SmokeFails, CurrentIsSealed, Openable, RolledBack,
     MayRollBack
<1>9. ASSUME DiscardSlot PROVE CurrentIsSealed'
  BY <1>9, <1>t DEF DiscardSlot, CurrentIsSealed, Openable, Discardable
<1>10. ASSUME Entomb PROVE CurrentIsSealed'
  BY <1>10, <1>t DEF Entomb, CurrentIsSealed, Openable, EntombedIsEmpty
<1>11. ASSUME NEW gone \in SUBSET Ops, Prune(gone) PROVE CurrentIsSealed'
  BY <1>11, <1>t DEF Prune, CurrentIsSealed, Openable, Retained
<1>12. ASSUME Rollback PROVE CurrentIsSealed'
  BY <1>12, <1>t, PublicationConstants DEF Rollback, CurrentIsSealed, Openable, RolledBack,
     MayRollBack
<1>13. ASSUME DaemonWrites PROVE CurrentIsSealed'
  <2>1. slot'[daemon.db] # None /\ (slot[daemon.db].manifest => slot'[daemon.db].manifest)
    BY <1>13, <1>t, SlotStays, PublicationConstants DEF DaemonWrites, Slots
  <2>. QED BY <1>13, <2>1, <1>t DEF DaemonWrites, CurrentIsSealed, Openable
<1>u. \/ UNCHANGED <<slot, current>>
      \/ EnsurePlannedDatabase \/ InvalidateEmbeddings \/ FinishGraph \/ BuildDerived \/
         Validate \/ CompareAndSwapCurrent \/ SmokeFails \/ DiscardSlot \/ Entomb \/
         Rollback \/ DaemonWrites
      \/ \E s \in Sources : IndexSource(s)
      \/ \E gone \in SUBSET Ops : Prune(gone)
  BY DEF Next, Rebuild, Operator, Environment, vars, BeginNew, Begin, BeginResume,
         CreateOperation, RecordInputs, ResumeCancelled, ResumeRestart,
         ResumeUnattributable, ResumeRescope, RescopeOperation, ResumeAsIs, LoopCancelled,
         LoopEnds, LoopWorks, WorkStale, WorkWithoutSlot, CheckpointSource, RecordEmbedded,
         Advance, WorkFails, Select, CompleteActivation, FailCancelled, FailLoaded, RecordFailure,
         RequestCancel, BeginDiscard, DiscardRefused, DaemonResolve, DaemonOpen,
         DaemonStops, Edit, Crash
<1>v. CASE UNCHANGED <<slot, current>>
  BY <1>v DEF CurrentIsSealed, Openable
<1>. QED
  BY <1>1, <1>2, <1>3, <1>4, <1>5, <1>6, <1>7, <1>8, <1>9, <1>10, <1>11, <1>12, <1>13, <1>u, <1>v

\* Discards.
LEMMA OrphanStep ==
    TypeOK /\ PlacesKnown /\ NoOrphanSlot /\ EntombedIsEmpty /\ [Next]_vars
      => NoOrphanSlot' /\ EntombedIsEmpty'
<1>. SUFFICES ASSUME TypeOK, PlacesKnown, NoOrphanSlot, EntombedIsEmpty, [Next]_vars
              PROVE  NoOrphanSlot' /\ EntombedIsEmpty'
  OBVIOUS
<1>t. /\ cli \in Commands
      /\ DOMAIN journal = Ops /\ DOMAIN slot = Ops
      /\ cli.pc # "idle" => cli.op \in Ops
  BY DEF TypeOK, PlacesKnown
<1>k. cli.pc \notin {"idle", "create"} => journal[cli.op] # Gone
  BY DEF PlacesKnown
<1>w. MayWrite
  BY WritesJournals
<1>1. ASSUME NEW o \in Ops, NEW a \in BOOLEAN, BeginNew(o, a) PROVE NoOrphanSlot' /\
      EntombedIsEmpty'
  BY <1>1, <1>t DEF BeginNew, Begin, NoOrphanSlot, EntombedIsEmpty, Commands, NoCommand,
     RootFree
<1>2. ASSUME NEW o \in Ops, NEW a \in BOOLEAN, BeginResume(o, a) PROVE NoOrphanSlot' /\
      EntombedIsEmpty'
  BY <1>2, <1>t DEF BeginResume, Begin, NoOrphanSlot, EntombedIsEmpty, Commands, NoCommand,
     RootFree
<1>3. ASSUME CreateOperation PROVE NoOrphanSlot' /\ EntombedIsEmpty'
  BY <1>3, <1>t, <1>w, PublicationConstants DEF CreateOperation, NoOrphanSlot,
     EntombedIsEmpty, Commands, MayWrite
<1>4. ASSUME RecordInputs PROVE NoOrphanSlot' /\ EntombedIsEmpty'
  BY <1>4, <1>t DEF RecordInputs, NoOrphanSlot, EntombedIsEmpty, Commands
<1>5. ASSUME ResumeCancelled PROVE NoOrphanSlot' /\ EntombedIsEmpty'
  BY <1>5, <1>t, <1>w, PublicationConstants DEF ResumeCancelled, NoOrphanSlot,
     EntombedIsEmpty, Commands, NoCommand, MayWrite
<1>6. ASSUME ResumeRestart PROVE NoOrphanSlot' /\ EntombedIsEmpty'
  BY <1>6, <1>t, <1>w, PublicationConstants DEF ResumeRestart, NoOrphanSlot,
     EntombedIsEmpty, Commands, MayWrite
<1>7. ASSUME ResumeUnattributable PROVE NoOrphanSlot' /\ EntombedIsEmpty'
  BY <1>7, <1>t DEF ResumeUnattributable, NoOrphanSlot, EntombedIsEmpty, Commands, NoCommand
<1>8. ASSUME ResumeRescope PROVE NoOrphanSlot' /\ EntombedIsEmpty'
  BY <1>8, <1>t DEF ResumeRescope, NoOrphanSlot, EntombedIsEmpty, Commands
<1>9. ASSUME RescopeOperation PROVE NoOrphanSlot' /\ EntombedIsEmpty'
  <2>1. journal'[cli.op] \in Journals /\ \A o \in Ops \ {cli.op} : journal'[o] = journal[o]
    BY <1>9, <1>w, <1>t DEF MayWrite, RescopeOperation
  <2>2. cli'.pc # "entomb"
    <3>1. CASE cli.stale \/ J.failure = "permanent"
      BY <1>9, <3>1, <1>t DEF RescopeOperation, NoCommand, Commands
    <3>2. CASE ~(cli.stale \/ J.failure = "permanent")
      BY <1>9, <3>2, <1>t DEF RescopeOperation, NoCommand, Commands
    <3>. QED BY <3>1, <3>2
  <2>. QED BY <1>9, <2>1, <2>2, PublicationConstants DEF RescopeOperation, NoOrphanSlot,
        EntombedIsEmpty
<1>10. ASSUME ResumeAsIs PROVE NoOrphanSlot' /\ EntombedIsEmpty'
  <2>1. journal'[cli.op] \in Journals /\ \A o \in Ops \ {cli.op} : journal'[o] = journal[o]
    BY <1>10, <1>w, <1>t DEF MayWrite, ResumeAsIs
  <2>2. cli'.pc # "entomb"
    <3>1. CASE J.phase \notin Terminal /\ Fingerprint(J.input) = Fingerprint(cli.seen) /\
          J.failure # "permanent"
      BY <1>10, <3>1, <1>t DEF ResumeAsIs, NoCommand, Commands
    <3>2. CASE ~(J.phase \notin Terminal /\ Fingerprint(J.input) = Fingerprint(cli.seen) /\
          J.failure # "permanent")
      BY <1>10, <3>2, <1>t DEF ResumeAsIs, NoCommand, Commands
    <3>. QED BY <3>1, <3>2
  <2>. QED BY <1>10, <2>1, <2>2, PublicationConstants DEF ResumeAsIs, NoOrphanSlot,
        EntombedIsEmpty
<1>11. ASSUME LoopCancelled PROVE NoOrphanSlot' /\ EntombedIsEmpty'
  BY <1>11, <1>t, <1>w, PublicationConstants DEF LoopCancelled, NoOrphanSlot,
     EntombedIsEmpty, Commands, NoCommand, MayWrite
<1>12. ASSUME LoopEnds PROVE NoOrphanSlot' /\ EntombedIsEmpty'
  BY <1>12, <1>t DEF LoopEnds, NoOrphanSlot, EntombedIsEmpty, Commands, NoCommand
<1>13. ASSUME LoopWorks PROVE NoOrphanSlot' /\ EntombedIsEmpty'
  BY <1>13, <1>t DEF LoopWorks, NoOrphanSlot, EntombedIsEmpty, Commands
<1>14. ASSUME WorkStale PROVE NoOrphanSlot' /\ EntombedIsEmpty'
  BY <1>14, <1>t DEF WorkStale, NoOrphanSlot, EntombedIsEmpty, Commands
<1>15. ASSUME WorkWithoutSlot PROVE NoOrphanSlot' /\ EntombedIsEmpty'
  BY <1>15, <1>t DEF WorkWithoutSlot, NoOrphanSlot, EntombedIsEmpty, Commands
<1>16. ASSUME EnsurePlannedDatabase PROVE NoOrphanSlot' /\ EntombedIsEmpty'
  BY <1>16, <1>t, <1>k DEF EnsurePlannedDatabase, NoOrphanSlot, EntombedIsEmpty, Commands
<1>17. ASSUME NEW s \in Sources, IndexSource(s) PROVE NoOrphanSlot' /\ EntombedIsEmpty'
  BY <1>17, <1>t, <1>k DEF IndexSource, NoOrphanSlot, EntombedIsEmpty, Commands
<1>18. ASSUME InvalidateEmbeddings PROVE NoOrphanSlot' /\ EntombedIsEmpty'
  BY <1>18, <1>t, <1>k DEF InvalidateEmbeddings, NoOrphanSlot, EntombedIsEmpty, Commands
<1>19. ASSUME CheckpointSource PROVE NoOrphanSlot' /\ EntombedIsEmpty'
  <2>1. CASE cli.stale
    BY <1>19, <2>1, <1>t DEF CheckpointSource, NoOrphanSlot, EntombedIsEmpty, Commands
  <2>2. CASE ~cli.stale
    <3>1. PICK s \in cli.picked : Write(cli.op, [J EXCEPT !.done[s] = Digest(cli.seen, s)])
      BY <1>19, <2>2 DEF CheckpointSource
    <3>2. journal'[cli.op] \in Journals
      BY <1>19, <3>1, <1>w, <1>t DEF MayWrite, CheckpointSource
    <3>. QED BY <1>19, <2>2, <3>1, <3>2, <1>t, PublicationConstants
            DEF CheckpointSource, NoOrphanSlot, EntombedIsEmpty, Commands
  <2>. QED BY <2>1, <2>2
<1>20. ASSUME FinishGraph PROVE NoOrphanSlot' /\ EntombedIsEmpty'
  BY <1>20, <1>t, <1>k DEF FinishGraph, NoOrphanSlot, EntombedIsEmpty, Commands
<1>21. ASSUME BuildDerived PROVE NoOrphanSlot' /\ EntombedIsEmpty'
  BY <1>21, <1>t, <1>k DEF BuildDerived, NoOrphanSlot, EntombedIsEmpty, Commands
<1>22. ASSUME Validate PROVE NoOrphanSlot' /\ EntombedIsEmpty'
  BY <1>22, <1>t, <1>k DEF Validate, NoOrphanSlot, EntombedIsEmpty, Commands
<1>23. ASSUME Advance PROVE NoOrphanSlot' /\ EntombedIsEmpty'
  <2>1. cli.op \in Ops /\ cli'.pc # "entomb" /\ UNCHANGED slot
    BY <1>23, <1>t DEF Advance, Commands
  <2>2. \/ UNCHANGED journal
        \/ journal' = [journal EXCEPT ![cli.op] = [J EXCEPT !.phase = Successor(@)]]
    BY <1>23 DEF Advance
  <2>3. [J EXCEPT !.phase = Successor(@)] # Gone
    BY <1>23, <1>w, PublicationConstants DEF Advance, MayWrite
  <2>. QED BY <2>1, <2>2, <2>3, <1>t DEF NoOrphanSlot, EntombedIsEmpty
<1>45. ASSUME RecordEmbedded PROVE NoOrphanSlot' /\ EntombedIsEmpty'
  BY <1>45, <1>t, <1>w, PublicationConstants DEF RecordEmbedded, NoOrphanSlot, EntombedIsEmpty,
     Commands, MayWrite
<1>24. ASSUME NEW k \in {"retryable", "permanent"}, WorkFails(k) PROVE NoOrphanSlot' /\
      EntombedIsEmpty'
  BY <1>24, <1>t DEF WorkFails, NoOrphanSlot, EntombedIsEmpty, Commands
<1>25. ASSUME Select PROVE NoOrphanSlot' /\ EntombedIsEmpty'
  <2>1. journal'[cli.op] \in Journals /\ \A o \in Ops \ {cli.op} : journal'[o] = journal[o]
    BY <1>25, <1>w, <1>t DEF MayWrite, Select
  <2>2. cli'.pc # "entomb"
    <3>1. CASE cli.stale \/ ~Openable(J.expected)
      BY <1>25, <3>1, <1>t DEF Select, NoCommand, Commands
    <3>2. CASE ~(cli.stale \/ ~Openable(J.expected))
      BY <1>25, <3>2, <1>t DEF Select, NoCommand, Commands
    <3>. QED BY <3>1, <3>2
  <2>. QED BY <1>25, <2>1, <2>2, PublicationConstants DEF Select, NoOrphanSlot, EntombedIsEmpty
<1>26. ASSUME CompareAndSwapCurrent PROVE NoOrphanSlot' /\ EntombedIsEmpty'
  BY <1>26, <1>t DEF CompareAndSwapCurrent, NoOrphanSlot, EntombedIsEmpty, Commands
<1>27. ASSUME SmokeFails PROVE NoOrphanSlot' /\ EntombedIsEmpty'
  BY <1>27, <1>t DEF SmokeFails, NoOrphanSlot, EntombedIsEmpty, Commands
<1>28. ASSUME CompleteActivation PROVE NoOrphanSlot' /\ EntombedIsEmpty'
  <2>1. journal'[cli.op] \in Journals /\ \A o \in Ops \ {cli.op} : journal'[o] = journal[o]
    BY <1>28, <1>w, <1>t DEF MayWrite, CompleteActivation
  <2>2. cli'.pc # "entomb"
    <3>1. CASE cli.stale
      BY <1>28, <3>1, <1>t DEF CompleteActivation, NoCommand, Commands
    <3>2. CASE ~(cli.stale)
      BY <1>28, <3>2, <1>t DEF CompleteActivation, NoCommand, Commands
    <3>. QED BY <3>1, <3>2
  <2>. QED BY <1>28, <2>1, <2>2, PublicationConstants DEF CompleteActivation, NoOrphanSlot,
        EntombedIsEmpty
<1>29. ASSUME FailCancelled PROVE NoOrphanSlot' /\ EntombedIsEmpty'
  BY <1>29, <1>t, <1>w, PublicationConstants DEF FailCancelled, NoOrphanSlot,
     EntombedIsEmpty, Commands, NoCommand, MayWrite
<1>30. ASSUME FailLoaded PROVE NoOrphanSlot' /\ EntombedIsEmpty'
  BY <1>30, <1>t DEF FailLoaded, NoOrphanSlot, EntombedIsEmpty, Commands
<1>31. ASSUME RecordFailure PROVE NoOrphanSlot' /\ EntombedIsEmpty'
  BY <1>31, <1>t, <1>w, PublicationConstants DEF RecordFailure, NoOrphanSlot,
     EntombedIsEmpty, Commands, NoCommand, MayWrite
<1>32. ASSUME NEW o \in Ops, RequestCancel(o) PROVE NoOrphanSlot' /\ EntombedIsEmpty'
  <2>1. [journal[o] EXCEPT !.cancel = TRUE] \in Journals
    BY <1>32, JournalMoves DEF RequestCancel, TypeOK
  <2>. QED BY <1>32, <2>1, <1>t, PublicationConstants DEF RequestCancel, NoOrphanSlot,
        EntombedIsEmpty, Commands
<1>33. ASSUME NEW o \in Ops, NEW f \in BOOLEAN, BeginDiscard(o, f) PROVE NoOrphanSlot' /\
      EntombedIsEmpty'
  <2>1. journal[o] \in Journals /\ Cancelled(journal[o]) \in Journals
    BY <1>33, JournalMoves DEF BeginDiscard, TypeOK
  <2>. QED BY <1>33, <2>1, <1>t, PublicationConstants DEF BeginDiscard, NoCommand, NoOrphanSlot,
        EntombedIsEmpty
<1>34. ASSUME DiscardRefused PROVE NoOrphanSlot' /\ EntombedIsEmpty'
  BY <1>34, <1>t DEF DiscardRefused, NoOrphanSlot, EntombedIsEmpty, Commands, NoCommand
<1>35. ASSUME DiscardSlot PROVE NoOrphanSlot' /\ EntombedIsEmpty'
  BY <1>35, <1>t DEF DiscardSlot, NoOrphanSlot, EntombedIsEmpty, Commands
<1>36. ASSUME Entomb PROVE NoOrphanSlot' /\ EntombedIsEmpty'
  <2>1. cli'.pc # "entomb"
    <3>1. CASE cli' = NoCommand
      BY <3>1 DEF NoCommand
    <3>2. CASE ~(cli' = NoCommand)
      <4>1. PICK o \in Ops : cli' = [cli EXCEPT !.pc = "create", !.op = o, !.restart = FALSE]
        BY <1>36, <3>2 DEF Entomb
      <4>. QED BY <4>1, <1>t DEF Commands
    <3>. QED BY <3>1, <3>2
  <2>. QED BY <1>36, <2>1, <1>t DEF Entomb, NoOrphanSlot, EntombedIsEmpty
<1>37. ASSUME NEW gone \in SUBSET Ops, Prune(gone) PROVE NoOrphanSlot' /\ EntombedIsEmpty'
  BY <1>37, <1>t DEF Prune, NoOrphanSlot, EntombedIsEmpty, Commands
<1>38. ASSUME Rollback PROVE NoOrphanSlot' /\ EntombedIsEmpty'
  BY <1>38, <1>t DEF Rollback, NoOrphanSlot, EntombedIsEmpty, Commands
<1>39. ASSUME DaemonResolve PROVE NoOrphanSlot' /\ EntombedIsEmpty'
  BY <1>39, <1>t DEF DaemonResolve, NoOrphanSlot, EntombedIsEmpty, Commands
<1>40. ASSUME DaemonOpen PROVE NoOrphanSlot' /\ EntombedIsEmpty'
  BY <1>40, <1>t DEF DaemonOpen, NoOrphanSlot, EntombedIsEmpty, Commands
<1>41. ASSUME DaemonWrites PROVE NoOrphanSlot' /\ EntombedIsEmpty'
  BY <1>41, <1>t DEF DaemonWrites, NoOrphanSlot, EntombedIsEmpty, Commands
<1>42. ASSUME DaemonStops PROVE NoOrphanSlot' /\ EntombedIsEmpty'
  BY <1>42, <1>t DEF DaemonStops, NoOrphanSlot, EntombedIsEmpty, Commands
<1>43. ASSUME NEW i \in Edited, NEW v \in DOMAIN Content, Edit(i, v) PROVE NoOrphanSlot' /\
      EntombedIsEmpty'
  BY <1>43, <1>t DEF Edit, NoOrphanSlot, EntombedIsEmpty, Commands
<1>44. ASSUME Crash PROVE NoOrphanSlot' /\ EntombedIsEmpty'
  BY <1>44, <1>t DEF Crash, NoOrphanSlot, EntombedIsEmpty, Commands, NoCommand
<1>v. CASE UNCHANGED vars
  BY <1>v DEF NoOrphanSlot, EntombedIsEmpty, vars
<1>. QED
  BY <1>1, <1>2, <1>3, <1>4, <1>5, <1>6, <1>7, <1>8, <1>9, <1>10, <1>11, <1>12, <1>13, <1>14,
        <1>15, <1>16, <1>17, <1>18, <1>19, <1>20, <1>21, <1>22, <1>23, <1>24, <1>25, <1>26,
        <1>27, <1>28, <1>29, <1>30, <1>31, <1>32, <1>33, <1>34, <1>35, <1>36, <1>37, <1>38,
        <1>39, <1>40, <1>41, <1>42, <1>43, <1>44, <1>45, <1>v
     DEF Next, Rebuild, Operator, Environment

\* Cancellations.
LEMMA FreshStep ==
    TypeOK /\ PlacesKnown /\ FreshIsUncancelled /\ [Next]_vars => FreshIsUncancelled'
<1>. SUFFICES ASSUME TypeOK, PlacesKnown, FreshIsUncancelled, [Next]_vars
              PROVE  FreshIsUncancelled'
  OBVIOUS
<1>t. /\ cli \in Commands
      /\ DOMAIN journal = Ops
      /\ cli.pc # "idle" => cli.op \in Ops
      /\ cli.pc \notin {"idle", "create"} => J \in Journals
  BY DEF TypeOK, PlacesKnown
<1>1. ASSUME NEW o \in Ops, NEW a \in BOOLEAN, BeginNew(o, a) PROVE FreshIsUncancelled'
  BY <1>1, <1>t DEF BeginNew, Begin, FreshIsUncancelled, Commands, NoCommand
<1>2. ASSUME NEW o \in Ops, NEW a \in BOOLEAN, BeginResume(o, a) PROVE FreshIsUncancelled'
  BY <1>2, <1>t DEF BeginResume, Begin, FreshIsUncancelled, Commands, NoCommand
<1>3. ASSUME CreateOperation PROVE FreshIsUncancelled'
  BY <1>3, <1>t DEF CreateOperation, FreshIsUncancelled, Commands
<1>4. ASSUME RecordInputs PROVE FreshIsUncancelled'
  BY <1>4, <1>t DEF RecordInputs, FreshIsUncancelled, Commands
<1>5. ASSUME ResumeCancelled PROVE FreshIsUncancelled'
  BY <1>5, <1>t DEF ResumeCancelled, FreshIsUncancelled, Commands, NoCommand
<1>6. ASSUME ResumeRestart PROVE FreshIsUncancelled'
  BY <1>6, <1>t DEF ResumeRestart, FreshIsUncancelled, Commands
<1>7. ASSUME ResumeUnattributable PROVE FreshIsUncancelled'
  BY <1>7, <1>t DEF ResumeUnattributable, FreshIsUncancelled, Commands, NoCommand
<1>8. ASSUME ResumeRescope PROVE FreshIsUncancelled'
  BY <1>8, <1>t DEF ResumeRescope, FreshIsUncancelled, Commands
<1>9. ASSUME RescopeOperation PROVE FreshIsUncancelled'
  <2>1. CASE cli.stale \/ J.failure = "permanent"
    BY <1>9, <2>1, <1>t DEF RescopeOperation, NoCommand, Commands, FreshIsUncancelled
  <2>2. CASE ~(cli.stale \/ J.failure = "permanent")
    BY <1>9, <2>2, <1>t DEF RescopeOperation, NoCommand, Commands, FreshIsUncancelled
  <2>. QED BY <2>1, <2>2
<1>10. ASSUME ResumeAsIs PROVE FreshIsUncancelled'
  <2>1. CASE J.phase \notin Terminal /\ Fingerprint(J.input) = Fingerprint(cli.seen) /\
        J.failure # "permanent"
    BY <1>10, <2>1, <1>t DEF ResumeAsIs, NoCommand, Commands, FreshIsUncancelled
  <2>2. CASE ~(J.phase \notin Terminal /\ Fingerprint(J.input) = Fingerprint(cli.seen) /\
        J.failure # "permanent")
    BY <1>10, <2>2, <1>t DEF ResumeAsIs, NoCommand, Commands, FreshIsUncancelled
  <2>. QED BY <2>1, <2>2
<1>11. ASSUME LoopCancelled PROVE FreshIsUncancelled'
  BY <1>11, <1>t DEF LoopCancelled, FreshIsUncancelled, Commands, NoCommand
<1>12. ASSUME LoopEnds PROVE FreshIsUncancelled'
  BY <1>12, <1>t DEF LoopEnds, FreshIsUncancelled, Commands, NoCommand
<1>13. ASSUME LoopWorks PROVE FreshIsUncancelled'
  BY <1>13, <1>t DEF LoopWorks, FreshIsUncancelled, Commands
<1>14. ASSUME WorkStale PROVE FreshIsUncancelled'
  BY <1>14, <1>t DEF WorkStale, FreshIsUncancelled, Commands
<1>15. ASSUME WorkWithoutSlot PROVE FreshIsUncancelled'
  BY <1>15, <1>t DEF WorkWithoutSlot, FreshIsUncancelled, Commands
<1>16. ASSUME EnsurePlannedDatabase PROVE FreshIsUncancelled'
  BY <1>16, <1>t DEF EnsurePlannedDatabase, FreshIsUncancelled, Commands
<1>17. ASSUME NEW s \in Sources, IndexSource(s) PROVE FreshIsUncancelled'
  BY <1>17, <1>t DEF IndexSource, FreshIsUncancelled, Commands
<1>18. ASSUME InvalidateEmbeddings PROVE FreshIsUncancelled'
  BY <1>18, <1>t DEF InvalidateEmbeddings, FreshIsUncancelled, Commands
<1>19. ASSUME CheckpointSource PROVE FreshIsUncancelled'
  <2>1. CASE cli.stale
    BY <1>19, <2>1, <1>t DEF CheckpointSource, FreshIsUncancelled, Commands
  <2>2. CASE ~cli.stale
    <3>1. PICK s \in cli.picked : Write(cli.op, [J EXCEPT !.done[s] = Digest(cli.seen, s)])
      BY <1>19, <2>2 DEF CheckpointSource
    <3>2. journal'[cli.op].cancel = J.cancel
      BY <1>19, <3>1, <1>t DEF CheckpointSource, Journals
    <3>. QED BY <1>19, <2>2, <3>2, <1>t DEF CheckpointSource, FreshIsUncancelled, Commands
  <2>. QED BY <2>1, <2>2
<1>20. ASSUME FinishGraph PROVE FreshIsUncancelled'
  BY <1>20, <1>t DEF FinishGraph, FreshIsUncancelled, Commands
<1>21. ASSUME BuildDerived PROVE FreshIsUncancelled'
  BY <1>21, <1>t DEF BuildDerived, FreshIsUncancelled, Commands
<1>22. ASSUME Validate PROVE FreshIsUncancelled'
  BY <1>22, <1>t DEF Validate, FreshIsUncancelled, Commands
<1>23. ASSUME Advance PROVE FreshIsUncancelled'
  BY <1>23, <1>t DEF Advance, FreshIsUncancelled, Commands
<1>45. ASSUME RecordEmbedded PROVE FreshIsUncancelled'
  <2>1. journal'[cli.op].cancel = J.cancel
    BY <1>45, <1>t DEF RecordEmbedded, Journals
  <2>. QED BY <1>45, <2>1, <1>t DEF RecordEmbedded, FreshIsUncancelled, Commands
<1>24. ASSUME NEW k \in {"retryable", "permanent"}, WorkFails(k) PROVE FreshIsUncancelled'
  BY <1>24, <1>t DEF WorkFails, FreshIsUncancelled, Commands
<1>25. ASSUME Select PROVE FreshIsUncancelled'
  <2>1. CASE cli.stale \/ ~Openable(J.expected)
    BY <1>25, <2>1, <1>t DEF Select, FreshIsUncancelled, Commands
  <2>2. CASE ~(cli.stale \/ ~Openable(J.expected))
    <3>1. journal'[cli.op].cancel = J.cancel
      BY <1>25, <2>2, <1>t DEF Select, Journals
    <3>. QED BY <1>25, <2>2, <3>1, <1>t DEF Select, FreshIsUncancelled, Commands
  <2>. QED BY <2>1, <2>2
<1>26. ASSUME CompareAndSwapCurrent PROVE FreshIsUncancelled'
  BY <1>26, <1>t DEF CompareAndSwapCurrent, FreshIsUncancelled, Commands
<1>27. ASSUME SmokeFails PROVE FreshIsUncancelled'
  BY <1>27, <1>t DEF SmokeFails, FreshIsUncancelled, Commands
<1>28. ASSUME CompleteActivation PROVE FreshIsUncancelled'
  <2>1. CASE cli.stale
    BY <1>28, <2>1, <1>t DEF CompleteActivation, NoCommand, Commands, FreshIsUncancelled
  <2>2. CASE ~(cli.stale)
    BY <1>28, <2>2, <1>t DEF CompleteActivation, NoCommand, Commands, FreshIsUncancelled
  <2>. QED BY <2>1, <2>2
<1>29. ASSUME FailCancelled PROVE FreshIsUncancelled'
  BY <1>29, <1>t DEF FailCancelled, FreshIsUncancelled, Commands, NoCommand
<1>30. ASSUME FailLoaded PROVE FreshIsUncancelled'
  BY <1>30, <1>t DEF FailLoaded, FreshIsUncancelled, Commands
<1>31. ASSUME RecordFailure PROVE FreshIsUncancelled'
  BY <1>31, <1>t DEF RecordFailure, FreshIsUncancelled, Commands, NoCommand
<1>32. ASSUME NEW o \in Ops, RequestCancel(o) PROVE FreshIsUncancelled'
  <2>1. cli'.pc = cli.pc /\ cli'.op = cli.op /\ (cli'.stale = (cli.stale \/ cli.op = o))
    BY <1>32, <1>t DEF RequestCancel, Commands
  <2>2. \A p \in Ops \ {o} : journal'[p] = journal[p]
    BY <1>32, <1>t DEF RequestCancel
  <2>3. CASE cli.op = o
    BY <1>32, <2>1, <2>3, <1>t DEF RequestCancel, JournalLocked, FreshIsUncancelled
  <2>4. CASE cli.op # o
    BY <2>1, <2>2, <2>4, <1>t DEF FreshIsUncancelled
  <2>. QED BY <2>3, <2>4
<1>33. ASSUME NEW o \in Ops, NEW f \in BOOLEAN, BeginDiscard(o, f) PROVE FreshIsUncancelled'
  BY <1>33, <1>t DEF BeginDiscard, FreshIsUncancelled, Commands, NoCommand
<1>34. ASSUME DiscardRefused PROVE FreshIsUncancelled'
  BY <1>34, <1>t DEF DiscardRefused, FreshIsUncancelled, Commands, NoCommand
<1>35. ASSUME DiscardSlot PROVE FreshIsUncancelled'
  BY <1>35, <1>t DEF DiscardSlot, FreshIsUncancelled, Commands
<1>36. ASSUME Entomb PROVE FreshIsUncancelled'
  <2>1. cli'.pc \in {"idle", "create"}
    <3>1. CASE cli' = NoCommand
      BY <3>1 DEF NoCommand
    <3>2. CASE ~(cli' = NoCommand)
      <4>1. PICK o \in Ops : cli' = [cli EXCEPT !.pc = "create", !.op = o, !.restart = FALSE]
        BY <1>36, <3>2 DEF Entomb
      <4>. QED BY <4>1, <1>t DEF Commands
    <3>. QED BY <3>1, <3>2
  <2>. QED BY <2>1 DEF FreshIsUncancelled
<1>37. ASSUME NEW gone \in SUBSET Ops, Prune(gone) PROVE FreshIsUncancelled'
  BY <1>37, <1>t DEF Prune, FreshIsUncancelled, Commands
<1>38. ASSUME Rollback PROVE FreshIsUncancelled'
  BY <1>38, <1>t DEF Rollback, FreshIsUncancelled, Commands
<1>39. ASSUME DaemonResolve PROVE FreshIsUncancelled'
  BY <1>39, <1>t DEF DaemonResolve, FreshIsUncancelled, Commands
<1>40. ASSUME DaemonOpen PROVE FreshIsUncancelled'
  BY <1>40, <1>t DEF DaemonOpen, FreshIsUncancelled, Commands
<1>41. ASSUME DaemonWrites PROVE FreshIsUncancelled'
  BY <1>41, <1>t DEF DaemonWrites, FreshIsUncancelled, Commands
<1>42. ASSUME DaemonStops PROVE FreshIsUncancelled'
  BY <1>42, <1>t DEF DaemonStops, FreshIsUncancelled, Commands
<1>43. ASSUME NEW i \in Edited, NEW v \in DOMAIN Content, Edit(i, v) PROVE FreshIsUncancelled'
  BY <1>43, <1>t DEF Edit, FreshIsUncancelled, Commands
<1>44. ASSUME Crash PROVE FreshIsUncancelled'
  BY <1>44, <1>t DEF Crash, FreshIsUncancelled, Commands, NoCommand
<1>v. CASE UNCHANGED vars
  BY <1>v DEF FreshIsUncancelled, vars
<1>. QED
  BY <1>1, <1>2, <1>3, <1>4, <1>5, <1>6, <1>7, <1>8, <1>9, <1>10, <1>11, <1>12, <1>13, <1>14,
        <1>15, <1>16, <1>17, <1>18, <1>19, <1>20, <1>21, <1>22, <1>23, <1>24, <1>25, <1>26,
        <1>27, <1>28, <1>29, <1>30, <1>31, <1>32, <1>33, <1>34, <1>35, <1>36, <1>37, <1>38,
        <1>39, <1>40, <1>41, <1>42, <1>43, <1>44, <1>45, <1>v
     DEF Next, Rebuild, Operator, Environment

-----------------------------------------------------------------------------
(* The theorems about the selector.                                        *)

\* Every behaviour of the publication commands keeps the types and the invariant.
THEOREM SelectorInvariant == Spec => [](TypeOK /\ SelectorInv)
<1>1. Init => TypeOK /\ SelectorInv
  <2>. SUFFICES ASSUME Init PROVE TypeOK /\ SelectorInv
    OBVIOUS
  <2>1. TypeOK
    BY TypesInitially
  <2>2. cli.pc = "idle" /\ ~cli.restart
    BY DEF Init, NoCommand
  <2>3. PlacesKnown /\ EntombedIsEmpty /\ FreshIsUncancelled
    BY <2>2 DEF PlacesKnown, EntombedIsEmpty, FreshIsUncancelled
  <2>4. RootLockHeld /\ CurrentIsSealed /\ NoOrphanSlot
    BY <2>2 DEF Init, RootLockHeld, CurrentIsSealed, Openable, NoOrphanSlot
  <2>. QED BY <2>1, <2>3, <2>4 DEF SelectorInv
<1>2. TypeOK /\ SelectorInv /\ [Next]_vars => (TypeOK /\ SelectorInv)'
  BY TypeStep, PlacesStep, RootLockStep, SealedStep, OrphanStep, FreshStep DEF SelectorInv
<1>. QED BY <1>1, <1>2, PTL DEF Spec

\* No crash, discard, prune or rollback leaves CURRENT pointing at a slot that is missing or
\* unsealed (resolve_selected_database, discard_operation, prune_slots).
THEOREM SelectorPointsAtSealedSlot == Spec => []CurrentIsSealed
BY SelectorInvariant, PTL DEF SelectorInv

\* No command moves the selector or removes the slot under a running daemon, and none slips in
\* between its resolution of CURRENT and its open of the graph.
THEOREM DaemonServesSelected == Spec => []DaemonServesCurrent
<1>1. SelectorInv => DaemonServesCurrent
  BY DEF SelectorInv, RootLockHeld, CurrentIsSealed, DaemonServesCurrent
<1>. QED BY <1>1, SelectorInvariant, PTL

\* A discarded operation leaves no slot behind, even when the discard is interrupted.
THEOREM DiscardLeavesNoSlot == Spec => []NoOrphanSlot
BY SelectorInvariant, PTL DEF SelectorInv

\* CURRENT is never switched to the target of an operation whose cancellation was requested:
\* the compare-and-swap runs under the journal's lock, on a journal read since.
THEOREM CancelledIsNeverSelected == Spec => CancelHonoured
<1>. DEFINE A == (current'.target # current.target /\ current'.target \in Ops
                     /\ current'.from = NoOp) => ~journal[current'.target].cancel
<1>1. TypeOK /\ SelectorInv /\ [Next]_vars => [A]_vars
  <2>. SUFFICES ASSUME TypeOK, SelectorInv, Next, current'.target # current.target,
                       current'.target \in Ops, current'.from = NoOp
                PROVE  ~journal[current'.target].cancel
    OBVIOUS
  <2>t. current \in [target : Ops \cup {Base}, prev : Ops \cup {Base}, from : Ops \cup {NoOp}]
    BY DEF TypeOK
  <2>1. CASE CompareAndSwapCurrent
    <3>1. current'.target = cli.op /\ At("cas")
      BY <2>1 DEF CompareAndSwapCurrent
    <3>. QED BY <3>1 DEF SelectorInv, FreshIsUncancelled
  <2>2. CASE current' = RolledBack /\ MayRollBack
    <3>1. current'.target = Base \/ current'.from = current.target
      BY <2>2 DEF RolledBack
    <3>. QED BY <3>1, <2>2, <2>t, PublicationConstants DEF MayRollBack
  <2>3. CASE SmokeFails \/ Rollback
    BY <2>2, <2>3 DEF SmokeFails, Rollback
  <2>4. \/ UNCHANGED current \/ CompareAndSwapCurrent \/ SmokeFails \/ Rollback
    BY DEF Next, Rebuild, Operator, Environment,
           BeginNew, Begin, BeginResume, CreateOperation, RecordInputs, ResumeCancelled,
           ResumeRestart, ResumeUnattributable, ResumeRescope, RescopeOperation, ResumeAsIs,
           LoopCancelled, LoopEnds, LoopWorks, WorkStale, WorkWithoutSlot,
           EnsurePlannedDatabase, IndexSource, InvalidateEmbeddings, CheckpointSource,
           FinishGraph, BuildDerived, Validate, RecordEmbedded, Advance, WorkFails, Select,
           CompleteActivation, FailCancelled, FailLoaded, RecordFailure, RequestCancel,
           BeginDiscard, DiscardRefused, DiscardSlot, Entomb, Prune, DaemonResolve,
           DaemonOpen, DaemonWrites, DaemonStops, Edit, Crash
  <2>. QED BY <2>1, <2>3, <2>4
<1>. QED BY <1>1, SelectorInvariant, PTL DEF Spec, CancelHonoured

-----------------------------------------------------------------------------
(* The content of a sealed slot: what most steps leave alone.              *)

\* No plan or checkpoint changes, and a phase at most ends or moves on past staging.
JournalsKept ==
    \A o \in Ops : journal'[o] \notin {Unborn, Gone} =>
        /\ Known(o)
        /\ journal'[o].input = journal[o].input /\ journal'[o].done = journal[o].done
        /\ \/ journal'[o].phase \in {journal[o].phase, "Cancelled"}
           \/ journal[o].phase \in Over /\ journal'[o].phase \in Over

\* No graph, history or derived index changes.
SlotsKept ==
    \A o \in Ops : slot'[o] # None =>
        /\ Staged(o)
        /\ slot'[o].graph = slot[o].graph /\ slot'[o].history = slot[o].history
        /\ slot'[o].built = slot[o].built

\* The command is not at, or stays at, the places where it knows something of its slot.
CommandQuiet ==
    \/ cli'.pc \notin {"advance", "indexed", "checkpoint", "resume", "rescope"}
    \/ /\ cli'.pc = cli.pc /\ cli'.op = cli.op
       /\ cli'.seen = cli.seen /\ cli'.picked = cli.picked

\* A capture is taken at the start of a command; a worker goes on with its own.
SeenKept ==
    /\ cli'.seen \in {cli.seen, live, [i \in Inputs |-> 1]}
    /\ cli'.pc \in Worker =>
         /\ cli'.op = cli.op /\ cli'.seen = cli.seen
         /\ cli.pc \in Worker \/ CreateOperation \/ RescopeOperation \/ ResumeAsIs

LEMMA KeepsJournals ==
    ASSUME TypeOK, PlacesKnown, Next
    PROVE  JournalsKept \/ CreateOperation \/ RescopeOperation \/ CheckpointSource \/ Advance
<1>w. /\ DOMAIN journal = Ops
      /\ \A o \in Ops : Known(o) => journal[o] \in Journals
      /\ cli.pc \notin {"idle", "create"} => cli.op \in Ops /\ Known(cli.op)
  BY DEF TypeOK, PlacesKnown
<1>0. ASSUME UNCHANGED journal PROVE JournalsKept
  BY <1>0 DEF JournalsKept
<1>1. ASSUME NEW o \in Ops, Known(o), NEW k, journal' = [journal EXCEPT ![o] = k],
             k.input = journal[o].input, k.done = journal[o].done,
             \/ k.phase \in {journal[o].phase, "Cancelled"}
             \/ journal[o].phase \in Over /\ k.phase \in Over
      PROVE  JournalsKept
  BY <1>1, <1>w DEF JournalsKept
<1>2. ASSUME ResumeCancelled PROVE JournalsKept
  <2>. DEFINE k == IF J.phase \in Terminal THEN J ELSE Cancelled(J)
  <2>1. cli.op \in Ops /\ Known(cli.op) /\ J \in Journals
    BY <1>2, <1>w DEF ResumeCancelled
  <2>2. /\ k.input = J.input /\ k.done = J.done
        /\ \/ k.phase \in {J.phase, "Cancelled"}
           \/ J.phase \in Over /\ k.phase \in Over
    BY <1>2, <2>1 DEF ResumeCancelled, Journals, Cancelled
  <2>3. journal' = [journal EXCEPT ![cli.op] = k]
    BY <1>2 DEF ResumeCancelled
  <2>. HIDE DEF k
  <2>. QED BY <1>0, <1>1, <2>1, <2>2, <2>3
<1>3. ASSUME ResumeRestart PROVE JournalsKept
  <2>. DEFINE k == [J EXCEPT !.failure = IF @ = "none" THEN "permanent" ELSE @]
  <2>1. cli.op \in Ops /\ Known(cli.op) /\ J \in Journals
    BY <1>3, <1>w DEF ResumeRestart
  <2>2. /\ k.input = J.input /\ k.done = J.done
        /\ \/ k.phase \in {J.phase, "Cancelled"}
           \/ J.phase \in Over /\ k.phase \in Over
    BY <1>3, <2>1 DEF ResumeRestart, Journals
  <2>3. journal' = [journal EXCEPT ![cli.op] = k]
    BY <1>3 DEF ResumeRestart
  <2>. HIDE DEF k
  <2>. QED BY <1>0, <1>1, <2>1, <2>2, <2>3
<1>4. ASSUME ResumeAsIs PROVE JournalsKept
  <2>. DEFINE k == [J EXCEPT !.failure = "none"]
  <2>1. cli.op \in Ops /\ Known(cli.op) /\ J \in Journals
    BY <1>4, <1>w DEF ResumeAsIs
  <2>2. /\ k.input = J.input /\ k.done = J.done
        /\ \/ k.phase \in {J.phase, "Cancelled"}
           \/ J.phase \in Over /\ k.phase \in Over
    BY <1>4, <2>1 DEF ResumeAsIs, Journals
  <2>3. UNCHANGED journal \/ journal' = [journal EXCEPT ![cli.op] = k]
    BY <1>4 DEF ResumeAsIs
  <2>. HIDE DEF k
  <2>. QED BY <1>0, <1>1, <2>1, <2>2, <2>3
<1>5. ASSUME LoopCancelled PROVE JournalsKept
  <2>. DEFINE k == Cancelled(J)
  <2>1. cli.op \in Ops /\ Known(cli.op) /\ J \in Journals
    BY <1>5, <1>w DEF LoopCancelled
  <2>2. /\ k.input = J.input /\ k.done = J.done
        /\ \/ k.phase \in {J.phase, "Cancelled"}
           \/ J.phase \in Over /\ k.phase \in Over
    BY <1>5, <2>1 DEF LoopCancelled, Journals, Cancelled
  <2>3. journal' = [journal EXCEPT ![cli.op] = k]
    BY <1>5 DEF LoopCancelled
  <2>. HIDE DEF k
  <2>. QED BY <1>0, <1>1, <2>1, <2>2, <2>3
<1>6. ASSUME Select PROVE JournalsKept
  <2>. DEFINE k == [J EXCEPT !.phase = "Activating"]
  <2>1. cli.op \in Ops /\ Known(cli.op) /\ J \in Journals
    BY <1>6, <1>w DEF Select
  <2>2. /\ k.input = J.input /\ k.done = J.done
        /\ \/ k.phase \in {J.phase, "Cancelled"}
           \/ J.phase \in Over /\ k.phase \in Over
    BY <1>6, <2>1 DEF Select, Journals, Over
  <2>3. UNCHANGED journal \/ journal' = [journal EXCEPT ![cli.op] = k]
    BY <1>6 DEF Select
  <2>. HIDE DEF k
  <2>. QED BY <1>0, <1>1, <2>1, <2>2, <2>3
<1>14. ASSUME RecordEmbedded PROVE JournalsKept
  <2>. DEFINE k == [J EXCEPT !.embedded = TRUE]
  <2>1. cli.op \in Ops /\ Known(cli.op) /\ J \in Journals
    BY <1>14, <1>w DEF RecordEmbedded
  <2>2. k.input = J.input /\ k.done = J.done /\ k.phase = J.phase
    BY <2>1 DEF Journals
  <2>3. UNCHANGED journal \/ journal' = [journal EXCEPT ![cli.op] = k]
    BY <1>14 DEF RecordEmbedded
  <2>. HIDE DEF k
  <2>. QED BY <1>0, <1>1, <2>1, <2>2, <2>3
<1>7. ASSUME CompleteActivation PROVE JournalsKept
  <2>. DEFINE k == [J EXCEPT !.phase = "Activated"]
  <2>1. cli.op \in Ops /\ Known(cli.op) /\ J \in Journals
    BY <1>7, <1>w DEF CompleteActivation
  <2>2. /\ k.input = J.input /\ k.done = J.done
        /\ \/ k.phase \in {J.phase, "Cancelled"}
           \/ J.phase \in Over /\ k.phase \in Over
    BY <1>7, <2>1 DEF CompleteActivation, Journals, Over, PlacesKnown
  <2>3. UNCHANGED journal \/ journal' = [journal EXCEPT ![cli.op] = k]
    BY <1>7 DEF CompleteActivation
  <2>. HIDE DEF k
  <2>. QED BY <1>0, <1>1, <2>1, <2>2, <2>3
<1>8. ASSUME FailCancelled PROVE JournalsKept
  <2>. DEFINE k == Cancelled(J)
  <2>1. cli.op \in Ops /\ Known(cli.op) /\ J \in Journals
    BY <1>8, <1>w DEF FailCancelled
  <2>2. /\ k.input = J.input /\ k.done = J.done
        /\ \/ k.phase \in {J.phase, "Cancelled"}
           \/ J.phase \in Over /\ k.phase \in Over
    BY <1>8, <2>1 DEF FailCancelled, Journals, Cancelled
  <2>3. journal' = [journal EXCEPT ![cli.op] = k]
    BY <1>8 DEF FailCancelled
  <2>. HIDE DEF k
  <2>. QED BY <1>0, <1>1, <2>1, <2>2, <2>3
<1>9. ASSUME RecordFailure PROVE JournalsKept
  <2>. DEFINE k == [J EXCEPT !.failure = cli.err]
  <2>1. cli.op \in Ops /\ Known(cli.op) /\ J \in Journals
    BY <1>9, <1>w DEF RecordFailure
  <2>2. /\ k.input = J.input /\ k.done = J.done
        /\ \/ k.phase \in {J.phase, "Cancelled"}
           \/ J.phase \in Over /\ k.phase \in Over
    BY <1>9, <2>1 DEF RecordFailure, Journals
  <2>3. UNCHANGED journal \/ journal' = [journal EXCEPT ![cli.op] = k]
    BY <1>9 DEF RecordFailure
  <2>. HIDE DEF k
  <2>. QED BY <1>0, <1>1, <2>1, <2>2, <2>3
<1>10. ASSUME NEW o \in Ops, RequestCancel(o) PROVE JournalsKept
  <2>. DEFINE k == [journal[o] EXCEPT !.cancel = TRUE]
  <2>1. Known(o) /\ journal[o] \in Journals
    BY <1>10, <1>w DEF RequestCancel
  <2>2. k.input = journal[o].input /\ k.done = journal[o].done /\ k.phase = journal[o].phase
    BY <2>1 DEF Journals
  <2>3. journal' = [journal EXCEPT ![o] = k]
    BY <1>10 DEF RequestCancel
  <2>. HIDE DEF k
  <2>. QED BY <1>1, <2>1, <2>2, <2>3
<1>11. ASSUME NEW o \in Ops, NEW f \in BOOLEAN, BeginDiscard(o, f) PROVE JournalsKept
  <2>. DEFINE k == IF /\ f /\ journal[o].cancel /\ journal[o].failure = "none"
                      /\ journal[o].phase # "Cancelled"
                   THEN Cancelled(journal[o]) ELSE journal[o]
  <2>1. Known(o) /\ journal[o] \in Journals
    BY <1>11, <1>w DEF BeginDiscard
  <2>2. /\ k.input = journal[o].input /\ k.done = journal[o].done
        /\ k.phase \in {journal[o].phase, "Cancelled"}
    BY <2>1 DEF Journals, Cancelled
  <2>3. journal' = [journal EXCEPT ![o] = k]
    BY <1>11 DEF BeginDiscard
  <2>. HIDE DEF k
  <2>. QED BY <1>1, <2>1, <2>2, <2>3
<1>12. ASSUME Entomb PROVE JournalsKept
  BY <1>12, <1>w DEF Entomb, JournalsKept
<1>13. \/ UNCHANGED journal
       \/ CreateOperation \/ RescopeOperation \/ CheckpointSource \/ Advance
       \/ ResumeCancelled \/ ResumeRestart \/ ResumeAsIs \/ LoopCancelled \/ Select
       \/ RecordEmbedded
       \/ CompleteActivation \/ FailCancelled \/ RecordFailure \/ Entomb
       \/ \E o \in Ops : RequestCancel(o)
       \/ \E o \in Ops, f \in BOOLEAN : BeginDiscard(o, f)
  BY DEF Next, Rebuild, Operator, Environment, BeginNew, Begin, BeginResume,
         RecordInputs, ResumeUnattributable, ResumeRescope, LoopEnds, LoopWorks,
         WorkStale, WorkWithoutSlot, EnsurePlannedDatabase, IndexSource,
         InvalidateEmbeddings, FinishGraph, BuildDerived, Validate, WorkFails,
         CompareAndSwapCurrent, SmokeFails, FailLoaded, DiscardRefused, DiscardSlot,
         Prune, Rollback, DaemonResolve, DaemonOpen, DaemonWrites, DaemonStops, Edit,
         Crash
<1>. QED BY <1>0, <1>2, <1>3, <1>4, <1>5, <1>6, <1>7, <1>8, <1>9, <1>10, <1>11, <1>12, <1>13,
        <1>14

LEMMA KeepsSlots ==
    ASSUME TypeOK, PlacesKnown, Next
    PROVE  \/ SlotsKept \/ EnsurePlannedDatabase \/ FinishGraph \/ BuildDerived
           \/ \E s \in Sources : IndexSource(s)
<1>w. /\ DOMAIN slot = Ops
      /\ \A o \in Ops : Staged(o) => slot[o] \in Slots
      /\ cli.pc # "idle" => cli.op \in Ops
      /\ cli.pc \in {"indexed", "checkpoint"} => Staged(cli.op)
  BY DEF TypeOK, PlacesKnown
<1>0. ASSUME UNCHANGED slot PROVE SlotsKept
  BY <1>0 DEF SlotsKept
<1>1. ASSUME NEW o \in Ops, Staged(o), NEW k, slot' = [slot EXCEPT ![o] = k],
             k.graph = slot[o].graph, k.history = slot[o].history, k.built = slot[o].built
      PROVE  SlotsKept
  BY <1>1, <1>w DEF SlotsKept
<1>2. ASSUME InvalidateEmbeddings PROVE SlotsKept
  <2>1. PICK s \in cli.picked : slot' = [slot EXCEPT ![cli.op] = [S EXCEPT !.vectors[s] =
                                   IF cli.before \notin {0, S.graph[s]} THEN 0 ELSE @]]
    BY <1>2 DEF InvalidateEmbeddings
  <2>. DEFINE k == [S EXCEPT !.vectors[s] = IF cli.before \notin {0, S.graph[s]} THEN 0 ELSE @]
  <2>2. cli.op \in Ops /\ Staged(cli.op) /\ S \in Slots
    BY <1>2, <1>w DEF InvalidateEmbeddings
  <2>3. k.graph = S.graph /\ k.history = S.history /\ k.built = S.built
    BY <2>2 DEF Slots
  <2>4. slot' = [slot EXCEPT ![cli.op] = k]
    BY <2>1
  <2>. HIDE DEF k
  <2>. QED BY <1>1, <2>2, <2>3, <2>4
<1>3. ASSUME Validate PROVE SlotsKept
  <2>. DEFINE k == [S EXCEPT !.manifest = TRUE]
  <2>1. cli.op \in Ops /\ Staged(cli.op) /\ S \in Slots
    BY <1>3, <1>w DEF Validate
  <2>2. k.graph = S.graph /\ k.history = S.history /\ k.built = S.built
    BY <2>1 DEF Slots
  <2>3. UNCHANGED slot \/ slot' = [slot EXCEPT ![cli.op] = k]
    BY <1>3 DEF Validate
  <2>. HIDE DEF k
  <2>. QED BY <1>0, <1>1, <2>1, <2>2, <2>3
<1>4. ASSUME DaemonWrites PROVE SlotsKept
  <2>. DEFINE d == daemon.db
              k == [slot[d] EXCEPT !.touched = TRUE]
  <2>1. d \in Ops /\ Staged(d) /\ slot[d] \in Slots
    BY <1>4, <1>w DEF DaemonWrites
  <2>2. k.graph = slot[d].graph /\ k.history = slot[d].history /\ k.built = slot[d].built
    BY <2>1 DEF Slots
  <2>3. slot' = [slot EXCEPT ![d] = k]
    BY <1>4 DEF DaemonWrites
  <2>. HIDE DEF k, d
  <2>. QED BY <1>1, <2>1, <2>2, <2>3
<1>5. ASSUME DiscardSlot \/ Entomb PROVE SlotsKept
  BY <1>5, <1>w DEF DiscardSlot, Entomb, SlotsKept
<1>6. ASSUME NEW gone \in SUBSET Ops, Prune(gone) PROVE SlotsKept
  BY <1>6 DEF Prune, SlotsKept
<1>7. \/ UNCHANGED slot \/ EnsurePlannedDatabase \/ FinishGraph \/ BuildDerived
      \/ \E s \in Sources : IndexSource(s)
      \/ InvalidateEmbeddings \/ Validate \/ DaemonWrites \/ DiscardSlot \/ Entomb
      \/ \E gone \in SUBSET Ops : Prune(gone)
  BY DEF Next, Rebuild, Operator, Environment, BeginNew, Begin, BeginResume,
         CreateOperation, RecordInputs, ResumeCancelled, ResumeRestart,
         ResumeUnattributable, ResumeRescope, RescopeOperation, ResumeAsIs,
         LoopCancelled, LoopEnds, LoopWorks, WorkStale, WorkWithoutSlot,
         CheckpointSource, RecordEmbedded, Advance, WorkFails, Select, CompareAndSwapCurrent,
         SmokeFails, CompleteActivation, FailCancelled, FailLoaded, RecordFailure,
         RequestCancel, BeginDiscard, DiscardRefused, Rollback, DaemonResolve,
         DaemonOpen, DaemonStops, Edit, Crash
<1>. QED BY <1>0, <1>2, <1>3, <1>4, <1>5, <1>6, <1>7

LEMMA KeepsCommand ==
    ASSUME TypeOK, PlacesKnown, Next
    PROVE  /\ SeenKept
           /\ \/ CommandQuiet
              \/ \E o \in Ops, a \in BOOLEAN : BeginResume(o, a)
              \/ ResumeRescope \/ EnsurePlannedDatabase \/ \E s \in Sources : IndexSource(s)
              \/ InvalidateEmbeddings \/ FinishGraph \/ BuildDerived \/ Validate
<1>t. cli \in Commands
  BY DEF TypeOK
<1>0. ASSUME UNCHANGED cli PROVE CommandQuiet /\ SeenKept
  BY <1>0 DEF CommandQuiet, SeenKept, Worker
<1>1. ASSUME cli' = NoCommand PROVE CommandQuiet /\ SeenKept
  BY <1>1 DEF CommandQuiet, SeenKept, Worker, NoCommand
<1>2. ASSUME CreateOperation PROVE CommandQuiet /\ SeenKept
  BY <1>2, <1>t DEF CreateOperation, CommandQuiet, SeenKept, Worker, Commands
<1>3. ASSUME RecordInputs PROVE CommandQuiet /\ SeenKept
  BY <1>3, <1>t DEF RecordInputs, CommandQuiet, SeenKept, Worker, Commands
<1>4. ASSUME ResumeRestart PROVE CommandQuiet /\ SeenKept
  BY <1>4, <1>t DEF ResumeRestart, CommandQuiet, SeenKept, Worker, Commands
<1>5. ASSUME RescopeOperation PROVE CommandQuiet /\ SeenKept
  <2>1. CASE ~(cli' = NoCommand)
    BY <1>5, <2>1, <1>t DEF RescopeOperation, CommandQuiet, SeenKept, Worker, Commands
  <2>. QED BY <1>1, <2>1
<1>6. ASSUME ResumeAsIs PROVE CommandQuiet /\ SeenKept
  <2>1. CASE ~(cli' = NoCommand)
    BY <1>6, <2>1, <1>t DEF ResumeAsIs, CommandQuiet, SeenKept, Worker, Commands
  <2>. QED BY <1>1, <2>1
<1>7. ASSUME LoopWorks PROVE CommandQuiet /\ SeenKept
  BY <1>7, <1>t DEF LoopWorks, CommandQuiet, SeenKept, Worker, Commands
<1>8. ASSUME WorkStale PROVE CommandQuiet /\ SeenKept
  BY <1>8, <1>t DEF WorkStale, CommandQuiet, SeenKept, Worker, Commands
<1>9. ASSUME WorkWithoutSlot PROVE CommandQuiet /\ SeenKept
  BY <1>9, <1>t DEF WorkWithoutSlot, CommandQuiet, SeenKept, Worker, Commands
<1>10. ASSUME CheckpointSource PROVE CommandQuiet /\ SeenKept
  BY <1>10, <1>t DEF CheckpointSource, CommandQuiet, SeenKept, Worker, Commands
<1>11. ASSUME Advance PROVE CommandQuiet /\ SeenKept
  BY <1>11, <1>t DEF Advance, CommandQuiet, SeenKept, Worker, Commands
<1>19. ASSUME RecordEmbedded PROVE CommandQuiet /\ SeenKept
  BY <1>19, <1>t DEF RecordEmbedded, CommandQuiet, SeenKept, Worker, Commands
<1>12. ASSUME Select PROVE CommandQuiet /\ SeenKept
  BY <1>12, <1>t DEF Select, CommandQuiet, SeenKept, Worker, Commands
<1>13. ASSUME CompareAndSwapCurrent PROVE CommandQuiet /\ SeenKept
  BY <1>13, <1>t DEF CompareAndSwapCurrent, CommandQuiet, SeenKept, Worker, Commands
<1>14. ASSUME SmokeFails PROVE CommandQuiet /\ SeenKept
  BY <1>14, <1>t DEF SmokeFails, CommandQuiet, SeenKept, Worker, Commands
<1>15. ASSUME CompleteActivation PROVE CommandQuiet /\ SeenKept
  <2>1. CASE ~(cli' = NoCommand)
    BY <1>15, <2>1, <1>t DEF CompleteActivation, CommandQuiet, SeenKept, Worker, Commands
  <2>. QED BY <1>1, <2>1
<1>16. ASSUME FailLoaded PROVE CommandQuiet /\ SeenKept
  BY <1>16, <1>t DEF FailLoaded, CommandQuiet, SeenKept, Worker, Commands
<1>17. ASSUME DiscardSlot PROVE CommandQuiet /\ SeenKept
  BY <1>17, <1>t DEF DiscardSlot, CommandQuiet, SeenKept, Worker, Commands
<1>18. ASSUME Entomb PROVE CommandQuiet /\ SeenKept
  <2>1. CASE ~(cli' = NoCommand)
    <3>1. PICK o \in Ops : cli' = [cli EXCEPT !.pc = "create", !.op = o, !.restart = FALSE]
      BY <1>18, <2>1 DEF Entomb
    <3>. QED BY <3>1, <1>t DEF CommandQuiet, SeenKept, Worker, Commands
  <2>. QED BY <1>1, <2>1
<1>30. ASSUME NEW o \in Ops, NEW a \in BOOLEAN, BeginNew(o, a) PROVE CommandQuiet /\ SeenKept
  BY <1>30 DEF BeginNew, Begin, NoCommand, CommandQuiet, SeenKept, Worker
<1>31. ASSUME NEW k \in {"retryable", "permanent"}, WorkFails(k) PROVE CommandQuiet /\ SeenKept
  BY <1>31, <1>t DEF WorkFails, CommandQuiet, SeenKept, Worker, Commands
<1>32. ASSUME NEW o \in Ops, RequestCancel(o) PROVE CommandQuiet /\ SeenKept
  BY <1>32, <1>t DEF RequestCancel, CommandQuiet, SeenKept, Worker, Commands
<1>33. ASSUME NEW o \in Ops, NEW f \in BOOLEAN, BeginDiscard(o, f) PROVE CommandQuiet /\ SeenKept
  BY <1>33 DEF BeginDiscard, NoCommand, CommandQuiet, SeenKept, Worker
<1>41. ASSUME NEW o \in Ops, NEW a \in BOOLEAN, BeginResume(o, a) PROVE SeenKept
  BY <1>41, <1>t DEF BeginResume, Begin, NoCommand, SeenKept, Worker, Commands
<1>42. ASSUME ResumeRescope PROVE SeenKept
  BY <1>42, <1>t DEF ResumeRescope, SeenKept, Worker, Commands
<1>43. ASSUME EnsurePlannedDatabase PROVE SeenKept
  BY <1>43, <1>t DEF EnsurePlannedDatabase, SeenKept, Worker, Commands
<1>44. ASSUME NEW s \in Sources, IndexSource(s) PROVE SeenKept
  BY <1>44, <1>t DEF IndexSource, SeenKept, Worker, Commands
<1>45. ASSUME InvalidateEmbeddings PROVE SeenKept
  BY <1>45, <1>t DEF InvalidateEmbeddings, SeenKept, Worker, Commands
<1>46. ASSUME FinishGraph PROVE SeenKept
  BY <1>46, <1>t DEF FinishGraph, SeenKept, Worker, Commands
<1>47. ASSUME BuildDerived PROVE SeenKept
  BY <1>47, <1>t DEF BuildDerived, SeenKept, Worker, Commands
<1>48. ASSUME Validate PROVE SeenKept
  BY <1>48, <1>t DEF Validate, SeenKept, Worker, Commands
<1>34. \/ UNCHANGED cli \/ cli' = NoCommand
       \/ \E o \in Ops, a \in BOOLEAN : BeginResume(o, a)
       \/ ResumeRescope \/ EnsurePlannedDatabase \/ \E s \in Sources : IndexSource(s)
       \/ InvalidateEmbeddings \/ FinishGraph \/ BuildDerived \/ Validate
       \/ CreateOperation \/ RecordInputs \/ ResumeRestart \/ RescopeOperation \/
          ResumeAsIs \/ LoopWorks \/ WorkStale \/ WorkWithoutSlot \/ CheckpointSource \/
          RecordEmbedded \/ Advance \/ Select \/ CompareAndSwapCurrent \/ SmokeFails \/
          CompleteActivation \/ FailLoaded \/ DiscardSlot \/ Entomb
       \/ \E o \in Ops, a \in BOOLEAN : BeginNew(o, a)
       \/ \E k \in {"retryable", "permanent"} : WorkFails(k)
       \/ \E o \in Ops : RequestCancel(o)
       \/ \E o \in Ops, f \in BOOLEAN : BeginDiscard(o, f)
  BY DEF Next, Rebuild, Operator, Environment, ResumeCancelled, ResumeUnattributable,
         LoopCancelled, LoopEnds, FailCancelled, RecordFailure, DiscardRefused,
         Prune, Rollback, DaemonResolve, DaemonOpen, DaemonWrites, DaemonStops, Edit,
         Crash
<1>. QED
  BY <1>0, <1>1, <1>2, <1>3, <1>4, <1>5, <1>6, <1>7, <1>8, <1>9, <1>10, <1>11, <1>12, <1>13,
        <1>14, <1>15, <1>16, <1>17, <1>18, <1>19, <1>30, <1>31, <1>32, <1>33, <1>34,
     <1>41, <1>42, <1>43, <1>44, <1>45, <1>46, <1>47, <1>48

\* Versions only grow.
LEMMA LiveGrows ==
    ASSUME TypeOK, Next
    PROVE  \A i \in Inputs : /\ live[i] \in DOMAIN Content /\ live'[i] \in DOMAIN Content
                              /\ live[i] <= live'[i]
<1>t. live \in [Inputs -> DOMAIN Content] /\ \A v \in DOMAIN Content : v \in Nat
  BY ContentType DEF TypeOK, Captures
<1>1. ASSUME NEW i \in Edited, NEW v \in DOMAIN Content, Edit(i, v), NEW j \in Inputs
      PROVE  live'[j] \in DOMAIN Content /\ live[j] <= live'[j]
  <2>1. CASE j = i
    BY <1>1, <1>t, <2>1 DEF Edit
  <2>2. CASE j # i
    BY <1>1, <1>t, <2>2 DEF Edit
  <2>. QED BY <2>1, <2>2
<1>2. UNCHANGED live \/ \E i \in Edited, v \in DOMAIN Content : Edit(i, v)
  BY DEF Next, Rebuild, Operator, Environment, BeginNew, Begin, BeginResume,
         CreateOperation, RecordInputs, ResumeCancelled, ResumeRestart,
         ResumeUnattributable, ResumeRescope, RescopeOperation, ResumeAsIs,
         LoopCancelled, LoopEnds, LoopWorks, WorkStale, WorkWithoutSlot,
         EnsurePlannedDatabase, IndexSource, InvalidateEmbeddings, CheckpointSource,
         FinishGraph, BuildDerived, Validate, RecordEmbedded, Advance, WorkFails, Select,
         CompareAndSwapCurrent, SmokeFails, CompleteActivation, FailCancelled,
         FailLoaded, RecordFailure, RequestCancel, BeginDiscard, DiscardRefused,
         DiscardSlot, Entomb, Prune, Rollback, DaemonResolve, DaemonOpen,
         DaemonWrites, DaemonStops, Crash
<1>3. ASSUME UNCHANGED live, NEW i \in Inputs
      PROVE  live'[i] \in DOMAIN Content /\ live[i] <= live'[i]
  BY <1>3, <1>t
<1>. QED BY <1>t, <1>1, <1>2, <1>3

\* The steps that write a plan, a checkpoint or a phase.
LEMMA JournalWriters ==
    ASSUME TypeOK, PlacesKnown
    PROVE  /\ CreateOperation =>
                /\ cli.op \in Ops
                /\ \A o \in Ops \ {cli.op} : journal'[o] = journal[o]
                /\ journal'[cli.op].input = cli.seen /\ journal'[cli.op].phase = "Planned"
                /\ \A s \in Sources : journal'[cli.op].done[s] = 0
           /\ RescopeOperation /\ ~JournalsKept =>
                /\ cli.op \in Ops /\ Known(cli.op) /\ J \in Journals
                /\ \A o \in Ops \ {cli.op} : journal'[o] = journal[o]
                /\ journal'[cli.op].input = cli.seen
                /\ journal'[cli.op].phase = IF J.phase = "Planned" THEN J.phase ELSE "Graph"
                /\ \A s \in Sources : journal'[cli.op].done[s] =
                                        IF s \in cli.picked THEN 0 ELSE J.done[s]
           /\ CheckpointSource /\ ~JournalsKept =>
                /\ cli.op \in Ops /\ Known(cli.op) /\ J \in Journals
                /\ \A o \in Ops \ {cli.op} : journal'[o] = journal[o]
                /\ journal'[cli.op].input = J.input /\ journal'[cli.op].phase = J.phase
                /\ \E s \in cli.picked : \A t \in Sources \ {s} :
                      journal'[cli.op].done[t] = J.done[t]
           /\ Advance /\ ~JournalsKept =>
                /\ cli.op \in Ops /\ Known(cli.op) /\ J \in Journals
                /\ \A o \in Ops \ {cli.op} : journal'[o] = journal[o]
                /\ journal'[cli.op].input = J.input /\ journal'[cli.op].done = J.done
                /\ journal'[cli.op].phase = Successor(J.phase)
<1>w. /\ DOMAIN journal = Ops
      /\ cli.pc # "idle" => cli.op \in Ops
      /\ cli.pc \notin {"idle", "create"} => Known(cli.op) /\ J \in Journals
  BY DEF TypeOK, PlacesKnown
<1>0. UNCHANGED journal => JournalsKept
  BY DEF JournalsKept
<1>1. ASSUME CreateOperation
      PROVE  /\ cli.op \in Ops
             /\ \A o \in Ops \ {cli.op} : journal'[o] = journal[o]
             /\ journal'[cli.op].input = cli.seen /\ journal'[cli.op].phase = "Planned"
             /\ \A s \in Sources : journal'[cli.op].done[s] = 0
  BY <1>1, <1>w DEF CreateOperation
<1>2. ASSUME RescopeOperation, ~JournalsKept
      PROVE  /\ cli.op \in Ops /\ Known(cli.op) /\ J \in Journals
             /\ \A o \in Ops \ {cli.op} : journal'[o] = journal[o]
             /\ journal'[cli.op].input = cli.seen
             /\ journal'[cli.op].phase = IF J.phase = "Planned" THEN J.phase ELSE "Graph"
             /\ \A s \in Sources : journal'[cli.op].done[s] =
                                     IF s \in cli.picked THEN 0 ELSE J.done[s]
  <2>1. cli.op \in Ops /\ Known(cli.op) /\ J \in Journals
    BY <1>2, <1>w DEF RescopeOperation
  <2>2. journal' = [journal EXCEPT ![cli.op] = Rescoped(J, cli.picked, cli.seen)]
    BY <1>2, <1>0 DEF RescopeOperation
  <2>3. journal'[cli.op] = Rescoped(J, cli.picked, cli.seen)
    BY <2>1, <2>2, <1>w
  <2>4. \A o \in Ops \ {cli.op} : journal'[o] = journal[o]
    BY <2>1, <2>2, <1>w
  <2>. QED BY <2>1, <2>3, <2>4 DEF Rescoped, Journals
<1>3. ASSUME CheckpointSource, ~JournalsKept
      PROVE  /\ cli.op \in Ops /\ Known(cli.op) /\ J \in Journals
             /\ \A o \in Ops \ {cli.op} : journal'[o] = journal[o]
             /\ journal'[cli.op].input = J.input /\ journal'[cli.op].phase = J.phase
             /\ \E s \in cli.picked : \A t \in Sources \ {s} :
                   journal'[cli.op].done[t] = J.done[t]
  <2>1. cli.op \in Ops /\ Known(cli.op) /\ J \in Journals
    BY <1>3, <1>w DEF CheckpointSource
  <2>2. PICK s \in cli.picked :
           journal' = [journal EXCEPT ![cli.op] = [J EXCEPT !.done[s] = Digest(cli.seen, s)]]
    BY <1>3, <1>0 DEF CheckpointSource
  <2>3. journal'[cli.op] = [J EXCEPT !.done[s] = Digest(cli.seen, s)]
    BY <2>1, <2>2, <1>w
  <2>4. \A o \in Ops \ {cli.op} : journal'[o] = journal[o]
    BY <2>1, <2>2, <1>w
  <2>. QED BY <2>1, <2>3, <2>4 DEF Journals
<1>4. ASSUME Advance, ~JournalsKept
      PROVE  /\ cli.op \in Ops /\ Known(cli.op) /\ J \in Journals
             /\ \A o \in Ops \ {cli.op} : journal'[o] = journal[o]
             /\ journal'[cli.op].input = J.input /\ journal'[cli.op].done = J.done
             /\ journal'[cli.op].phase = Successor(J.phase)
  <2>1. cli.op \in Ops /\ Known(cli.op) /\ J \in Journals
    BY <1>4, <1>w DEF Advance
  <2>2. journal' = [journal EXCEPT ![cli.op] = [J EXCEPT !.phase = Successor(@)]]
    BY <1>4, <1>0 DEF Advance
  <2>. QED BY <2>1, <2>2, <1>w DEF Journals
<1>. QED BY <1>1, <1>2, <1>3, <1>4

LEMMA CapturesStep ==
    TypeOK /\ PlacesKnown /\ CapturesArePast /\ [Next]_vars => CapturesArePast'
<1>. SUFFICES ASSUME TypeOK, PlacesKnown, CapturesArePast, [Next]_vars PROVE CapturesArePast'
  OBVIOUS
<1>1. CASE UNCHANGED vars
  BY <1>1 DEF CapturesArePast, vars
<1>2. CASE Next
  <2>k. PlacesKnown'
    BY PlacesStep
  <2>t. /\ \A i \in Inputs : /\ live[i] \in Nat /\ live'[i] \in Nat /\ live[i] <= live'[i]
                             /\ 1 <= live[i] /\ cli.seen[i] \in Nat
        /\ \A o \in Ops : Known(o) => \A i \in Inputs : journal[o].input[i] \in Nat
    <3>1. \A v \in DOMAIN Content : v \in Nat /\ 1 <= v
      BY PublicationConstants
    <3>2. cli.seen \in [Inputs -> DOMAIN Content]
      BY DEF TypeOK, Commands, Captures
    <3>3. ASSUME NEW o \in Ops, Known(o) PROVE journal[o].input \in [Inputs -> DOMAIN Content]
      BY <3>3 DEF TypeOK, Journals, Captures
    <3>4. \A i \in Inputs : /\ live[i] \in DOMAIN Content /\ live'[i] \in DOMAIN Content
                            /\ live[i] <= live'[i]
      BY <1>2, LiveGrows
    <3>. QED BY <3>1, <3>2, <3>3, <3>4
  <2>s. SeenKept
    BY <1>2, KeepsCommand
  <2>w. JournalsKept \/ CreateOperation \/ RescopeOperation \/ CheckpointSource \/ Advance
    BY <1>2, KeepsJournals
  <2>1. ASSUME NEW i \in Inputs PROVE cli'.seen[i] <= live'[i]
    <3>1. cli.seen[i] <= live[i]
      BY DEF CapturesArePast
    <3>2. cli'.seen[i] \in {cli.seen[i], live[i], 1}
      BY <2>s DEF SeenKept
    <3>. QED BY <3>1, <3>2, <2>t
  <2>2. ASSUME NEW o \in Ops, journal'[o] \notin {Unborn, Gone}, NEW i \in Inputs
        PROVE  journal'[o].input[i] <= live'[i]
    <3>1. CASE o = cli.op /\ journal'[o].input = cli.seen
      BY <3>1, <2>t DEF CapturesArePast
    <3>2. CASE Known(o) /\ journal'[o].input = journal[o].input
      BY <3>2, <2>t DEF CapturesArePast
    <3>. QED BY <3>1, <3>2, <2>2, <2>w, JournalWriters DEF JournalsKept
  <2>3. ASSUME cli'.pc \in Worker
        PROVE  Fingerprint(journal'[cli'.op].input) = Fingerprint(cli'.seen)
    <3>1. cli'.op = cli.op /\ cli'.seen = cli.seen
      BY <2>3, <2>s DEF SeenKept
    <3>2. cli.op \in Ops /\ journal'[cli.op] \notin {Unborn, Gone}
      BY <2>3, <2>k, <3>1 DEF PlacesKnown, Worker
    <3>3. CASE journal'[cli.op].input = cli.seen
      BY <3>1, <3>3
    <3>4. CASE journal'[cli.op].input = J.input /\ cli.pc \in Worker
      BY <3>1, <3>4 DEF CapturesArePast
    <3>5. CASE ResumeAsIs
      <4>1. JournalsKept
        BY <3>5, <2>w DEF ResumeAsIs, CreateOperation, RescopeOperation, CheckpointSource, Advance
      <4>2. Fingerprint(J.input) = Fingerprint(cli.seen)
        BY <3>5, <2>3 DEF ResumeAsIs, NoCommand, Worker
      <4>. QED BY <4>1, <4>2, <3>1, <3>2 DEF JournalsKept
    <3>6. CASE cli.pc \in Worker
      BY <3>2, <3>3, <3>4, <3>6, <2>w, JournalWriters DEF JournalsKept
    <3>7. CASE CreateOperation
      BY <3>3, <3>7, JournalWriters
    <3>8. CASE RescopeOperation
      <4>1. journal' = [journal EXCEPT ![cli.op] = Rescoped(J, cli.picked, cli.seen)]
        BY <3>8, <2>3 DEF RescopeOperation, NoCommand, Worker
      <4>2. J \in Journals /\ DOMAIN journal = Ops
        BY <3>8 DEF RescopeOperation, PlacesKnown, TypeOK
      <4>3. journal'[cli.op].input = cli.seen
        BY <4>1, <4>2, <3>2 DEF Rescoped, Journals
      <4>. QED BY <4>3, <3>3
    <3>. QED BY <2>3, <2>s, <3>5, <3>6, <3>7, <3>8 DEF SeenKept
  <2>. QED BY <2>1, <2>2, <2>3 DEF CapturesArePast
<1>. QED BY <1>1, <1>2

\* The steps that write a slot's graph, history or indexes.
LEMMA SlotWriters ==
    ASSUME TypeOK, PlacesKnown
    PROVE  /\ EnsurePlannedDatabase =>
                /\ cli.op \in Ops /\ J.phase = "Planned" /\ UNCHANGED <<journal, live>>
                /\ \A o \in Ops \ {cli.op} : slot'[o] = slot[o]
           /\ FinishGraph =>
                /\ cli.op \in Ops /\ J.phase = "Graph" /\ UNCHANGED <<journal, live>>
                /\ \A o \in Ops \ {cli.op} : slot'[o] = slot[o]
                /\ Staged(cli.op) /\ slot'[cli.op].graph = S.graph
                /\ slot'[cli.op].history = Digest(cli.seen, "history")
           /\ BuildDerived =>
                /\ cli.op \in Ops /\ J.phase \in Derived /\ UNCHANGED <<journal, live>>
                /\ \A o \in Ops \ {cli.op} : slot'[o] = slot[o]
                /\ Staged(cli.op) /\ slot'[cli.op].graph = S.graph
                /\ slot'[cli.op].history = S.history
                /\ slot'[cli.op].built = S.built \cup {J.phase}
           /\ \A s \in Sources : IndexSource(s) =>
                /\ cli.op \in Ops /\ J.phase = "Graph" /\ UNCHANGED <<journal, live>>
                /\ \A o \in Ops \ {cli.op} : slot'[o] = slot[o]
                /\ J.done[s] = 0
                /\ Staged(cli.op) /\ slot'[cli.op].graph[s] = Digest(live, s)
                /\ \A t \in Sources \ {s} : slot'[cli.op].graph[t] = S.graph[t]
<1>w. /\ DOMAIN slot = Ops
      /\ cli.pc # "idle" => cli.op \in Ops
      /\ \A o \in Ops : Staged(o) => slot[o] \in Slots
  BY DEF TypeOK, PlacesKnown
<1>1. ASSUME EnsurePlannedDatabase
      PROVE  /\ cli.op \in Ops /\ J.phase = "Planned" /\ UNCHANGED <<journal, live>>
             /\ \A o \in Ops \ {cli.op} : slot'[o] = slot[o]
  BY <1>1, <1>w DEF EnsurePlannedDatabase
<1>2. ASSUME FinishGraph
      PROVE  /\ cli.op \in Ops /\ J.phase = "Graph" /\ UNCHANGED <<journal, live>>
             /\ \A o \in Ops \ {cli.op} : slot'[o] = slot[o]
             /\ Staged(cli.op) /\ slot'[cli.op].graph = S.graph
             /\ slot'[cli.op].history = Digest(cli.seen, "history")
  BY <1>2, <1>w DEF FinishGraph, Slots
<1>3. ASSUME BuildDerived
      PROVE  /\ cli.op \in Ops /\ J.phase \in Derived /\ UNCHANGED <<journal, live>>
             /\ \A o \in Ops \ {cli.op} : slot'[o] = slot[o]
             /\ Staged(cli.op) /\ slot'[cli.op].graph = S.graph
             /\ slot'[cli.op].history = S.history
             /\ slot'[cli.op].built = S.built \cup {J.phase}
  BY <1>3, <1>w DEF BuildDerived, Slots
<1>4. ASSUME NEW s \in Sources, IndexSource(s)
      PROVE  /\ cli.op \in Ops /\ J.phase = "Graph" /\ UNCHANGED <<journal, live>>
             /\ \A o \in Ops \ {cli.op} : slot'[o] = slot[o]
             /\ J.done[s] = 0
             /\ Staged(cli.op) /\ slot'[cli.op].graph[s] = Digest(live, s)
             /\ \A t \in Sources \ {s} : slot'[cli.op].graph[t] = S.graph[t]
  BY <1>4, <1>w DEF IndexSource, Slots
<1>. QED BY <1>1, <1>2, <1>3, <1>4

\* Digests are what fingerprints tell apart, and sources count by their version.
LEMMA SameFingerprint ==
    ASSUME NEW m, NEW n, Fingerprint(m) = Fingerprint(n), NEW i \in Inputs
    PROVE  Digest(m, i) = Digest(n, i) /\ (i \in Sources => m[i] = n[i])
<1>1. Fingerprint(m)[i] = Fingerprint(n)[i]
  OBVIOUS
<1>. QED BY <1>1 DEF Fingerprint, Digest

\* What was indexed in the past was indexed between the plan's capture and now.
LEMMA IndexedStays ==
    ASSUME TypeOK, Next, NEW o \in Ops, Known(o), Staged(o), NEW s \in Sources,
           IndexedBetween(o, s, live),
           journal'[o].input[s] = journal[o].input[s], slot'[o].graph[s] = slot[o].graph[s]
    PROVE  IndexedBetween(o, s, live)'
<1>1. PICK v \in DOMAIN Content :
         journal[o].input[s] <= v /\ v <= live[s] /\ slot[o].graph[s] = Content[v]
  BY DEF IndexedBetween
<1>2. s \in Inputs /\ live[s] \in Nat /\ live'[s] \in Nat /\ v \in Nat /\ live[s] <= live'[s]
  BY LiveGrows, ContentType DEF Inputs
<1>3. journal'[o].input[s] <= v /\ v <= live'[s] /\ slot'[o].graph[s] = Content[v]
  BY <1>1, <1>2
<1>. QED BY <1>3 DEF IndexedBetween

\* Where a plan or a slot is written: every other step keeps both.
LEMMA PlanWriters ==
    ASSUME TypeOK, PlacesKnown, Next
    PROVE  \/ JournalsKept /\ SlotsKept
           \/ EnsurePlannedDatabase \/ FinishGraph \/ BuildDerived
           \/ \E s \in Sources : IndexSource(s)
           \/ CreateOperation
           \/ RescopeOperation /\ ~JournalsKept
           \/ CheckpointSource /\ ~JournalsKept
           \/ Advance /\ ~JournalsKept
BY KeepsJournals, KeepsSlots

LEMMA CheckpointsStep ==
    ASSUME NeverChangedBack, TypeOK, PlacesKnown, PlanInv, Next,
           NEW o \in Ops, journal'[o] \notin {Unborn, Gone}
    PROVE  CheckpointsRight(o)'
<1>h. Known(o) => CheckpointsRight(o)
  BY DEF PlanInv
<1>s. \A s \in Sources : s \in Inputs
  BY DEF Inputs
<1>k. \A p \in Later \cup Over : p \notin {"Planned", "Graph", "Cancelled"}
  BY DEF Later, Over
<1>1. CASE JournalsKept /\ SlotsKept
  <2>1. /\ Known(o) /\ journal'[o].input = journal[o].input /\ journal'[o].done = journal[o].done
        /\ \/ journal'[o].phase \in {journal[o].phase, "Cancelled"}
           \/ journal[o].phase \in Over /\ journal'[o].phase \in Over
    BY <1>1 DEF JournalsKept
  <2>2. slot'[o] # None => Staged(o) /\ slot'[o].graph = slot[o].graph
    BY <1>1 DEF SlotsKept
  <2>3. ASSUME NEW s \in Sources, slot'[o] # None, journal'[o].done[s] # 0
        PROVE  IndexedBetween(o, s, live)'
    BY <1>h, <2>1, <2>2, <2>3, IndexedStays DEF CheckpointsRight
  <2>. QED BY <1>h, <1>k, <2>1, <2>3 DEF CheckpointsRight
<1>2. CASE o # cli.op /\ ~(JournalsKept /\ SlotsKept)
  <2>1. journal'[o] = journal[o] /\ slot'[o] = slot[o]
    BY <1>2, PlanWriters, JournalWriters, SlotWriters
       DEF CreateOperation, RescopeOperation, CheckpointSource, Advance
  <2>2. ASSUME NEW s \in Sources, slot'[o] # None, journal'[o].done[s] # 0
        PROVE  IndexedBetween(o, s, live)'
    BY <1>h, <2>1, <2>2, IndexedStays DEF CheckpointsRight
  <2>. QED BY <1>h, <2>1, <2>2 DEF CheckpointsRight
<1>3. CASE o = cli.op /\ EnsurePlannedDatabase
  <2>1. J.phase = "Planned" /\ journal' = journal /\ Known(o)
    BY <1>3, SlotWriters
  <2>. QED BY <1>3, <1>h, <1>k, <2>1 DEF CheckpointsRight
<1>4. CASE o = cli.op /\ (FinishGraph \/ BuildDerived)
  <2>1. journal' = journal /\ Known(o) /\ Staged(o) /\ slot'[o].graph = slot[o].graph
    BY <1>4, SlotWriters
  <2>2. ASSUME NEW s \in Sources, journal'[o].done[s] # 0 PROVE IndexedBetween(o, s, live)'
    BY <1>h, <2>1, <2>2, IndexedStays DEF CheckpointsRight
  <2>. QED BY <1>h, <2>1, <2>2 DEF CheckpointsRight
<1>5. CASE o = cli.op /\ \E s \in Sources : IndexSource(s)
  <2>1. PICK s \in Sources : IndexSource(s)
    BY <1>5
  <2>2. /\ journal' = journal /\ Known(o) /\ Staged(o) /\ journal[o].done[s] = 0
        /\ \A t \in Sources \ {s} : slot'[o].graph[t] = slot[o].graph[t]
    BY <1>5, <2>1, SlotWriters
  <2>3. ASSUME NEW t \in Sources, journal'[o].done[t] # 0 PROVE IndexedBetween(o, t, live)'
    BY <1>h, <2>2, <2>3, IndexedStays DEF CheckpointsRight
  <2>. QED BY <1>h, <2>2, <2>3 DEF CheckpointsRight
<1>6. CASE o = cli.op /\ CreateOperation
  <2>1. journal'[o].phase = "Planned" /\ \A s \in Sources : journal'[o].done[s] = 0
    BY <1>6, JournalWriters
  <2>. QED BY <1>k, <2>1 DEF CheckpointsRight
<1>7. CASE o = cli.op /\ RescopeOperation /\ ~JournalsKept
  <2>1. /\ Known(o) /\ journal'[o].input = cli.seen
        /\ journal'[o].phase = IF J.phase = "Planned" THEN J.phase ELSE "Graph"
        /\ \A s \in Sources : journal'[o].done[s] = IF s \in cli.picked THEN 0 ELSE J.done[s]
    BY <1>7, JournalWriters
  <2>2. slot' = slot /\ live' = live /\ At("rescope")
    BY <1>7 DEF RescopeOperation
  <2>3. ASSUME NEW s \in Sources, slot'[o] # None, journal'[o].done[s] # 0
        PROVE  IndexedBetween(o, s, live)'
    <3>1. J.done[s] # 0 /\ s \notin cli.picked /\ Staged(cli.op)
      BY <1>7, <2>1, <2>2, <2>3
    <3>2. PICK v \in DOMAIN Content :
             J.input[s] <= v /\ v <= cli.seen[s] /\ S.graph[s] = Content[v]
      BY <3>1, <2>2 DEF PlanInv, CommandKnows, IndexedBetween
    <3>3. Content[J.input[s]] = Content[cli.seen[s]]
      BY <3>1, <2>2 DEF PlanInv, CommandKnows, Digest
    <3>4. /\ J.input[s] \in DOMAIN Content /\ cli.seen[s] \in DOMAIN Content
          /\ cli.seen[s] \in Nat /\ cli.seen[s] <= live[s]
      BY <1>7, <1>s, <2>1, ContentType
         DEF TypeOK, Commands, Journals, Captures, PlanInv, CapturesArePast
    <3>5. Content[v] = Content[cli.seen[s]]
      BY <3>2, <3>3, <3>4 DEF NeverChangedBack
    <3>6. /\ journal'[o].input[s] <= cli.seen[s] /\ cli.seen[s] <= live'[s]
          /\ slot'[o].graph[s] = Content[cli.seen[s]]
      BY <1>7, <2>1, <2>2, <3>2, <3>4, <3>5
    <3>. QED BY <3>4, <3>6 DEF IndexedBetween
  <2>4. J.phase = "Planned" => \A s \in Sources : J.done[s] = 0
    BY <1>7, <1>h, <2>1 DEF CheckpointsRight
  <2>. QED BY <1>k, <2>1, <2>3, <2>4 DEF CheckpointsRight
<1>8. CASE o = cli.op /\ CheckpointSource /\ ~JournalsKept
  <2>1. PICK s \in cli.picked :
          /\ Known(o) /\ journal'[o].input = J.input /\ journal'[o].phase = J.phase
          /\ \A t \in Sources \ {s} : journal'[o].done[t] = J.done[t]
    BY <1>8, JournalWriters
  <2>2. slot' = slot /\ live' = live /\ At("checkpoint") /\ J.phase = "Graph" /\ Staged(o)
    BY <1>8 DEF CheckpointSource, PlacesKnown
  <2>3. ASSUME NEW t \in Sources, journal'[o].done[t] # 0 PROVE IndexedBetween(o, t, live)'
    <3>1. IndexedBetween(o, t, live)
      BY <1>8, <1>h, <2>1, <2>2, <2>3 DEF CheckpointsRight, PlanInv, CommandKnows
    <3>. QED BY <1>8, <2>1, <2>2, <3>1, IndexedStays
  <2>. QED BY <1>k, <2>1, <2>2, <2>3 DEF CheckpointsRight
<1>9. CASE o = cli.op /\ Advance /\ ~JournalsKept
  <2>1. /\ Known(o) /\ journal'[o].input = J.input /\ journal'[o].done = J.done
        /\ journal'[o].phase = Successor(J.phase)
    BY <1>9, JournalWriters
  <2>2. slot' = slot /\ live' = live /\ At("advance") /\ J.phase \in Staging
    BY <1>9 DEF Advance, PlacesKnown
  <2>3. ASSUME NEW s \in Sources, slot'[o] # None, journal'[o].done[s] # 0
        PROVE  IndexedBetween(o, s, live)'
    BY <1>9, <1>h, <2>1, <2>2, <2>3, IndexedStays DEF CheckpointsRight
  <2>4. J.phase \in Later \/ J.phase = "Graph" => \A s \in Sources : J.done[s] # 0
    BY <1>9, <1>h, <2>1, <2>2 DEF CheckpointsRight, PlanInv, CommandKnows
  <2>5. /\ journal'[o].phase # "Planned"
        /\ J.phase = "Planned" => journal'[o].phase = "Graph"
    BY <2>1, <2>2, PhaseFacts DEF Later
  <2>. QED BY <1>k, <2>1, <2>2, <2>3, <2>4, <2>5, PhaseFacts DEF CheckpointsRight
<1>. QED BY <1>1, <1>2, <1>3, <1>4, <1>5, <1>6, <1>7, <1>8, <1>9, PlanWriters

\* The derived indexes are built in the order of their phases.
LEMMA BuiltInOrder ==
    /\ BuiltBefore("TextSearch") = {}
    /\ \A p \in Derived : BuiltBefore(Successor(p)) = BuiltBefore(p) \cup {p}
    /\ \A p \in Over \cup {"Validating"} : BuiltBefore(p) = Derived
<1>1. /\ BuiltBefore("TextSearch") = {}
      /\ BuiltBefore("Regex") = {"TextSearch"}
      /\ BuiltBefore("Embeddings") = {"TextSearch", "Regex"}
      /\ BuiltBefore("Metadata") = {"TextSearch", "Regex", "Embeddings"}
      /\ \A p \in {"Validating", "Ready", "Activating", "Activated"} : BuiltBefore(p) = Derived
  BY DEF BuiltBefore
<1>. QED BY <1>1, PhaseFacts DEF Over, Derived

LEMMA SlotStep ==
    ASSUME TypeOK, PlacesKnown, PlanInv, Next, NEW o \in Ops, journal'[o] \notin {Unborn, Gone}
    PROVE  SlotFollowsPhase(o)'
<1>h. Known(o) => SlotFollowsPhase(o)
  BY DEF PlanInv
<1>k. /\ \A p \in Later \cup Over : p \notin {"Planned", "Graph", "Cancelled"}
      /\ \A p \in Derived : p \in Later /\ p \notin Over
  BY DEF Later, Over, Derived
<1>1. CASE JournalsKept /\ SlotsKept
  <2>1. /\ Known(o) /\ journal'[o].input = journal[o].input
        /\ \/ journal'[o].phase \in {journal[o].phase, "Cancelled"}
           \/ journal[o].phase \in Over /\ journal'[o].phase \in Over
    BY <1>1 DEF JournalsKept
  <2>2. slot'[o] # None => /\ Staged(o) /\ slot'[o].graph = slot[o].graph
                           /\ slot'[o].history = slot[o].history
                           /\ slot'[o].built = slot[o].built
    BY <1>1 DEF SlotsKept
  <2>3. CASE journal'[o].phase \in {journal[o].phase, "Cancelled"}
    BY <1>h, <1>k, <2>1, <2>2, <2>3 DEF SlotFollowsPhase, GraphIsPlans, HistoryIsPlans
  <2>4. CASE journal[o].phase \in Over /\ journal'[o].phase \in Over
    BY <1>h, <1>k, <2>1, <2>2, <2>4, BuiltInOrder
       DEF SlotFollowsPhase, GraphIsPlans, HistoryIsPlans
  <2>. QED BY <2>1, <2>3, <2>4
<1>2. CASE o # cli.op /\ ~(JournalsKept /\ SlotsKept)
  <2>1. journal'[o] = journal[o] /\ slot'[o] = slot[o]
    BY <1>2, PlanWriters, JournalWriters, SlotWriters
       DEF CreateOperation, RescopeOperation, CheckpointSource, Advance
  <2>. QED BY <1>h, <2>1 DEF SlotFollowsPhase, GraphIsPlans, HistoryIsPlans
<1>3. CASE /\ o = cli.op
           /\ EnsurePlannedDatabase \/ FinishGraph \/ \E s \in Sources : IndexSource(s)
  <2>1. journal' = journal /\ J.phase \in {"Planned", "Graph"}
    BY <1>3, SlotWriters
  <2>. QED BY <1>3, <1>k, <2>1 DEF SlotFollowsPhase
<1>4. CASE o = cli.op /\ BuildDerived
  <2>1. /\ journal' = journal /\ Known(o) /\ Staged(o) /\ J.phase \in Derived
        /\ slot'[o].history = slot[o].history /\ slot[o].built \subseteq slot'[o].built
    BY <1>4, SlotWriters
  <2>. QED BY <1>4, <1>h, <1>k, <2>1 DEF SlotFollowsPhase, HistoryIsPlans
<1>5. CASE o = cli.op /\ (CreateOperation \/ (RescopeOperation /\ ~JournalsKept)
                            \/ (CheckpointSource /\ ~JournalsKept))
  <2>1. journal'[o].phase \in {"Planned", "Graph"}
    BY <1>5, JournalWriters DEF CheckpointSource, PlacesKnown
  <2>. QED BY <1>k, <2>1 DEF SlotFollowsPhase
<1>6. CASE o = cli.op /\ Advance /\ ~JournalsKept
  <2>1. /\ Known(o) /\ journal'[o].input = J.input
        /\ journal'[o].phase = Successor(J.phase)
    BY <1>6, JournalWriters
  <2>2. slot' = slot /\ At("advance") /\ J.phase \in Staging
    BY <1>6 DEF Advance, PlacesKnown
  <2>. SUFFICES ASSUME Staged(o) PROVE SlotFollowsPhase(o)'
    BY <2>2 DEF SlotFollowsPhase
  <2>3. CASE J.phase = "Planned"
    BY <1>k, <2>1, <2>3, PhaseFacts DEF SlotFollowsPhase
  <2>4. CASE J.phase = "Graph"
    <3>1. HistoryIsPlans(o)
      BY <1>6, <2>2, <2>4 DEF PlanInv, CommandKnows
    <3>2. journal'[o].phase = "TextSearch" /\ "TextSearch" \notin Over
      BY <2>1, <2>4, PhaseFacts DEF Over
    <3>. QED BY <1>6, <2>1, <2>2, <3>1, <3>2, BuiltInOrder DEF SlotFollowsPhase, HistoryIsPlans
  <2>5. CASE J.phase \in Derived
    <3>1. HistoryIsPlans(o) /\ BuiltBefore(J.phase) \subseteq S.built /\ J.phase \in S.built
      BY <1>6, <1>h, <1>k, <2>1, <2>2, <2>5 DEF SlotFollowsPhase, PlanInv, CommandKnows
    <3>2. journal'[o].phase \notin Over
      BY <2>1, <2>5, PhaseFacts DEF Over, Derived
    <3>3. BuiltBefore(journal'[o].phase) \subseteq S.built
      BY <2>1, <2>5, <3>1, BuiltInOrder
    <3>. QED BY <1>6, <2>1, <2>2, <3>1, <3>2, <3>3 DEF SlotFollowsPhase, HistoryIsPlans
  <2>6. CASE J.phase = "Validating"
    <3>1. HistoryIsPlans(o) /\ BuiltBefore(J.phase) \subseteq S.built /\ GraphIsPlans(o)
      BY <1>6, <1>h, <2>1, <2>2, <2>6 DEF SlotFollowsPhase, PlanInv, CommandKnows, Later
    <3>2. BuiltBefore(journal'[o].phase) = BuiltBefore(J.phase)
      BY <2>1, <2>6, PhaseFacts, BuiltInOrder DEF Over
    <3>. QED BY <1>6, <2>1, <2>2, <3>1, <3>2 DEF SlotFollowsPhase, HistoryIsPlans, GraphIsPlans
  <2>. QED BY <2>2, <2>3, <2>4, <2>5, <2>6, PhaseFacts DEF Later, Derived
<1>. QED BY <1>1, <1>2, <1>3, <1>4, <1>5, <1>6, PlanWriters

LEMMA CommandStep ==
    ASSUME TypeOK, PlacesKnown, PlanInv, Next
    PROVE  CommandKnows'
<1>h. CommandKnows /\ CapturesArePast
      /\ \A o \in Ops : Known(o) => CheckpointsRight(o) /\ SlotFollowsPhase(o)
  BY DEF PlanInv
<1>t. /\ cli \in Commands
      /\ cli.pc # "idle" => cli.op \in Ops
      /\ \A s \in Sources : s \in Inputs
      /\ \A m \in Captures, i \in Inputs : m[i] \in DOMAIN Content /\ m[i] \in Nat
  BY ContentType DEF TypeOK, PlacesKnown, Captures, Inputs
<1>1. CASE CommandQuiet
  <2>. SUFFICES ASSUME cli'.pc \in {"advance", "indexed", "checkpoint", "resume", "rescope"}
                PROVE  CommandKnows'
    BY DEF CommandKnows
  <2>1. /\ cli'.pc = cli.pc /\ cli'.op = cli.op
        /\ cli'.seen = cli.seen /\ cli'.picked = cli.picked
    BY <1>1 DEF CommandQuiet
  <2>2. JournalsKept /\ SlotsKept
    <3>1. ~(EnsurePlannedDatabase \/ FinishGraph \/ BuildDerived \/ CreateOperation
              \/ \E s \in Sources : IndexSource(s))
      BY <2>1 DEF EnsurePlannedDatabase, FinishGraph, BuildDerived, IndexSource, CreateOperation
    <3>2. ~(RescopeOperation \/ CheckpointSource \/ Advance)
      <4>1. RescopeOperation => cli'.pc # cli.pc
        <5>1. NoCommand.pc = "idle" /\ [cli EXCEPT !.pc = "loop", !.picked = {}].pc = "loop"
          BY <1>t DEF NoCommand, Commands
        <5>. QED BY <5>1 DEF RescopeOperation
      <4>2. CheckpointSource => cli'.pc # cli.pc
        <5>1. /\ [cli EXCEPT !.pc = "fail", !.err = "retryable"].pc = "fail"
              /\ [cli EXCEPT !.pc = "work", !.picked = {}, !.before = 0].pc = "work"
          BY <1>t DEF Commands
        <5>. QED BY <5>1 DEF CheckpointSource
      <4>3. Advance => cli'.pc # cli.pc
        <5>1. /\ [cli EXCEPT !.pc = "fail", !.err = "retryable"].pc = "fail"
              /\ [cli EXCEPT !.pc = "loop"].pc = "loop"
          BY <1>t DEF Commands
        <5>. QED BY <5>1 DEF Advance
      <4>. QED BY <2>1, <4>1, <4>2, <4>3
    <3>. QED BY <3>1, <3>2, PlanWriters
  <2>3. cli.op \in Ops /\ Known(cli.op) /\ journal'[cli.op] \notin {Unborn, Gone}
    BY <1>t, <2>1, PlacesStep DEF PlacesKnown
  <2>4. /\ journal'[cli.op].input = J.input /\ journal'[cli.op].done = J.done
        /\ journal'[cli.op].phase \in {J.phase} \cup {"Cancelled"} \cup Over
    BY <2>2, <2>3 DEF JournalsKept
  <2>5. slot'[cli.op] # None => /\ Staged(cli.op) /\ slot'[cli.op].graph = S.graph
                                /\ slot'[cli.op].history = S.history
                                /\ slot'[cli.op].built = S.built
    BY <2>2, <2>3 DEF SlotsKept
  <2>6. ASSUME cli.pc \in {"resume", "rescope"}, slot'[cli.op] # None, NEW s \in Sources,
               J.done[s] # 0
        PROVE  IndexedBetween(cli.op, s, cli.seen)'
    BY <1>h, <2>1, <2>4, <2>5, <2>6 DEF CommandKnows, IndexedBetween
  <2>7. ASSUME cli.pc \in {"indexed", "checkpoint"}, NEW s \in cli.picked
        PROVE  IndexedBetween(cli.op, s, live)'
    <3>1. Staged(cli.op) /\ slot'[cli.op] # None /\ s \in Sources
      BY <1>t, <2>1, <2>7, PlacesStep DEF PlacesKnown, Commands
    <3>2. IndexedBetween(cli.op, s, live)
      BY <1>h, <2>7 DEF CommandKnows
    <3>. QED BY <2>1, <2>3, <2>4, <2>5, <3>1, <3>2, IndexedStays
  <2>8. At("rescope") => \A s \in Sources \ cli.picked : Digest(J.input, s) = Digest(cli.seen, s)
    BY <1>h DEF CommandKnows
  <2>9. journal'[cli.op].phase \in {"Graph", "Validating"} \cup Derived =>
            journal'[cli.op].phase = J.phase
    BY <2>4 DEF Over, Derived
  <2>10. At("advance") =>
          /\ J.phase = "Graph" => \A s \in Sources : J.done[s] # 0
          /\ Staged(cli.op) =>
               /\ J.phase = "Graph" => HistoryIsPlans(cli.op)
               /\ J.phase \in Derived => J.phase \in S.built
               /\ J.phase = "Validating" => GraphIsPlans(cli.op)
    BY <1>h DEF CommandKnows
  <2>11. At("advance") => (journal'[cli.op].phase = "Graph" =>
                             \A s \in Sources : journal'[cli.op].done[s] # 0)
    BY <2>4, <2>9, <2>10
  <2>12. At("advance") /\ slot'[cli.op] # None =>
          /\ journal'[cli.op].phase = "Graph" => HistoryIsPlans(cli.op)'
          /\ journal'[cli.op].phase \in Derived => journal'[cli.op].phase \in slot'[cli.op].built
          /\ journal'[cli.op].phase = "Validating" => GraphIsPlans(cli.op)'
    BY <2>1, <2>4, <2>5, <2>9, <2>10 DEF HistoryIsPlans, GraphIsPlans
  <2>. QED BY <2>1, <2>4, <2>6, <2>7, <2>8, <2>11, <2>12
          DEF CommandKnows, IndexedBetween, HistoryIsPlans, GraphIsPlans
<1>2. ASSUME NEW o \in Ops, NEW a \in BOOLEAN, BeginResume(o, a) PROVE CommandKnows'
  <2>1. /\ cli'.pc = "resume" /\ cli'.op = o /\ cli'.seen = live
        /\ UNCHANGED <<journal, slot>> /\ Known(o)
    BY <1>2 DEF BeginResume, Begin, NoCommand
  <2>2. \A s \in Sources : Staged(o) /\ journal[o].done[s] # 0 => IndexedBetween(o, s, live)
    BY <1>h, <2>1 DEF CheckpointsRight
  <2>. QED BY <2>1, <2>2 DEF CommandKnows, IndexedBetween
<1>3. ASSUME ResumeRescope PROVE CommandKnows'
  <2>1. /\ cli'.pc = "rescope" /\ cli'.op = cli.op /\ cli'.seen = cli.seen
        /\ cli'.picked = Changed /\ UNCHANGED <<journal, slot>> /\ At("resume")
    BY <1>3, <1>t DEF ResumeRescope, Commands
  <2>2. ASSUME NEW s \in Sources \ Changed PROVE Digest(J.input, s) = Digest(cli.seen, s)
    <3>1. Fingerprint(rec[cli.op]) = Fingerprint(J.input)
      BY <1>3 DEF ResumeRescope, Scoped
    <3>2. Digest(rec[cli.op], s) = Digest(J.input, s)
      BY <3>1, <1>t, SameFingerprint
    <3>. QED BY <3>2 DEF Changed
  <2>3. \A s \in Sources : Staged(cli.op) /\ J.done[s] # 0 => IndexedBetween(cli.op, s, cli.seen)
    BY <1>h, <2>1 DEF CommandKnows
  <2>. QED BY <2>1, <2>2, <2>3 DEF CommandKnows, IndexedBetween
<1>4. ASSUME EnsurePlannedDatabase PROVE CommandKnows'
  <2>1. cli'.pc = "advance" /\ cli'.op = cli.op /\ UNCHANGED journal /\ J.phase = "Planned"
    BY <1>4, <1>t DEF EnsurePlannedDatabase, Commands
  <2>. QED BY <2>1 DEF CommandKnows, Derived
<1>5. ASSUME NEW s \in Sources, IndexSource(s) PROVE CommandKnows'
  <2>1. cli'.pc = "indexed" /\ cli'.op = cli.op /\ cli'.picked = {s}
    BY <1>5, <1>t DEF IndexSource, Commands
  <2>2. /\ cli.op \in Ops /\ Known(cli.op) /\ UNCHANGED <<journal, live>>
        /\ slot'[cli.op].graph[s] = Content[live[s]]
    BY <1>5, SlotWriters DEF IndexSource, PlacesKnown, Digest
  <2>3. J.input[s] <= live[s] /\ live[s] \in DOMAIN Content /\ live[s] \in Nat
    BY <1>h, <1>t, <2>2 DEF CapturesArePast, TypeOK
  <2>4. journal'[cli.op].input[s] <= live[s] /\ live[s] <= live'[s]
    BY <2>2, <2>3
  <2>. QED BY <2>1, <2>2, <2>3, <2>4 DEF CommandKnows, IndexedBetween
<1>6. ASSUME InvalidateEmbeddings PROVE CommandKnows'
  <2>1. /\ cli'.pc = "checkpoint" /\ cli'.op = cli.op /\ cli'.picked = cli.picked
        /\ UNCHANGED <<journal, live>> /\ At("indexed")
    BY <1>6, <1>t DEF InvalidateEmbeddings, Commands
  <2>2. SlotsKept
    BY <1>6, KeepsSlots
       DEF InvalidateEmbeddings, EnsurePlannedDatabase, FinishGraph, BuildDerived, IndexSource
  <2>3. cli.op \in Ops /\ slot'[cli.op] # None
    BY <1>t, <2>1, PlacesStep DEF PlacesKnown
  <2>. QED BY <1>h, <2>1, <2>2, <2>3 DEF CommandKnows, IndexedBetween, SlotsKept
<1>7. ASSUME FinishGraph PROVE CommandKnows'
  <2>1. cli'.pc = "advance" /\ cli'.op = cli.op
    BY <1>7, <1>t DEF FinishGraph, Commands
  <2>2. /\ cli.op \in Ops /\ J.phase = "Graph" /\ UNCHANGED journal
        /\ slot'[cli.op].history = Digest(cli.seen, "history")
    BY <1>7, SlotWriters
  <2>3. Digest(J.input, "history") = Digest(cli.seen, "history")
    <3>1. Fingerprint(J.input) = Fingerprint(cli.seen)
      BY <1>h, <1>7 DEF CapturesArePast, FinishGraph, Worker
    <3>. QED BY <3>1, SameFingerprint DEF Inputs
  <2>4. \A s \in Sources : J.done[s] # 0
    BY <1>7, <1>t, DigestType DEF FinishGraph, Commands
  <2>. QED BY <2>1, <2>2, <2>3, <2>4 DEF CommandKnows, HistoryIsPlans, Derived
<1>8. ASSUME BuildDerived PROVE CommandKnows'
  <2>1. cli'.pc = "advance" /\ cli'.op = cli.op
    BY <1>8, <1>t DEF BuildDerived, Commands
  <2>2. J.phase \in Derived /\ UNCHANGED journal /\ J.phase \in slot'[cli.op].built
    BY <1>8, SlotWriters
  <2>. QED BY <2>1, <2>2 DEF CommandKnows, Derived
<1>9. ASSUME Validate PROVE CommandKnows'
  <2>1. CASE ~Stable
    BY <1>9, <1>t, <2>1 DEF Validate, Commands, CommandKnows
  <2>2. CASE Stable
    <3>1. /\ cli'.pc = "advance" /\ cli'.op = cli.op /\ UNCHANGED journal /\ Known(cli.op)
          /\ J.phase = "Validating" /\ Staged(cli.op)
      BY <1>9, <1>t, <2>2 DEF Validate, Commands, PlacesKnown
    <3>2. ASSUME NEW s \in Sources PROVE S.graph[s] = Digest(J.input, s)
      <4>1. PICK v \in DOMAIN Content :
               J.input[s] <= v /\ v <= live[s] /\ S.graph[s] = Content[v]
        BY <1>9, <1>t, <1>h, <3>1 DEF CheckpointsRight, IndexedBetween, Later, Validate
      <4>2. J.input[s] = cli.seen[s]
        <5>1. Fingerprint(J.input) = Fingerprint(cli.seen)
          BY <1>h, <1>9 DEF CapturesArePast, Validate, Worker
        <5>. QED BY <5>1, <1>t, SameFingerprint
      <4>3. J.input[s] = live[s] /\ live[s] \in Nat /\ v \in Nat
        BY <2>2, <4>2, <1>t, ContentType DEF Stable, TypeOK
      <4>. QED BY <4>1, <4>3 DEF Digest
    <3>3. SlotsKept
      BY <1>9, KeepsSlots
         DEF Validate, EnsurePlannedDatabase, FinishGraph, BuildDerived, IndexSource, Derived
    <3>4. cli.op \in Ops /\ (slot'[cli.op] # None => slot'[cli.op].graph = S.graph)
      BY <1>9, <1>t, <3>3 DEF Validate, SlotsKept
    <3>. QED BY <3>1, <3>2, <3>4 DEF CommandKnows, GraphIsPlans, Derived
  <2>. QED BY <2>1, <2>2
<1>. QED BY <1>1, <1>2, <1>3, <1>4, <1>5, <1>6, <1>7, <1>8, <1>9, KeepsCommand

LEMMA PlanStep ==
    NeverChangedBack /\ TypeOK /\ PlacesKnown /\ PlanInv /\ [Next]_vars => PlanInv'
<1>. SUFFICES ASSUME NeverChangedBack, TypeOK, PlacesKnown, PlanInv, [Next]_vars PROVE PlanInv'
  OBVIOUS
<1>1. CapturesArePast'
  BY CapturesStep DEF PlanInv
<1>2. CASE Next
  BY <1>1, <1>2, CheckpointsStep, SlotStep, CommandStep DEF PlanInv
<1>3. CASE UNCHANGED vars
  <2>1. CommandKnows'
    BY <1>3 DEF PlanInv, CommandKnows, IndexedBetween, HistoryIsPlans, GraphIsPlans, vars
  <2>2. ASSUME NEW o \in Ops, Known(o) PROVE CheckpointsRight(o)' /\ SlotFollowsPhase(o)'
    BY <1>3, <2>2 DEF PlanInv, CheckpointsRight, SlotFollowsPhase, IndexedBetween,
                      HistoryIsPlans, GraphIsPlans, vars
  <2>3. UNCHANGED journal
    BY <1>3 DEF vars
  <2>. QED BY <1>1, <2>1, <2>2, <2>3 DEF PlanInv
<1>. QED BY <1>2, <1>3

\* A slot past the validation gate has the content of every input its operation's plan names,
\* whatever crashes, failures, edits and scoped resumes led to it, as long as no input is
\* changed back to an older content: a resume compares the digests of two captures, and does
\* not see what a source was in between (plan_resume_scope, run_publication_rebuild).
THEOREM SealedSlotsMatchPlan == NeverChangedBack /\ Spec => []SealedMatchesPlan
<1>1. Init => PlanInv
  <2>. SUFFICES ASSUME Init PROVE PlanInv
    OBVIOUS
  <2>1. CapturesArePast
    BY DEF Init, NoCommand, CapturesArePast, Worker
  <2>2. CommandKnows
    BY DEF Init, NoCommand, CommandKnows
  <2>. QED BY <2>1, <2>2 DEF PlanInv, Init
<1>2. TypeOK /\ PlanInv => SealedMatchesPlan
  <2>. SUFFICES ASSUME TypeOK, PlanInv, NEW o \in Ops, Known(o), Staged(o),
                       journal[o].phase \in {"Ready", "Activating", "Activated"}
                PROVE  /\ \A s \in Sources : slot[o].graph[s] = Digest(journal[o].input, s)
                       /\ slot[o].history = Digest(journal[o].input, "history")
                       /\ slot[o].built = Derived
    BY DEF SealedMatchesPlan
  <2>1. GraphIsPlans(o) /\ HistoryIsPlans(o) /\ Derived \subseteq slot[o].built
    BY BuiltInOrder DEF PlanInv, SlotFollowsPhase, Over
  <2>2. slot[o].built \subseteq Derived
    BY DEF TypeOK, Slots
  <2>. QED BY <2>1, <2>2 DEF GraphIsPlans, HistoryIsPlans
<1>3. NeverChangedBack /\ (TypeOK /\ SelectorInv) /\ PlanInv /\ [Next]_vars => PlanInv'
  BY PlanStep DEF SelectorInv
<1>. SUFFICES ASSUME NeverChangedBack PROVE Spec => []SealedMatchesPlan
  OBVIOUS
<1>4. (TypeOK /\ SelectorInv) /\ PlanInv /\ [Next]_vars => PlanInv'
  BY <1>3
<1>. QED BY <1>1, <1>2, <1>4, SelectorInvariant, PTL DEF Spec

=============================================================================
