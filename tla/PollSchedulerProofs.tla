------------------------ MODULE PollSchedulerProofs --------------------------
(***************************************************************************)
(* The in-flight table and its generations, for any repos, names, permits  *)
(* and sequence of admin commands.  A dispatch is identified by its name   *)
(* and the generation it happened in: a name is dispatched at most once    *)
(* while the generation stays (CurrentOwns, OneOfAGeneration), and every   *)
(* step that clears an entry without its probe moves the generation on.    *)
(***************************************************************************)
EXTENDS PollScheduler, TLAPS

\* Every probe is a record, of a generation not later than the loop's.
ProbesOK ==
    /\ DOMAIN probes = Tasks
    /\ \A k \in Tasks : /\ DOMAIN probes[k] = {"state", "url", "gen", "sha", "stale"}
                        /\ probes[k] = [x \in DOMAIN probes[k] |-> probes[k][x]]
                        /\ probes[k].gen \in Nat /\ probes[k].gen <= generation
    /\ probes = [k \in Tasks |-> probes[k]]

EntriesOK ==
    /\ generation \in Nat
    /\ entries \in [Names -> Nat \cup {NoEntry}]
    /\ \A n \in Names : entries[n] <= generation

\* A probe of this generation has its entry, and no two probes of a name are of
\* one generation.
CurrentOwns ==
    \A k \in Tasks : Live(k) /\ probes[k].gen = generation => Owns(k)
OneOfAGeneration ==
    \A k, l \in Tasks :
        Live(k) /\ Live(l) /\ k[1] = l[1] /\ probes[k].gen = probes[l].gen => k = l

EntryLive ==
    \A n \in Names : entries[n] # NoEntry => \E k \in Tasks : k[1] = n /\ Live(k) /\ Owns(k)

\* A stale probe is of an earlier generation, and its entry is not there.
StaleIsOlder ==
    \A k \in Tasks : Live(k) /\ probes[k].stale => probes[k].gen < generation /\ ~Owns(k)

PollInv ==
    /\ ProbesOK
    /\ EntriesOK
    /\ CurrentOwns
    /\ OneOfAGeneration
    /\ EntryLive
    /\ StaleIsOlder

-----------------------------------------------------------------------------
\* A probe that runs on, and no more, keeps the invariant.
LEMMA RunningKeepsInv ==
    ASSUME PollInv, NEW k \in Tasks, NEW s \in States \ {"none"}, NEW sha, Live(k),
           Become(k, s, sha), UNCHANGED <<entries, generation>>
    PROVE  PollInv'
<1>1. \A j \in Tasks : /\ probes'[j].gen = probes[j].gen
                       /\ probes'[j].stale = probes[j].stale
                       /\ Live(j)' <=> Live(j)
  BY DEF PollInv, ProbesOK, Become, Live
<1>2. ProbesOK'
  BY <1>1 DEF PollInv, ProbesOK, Become
<1>3. \A j \in Tasks : Owns(j)' <=> Owns(j)
  BY <1>1 DEF Owns
<1>. QED
  BY <1>1, <1>2, <1>3 DEF PollInv, EntriesOK, CurrentOwns, OneOfAGeneration, EntryLive,
         StaleIsOlder

\* A remove or a reload: the entries of N go, their probes are stale, and the
\* generation moves on.
LEMMA ForgettingKeepsInv ==
    ASSUME PollInv, NEW N \in SUBSET Names, probes' = Stale(N),
           entries' = [n \in Names |-> IF n \in N THEN NoEntry ELSE entries[n]],
           generation' = generation + 1
    PROVE  PollInv'
<1>1. \A j \in Tasks : /\ probes'[j].gen = probes[j].gen
                       /\ probes'[j].stale => probes[j].stale \/ j[1] \in N
                       /\ Live(j)' <=> Live(j)
  <2>. TAKE j \in Tasks
  <2>1. probes'[j] = [probes[j] EXCEPT !.stale = @ \/ (j[1] \in N /\ Live(j))]
    BY DEF Stale
  <2>2. DOMAIN probes[j] = {"state", "url", "gen", "sha", "stale"}
    BY DEF PollInv, ProbesOK
  <2>. QED
    BY <2>1, <2>2 DEF Live
<1>2. ProbesOK'
  <2>1. DOMAIN probes' = Tasks /\ probes' = [k \in Tasks |-> probes'[k]]
    BY DEF Stale
  <2>2. \A k \in Tasks : /\ DOMAIN probes'[k] = {"state", "url", "gen", "sha", "stale"}
                         /\ probes'[k] = [x \in DOMAIN probes'[k] |-> probes'[k][x]]
    BY DEF Stale, PollInv, ProbesOK
  <2>. QED
    BY <1>1, <2>1, <2>2 DEF PollInv, ProbesOK, EntriesOK
<1>3. \A j \in Tasks : j[1] \in Names
  BY DEF Tasks
<1>4. EntriesOK'
  BY DEF PollInv, EntriesOK, NoEntry
<1>5. \A j \in Tasks : IF j[1] \in N THEN ~Owns(j)' ELSE Owns(j)' <=> Owns(j)
  BY <1>1, <1>3 DEF PollInv, ProbesOK, Owns, NoEntry
<1>6. CurrentOwns'
  BY <1>1 DEF PollInv, ProbesOK, EntriesOK, CurrentOwns
<1>7. OneOfAGeneration'
  BY <1>1 DEF PollInv, OneOfAGeneration
<1>8. EntryLive'
  BY <1>1, <1>5 DEF PollInv, EntryLive
<1>9. StaleIsOlder'
  BY <1>1, <1>5 DEF PollInv, ProbesOK, EntriesOK, StaleIsOlder
<1>. QED
  BY <1>2, <1>4, <1>6, <1>7, <1>8, <1>9 DEF PollInv

\* A finished or dead probe leaves, with its entry if it is its own.
LEMMA JoiningKeepsInv ==
    ASSUME PollInv, NEW k \in Tasks, Live(k), Free(k), Joined(k), UNCHANGED generation
    PROVE  PollInv'
<1>1. /\ ~Live(k)'
      /\ \A j \in Tasks \ {k} : probes'[j] = probes[j]
  BY DEF PollInv, ProbesOK, Joined, Live, NoProbe
<1>2. ProbesOK'
  <2>1. DOMAIN probes' = Tasks /\ probes' = [j \in Tasks |-> probes'[j]]
    BY DEF PollInv, ProbesOK, Joined
  <2>2. probes'[k] = NoProbe
    BY DEF PollInv, ProbesOK, Joined
  <2>. QED
    BY <1>1, <2>1, <2>2 DEF PollInv, ProbesOK, EntriesOK, NoProbe
<1>3. k[1] \in Names
  BY DEF Tasks
<1>4. \A n \in Names : \/ entries'[n] = entries[n]
                       \/ n = k[1] /\ Owns(k) /\ entries'[n] = NoEntry
  BY <1>3 DEF PollInv, EntriesOK, Free
<1>5. Owns(k) => entries'[k[1]] = NoEntry
  BY <1>3 DEF PollInv, EntriesOK, Free
<1>6. EntriesOK'
  BY <1>3 DEF PollInv, EntriesOK, Free, NoEntry
<1>7. OneOfAGeneration'
  BY <1>1 DEF PollInv, OneOfAGeneration, Live
<1>8. \A j \in Tasks \ {k} : Live(j) /\ Owns(j) => j[1] # k[1] \/ ~Owns(k)
  BY DEF PollInv, OneOfAGeneration, Owns
<1>9. CurrentOwns'
  <2>. SUFFICES ASSUME NEW j \in Tasks, Live(j)', probes'[j].gen = generation'
                PROVE  Owns(j)'
    BY DEF CurrentOwns
  <2>1. j # k /\ probes'[j] = probes[j] /\ Live(j) /\ probes[j].gen = generation
    BY <1>1 DEF Live
  <2>2. Owns(j) /\ j[1] \in Names
    BY <2>1 DEF PollInv, CurrentOwns, Tasks
  <2>. QED
    BY <1>4, <1>8, <2>1, <2>2 DEF Owns
<1>10. EntryLive'
  <2>. SUFFICES ASSUME NEW n \in Names, entries'[n] # NoEntry
                PROVE  \E j \in Tasks : j[1] = n /\ Live(j)' /\ Owns(j)'
    BY DEF EntryLive
  <2>1. entries'[n] = entries[n]
    BY <1>4
  <2>2. PICK j \in Tasks : j[1] = n /\ Live(j) /\ Owns(j)
    BY <2>1 DEF PollInv, EntryLive
  <2>3. j # k
    BY <1>5, <2>1, <2>2
  <2>. QED
    BY <1>1, <2>1, <2>2, <2>3 DEF Live, Owns
<1>11. StaleIsOlder'
  BY <1>1, <1>4 DEF PollInv, StaleIsOlder, Live, Owns, ProbesOK, NoEntry, Tasks
<1>. QED
  BY <1>2, <1>6, <1>7, <1>9, <1>10, <1>11 DEF PollInv

\* A task that is not there has the fields of a probe.
LEMMA NoProbeOK ==
    /\ DOMAIN NoProbe = {"state", "url", "gen", "sha", "stale"}
    /\ NoProbe = [x \in DOMAIN NoProbe |-> NoProbe[x]]
    /\ NoProbe.gen = 0 /\ NoProbe.state = "none"
  BY DEF NoProbe

\* A name has one lowest free copy.
LEMMA StartsOnce ==
    ASSUME NEW k \in Tasks, NEW l \in Tasks, NEW i, NEW j,
           Starts(k, i), Starts(l, j), k[1] = l[1]
    PROVE  k = l
<1>1. PICK n \in Names, c \in 1..Copies : k = <<n, c>>
  BY DEF Tasks
<1>2. PICK m \in Names, d \in 1..Copies : l = <<m, d>>
  BY DEF Tasks
<1>3. n = m
  BY <1>1, <1>2
<1>4. c \in Int /\ d \in Int /\ 1 <= c /\ 1 <= d
  BY PollConstants
<1>5. ~(c < d) /\ ~(d < c)
  BY <1>1, <1>2, <1>3, <1>4 DEF Starts
<1>. QED
  BY <1>1, <1>2, <1>3, <1>4, <1>5

\* A tick dispatches only names without an entry, each as one probe of the
\* loop's generation.
LEMMA TickKeepsInv ==
    ASSUME PollInv, NEW due \in SUBSET Pollable, Tick(due)
    PROVE  PollInv'
<1>. DEFINE go == Dispatched(due)
            new == {k \in Tasks : \E r \in go : Starts(k, r)}
<1>1. \A k \in new : /\ ~Live(k) /\ entries[k[1]] = NoEntry
                     /\ \E r \in go : r.id = k[1]
  BY DEF Starts, Dispatched
<1>2. \A k \in new : /\ probes'[k].state = "queued" /\ probes'[k].gen = generation
                     /\ probes'[k].stale = FALSE
                     /\ DOMAIN probes'[k] = {"state", "url", "gen", "sha", "stale"}
                     /\ probes'[k] = [x \in DOMAIN probes'[k] |-> probes'[k][x]]
  BY DEF Tick, NewProbe
<1>3. \A k \in Tasks \ new : probes'[k] = probes[k]
  BY DEF Tick
<1>4. \A n \in Names : IF \E r \in go : r.id = n THEN entries'[n] = generation
                                                      ELSE entries'[n] = entries[n]
  BY DEF Tick
<1>5. \A n \in Names : (\E r \in go : r.id = n) =>
                           entries[n] = NoEntry /\ \E k \in new : k[1] = n
  BY DEF Tick, Dispatched, Starts
<1>6. \A k \in Tasks : k[1] \in Names
  BY DEF Tasks
<1>7. generation' = generation /\ generation \in Nat /\ generation # NoEntry
  BY DEF Tick, PollInv, EntriesOK, NoEntry
<1>8. ProbesOK'
  <2>1. DOMAIN probes' = Tasks /\ probes' = [k \in Tasks |-> probes'[k]]
    BY DEF Tick
  <2>. QED
    BY <1>2, <1>3, <1>7, <2>1 DEF PollInv, ProbesOK
<1>9. EntriesOK'
  <2>1. entries' \in [Names -> Nat \cup {NoEntry}]
    BY <1>7 DEF Tick, PollInv, EntriesOK
  <2>. QED
    BY <1>4, <1>7, <2>1 DEF PollInv, EntriesOK
<1>10. \A k \in new : Live(k)' /\ Owns(k)'
  BY <1>1, <1>2, <1>4, <1>6 DEF Live, Owns
<1>11. \A k \in Tasks \ new : /\ Live(k)' <=> Live(k)
                              /\ Live(k) /\ Owns(k) => Owns(k)'
  BY <1>3, <1>4, <1>5, <1>6, <1>7 DEF PollInv, ProbesOK, Live, Owns, NoEntry
<1>12. CurrentOwns'
  BY <1>3, <1>7, <1>10, <1>11 DEF PollInv, CurrentOwns
<1>13. OneOfAGeneration'
  <2>. SUFFICES ASSUME NEW k \in Tasks, NEW l \in Tasks, Live(k)', Live(l)',
                       k[1] = l[1], probes'[k].gen = probes'[l].gen
                PROVE  k = l
    BY DEF OneOfAGeneration
  <2>1. CASE k \in new /\ l \in new
    BY <2>1, StartsOnce
  <2>2. CASE k \notin new /\ l \notin new
    BY <1>3, <1>11, <2>2 DEF PollInv, OneOfAGeneration
  <2>3. \A a \in new, b \in Tasks \ new :
           Live(b) /\ a[1] = b[1] => probes[b].gen # generation
    BY <1>1, <1>6, <1>7 DEF PollInv, CurrentOwns, Owns
  <2>4. \A a \in new, b \in Tasks \ new :
           Live(b)' /\ a[1] = b[1] => probes'[b].gen # probes'[a].gen
    <3>. TAKE a \in new, b \in Tasks \ new
    <3>1. probes'[a].gen = generation /\ probes'[b] = probes[b] /\ (Live(b)' <=> Live(b))
      BY <1>2, <1>3, <1>11
    <3>. QED
      BY <2>3, <3>1
  <2>5. CASE k \in new /\ l \notin new
    BY <2>4, <2>5
  <2>6. CASE k \notin new /\ l \in new
    BY <2>4, <2>6
  <2>. QED
    BY <2>1, <2>2, <2>5, <2>6
<1>14. EntryLive'
  <2>. SUFFICES ASSUME NEW n \in Names, entries'[n] # NoEntry
                PROVE  \E k \in Tasks : k[1] = n /\ Live(k)' /\ Owns(k)'
    BY DEF EntryLive
  <2>1. CASE \E r \in go : r.id = n
    BY <1>5, <1>10, <2>1
  <2>2. CASE ~\E r \in go : r.id = n
    <3>1. PICK k \in Tasks : k[1] = n /\ Live(k) /\ Owns(k)
      BY <1>4, <2>2 DEF PollInv, EntryLive
    <3>2. k \notin new
      BY <1>1, <3>1
    <3>. QED
      BY <1>11, <3>1, <3>2
  <2>. QED
    BY <2>1, <2>2
<1>15. StaleIsOlder'
  <2>. SUFFICES ASSUME NEW k \in Tasks, Live(k)', probes'[k].stale
                PROVE  probes'[k].gen < generation' /\ ~Owns(k)'
    BY DEF StaleIsOlder
  <2>1. k \notin new /\ Live(k) /\ probes'[k] = probes[k]
    BY <1>2, <1>3, <1>11
  <2>2. probes[k].gen < generation /\ ~Owns(k)
    BY <2>1 DEF PollInv, StaleIsOlder
  <2>. QED
    BY <1>4, <1>6, <1>7, <2>1, <2>2 DEF Owns
<1>. QED
  BY <1>8, <1>9, <1>12, <1>13, <1>14, <1>15 DEF PollInv

\* The loop's end leaves neither probes nor entries.
LEMMA ShutdownKeepsInv ==
    ASSUME PollInv, Shutdown
    PROVE  PollInv'
<1>1. \A k \in Tasks : probes'[k] = NoProbe /\ ~Live(k)'
  BY DEF Shutdown, Live, NoProbe
<1>2. ProbesOK'
  <2>1. DOMAIN probes' = Tasks /\ probes' = [k \in Tasks |-> probes'[k]]
    BY DEF Shutdown
  <2>. QED
    BY <1>1, <2>1, NoProbeOK DEF PollInv, ProbesOK, EntriesOK, Shutdown
<1>3. EntriesOK'
  BY DEF PollInv, EntriesOK, Shutdown, NoEntry
<1>4. \A n \in Names : entries'[n] = NoEntry
  BY DEF Shutdown
<1>. QED
  BY <1>1, <1>2, <1>3, <1>4 DEF PollInv, CurrentOwns, OneOfAGeneration, EntryLive,
         StaleIsOlder

\* Every step keeps the invariant; the admin handlers, pushes and the workers
\* touch neither table.
LEMMA PollStep ==
    ASSUME PollInv, [Next]_vars
    PROVE  PollInv'
<1>1. ASSUME UNCHANGED <<generation, entries, probes>>
      PROVE  PollInv'
  BY <1>1 DEF PollInv, ProbesOK, EntriesOK, CurrentOwns, OneOfAGeneration, EntryLive,
         StaleIsOlder, Live, Owns
<1>2. ASSUME NEW u \in Urls, AddRepo(u) \/ RemoveRepo(u) \/ Push(u) \/ Index(u)
      PROVE  PollInv'
  BY <1>1, <1>2 DEF AddRepo, RemoveRepo, Push, Index, loopVars
<1>3. ASSUME NEW c \in Configs, ReloadConfig(c) \/ ReloadTells(c)
      PROVE  PollInv'
  BY <1>1, <1>3 DEF ReloadConfig, ReloadTells, loopVars
<1>4. CASE SetDrained
  BY <1>1, <1>4 DEF SetDrained, loopVars
<1>5. CASE Receive
  <2>. DEFINE cmd == Head(channel)
  <2>1. CASE ApplyAdd(cmd)
    BY <1>1, <2>1 DEF ApplyAdd
  <2>2. CASE ApplyRemove(cmd)
    <3>1. entries' = [n \in Names |-> IF n \in {cmd.id} THEN NoEntry ELSE entries[n]]
      BY <2>2 DEF ApplyRemove, ForgetRepo, PollInv, EntriesOK
    <3>2. probes' = Stale(Names \cap {cmd.id})
      BY <2>2 DEF ApplyRemove, Stale, Tasks
    <3>. QED
      BY <2>2, <3>1, <3>2, ForgettingKeepsInv DEF ApplyRemove, ForgetRepo
  <2>3. CASE ApplyReload(cmd)
    <3>1. entries' = [n \in Names |-> IF n \in Names THEN NoEntry ELSE entries[n]]
      BY <2>3 DEF ApplyReload, Reset
    <3>. QED
      BY <2>3, <3>1, ForgettingKeepsInv DEF ApplyReload, Reset
  <2>. QED
    BY <1>5, <2>1, <2>2, <2>3 DEF Receive
<1>6. CASE Shutdown
  BY <1>6, ShutdownKeepsInv
<1>7. ASSUME NEW due \in SUBSET Pollable, Tick(due)
      PROVE  PollInv'
  BY <1>7, TickKeepsInv
<1>8. ASSUME NEW k \in Tasks, Join(k) \/ JoinDead(k)
      PROVE  PollInv'
  BY <1>8, JoiningKeepsInv DEF Join, JoinDead, Live
<1>9. ASSUME NEW k \in Tasks, Probing(k)
      PROVE  PollInv'
  <2>1. Live(k) /\ UNCHANGED <<entries, generation>>
    BY <1>9 DEF Probing, Ends, StartProbe, ProbeAnswers, ProbeFails, Live
  <2>2. \E s \in States \ {"none"}, sha \in {0, remote[probes[k].url]} : Become(k, s, sha)
    BY <1>9 DEF Probing, Ends, StartProbe, ProbeAnswers, ProbeFails, States
  <2>. QED
    BY <2>1, <2>2, RunningKeepsInv
<1>. QED
  BY <1>1, <1>2, <1>3, <1>4, <1>5, <1>6, <1>7, <1>8, <1>9 DEF Next, vars, loopVars

\* The invariant holds in every behaviour.
LEMMA PollInvariant == Spec => []PollInv
<1>1. Init => PollInv
  <2>. SUFFICES ASSUME Init PROVE PollInv
    OBVIOUS
  <2>1. \A k \in Tasks : probes[k] = NoProbe /\ ~Live(k)
    BY DEF Init, Live, NoProbe
  <2>2. ProbesOK
    <3>1. DOMAIN probes = Tasks /\ probes = [k \in Tasks |-> probes[k]] /\ generation = 0
      BY DEF Init
    <3>. QED
      BY <2>1, <3>1, NoProbeOK DEF ProbesOK
  <2>4. EntriesOK
    BY DEF Init, EntriesOK, NoEntry
  <2>3. \A n \in Names : entries[n] = NoEntry
    BY DEF Init
  <2>. QED
    BY <2>1, <2>2, <2>3, <2>4
       DEF PollInv, CurrentOwns, OneOfAGeneration, EntryLive, StaleIsOlder
<1>2. PollInv /\ [Next]_vars => PollInv'
  BY PollStep
<1>. QED
  BY <1>1, <1>2, PTL DEF Spec

-----------------------------------------------------------------------------
\* Every entry of the in-flight table belongs to exactly one probe under way,
\* however adds, removals, reloads, ticks and late results interleave.
THEOREM EntriesHaveTheirProbes == Spec => []EntryHasItsProbe
<1>1. PollInv => EntryHasItsProbe
  <2>. SUFFICES ASSUME PollInv, NEW n \in Names, entries[n] # NoEntry
                PROVE  \E c \in 1..Copies :
                          /\ Live(<<n, c>>) /\ Owns(<<n, c>>)
                          /\ \A d \in 1..Copies : Live(<<n, d>>) /\ Owns(<<n, d>>) => d = c
    BY DEF EntryHasItsProbe
  <2>1. PICK k \in Tasks : k[1] = n /\ Live(k) /\ Owns(k)
    BY DEF PollInv, EntryLive
  <2>2. PICK c \in 1..Copies : k = <<n, c>>
    BY <2>1 DEF Tasks
  <2>3. \A d \in 1..Copies : Live(<<n, d>>) /\ Owns(<<n, d>>) => <<n, d>> = <<n, c>>
    BY <2>1, <2>2 DEF PollInv, OneOfAGeneration, Owns, Tasks
  <2>. QED
    BY <2>1, <2>2, <2>3
<1>. QED
  BY <1>1, PollInvariant, PTL

\* A probe that was dispatched before its repo was removed or the config
\* reloaded never enqueues, whatever was added and probed under its name since.
THEOREM StaleProbesNeverWanted == Spec => []StaleProbesUnwanted
<1>1. PollInv => StaleProbesUnwanted
  BY DEF PollInv, StaleIsOlder, StaleProbesUnwanted
<1>. QED
  BY <1>1, PollInvariant, PTL


-----------------------------------------------------------------------------
(* What the loop has been told.                                            *)

\* The names a repo goes by, and the hypothesis that no two repos share one:
\* removing a repo drops every row of its names.
NamesOf(u) == {SchedName[u], UrlName[u]}
NamesDiffer == \A u, v \in Urls : u # v => NamesOf(u) \cap NamesOf(v) = {}

Has(s, n, u) == \E r \in s : r.id = n /\ r.url = u

\* A command leaves a row of this name and URL, or leaves none.
Gives(cmd, n, u) ==
    \/ cmd.op = "add" /\ cmd.id = n /\ cmd.url = u
    \/ cmd.op = "reload" /\ Has(cmd.rows, n, u)
Drops(cmd, n, u) ==
    \/ cmd.op = "remove" /\ cmd.id = n
    \/ cmd.op = "reload" /\ ~Has(cmd.rows, n, u)

\* Once the commands in ch have been applied to the schedule s, u is in it: from
\* one of them on, or from the start, none drops its row again.
KeptFrom(ch, i, n, u) == \A j \in i..Len(ch) : ~Drops(ch[j], n, u)
Comes(s, ch, n, u) ==
    \/ Has(s, n, u) /\ KeptFrom(ch, 1, n, u)
    \/ \E i \in 1..Len(ch) : Gives(ch[i], n, u) /\ KeptFrom(ch, i + 1, n, u)
OnItsWay(s, ch, u) == \E n \in NamesOf(u) : Comes(s, ch, n, u)

Commands ==
    [op : {"add"}, id : Names, url : Urls] \cup [op : {"remove"}, id : Names]
        \cup {[op |-> "reload", rows |-> Seeded(c)] : c \in Configs}

\* Every listed repo the loop has been told of is scheduled, or will be when the
\* loop has worked off its channel.
Told == \A u \in Urls \ untold : conf[u] # "absent" => OnItsWay(rows, channel, u)

ToldInv ==
    /\ conf \in [Urls -> {"absent", "poll", "never", "added"}]
    /\ channel \in Seq(Commands)
    /\ ~stopped => Told

\* A command that does not drop u's rows, put at the end, changes nothing for u.
LEMMA AppendKeeps ==
    ASSUME NEW s, NEW ch \in Seq(Commands), NEW cmd \in Commands, NEW u,
           OnItsWay(s, ch, u), \A n \in NamesOf(u) : ~Drops(cmd, n, u)
    PROVE  OnItsWay(s, Append(ch, cmd), u)
<1>1. PICK n \in NamesOf(u) : Comes(s, ch, n, u)
  BY DEF OnItsWay
<1>. DEFINE new == Append(ch, cmd)
<1>2. /\ Len(ch) \in Nat /\ Len(new) = Len(ch) + 1 /\ new[Len(ch) + 1] = cmd
      /\ \A j \in 1..Len(ch) : new[j] = ch[j]
  OBVIOUS
<1>3. ASSUME NEW i \in 1..(Len(ch) + 1), KeptFrom(ch, i, n, u) PROVE KeptFrom(new, i, n, u)
  <2>. SUFFICES ASSUME NEW j \in i..Len(new) PROVE ~Drops(new[j], n, u)
    BY DEF KeptFrom
  <2>1. CASE j = Len(ch) + 1
    BY <1>1, <1>2, <2>1
  <2>2. CASE j # Len(ch) + 1
    <3>1. j \in i..Len(ch) /\ j \in 1..Len(ch)
      BY <1>2, <2>2
    <3>. QED
      BY <1>2, <1>3, <3>1 DEF KeptFrom
  <2>. QED
    BY <2>1, <2>2
<1>. HIDE DEF new
<1>4. Comes(s, new, n, u)
  <2>1. CASE Has(s, n, u) /\ KeptFrom(ch, 1, n, u)
    BY <1>2, <1>3, <2>1 DEF Comes
  <2>2. ASSUME NEW i \in 1..Len(ch), Gives(ch[i], n, u), KeptFrom(ch, i + 1, n, u)
        PROVE  Comes(s, new, n, u)
    <3>1. i \in 1..Len(new) /\ i + 1 \in 1..(Len(ch) + 1)
      BY <1>2
    <3>2. KeptFrom(new, i + 1, n, u)
      BY <1>3, <2>2, <3>1
    <3>3. Gives(new[i], n, u)
      BY <1>2, <2>2
    <3>. QED
      BY <3>1, <3>2, <3>3 DEF Comes
  <2>. QED
    BY <1>1, <2>1, <2>2 DEF Comes
<1>. QED
  BY <1>1, <1>4 DEF OnItsWay, new

\* A command that gives u a row does so at the end of the channel.
LEMMA AppendGives ==
    ASSUME NEW s, NEW ch \in Seq(Commands), NEW cmd \in Commands, NEW u,
           NEW n \in NamesOf(u), Gives(cmd, n, u)
    PROVE  OnItsWay(s, Append(ch, cmd), u)
<1>. DEFINE new == Append(ch, cmd)
<1>1. Len(ch) \in Nat /\ Len(new) = Len(ch) + 1 /\ new[Len(ch) + 1] = cmd
  OBVIOUS
<1>2. KeptFrom(new, Len(ch) + 2, n, u)
  BY <1>1 DEF KeptFrom
<1>. HIDE DEF new
<1>3. Comes(s, new, n, u)
  <2>1. Len(ch) + 1 \in 1..Len(new) /\ (Len(ch) + 1) + 1 = Len(ch) + 2
    BY <1>1
  <2>. QED
    BY <1>1, <1>2, <2>1 DEF Comes
<1>. QED
  BY <1>3 DEF OnItsWay, new

\* What applying a command does to the row of this name and URL.
LEMMA ApplyKeepsRow ==
    ASSUME NEW cmd, NEW n, NEW u, Has(rows, n, u), ~Drops(cmd, n, u),
           \/ cmd.op = "add" /\ ApplyAdd(cmd)
           \/ cmd.op = "remove" /\ ApplyRemove(cmd)
           \/ cmd.op = "reload" /\ ApplyReload(cmd)
    PROVE  Has(rows', n, u)
<1>1. PICK r \in rows : r.id = n /\ r.url = u
  BY DEF Has
<1>2. CASE cmd.op = "add" /\ ApplyAdd(cmd)
  BY <1>1, <1>2 DEF Has, ApplyAdd, WithRow
<1>3. CASE cmd.op = "remove" /\ ApplyRemove(cmd)
  BY <1>1, <1>3 DEF Has, Drops, ApplyRemove
<1>4. CASE cmd.op = "reload" /\ ApplyReload(cmd)
  BY <1>4 DEF Drops, ApplyReload
<1>. QED
  BY <1>2, <1>3, <1>4

LEMMA ApplyGivesRow ==
    ASSUME NEW cmd, NEW n, NEW u, Gives(cmd, n, u),
           \/ cmd.op = "add" /\ ApplyAdd(cmd)
           \/ cmd.op = "remove" /\ ApplyRemove(cmd)
           \/ cmd.op = "reload" /\ ApplyReload(cmd)
    PROVE  Has(rows', n, u)
<1>1. CASE cmd.op = "add" /\ ApplyAdd(cmd)
  <2>1. cmd.id = n /\ cmd.url = u /\ rows' = WithRow(rows, n, u)
    BY <1>1 DEF Gives, ApplyAdd
  <2>2. CASE \E r \in rows : r.id = n /\ r.url = u
    BY <2>1, <2>2 DEF WithRow, Has
  <2>3. CASE ~\E r \in rows : r.id = n /\ r.url = u
    <3>. DEFINE p == 1 + Max({r.pos : r \in rows} \cup {0})
    <3>1. rows' = rows \cup {Row(p, n, u, FALSE)}
      BY <2>1, <2>3, Zenon DEF WithRow
    <3>2. PICK q : rows' = rows \cup {[pos |-> q, id |-> n, url |-> u, never |-> FALSE]}
      BY <3>1, Zenon DEF Row
    <3>3. [pos |-> q, id |-> n, url |-> u, never |-> FALSE] \in rows'
      BY <3>2
    <3>. QED
      BY <3>3 DEF Has
  <2>. QED
    BY <2>2, <2>3
<1>2. CASE cmd.op = "reload" /\ ApplyReload(cmd)
  BY <1>2 DEF Gives, ApplyReload
<1>. QED
  BY <1>1, <1>2 DEF Gives

\* The loop takes the first command: what was on its way still is.
LEMMA ReceiveKeeps ==
    ASSUME channel \in Seq(Commands), Receive, NEW u, OnItsWay(rows, channel, u)
    PROVE  OnItsWay(rows', channel', u)
<1>. DEFINE cmd == Head(channel)
            rest == Tail(channel)
<1>1. /\ channel # <<>> /\ channel' = rest
      /\ \/ cmd.op = "add" /\ ApplyAdd(cmd)
         \/ cmd.op = "remove" /\ ApplyRemove(cmd)
         \/ cmd.op = "reload" /\ ApplyReload(cmd)
  BY DEF Receive
<1>2. /\ Len(channel) \in Nat \ {0} /\ Len(rest) = Len(channel) - 1 /\ channel[1] = cmd
      /\ \A j \in 1..Len(rest) : rest[j] = channel[j + 1]
  BY <1>1
<1>3. PICK n \in NamesOf(u) : Comes(rows, channel, n, u)
  BY DEF OnItsWay
<1>. HIDE DEF cmd, rest
<1>4. ASSUME NEW i \in 1..Len(channel), KeptFrom(channel, i + 1, n, u)
      PROVE  KeptFrom(rest, i, n, u)
  <2>. SUFFICES ASSUME NEW j \in i..Len(rest) PROVE ~Drops(rest[j], n, u)
    BY DEF KeptFrom
  <2>1. j \in 1..Len(rest) /\ j + 1 \in (i + 1)..Len(channel)
    BY <1>2
  <2>. QED
    BY <1>2, <1>4, <2>1 DEF KeptFrom
<1>5. Comes(rows', rest, n, u)
  <2>1. CASE Has(rows, n, u) /\ KeptFrom(channel, 1, n, u)
    <3>1. ~Drops(cmd, n, u) /\ KeptFrom(channel, 2, n, u)
      BY <1>2, <2>1 DEF KeptFrom
    <3>2. Has(rows', n, u)
      BY <1>1, <2>1, <3>1, ApplyKeepsRow
    <3>3. 1 \in 1..Len(channel) /\ 1 + 1 = 2
      BY <1>2
    <3>4. KeptFrom(rest, 1, n, u)
      BY <1>4, <3>1, <3>3
    <3>. QED
      BY <3>2, <3>4 DEF Comes
  <2>2. ASSUME NEW i \in 1..Len(channel), Gives(channel[i], n, u),
               KeptFrom(channel, i + 1, n, u)
        PROVE  Comes(rows', rest, n, u)
    <3>1. KeptFrom(rest, i, n, u)
      BY <1>4, <2>2
    <3>2. CASE i = 1
      <4>1. Has(rows', n, u)
        BY <1>1, <1>2, <2>2, <3>2, ApplyGivesRow
      <4>. QED
        BY <3>1, <3>2, <4>1 DEF Comes
    <3>3. CASE i # 1
      <4>1. i - 1 \in 1..Len(rest) /\ (i - 1) + 1 = i
        BY <1>2, <3>3
      <4>2. Gives(rest[i - 1], n, u)
        BY <1>2, <2>2, <4>1
      <4>. QED
        BY <3>1, <4>1, <4>2 DEF Comes
    <3>. QED
      BY <3>2, <3>3
  <2>. QED
    BY <1>3, <2>1, <2>2 DEF Comes
<1>. QED
  BY <1>1, <1>3, <1>5 DEF OnItsWay

\* A config that lists a repo seeds its row.
LEMMA SeededHas ==
    ASSUME NEW c, NEW u \in Urls, c[u] # "absent"
    PROVE  Has(Seeded(c), SchedName[u], u)
<1>1. PICK i \in DOMAIN FileOrder : FileOrder[i] = u
  BY PollConstants
<1>2. Row(i, SchedName[u], u, c[u] = "never") \in Seeded(c)
  BY <1>1 DEF Seeded
<1>. QED
  BY <1>2 DEF Has, Row

\* POST and DELETE of a repo.
LEMMA AddKeepsTold ==
    ASSUME ToldInv, NEW u \in Urls, AddRepo(u)
    PROVE  ToldInv'
<1>1. /\ rows' = rows /\ stopped' = stopped /\ ~stopped
      /\ conf' = [conf EXCEPT ![u] = IF @ = "absent" THEN "added" ELSE @]
  BY DEF AddRepo, loopVars, Admin
<1>2. conf' \in [Urls -> {"absent", "poll", "never", "added"}]
  BY <1>1 DEF ToldInv
<1>3. \A v \in Urls \ {u} : conf'[v] = conf[v]
  BY <1>1 DEF ToldInv
<1>. DEFINE cmd == [op |-> "add", id |-> UrlName[u], url |-> u]
<1>4. CASE channel' = Append(channel, cmd) /\ untold' = untold
  <2>1. cmd \in Commands
    BY PollConstants DEF Commands
  <2>2. channel' \in Seq(Commands)
    BY <1>4, <2>1 DEF ToldInv
  <2>3. \A n, v : ~Drops(cmd, n, v)
    BY DEF Drops
  <2>4. UrlName[u] \in NamesOf(u) /\ Gives(cmd, UrlName[u], u)
    BY DEF NamesOf, Gives
  <2>. HIDE DEF cmd
  <2>5. ASSUME NEW v \in Urls \ untold', conf'[v] # "absent"
        PROVE  OnItsWay(rows', channel', v)
    <3>1. CASE v = u
      BY <1>1, <1>4, <2>1, <2>4, <3>1, AppendGives DEF ToldInv
    <3>2. CASE v # u
      <4>1. OnItsWay(rows, channel, v)
        BY <1>1, <1>3, <1>4, <2>5, <3>2 DEF ToldInv, Told
      <4>. QED
        BY <1>1, <1>4, <2>1, <2>3, <4>1, AppendKeeps DEF ToldInv
    <3>. QED
      BY <3>1, <3>2
  <2>. QED
    BY <1>2, <2>2, <2>5 DEF ToldInv, Told
<1>5. CASE channel' = channel /\ untold' = IF conf' # conf THEN untold \cup {u} ELSE untold
  <2>1. \A v \in Urls \ untold' : v \notin untold /\ conf'[v] = conf[v]
    BY <1>3, <1>5
  <2>. QED
    BY <1>1, <1>2, <1>5, <2>1 DEF ToldInv, Told
<1>. QED
  BY <1>4, <1>5 DEF AddRepo

LEMMA RemoveKeepsTold ==
    ASSUME NamesDiffer, ToldInv, NEW u \in Urls, RemoveRepo(u)
    PROVE  ToldInv'
<1>1. rows' = rows /\ stopped' = stopped /\ ~stopped
  BY DEF RemoveRepo, loopVars, Admin
<1>. DEFINE told == channel \o <<[op |-> "remove", id |-> EntryName(u)]>> \o
                       (IF UrlName[u] # EntryName(u)
                        THEN <<[op |-> "remove", id |-> UrlName[u]]>> ELSE <<>>)
<1>2. CASE /\ conf' = [conf EXCEPT ![u] = "absent"]
           /\ untold' = untold \ {u}
           /\ channel' = told
  <2>. DEFINE a == [op |-> "remove", id |-> EntryName(u)]
              b == [op |-> "remove", id |-> UrlName[u]]
  <2>1. a \in Commands /\ b \in Commands
    BY PollConstants DEF Commands, EntryName
  <2>2. \A v \in Urls \ {u} : \A n \in NamesOf(v) : ~Drops(a, n, v) /\ ~Drops(b, n, v)
    BY DEF NamesDiffer, NamesOf, Drops, EntryName
  <2>3. channel' = Append(channel, a) \/ channel' = Append(Append(channel, a), b)
    BY <1>2, <2>1 DEF ToldInv
  <2>5. conf' \in [Urls -> {"absent", "poll", "never", "added"}]
    BY <1>2 DEF ToldInv
  <2>. HIDE DEF a, b, told
  <2>4. channel \in Seq(Commands) /\ Append(channel, a) \in Seq(Commands)
        /\ channel' \in Seq(Commands)
    BY <2>1, <2>3 DEF ToldInv
  <2>6. ASSUME NEW v \in Urls \ untold', conf'[v] # "absent"
        PROVE  OnItsWay(rows', channel', v)
    <3>1. v # u /\ v \notin untold /\ conf[v] # "absent"
      BY <1>2, <2>6 DEF ToldInv
    <3>2. OnItsWay(rows, channel, v)
      BY <1>1, <3>1 DEF ToldInv, Told
    <3>3. \A n \in NamesOf(v) : ~Drops(a, n, v) /\ ~Drops(b, n, v)
      BY <2>2, <3>1
    <3>4. OnItsWay(rows, Append(channel, a), v)
      BY <2>1, <2>4, <3>2, <3>3, AppendKeeps
    <3>5. OnItsWay(rows, Append(Append(channel, a), b), v)
      BY <2>1, <2>4, <3>3, <3>4, AppendKeeps
    <3>. QED
      BY <1>1, <2>3, <3>4, <3>5
  <2>. QED
    BY <2>4, <2>5, <2>6 DEF ToldInv, Told
<1>3. CASE /\ conf' \in {conf, [conf EXCEPT ![u] = "absent"]}
           /\ untold' = IF conf' # conf THEN untold \cup {u} ELSE untold
           /\ channel' = channel
  <2>1. conf' \in [Urls -> {"absent", "poll", "never", "added"}]
    BY <1>3 DEF ToldInv
  <2>2. \A v \in Urls \ untold' : v \notin untold /\ conf'[v] = conf[v]
    BY <1>3 DEF ToldInv
  <2>. QED
    BY <1>1, <1>3, <2>1, <2>2 DEF ToldInv, Told
<1>. QED
  BY <1>2, <1>3 DEF RemoveRepo

\* A reload, read and told.
LEMMA ReloadKeepsTold ==
    ASSUME ToldInv, NEW c \in Configs, ReloadConfig(c) \/ ReloadTells(c)
    PROVE  ToldInv'
<1>0. c \in [Urls -> {"absent", "poll", "never", "added"}]
  BY PollConstants
<1>1. CASE ReloadConfig(c)
  <2>1. /\ conf' = c /\ untold' = untold \cup {u \in Urls : c[u] # conf[u]}
        /\ rows' = rows /\ channel' = channel /\ stopped' = stopped
    BY <1>1 DEF ReloadConfig, loopVars
  <2>2. \A v \in Urls \ untold' : v \notin untold /\ conf'[v] = conf[v]
    BY <2>1
  <2>. QED
    BY <1>0, <2>1, <2>2 DEF ToldInv, Told
<1>2. CASE ReloadTells(c)
  <2>. DEFINE cmd == [op |-> "reload", rows |-> Seeded(c)]
  <2>1. /\ conf' = conf /\ untold' = {u \in Urls : c[u] # conf[u]}
        /\ rows' = rows /\ channel' = Append(channel, cmd) /\ stopped' = stopped
    BY <1>2 DEF ReloadTells, loopVars
  <2>2. cmd \in Commands /\ cmd.op = "reload" /\ cmd.rows = Seeded(c)
    BY DEF Commands
  <2>. HIDE DEF cmd
  <2>3. channel' \in Seq(Commands)
    BY <2>1, <2>2 DEF ToldInv
  <2>4. ASSUME NEW v \in Urls \ untold', conf'[v] # "absent"
        PROVE  OnItsWay(rows', channel', v)
    <3>1. c[v] # "absent"
      BY <2>1, <2>4
    <3>2. Gives(cmd, SchedName[v], v) /\ SchedName[v] \in NamesOf(v)
      BY <2>2, <3>1, SeededHas DEF Gives, NamesOf
    <3>. QED
      BY <2>1, <2>2, <3>2, AppendGives DEF ToldInv
  <2>. QED
    BY <2>1, <2>3, <2>4 DEF ToldInv, Told
<1>. QED
  BY <1>1, <1>2

\* Every step keeps the invariant; the rest of the loop, the probes and the
\* workers change neither the config nor what is scheduled.
LEMMA ToldStep ==
    ASSUME NamesDiffer, ToldInv, [Next]_vars
    PROVE  ToldInv'
<1>1. ASSUME UNCHANGED <<conf, untold, channel, rows, stopped>> PROVE ToldInv'
  BY <1>1 DEF ToldInv, Told
<1>2. ASSUME NEW u \in Urls, AddRepo(u) \/ RemoveRepo(u) \/ Push(u) \/ Index(u)
      PROVE  ToldInv'
  <2>1. CASE Push(u) \/ Index(u)
    BY <1>1, <2>1 DEF Push, Index, adminVars, loopVars
  <2>. QED
    BY <1>2, <2>1, AddKeepsTold, RemoveKeepsTold
<1>3. ASSUME NEW c \in Configs, ReloadConfig(c) \/ ReloadTells(c)
      PROVE  ToldInv'
  BY <1>3, ReloadKeepsTold
<1>4. CASE SetDrained
  BY <1>1, <1>4 DEF SetDrained, loopVars
<1>5. CASE Receive
  <2>1. UNCHANGED <<conf, untold, stopped>> /\ ~stopped /\ channel' = Tail(channel)
        /\ channel # <<>>
    BY <1>5 DEF Receive, adminVars
  <2>2. channel' \in Seq(Commands)
    BY <2>1 DEF ToldInv
  <2>3. Told'
    BY <1>5, <2>1, ReceiveKeeps DEF ToldInv, Told
  <2>. QED
    BY <2>1, <2>2, <2>3 DEF ToldInv
<1>6. CASE Shutdown
  <2>1. stopped' = TRUE /\ channel' = <<>> /\ conf' = conf
    BY <1>6 DEF Shutdown, adminVars
  <2>. QED
    BY <2>1 DEF ToldInv
<1>7. ASSUME NEW due \in SUBSET Pollable, Tick(due) PROVE ToldInv'
  BY <1>1, <1>7 DEF Tick, adminVars
<1>8. ASSUME NEW k \in Tasks, Join(k) \/ JoinDead(k) \/ Probing(k) PROVE ToldInv'
  BY <1>1, <1>8 DEF Join, JoinDead, Probing, Ends, StartProbe, ProbeAnswers, ProbeFails,
     adminVars
<1>. QED
  BY <1>1, <1>2, <1>3, <1>4, <1>5, <1>6, <1>7, <1>8 DEF Next, vars, adminVars, loopVars

\* Of repos that share no name: with its channel worked off, the loop schedules
\* every repo the config lists, but for those whose entry it was never told of.
\* Adds, removals and reloads may be read and told in any order.
THEOREM ConfiguredScheduled == NamesDiffer /\ Spec => []ConfiguredIsScheduled
<1>1. Init => ToldInv
  <2>. SUFFICES ASSUME Init PROVE ToldInv
    OBVIOUS
  <2>1. /\ conf \in Configs /\ rows = Seeded(conf) /\ channel = <<>> /\ untold = {}
    BY DEF Init
  <2>2. conf \in [Urls -> {"absent", "poll", "never", "added"}]
    BY <2>1, PollConstants
  <2>3. channel \in Seq(Commands) /\ Len(channel) = 0
    BY <2>1
  <2>4. ASSUME NEW u \in Urls, conf[u] # "absent" PROVE OnItsWay(rows, channel, u)
    <3>1. Has(rows, SchedName[u], u) /\ SchedName[u] \in NamesOf(u)
      BY <2>1, <2>4, SeededHas DEF NamesOf
    <3>2. KeptFrom(channel, 1, SchedName[u], u)
      BY <2>3 DEF KeptFrom
    <3>. QED
      BY <3>1, <3>2 DEF OnItsWay, Comes
  <2>. QED
    BY <2>2, <2>3, <2>4 DEF ToldInv, Told
<1>2. NamesDiffer /\ ToldInv /\ [Next]_vars => ToldInv'
  BY ToldStep
<1>3. ToldInv => ConfiguredIsScheduled
  <2>. SUFFICES ASSUME ToldInv, channel = <<>>, ~stopped, NEW u \in Urls \ untold,
                       conf[u] # "absent"
                PROVE  \E r \in rows : r.url = u
    BY DEF ConfiguredIsScheduled
  <2>1. OnItsWay(rows, channel, u) /\ Len(channel) = 0
    BY DEF ToldInv, Told
  <2>. QED
    BY <2>1 DEF OnItsWay, Comes, Has
<1>. SUFFICES ASSUME NamesDiffer PROVE Spec => []ConfiguredIsScheduled
  OBVIOUS
<1>4. ToldInv /\ [Next]_vars => ToldInv'
  BY <1>2
<1>. QED
  BY <1>1, <1>3, <1>4, PTL DEF Spec

=============================================================================
