--------------------------- MODULE MCPollScheduler ---------------------------
(* Small instances of PollScheduler for TLC. *)
EXTENDS PollScheduler

CONSTANTS u1, n1, n2

OneUrl == {u1}
JustOne == <<u1>>
TwoNames == {n1, n2}
\* What the operator writes.
Listed == {[u \in Urls |-> e] : e \in {"poll", "absent"}}
\* The config gives the repo another name than its URL has.
ConfigName == [u \in Urls |-> n1]
UrlOther == [u \in Urls |-> n2]

=============================================================================
