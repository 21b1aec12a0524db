---------------------------- MODULE MCWriteLease -----------------------------
(* Small instances of WriteLease for TLC. *)
EXTENDS WriteLease, TLC

CONSTANTS t1, t2, t3, p1, p2, l1, g1

ThreeThreads == {t1, t2, t3}
TwoProcs == {p1, p2}
JustTwo == {t2}
JustThree == {t3}
OneGc == {g1}
OneLegacy == {l1}
\* Two threads of one process and one of another.
ProcOfThread == [t \in Clients |-> IF t = t3 THEN p2 ELSE p1]

=============================================================================
