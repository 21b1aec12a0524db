--------------------------- MODULE MCIndexServer -----------------------------
(* Small instances of IndexServer for TLC. *)
EXTENDS IndexServer, Sequences, TLC

CONSTANTS r1, w1, w2, p1, p2

OneRepo == {r1}
TwoWorkers == {w1, w2}
OnePolicy == {p1}
TwoPolicies == {p1, p2}
FewTokens == 1..4
RowIds == {1}
Symmetry == Permutations(Workers) \cup Permutations(Policies)
RowIdOf == [r \in Repos |-> 1]
\* The third commit reverts the second.
Reverted == <<1, 2, 1>>
\* A single change.
Changed == <<1, 2>>

=============================================================================
