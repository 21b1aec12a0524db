---------------------------- MODULE MCPublication ----------------------------
(* Small instances of Publication for TLC. *)
EXTENDS Publication, TLC

CONSTANTS o1, o2, s1, s2

TwoOps == {o1, o2}
OneSource == {s1}
TwoSources == {s1, s2}
\* An input is touched, or its content changes; nothing is changed back.
TouchOrChange == <<1, 1, 2>>
AllInputs == Inputs
Interchangeable == Permutations(Ops) \cup Permutations(Sources)

=============================================================================
