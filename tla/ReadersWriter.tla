---------------------------- MODULE ReadersWriter ----------------------------
(***************************************************************************)
(* What an authority anchor promises its callers: a readers-writer lock.   *)
(* A caller holds nothing, a shared or an exclusive authority, and an      *)
(* exclusive one excludes every other.                                     *)
(***************************************************************************)
CONSTANT Clients

VARIABLE holds   \* caller -> the mode it holds

Init == holds = [c \in Clients |-> "none"]

\* Two modes that different callers may hold at once.
Compatible(m, n) == m = "none" \/ n = "none" \/ (m = "sh" /\ n = "sh")

Acquire(c, m) ==
    /\ holds[c] = "none"
    /\ \A d \in Clients \ {c} : Compatible(m, holds[d])
    /\ holds' = [holds EXCEPT ![c] = m]

\* One caller, or all those of a process that dies, drop what they hold.
Release(C) == holds' = [c \in Clients |-> IF c \in C THEN "none" ELSE holds[c]]

Next ==
    \/ \E C \in SUBSET Clients : Release(C)
    \/ \E c \in Clients, m \in {"sh", "ex"} : Acquire(c, m)

Spec == Init /\ [][Next]_holds

=============================================================================
