--------------------------- MODULE MCShutdownDrain ---------------------------
(* A small instance of ShutdownDrain for TLC. *)
EXTENDS ShutdownDrain

CONSTANTS w1, w2, sigterm, rpc, a1, k1, k2

TwoWriters == {w1, w2}
TwoTriggers == {sigterm, rpc}
OneResume == {a1}
TwoTasks == {k1, k2}

=============================================================================
