-------------------------- MODULE MCUpstreamHealth ---------------------------
(* A small instance of UpstreamHealth for TLC. *)
EXTENDS UpstreamHealth

CONSTANTS u1, u2, c1, c2

TwoUpstreams == {u1, u2}
TwoCallers == {c1, c2}

=============================================================================
