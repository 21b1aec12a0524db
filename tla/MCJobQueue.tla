----------------------------- MODULE MCJobQueue ------------------------------
(* Small instances of JobQueue for TLC. *)
EXTENDS JobQueue, TLC

CONSTANTS r1, r2

OneRepo == {r1}
TwoRepos == {r1, r2}
RowIds == 1..3
WebhookOnly == {Webhook}
WebhookAndPoll == {Webhook, Poll}
Symmetry == Permutations(Repos)

=============================================================================
