------------------------- MODULE MCSessionJobQueue -------------------------
(* Instances of SessionJobQueue for TLC. *)
EXTENDS SessionJobQueue

\* The bound on the entries Push can repeat: no more entries wait than there are jobs.
FewDuplicates == Len(pending) <= Cardinality(Jobs)

\* The bound on runs: a stop is the last step looked at, as nothing starts after it.
UntilStopped == ~stopping
=============================================================================
