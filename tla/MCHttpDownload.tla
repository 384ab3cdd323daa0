--------------------------- MODULE MCHttpDownload ---------------------------
(* Instances of HttpDownload for TLC. *)
EXTENDS HttpDownload

\* The sizes of the versions: the second is as large as the first, the third is
\* smaller.  Three blocks are two pieces of which the last is longer.
Sizes == [v \in 1..Versions |-> IF v = 3 THEN 2 ELSE 3]

AllOptions == [threads: 1..MaxThreads, resume: BOOLEAN]
=============================================================================
