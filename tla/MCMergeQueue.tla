----------------------------- MODULE MCMergeQueue -----------------------------
(* Small instances of MergeQueue for TLC. *)
EXTENDS MergeQueue, TLC

CONSTANTS f1, f2, f3

\* 1 and 2 touch different files but break the build together; 3 clashes with
\* 1; 4 is red on its own.
MCFiles == <<{f1}, {f2}, {f1, f3}, {f3}>>
MCClash == {{1, 3}}
MCRed   == {S \in SUBSET Branch : {1, 2} \subseteq S \/ 4 \in S}

=============================================================================
