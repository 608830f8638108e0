---------------------------- MODULE MCShardStore ----------------------------
(***************************************************************************)
(* Instances of ShardStore for TLC: a run with one or two shards.          *)
(***************************************************************************)
EXTENDS ShardStore, TLC

CONSTANTS r1, s1, s2

OneRun == [s \in {s1, s2} |-> r1]
OneShard == [s \in {s1} |-> r1]

\* Sessions are interchangeable, and so are the payloads of the reports; safety
\* runs only.
Symmetry == Permutations(Sessions) \cup Permutations(Reports)
=============================================================================
