---------------------------- MODULE MCPooledStore ----------------------------
(***************************************************************************)
(* An instance of PooledStore for TLC: two requests on a pool of two, so   *)
(* that two repeated reports exhaust it.                                   *)
(***************************************************************************)
EXTENDS PooledStore

CONSTANTS r1, s1, s2

OneRun == [s \in {s1, s2} |-> r1]
=============================================================================
