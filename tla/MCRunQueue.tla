----------------------------- MODULE MCRunQueue -----------------------------
(***************************************************************************)
(* An instance of RunQueue for TLC.                                        *)
(***************************************************************************)
EXTENDS RunQueue, TLC

\* Runs and workers are interchangeable; safety only.
Symmetry == Permutations(Runs) \cup Permutations(Workers)
=============================================================================
