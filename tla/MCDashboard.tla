----------------------------- MODULE MCDashboard -----------------------------
(***************************************************************************)
(* An instance of Dashboard for TLC: two runs, so that the answers of two  *)
(* pages cross.                                                            *)
(***************************************************************************)
EXTENDS Dashboard
=============================================================================
