------------------------------ MODULE MCLoadRun ------------------------------
(***************************************************************************)
(* Instances of LoadRun for TLC: a shard of two users and one of a single *)
(* user; good responses on a bound of the histogram, bad ones beyond the   *)
(* last bound.                                                             *)
(***************************************************************************)
EXTENDS LoadRun, TLC

CONSTANTS s1, s2, u1, u2, u3

TwoAndOne == u1 :> s1 @@ u2 :> s1 @@ u3 :> s2

Response(latency, success) ==
    [responded |-> TRUE, success |-> success, latency |-> latency]
Mixed == {Response(5, TRUE), Response(6000, FALSE)}

\* Bound: four requests in all, so that any two users may send all of theirs, or
\* each of the three at least one; safety only.
MaxSent == 4
Sent(u) == Len(history[u]) + (IF user[u] = "waiting" THEN 1 ELSE 0)
FewRequests == Sent(u1) + Sent(u2) + Sent(u3) <= MaxSent

\* The two users of the first shard are interchangeable; safety only.
Symmetry == Permutations({u1, u2})
=============================================================================
