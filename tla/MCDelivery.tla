----------------------------- MODULE MCDelivery -----------------------------
(***************************************************************************)
(* Instances of Delivery for TLC.                                          *)
(***************************************************************************)
EXTENDS Delivery, TLC

CONSTANTS r1, s1, s2, m1, m2

\* A run of two shards, one message each.
TwoShards == [s \in {s1, s2} |-> r1]
OneEach == m1 :> s1 @@ m2 :> s2

\* A run of one shard, with one message or a repeated one, as a retried XADD leaves it.
OneShard == [s \in {s1} |-> r1]
Single == m1 :> s1
Twice == m1 :> s1 @@ m2 :> s1

NoStall == {}
StallOnceClaimed == {"mark", "run", "report", "ack"}
StallAnywhere == {"claim"} \cup StallOnceClaimed

\* Workers are interchangeable, and so are the two messages of one shard; safety
\* only.
Symmetry == Permutations(Workers) \cup Permutations({m1, m2})
=============================================================================
