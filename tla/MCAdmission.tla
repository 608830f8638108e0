---------------------------- MODULE MCAdmission ----------------------------
(***************************************************************************)
(* Instances of Admission for TLC: more requests than the cap has room     *)
(* for, with numbers at and beyond every limit of validateCreate.          *)
(***************************************************************************)
EXTENDS Admission, TLC

Symmetry == Permutations(Clients) \cup Permutations(Runs)

\* Bound: one run at most has more than one shard.
OneWideRun == Cardinality({r \in Runs : Len(vus[r]) > 1}) <= 1

AForm(v, n) == [virtualUsers |-> v, shards |-> n]

\* As many shards as users (none asked for) and an uneven split; no users, too many,
\* a negative, too large or too fine number of shards.
AllForms == {AForm(1, 0), AForm(3, 2), AForm(0, 0), AForm(4, 1), AForm(2, -1),
             AForm(3, 3), AForm(1, 2)}
AFewForms == {AForm(1, 0), AForm(3, 2)}
=============================================================================
