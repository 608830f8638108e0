---------------------------- MODULE SumTheorems ----------------------------
(***************************************************************************)
(* Facts about SumFunctionOnSet(f, S), the sum of f[x] for x in the finite *)
(* set S, and about Min and Max.  Nothing here knows the platform; the     *)
(* proofs of Admission, LoadRun and RunQueue cite it.                      *)
(*                                                                         *)
(* The induction is over the subsets of a finite set and is carried by a   *)
(* set, not by an operator: a set of subsets has a least member, so a      *)
(* statement that fails fails for a least set.                             *)
(***************************************************************************)
EXTENDS FiniteSetsExt, FiniteSetTheorems, TLAPS

\* A set of subsets of a finite set has a least member.
LEMMA LeastSubset ==
    ASSUME NEW S, IsFiniteSet(S), NEW B \in SUBSET SUBSET S, B # {}
    PROVE  \E T \in B : \A U \in B : ~(U \subseteq T /\ U # T)
<1>1. IsWellFoundedOn(StrictSubsetOrdering(S), SUBSET S)
  BY FS_StrictSubsetOrderingWellFounded, FS_FiniteSubsetsOfFinite
<1>2. PICK T \in B : \A U \in B : <<U, T>> \notin StrictSubsetOrdering(S)
  BY <1>1, WFMin
<1>3. ASSUME NEW U \in B, U \subseteq T, U # T PROVE <<U, T>> \in StrictSubsetOrdering(S)
  BY <1>3 DEF StrictSubsetOrdering
<1>4. ASSUME NEW U \in B, U \subseteq T, U # T PROVE FALSE
  BY <1>2, <1>3, <1>4
<1> QED  BY <1>4

\* Induction over the subsets of a finite set: G holds the empty set, and with a set
\* the one that has an element more.
THEOREM SubsetInduction ==
    ASSUME NEW S, IsFiniteSet(S), NEW G, {} \in G,
           \A T \in SUBSET S : \A x \in S \ T : T \in G => T \cup {x} \in G
    PROVE  \A T \in SUBSET S : T \in G
<1> DEFINE B == {T \in SUBSET S : T \notin G}
<1>1. SUFFICES ASSUME B # {} PROVE FALSE
  OBVIOUS
<1>2. B \in SUBSET SUBSET S
  OBVIOUS
<1>3. PICK T \in B : \A U \in B : ~(U \subseteq T /\ U # T)
  <2> HIDE DEF B
  <2> QED  BY <1>1, <1>2, LeastSubset
<1>4. T \in SUBSET S /\ T \notin G /\ T # {}
  OBVIOUS
<1>5. PICK x \in T : TRUE
  BY <1>4
<1>6. T \ {x} \in SUBSET S /\ T \ {x} \in G
  BY <1>3, <1>4
<1>7. (T \ {x}) \cup {x} = T /\ x \in S \ (T \ {x})
  BY <1>4
<1>8. (T \ {x}) \cup {x} \in G
  <2> DEFINE U == T \ {x}
  <2> HIDE DEF U, B
  <2>1. U \in SUBSET S /\ U \in G /\ x \in S \ U
    BY <1>6, <1>7 DEF U
  <2>2. U \cup {x} \in G
    BY <2>1
  <2> QED  BY <2>2 DEF U
<1> QED  BY <1>4, <1>7, <1>8

\* A set of natural numbers has a least member.
LEMMA LeastNumber ==
    ASSUME NEW B \in SUBSET Nat, B # {}
    PROVE  \E n \in B : \A m \in B : n <= m
<1>1. PICK n \in B : \A m \in B : <<m, n>> \notin OpToRel(<, Nat)
  BY NatLessThanWellFounded, WFMin
<1>2. ASSUME NEW m \in B, m < n PROVE <<m, n>> \in OpToRel(<, Nat)
  BY <1>2 DEF OpToRel
<1>3. \A m \in B : ~(m < n)
  BY <1>1, <1>2, Zenon
<1> QED  BY <1>3

-----------------------------------------------------------------------------
Pick(s) == CHOOSE x \in s : TRUE

\* g computes the sums over the subsets of S, up to n elements.
Sums(g, f, S, n) ==
    \A s \in SUBSET S : Cardinality(s) <= n =>
        g[s] = IF s = {} THEN 0 ELSE f[Pick(s)] + g[s \ {Pick(s)}]

LEMMA SumsExist ==
    ASSUME NEW f, NEW S, IsFiniteSet(S), \A x \in S : f[x] \in Int
    PROVE  \E g \in [SUBSET S -> Int] : Sums(g, f, S, Cardinality(S))
<1> DEFINE B == {n \in Nat : ~\E g \in [SUBSET S -> Int] : Sums(g, f, S, n)}
<1>1. SUFFICES B = {}
  BY FS_CardinalityType
<1>2. SUFFICES ASSUME B # {} PROVE FALSE
  OBVIOUS
<1>3. PICK n \in B : \A m \in B : n <= m
  BY <1>2, LeastNumber
<1>n. n \in Nat
  OBVIOUS
<1>4. \A s \in SUBSET S : Cardinality(s) \in Nat /\ (Cardinality(s) = 0 <=> s = {})
  BY FS_Subset, FS_CardinalityType, FS_EmptySet
<1>p. ASSUME NEW s \in SUBSET S, s # {}
      PROVE  Pick(s) \in s /\ Cardinality(s \ {Pick(s)}) = Cardinality(s) - 1
  <2>1. Pick(s) \in s
    BY <1>p DEF Pick
  <2> QED  BY <2>1, FS_Subset, FS_RemoveElement
<1> HIDE DEF B
<1>5. CASE n = 0
  <2>1. [s \in SUBSET S |-> 0] \in [SUBSET S -> Int]
    OBVIOUS
  <2>2. Sums([s \in SUBSET S |-> 0], f, S, 0)
    <3> SUFFICES ASSUME NEW s \in SUBSET S, Cardinality(s) <= 0 PROVE s = {}
      BY DEF Sums
    <3> QED  BY <1>4
  <2> QED  BY <1>5, <2>1, <2>2 DEF B
<1>6. CASE n # 0
  <2>1. n - 1 \in Nat /\ n - 1 \notin B
    BY <1>3, <1>n, <1>6
  <2>2. PICK g \in [SUBSET S -> Int] : Sums(g, f, S, n - 1)
    BY <2>1 DEF B
  <2> DEFINE h == [s \in SUBSET S |->
                    IF Cardinality(s) <= n - 1 THEN g[s]
                    ELSE f[Pick(s)] + g[s \ {Pick(s)}]]
  <2>3. h \in [SUBSET S -> Int]
    <3> SUFFICES ASSUME NEW s \in SUBSET S
                 PROVE  (IF Cardinality(s) <= n - 1 THEN g[s]
                         ELSE f[Pick(s)] + g[s \ {Pick(s)}]) \in Int
      OBVIOUS
    <3>1. CASE Cardinality(s) <= n - 1
      BY <3>1
    <3>2. CASE ~(Cardinality(s) <= n - 1)
      <4>1. Pick(s) \in S
        BY <1>4, <1>p, <2>1, <3>2
      <4> QED  BY <3>2, <4>1
    <3> QED  BY <3>1, <3>2
  <2>4. Sums(h, f, S, n)
    <3> SUFFICES ASSUME NEW s \in SUBSET S, Cardinality(s) <= n
                 PROVE  h[s] = IF s = {} THEN 0 ELSE f[Pick(s)] + h[s \ {Pick(s)}]
      BY DEF Sums
    <3>1. CASE s = {}
      <4>1. Cardinality(s) <= n - 1
        BY <1>4, <2>1, <3>1
      <4> QED  BY <2>2, <3>1, <4>1 DEF Sums
    <3>2. CASE s # {}
      <4>1. /\ s \ {Pick(s)} \in SUBSET S /\ Cardinality(s \ {Pick(s)}) <= n - 1
            /\ Pick(s) \in s
        BY <1>4, <1>n, <1>p, <2>1, <3>2
      <4>2. h[s \ {Pick(s)}] = g[s \ {Pick(s)}]
        BY <4>1
      <4>3. h[s] = f[Pick(s)] + g[s \ {Pick(s)}]
        BY <2>2, <3>2 DEF Sums
      <4> QED  BY <3>2, <4>2, <4>3
    <3> QED  BY <3>1, <3>2
  <2> HIDE DEF h
  <2> QED  BY <2>3, <2>4 DEF B
<1> QED  BY <1>5, <1>6

\* The recursive function of the definition exists.
LEMMA SumUnfolds ==
    ASSUME NEW f, NEW S, IsFiniteSet(S), \A x \in S : f[x] \in Int
    PROVE  \E g : /\ g = [s \in SUBSET S |-> IF s = {} THEN 0 ELSE f[Pick(s)] + g[s \ {Pick(s)}]]
                  /\ SumFunctionOnSet(f, S) = g[S]
<1> DEFINE Eq(g) == g = [s \in SUBSET S |-> IF s = {} THEN 0 ELSE f[Pick(s)] + g[s \ {Pick(s)}]]
<1>1. PICK g \in [SUBSET S -> Int] : Sums(g, f, S, Cardinality(S))
  BY SumsExist
<1>2. Eq(g)
  <2>1. \A s \in SUBSET S : Cardinality(s) <= Cardinality(S)
    BY FS_Subset
  <2> QED  BY <1>1, <2>1 DEF Sums
<1>3. Eq(CHOOSE h : Eq(h))
  BY <1>2
<1>4. SumFunctionOnSet(f, S) = (CHOOSE h : Eq(h))[S]
  BY DEF SumFunctionOnSet, FoldFunctionOnSet, MapThenFoldSet, Pick
<1> QED  BY <1>3, <1>4

\* Two such functions agree where both are defined.
Unfolds(g, f, S) ==
    \A s \in SUBSET S : g[s] = IF s = {} THEN 0 ELSE f[Pick(s)] + g[s \ {Pick(s)}]

LEMMA SumsAgree ==
    ASSUME NEW f, NEW S, IsFiniteSet(S), NEW T \in SUBSET S, NEW g, NEW h,
           Unfolds(g, f, S), Unfolds(h, f, T)
    PROVE  g[T] = h[T]
<1> DEFINE B == {s \in SUBSET T : g[s] # h[s]}
<1>1. SUFFICES ASSUME B # {} PROVE FALSE
  OBVIOUS
<1>2. IsFiniteSet(T) /\ B \in SUBSET SUBSET T
  BY FS_Subset
<1>3. PICK s \in B : \A u \in B : ~(u \subseteq s /\ u # s)
  <2> HIDE DEF B
  <2> QED  BY <1>1, <1>2, LeastSubset
<1>a. s \in SUBSET T /\ s \in SUBSET S /\ g[s] # h[s]
  OBVIOUS
<1>b. /\ g[s] = IF s = {} THEN 0 ELSE f[Pick(s)] + g[s \ {Pick(s)}]
      /\ h[s] = IF s = {} THEN 0 ELSE f[Pick(s)] + h[s \ {Pick(s)}]
  BY <1>a DEF Unfolds
<1>4. s # {}
  BY <1>a, <1>b
<1>5. Pick(s) \in s
  BY <1>4 DEF Pick
<1>6. s \ {Pick(s)} \notin B
  BY <1>3, <1>5
<1>7. g[s \ {Pick(s)}] = h[s \ {Pick(s)}]
  BY <1>6, <1>a
<1> HIDE DEF B
<1> QED  BY <1>4, <1>7, <1>a, <1>b

LEMMA SumFound ==
    ASSUME NEW f, NEW S, IsFiniteSet(S), \A x \in S : f[x] \in Int
    PROVE  \E g : Unfolds(g, f, S) /\ SumFunctionOnSet(f, S) = g[S]
<1>1. PICK g : /\ g = [s \in SUBSET S |-> IF s = {} THEN 0 ELSE f[Pick(s)] + g[s \ {Pick(s)}]]
               /\ SumFunctionOnSet(f, S) = g[S]
  BY SumUnfolds
<1>2. Unfolds(g, f, S)
  BY <1>1 DEF Unfolds
<1> QED  BY <1>1, <1>2

THEOREM SumEmpty == ASSUME NEW f PROVE SumFunctionOnSet(f, {}) = 0
<1>1. PICK g : Unfolds(g, f, {}) /\ SumFunctionOnSet(f, {}) = g[{}]
  BY SumFound, FS_EmptySet
<1> QED  BY <1>1 DEF Unfolds

LEMMA SumPick ==
    ASSUME NEW f, NEW S, IsFiniteSet(S), \A x \in S : f[x] \in Int, S # {}
    PROVE  SumFunctionOnSet(f, S) = f[Pick(S)] + SumFunctionOnSet(f, S \ {Pick(S)})
<1> DEFINE T == S \ {Pick(S)}
<1>1. PICK g : Unfolds(g, f, S) /\ SumFunctionOnSet(f, S) = g[S]
  BY SumFound
<1>2. IsFiniteSet(T) /\ T \in SUBSET S /\ \A x \in T : f[x] \in Int
  BY FS_Subset
<1>3. g[S] = f[Pick(S)] + g[T]
  BY <1>1 DEF Unfolds
<1> HIDE DEF T
<1>4. PICK h : Unfolds(h, f, T) /\ SumFunctionOnSet(f, T) = h[T]
  BY <1>2, SumFound
<1>5. g[T] = h[T]
  BY <1>1, <1>2, <1>4, SumsAgree
<1> QED  BY <1>1, <1>3, <1>4, <1>5 DEF T

THEOREM SumInt ==
    ASSUME NEW f, NEW S, IsFiniteSet(S), \A x \in S : f[x] \in Int
    PROVE  SumFunctionOnSet(f, S) \in Int
<1> DEFINE B == {T \in SUBSET S : SumFunctionOnSet(f, T) \notin Int}
<1>1. SUFFICES ASSUME B # {} PROVE FALSE
  OBVIOUS
<1>b. B \in SUBSET SUBSET S
  OBVIOUS
<1>2. PICK T \in B : \A U \in B : ~(U \subseteq T /\ U # T)
  <2> HIDE DEF B
  <2> QED  BY <1>1, <1>b, LeastSubset
<1>a. T \in SUBSET S /\ SumFunctionOnSet(f, T) \notin Int
  OBVIOUS
<1>3. IsFiniteSet(T) /\ \A x \in T : f[x] \in Int
  BY <1>a, FS_Subset
<1>4. T # {}
  BY <1>a, SumEmpty
<1>5. Pick(T) \in T
  BY <1>4 DEF Pick
<1>6. SumFunctionOnSet(f, T \ {Pick(T)}) \in Int
  BY <1>2, <1>5, <1>a
<1> HIDE DEF B
<1>7. SumFunctionOnSet(f, T) = f[Pick(T)] + SumFunctionOnSet(f, T \ {Pick(T)})
  BY <1>3, <1>4, SumPick
<1>8. f[Pick(T)] \in Int
  BY <1>3, <1>5
<1> QED  BY <1>6, <1>7, <1>8, <1>a

\* The order does not matter: any element may be taken first.
THEOREM SumRest ==
    ASSUME NEW f, NEW S, IsFiniteSet(S), \A z \in S : f[z] \in Int, NEW x \in S
    PROVE  SumFunctionOnSet(f, S) = f[x] + SumFunctionOnSet(f, S \ {x})
<1> DEFINE Bad(T) == \E y \in T : SumFunctionOnSet(f, T) # f[y] + SumFunctionOnSet(f, T \ {y})
           B == {T \in SUBSET S : Bad(T)}
<1>1. SUFFICES ASSUME B # {} PROVE FALSE
  OBVIOUS
<1>b. B \in SUBSET SUBSET S
  OBVIOUS
<1>2. PICK T \in B : \A U \in B : ~(U \subseteq T /\ U # T)
  <2> HIDE DEF B
  <2> QED  BY <1>1, <1>b, LeastSubset
<1>a. T \in SUBSET S /\ Bad(T)
  OBVIOUS
<1>3. PICK y \in T : SumFunctionOnSet(f, T) # f[y] + SumFunctionOnSet(f, T \ {y})
  BY <1>a
<1>4. ASSUME NEW U \in SUBSET S
      PROVE  /\ IsFiniteSet(U) /\ (\A z \in U : f[z] \in Int)
             /\ SumFunctionOnSet(f, U) \in Int
  BY FS_Subset, SumInt
<1> DEFINE p == Pick(T)
<1>5. p \in T
  BY DEF Pick
<1>6. SumFunctionOnSet(f, T) = f[p] + SumFunctionOnSet(f, T \ {p})
  BY <1>3, <1>4, <1>a, SumPick
<1> HIDE DEF p
<1>7. p # y
  BY <1>3, <1>6
<1>8. T \in SUBSET S /\ T \ {p} \in SUBSET S /\ T \ {y} \in SUBSET S
  BY <1>a
<1>9. ~Bad(T \ {p}) /\ ~Bad(T \ {y})
  <2> HIDE DEF Bad
  <2>1. T \ {p} \notin B /\ T \ {y} \notin B
    BY <1>2, <1>5
  <2> QED  BY <1>8, <2>1
<1> HIDE DEF B
<1> DEFINE R == (T \ {p}) \ {y}
<1>11. (T \ {y}) \ {p} = R /\ R \in SUBSET S
  BY <1>8
<1>10. /\ SumFunctionOnSet(f, T \ {p}) = f[y] + SumFunctionOnSet(f, R)
       /\ SumFunctionOnSet(f, T \ {y}) = f[p] + SumFunctionOnSet(f, (T \ {y}) \ {p})
  BY <1>5, <1>7, <1>9
<1> HIDE DEF Bad, R
<1>12. f[p] \in Int /\ f[y] \in Int /\ SumFunctionOnSet(f, R) \in Int
  BY <1>4, <1>5, <1>8, <1>11
<1>13. f[p] + (f[y] + SumFunctionOnSet(f, R)) = f[y] + (f[p] + SumFunctionOnSet(f, R))
  BY <1>12
<1> QED  BY <1>3, <1>6, <1>10, <1>11, <1>13

THEOREM SumAdd ==
    ASSUME NEW f, NEW S, IsFiniteSet(S), NEW x, x \notin S, f[x] \in Int,
           \A z \in S : f[z] \in Int
    PROVE  SumFunctionOnSet(f, S \cup {x}) = f[x] + SumFunctionOnSet(f, S)
<1> DEFINE T == S \cup {x}
<1>1. IsFiniteSet(T) /\ x \in T /\ (\A z \in T : f[z] \in Int) /\ T \ {x} = S
  BY FS_AddElement
<1> HIDE DEF T
<1>2. SumFunctionOnSet(f, T) = f[x] + SumFunctionOnSet(f, T \ {x})
  BY <1>1, SumRest
<1> QED  BY <1>1, <1>2 DEF T

\* A sum looks at the function's values on the set and at nothing else.
THEOREM SumSame ==
    ASSUME NEW f, NEW g, NEW S, IsFiniteSet(S), \A x \in S : f[x] \in Int /\ f[x] = g[x]
    PROVE  SumFunctionOnSet(f, S) = SumFunctionOnSet(g, S)
<1> DEFINE G == {T \in SUBSET S : SumFunctionOnSet(f, T) = SumFunctionOnSet(g, T)}
<1>1. {} \in G
  BY SumEmpty
<1>2. ASSUME NEW T \in SUBSET S, NEW x \in S \ T, T \in G PROVE T \cup {x} \in G
  <2>1. IsFiniteSet(T) /\ (\A z \in T : f[z] \in Int /\ g[z] \in Int) /\ x \notin T
    BY FS_Subset
  <2>2. SumFunctionOnSet(f, T) = SumFunctionOnSet(g, T) /\ T \cup {x} \in SUBSET S
    BY <1>2
  <2> HIDE DEF G
  <2>3. /\ SumFunctionOnSet(f, T \cup {x}) = f[x] + SumFunctionOnSet(f, T)
        /\ SumFunctionOnSet(g, T \cup {x}) = g[x] + SumFunctionOnSet(g, T)
    BY <2>1, SumAdd
  <2> QED  BY <2>2, <2>3 DEF G
<1>3. \A T \in SUBSET S : T \in G
  <2> HIDE DEF G
  <2> QED  BY <1>1, <1>2, SubsetInduction
<1> QED  BY <1>3

THEOREM SumNat ==
    ASSUME NEW f, NEW S, IsFiniteSet(S), \A x \in S : f[x] \in Nat
    PROVE  SumFunctionOnSet(f, S) \in Nat
<1> DEFINE G == {T \in SUBSET S : SumFunctionOnSet(f, T) \in Nat}
<1>1. {} \in G
  BY SumEmpty
<1>2. ASSUME NEW T \in SUBSET S, NEW x \in S \ T, T \in G PROVE T \cup {x} \in G
  <2>1. IsFiniteSet(T) /\ (\A z \in T : f[z] \in Int) /\ x \notin T
    BY FS_Subset
  <2>2. SumFunctionOnSet(f, T) \in Nat /\ T \cup {x} \in SUBSET S
    BY <1>2
  <2> HIDE DEF G
  <2>3. SumFunctionOnSet(f, T \cup {x}) = f[x] + SumFunctionOnSet(f, T)
    BY <2>1, SumAdd
  <2> QED  BY <2>2, <2>3 DEF G
<1>3. \A T \in SUBSET S : T \in G
  <2> HIDE DEF G
  <2> QED  BY <1>1, <1>2, SubsetInduction
<1> QED  BY <1>3

THEOREM SumPlus ==
    ASSUME NEW f, NEW g, NEW h, NEW S, IsFiniteSet(S),
           \A x \in S : g[x] \in Int /\ h[x] \in Int /\ f[x] = g[x] + h[x]
    PROVE  SumFunctionOnSet(f, S) = SumFunctionOnSet(g, S) + SumFunctionOnSet(h, S)
<1> DEFINE G == {T \in SUBSET S :
                   SumFunctionOnSet(f, T) = SumFunctionOnSet(g, T) + SumFunctionOnSet(h, T)}
<1>1. {} \in G
  BY SumEmpty
<1>2. ASSUME NEW T \in SUBSET S, NEW x \in S \ T, T \in G PROVE T \cup {x} \in G
  <2>1. /\ IsFiniteSet(T) /\ x \notin T
        /\ \A z \in T : f[z] \in Int /\ g[z] \in Int /\ h[z] \in Int
    BY FS_Subset
  <2>2. /\ SumFunctionOnSet(f, T) = SumFunctionOnSet(g, T) + SumFunctionOnSet(h, T)
        /\ T \cup {x} \in SUBSET S
    BY <1>2
  <2> HIDE DEF G
  <2>3. /\ SumFunctionOnSet(f, T \cup {x}) = f[x] + SumFunctionOnSet(f, T)
        /\ SumFunctionOnSet(g, T \cup {x}) = g[x] + SumFunctionOnSet(g, T)
        /\ SumFunctionOnSet(h, T \cup {x}) = h[x] + SumFunctionOnSet(h, T)
    BY <2>1, SumAdd
  <2>4. SumFunctionOnSet(g, T) \in Int /\ SumFunctionOnSet(h, T) \in Int
    BY <2>1, SumInt
  <2>5. f[x] = g[x] + h[x] /\ g[x] \in Int /\ h[x] \in Int
    OBVIOUS
  <2>6. (g[x] + h[x]) + (SumFunctionOnSet(g, T) + SumFunctionOnSet(h, T))
          = (g[x] + SumFunctionOnSet(g, T)) + (h[x] + SumFunctionOnSet(h, T))
    BY <2>4, <2>5
  <2> QED  BY <2>2, <2>3, <2>5, <2>6 DEF G
<1>3. \A T \in SUBSET S : T \in G
  <2> HIDE DEF G
  <2> QED  BY <1>1, <1>2, SubsetInduction
<1> QED  BY <1>3

\* Sums over disjoint sets add up.
\* Larger summands, a larger sum.
THEOREM SumLess ==
    ASSUME NEW f, NEW g, NEW S, IsFiniteSet(S),
           \A x \in S : f[x] \in Int /\ g[x] \in Int /\ f[x] <= g[x]
    PROVE  SumFunctionOnSet(f, S) <= SumFunctionOnSet(g, S)
<1> DEFINE d == [x \in S |-> g[x] - f[x]]
<1>1. \A x \in S : d[x] \in Nat /\ f[x] \in Int /\ g[x] = f[x] + d[x]
  OBVIOUS
<1> HIDE DEF d
<1>2. SumFunctionOnSet(g, S) = SumFunctionOnSet(f, S) + SumFunctionOnSet(d, S)
  BY <1>1, SumPlus
<1>3. SumFunctionOnSet(d, S) \in Nat /\ SumFunctionOnSet(f, S) \in Int
  BY <1>1, SumNat, SumInt
<1> QED  BY <1>2, <1>3

THEOREM SumUnion ==
    ASSUME NEW f, NEW R, NEW S, IsFiniteSet(R), IsFiniteSet(S), R \cap S = {},
           \A x \in R \cup S : f[x] \in Int
    PROVE  SumFunctionOnSet(f, R \cup S) = SumFunctionOnSet(f, R) + SumFunctionOnSet(f, S)
<1> DEFINE G == {T \in SUBSET S :
                   SumFunctionOnSet(f, R \cup T) = SumFunctionOnSet(f, R) + SumFunctionOnSet(f, T)}
<1>r. SumFunctionOnSet(f, R) \in Int
  BY SumInt
<1>1. {} \in G
  <2>1. R \cup {} = R
    OBVIOUS
  <2> QED  BY <1>r, <2>1, SumEmpty
<1>2. ASSUME NEW T \in SUBSET S, NEW x \in S \ T, T \in G PROVE T \cup {x} \in G
  <2>1. /\ IsFiniteSet(T) /\ x \notin T /\ f[x] \in Int
        /\ IsFiniteSet(R \cup T) /\ x \notin R \cup T
        /\ \A z \in R \cup T : f[z] \in Int
    BY FS_Subset, FS_Union
  <2>2. /\ SumFunctionOnSet(f, R \cup T) = SumFunctionOnSet(f, R) + SumFunctionOnSet(f, T)
        /\ T \cup {x} \in SUBSET S
    BY <1>2
  <2> HIDE DEF G
  <2>3. SumFunctionOnSet(f, T \cup {x}) = f[x] + SumFunctionOnSet(f, T)
    BY <2>1, SumAdd
  <2>4. SumFunctionOnSet(f, (R \cup T) \cup {x}) = f[x] + SumFunctionOnSet(f, R \cup T)
    BY <2>1, SumAdd
  <2>5. SumFunctionOnSet(f, T) \in Int
    BY <2>1, SumInt
  <2>6. R \cup (T \cup {x}) = (R \cup T) \cup {x}
    OBVIOUS
  <2>7. f[x] + (SumFunctionOnSet(f, R) + SumFunctionOnSet(f, T))
          = SumFunctionOnSet(f, R) + (f[x] + SumFunctionOnSet(f, T))
    BY <1>r, <2>1, <2>5
  <2> QED  BY <2>2, <2>3, <2>4, <2>6, <2>7 DEF G
<1>3. \A T \in SUBSET S : T \in G
  <2> HIDE DEF G
  <2> QED  BY <1>1, <1>2, SubsetInduction
<1> QED  BY <1>3

THEOREM SumConstant ==
    ASSUME NEW f, NEW S, IsFiniteSet(S), NEW c \in Int, \A x \in S : f[x] = c
    PROVE  SumFunctionOnSet(f, S) = c * Cardinality(S)
<1> DEFINE G == {T \in SUBSET S : SumFunctionOnSet(f, T) = c * Cardinality(T)}
<1>1. {} \in G
  BY SumEmpty, FS_EmptySet
<1>2. ASSUME NEW T \in SUBSET S, NEW x \in S \ T, T \in G PROVE T \cup {x} \in G
  <2>1. /\ IsFiniteSet(T) /\ x \notin T /\ f[x] = c /\ f[x] \in Int
        /\ \A z \in T : f[z] \in Int
    BY FS_Subset
  <2>2. SumFunctionOnSet(f, T) = c * Cardinality(T) /\ T \cup {x} \in SUBSET S
    BY <1>2
  <2> HIDE DEF G
  <2>3. SumFunctionOnSet(f, T \cup {x}) = f[x] + SumFunctionOnSet(f, T)
    BY <2>1, SumAdd
  <2>4. Cardinality(T) \in Nat /\ Cardinality(T \cup {x}) = Cardinality(T) + 1
    BY <2>1, FS_CardinalityType, FS_AddElement
  <2>5. c + c * Cardinality(T) = c * (Cardinality(T) + 1)
    BY <2>4
  <2> QED  BY <2>1, <2>2, <2>3, <2>4, <2>5 DEF G
<1>3. \A T \in SUBSET S : T \in G
  <2> HIDE DEF G
  <2> QED  BY <1>1, <1>2, SubsetInduction
<1> QED  BY <1>3

THEOREM SumOnes ==
    ASSUME NEW f, NEW S, IsFiniteSet(S), \A x \in S : f[x] = 1
    PROVE  SumFunctionOnSet(f, S) = Cardinality(S)
<1>1. Cardinality(S) \in Nat
  BY FS_CardinalityType
<1>2. SumFunctionOnSet(f, S) = 1 * Cardinality(S)
  BY SumConstant
<1> QED  BY <1>1, <1>2

\* What is zero adds nothing.
THEOREM SumSupport ==
    ASSUME NEW f, NEW S, IsFiniteSet(S), \A x \in S : f[x] \in Int,
           NEW T \in SUBSET S, \A x \in S \ T : f[x] = 0
    PROVE  SumFunctionOnSet(f, S) = SumFunctionOnSet(f, T)
<1> DEFINE R == S \ T
<1>1. /\ IsFiniteSet(R) /\ IsFiniteSet(T) /\ R \cup T = S /\ R \cap T = {}
      /\ (\A x \in R \cup T : f[x] \in Int) /\ (\A x \in T : f[x] \in Int)
      /\ \A x \in R : f[x] = 0
  BY FS_Subset
<1> HIDE DEF R
<1>2. SumFunctionOnSet(f, R \cup T) = SumFunctionOnSet(f, R) + SumFunctionOnSet(f, T)
  BY <1>1, SumUnion
<1>3. SumFunctionOnSet(f, R) = 0 * Cardinality(R) /\ Cardinality(R) \in Nat
  BY <1>1, SumConstant, FS_CardinalityType
<1>4. SumFunctionOnSet(f, T) \in Int
  BY <1>1, SumInt
<1>5. SumFunctionOnSet(f, R) = 0
  BY <1>3
<1>6. R \cup T = S
  BY <1>1
<1>7. SumFunctionOnSet(f, S) = 0 + SumFunctionOnSet(f, T)
  BY <1>2, <1>5, <1>6
<1> QED  BY <1>4, <1>7

\* A sum of natural numbers is zero only if all of them are.
THEOREM SumIsZero ==
    ASSUME NEW f, NEW S, IsFiniteSet(S), \A x \in S : f[x] \in Nat,
           SumFunctionOnSet(f, S) = 0
    PROVE  \A x \in S : f[x] = 0
<1> SUFFICES ASSUME NEW x \in S PROVE f[x] = 0
  OBVIOUS
<1>1. SumFunctionOnSet(f, S) = f[x] + SumFunctionOnSet(f, S \ {x})
  BY SumRest
<1> DEFINE T == S \ {x}
<1>2. IsFiniteSet(T) /\ \A z \in T : f[z] \in Nat
  BY FS_Subset
<1> HIDE DEF T
<1>3. SumFunctionOnSet(f, T) \in Nat
  BY <1>2, SumNat
<1>4. f[x] \in Nat /\ 0 = f[x] + SumFunctionOnSet(f, T)
  BY <1>1 DEF T
<1> QED  BY <1>3, <1>4

\* A set summed group by group: p gives each element its group.
Group(S, p, k) == {x \in S : p[x] = k}

THEOREM SumByGroup ==
    ASSUME NEW f, NEW h, NEW S, NEW K, IsFiniteSet(S), IsFiniteSet(K),
           \A x \in S : f[x] \in Int,
           NEW p, \A x \in S : p[x] \in K,
           \A k \in K : h[k] = SumFunctionOnSet(f, Group(S, p, k))
    PROVE  SumFunctionOnSet(h, K) = SumFunctionOnSet(f, S)
<1> DEFINE In(L) == {x \in S : p[x] \in L}
           G == {L \in SUBSET K : SumFunctionOnSet(h, L) = SumFunctionOnSet(f, In(L))}
<1>1. {} \in G
  <2>1. In({}) = {}
    OBVIOUS
  <2> HIDE DEF In
  <2> QED  BY <2>1, SumEmpty
<1>f. ASSUME NEW T \in SUBSET S PROVE IsFiniteSet(T) /\ \A x \in T : f[x] \in Int
  BY FS_Subset
<1>h. ASSUME NEW k \in K PROVE h[k] = SumFunctionOnSet(f, Group(S, p, k)) /\ h[k] \in Int
  <2>1. Group(S, p, k) \in SUBSET S /\ h[k] = SumFunctionOnSet(f, Group(S, p, k))
    BY DEF Group
  <2> QED  BY <1>f, <2>1, SumInt
<1>2. ASSUME NEW L \in SUBSET K, NEW k \in K \ L, L \in G PROVE L \cup {k} \in G
  <2>1. IsFiniteSet(L) /\ k \notin L /\ (\A z \in L : h[z] \in Int) /\ h[k] \in Int
    BY <1>h, FS_Subset
  <2>2. SumFunctionOnSet(h, L) = SumFunctionOnSet(f, In(L)) /\ L \cup {k} \in SUBSET K
    BY <1>2
  <2>3. /\ In(L \cup {k}) = Group(S, p, k) \cup In(L) /\ Group(S, p, k) \cap In(L) = {}
        /\ Group(S, p, k) \in SUBSET S /\ In(L) \in SUBSET S
    BY DEF Group
  <2> HIDE DEF In
  <2>4. SumFunctionOnSet(f, Group(S, p, k) \cup In(L))
          = SumFunctionOnSet(f, Group(S, p, k)) + SumFunctionOnSet(f, In(L))
    <3>1. /\ IsFiniteSet(Group(S, p, k)) /\ IsFiniteSet(In(L))
          /\ \A x \in Group(S, p, k) \cup In(L) : f[x] \in Int
      BY <1>f, <2>3
    <3> QED  BY <2>3, <3>1, SumUnion
  <2>5. SumFunctionOnSet(h, L \cup {k}) = h[k] + SumFunctionOnSet(h, L)
    <3> HIDE DEF G
    <3> QED  BY <2>1, SumAdd
  <2>6. h[k] = SumFunctionOnSet(f, Group(S, p, k))
    BY <1>h
  <2> QED  BY <2>2, <2>3, <2>4, <2>5, <2>6
<1>3. \A L \in SUBSET K : L \in G
  <2> HIDE DEF G
  <2> QED  BY <1>1, <1>2, SubsetInduction
<1>4. In(K) = S /\ K \in G
  BY <1>3
<1> HIDE DEF In
<1> QED  BY <1>4

\* A sum may be taken over another set that counts the same elements.
THEOREM SumRenamed ==
    ASSUME NEW f, NEW g, NEW S, NEW T, IsFiniteSet(S), IsFiniteSet(T),
           \A x \in S : f[x] \in Int,
           NEW b, \A x \in S : b[x] \in T /\ g[b[x]] = f[x],
           \A y \in T : \E x \in S : b[x] = y,
           \A x, z \in S : b[x] = b[z] => x = z
    PROVE  SumFunctionOnSet(f, S) = SumFunctionOnSet(g, T)
<1>1. ASSUME NEW y \in T PROVE g[y] = SumFunctionOnSet(f, Group(S, b, y))
  <2>1. PICK x \in S : b[x] = y
    OBVIOUS
  <2>2. Group(S, b, y) = {} \cup {x}
    BY <2>1 DEF Group
  <2>3. SumFunctionOnSet(f, {} \cup {x}) = f[x] + SumFunctionOnSet(f, {})
    BY FS_EmptySet, SumAdd
  <2>4. SumFunctionOnSet(f, {}) = 0 /\ f[x] \in Int /\ g[y] = f[x]
    BY <2>1, SumEmpty
  <2> QED  BY <2>2, <2>3, <2>4
<1>2. \A y \in T : g[y] = SumFunctionOnSet(f, Group(S, b, y))
  BY <1>1
<1>3. \A x \in S : b[x] \in T
  OBVIOUS
<1> QED  BY <1>2, <1>3, SumByGroup

\* The elements of a set are counted group by group.
THEOREM CountByGroup ==
    ASSUME NEW h, NEW S, NEW K, IsFiniteSet(S), IsFiniteSet(K),
           NEW p, \A x \in S : p[x] \in K,
           \A k \in K : h[k] = Cardinality(Group(S, p, k))
    PROVE  SumFunctionOnSet(h, K) = Cardinality(S)
<1> DEFINE f == [x \in S |-> 1]
<1>1. \A x \in S : f[x] = 1 /\ f[x] \in Int
  OBVIOUS
<1> HIDE DEF f
<1>2. ASSUME NEW k \in K PROVE h[k] = SumFunctionOnSet(f, Group(S, p, k))
  <2> DEFINE T == Group(S, p, k)
  <2>1. IsFiniteSet(T) /\ \A x \in T : f[x] = 1
    BY <1>1, FS_Subset DEF Group
  <2>2. h[k] = Cardinality(T)
    OBVIOUS
  <2> HIDE DEF T
  <2>3. SumFunctionOnSet(f, T) = Cardinality(T)
    BY <2>1, SumOnes
  <2> QED  BY <2>2, <2>3 DEF T
<1>3. \A k \in K : h[k] = SumFunctionOnSet(f, Group(S, p, k))
  BY <1>2
<1>4. SumFunctionOnSet(h, K) = SumFunctionOnSet(f, S)
  BY <1>1, <1>3, SumByGroup
<1> QED  BY <1>1, <1>4, SumOnes

-----------------------------------------------------------------------------
\* A sum over pairs, taken row by row: row x has the columns C[x].
THEOREM SumByRow ==
    ASSUME NEW w, NEW v, NEW X, IsFiniteSet(X), NEW Y, IsFiniteSet(Y),
           NEW C \in [X -> SUBSET Y],
           NEW Q, Q = {q \in X \X Y : q[2] \in C[q[1]]},
           \A q \in Q : w[q] \in Int,
           \A x \in X : v[x] = SumFunctionOnSet([y \in C[x] |-> w[<<x, y>>]], C[x])
    PROVE  SumFunctionOnSet(v, X) = SumFunctionOnSet(w, Q) /\ IsFiniteSet(Q)
<1>1. IsFiniteSet(Q)
  <2>1. IsFiniteSet(X \X Y) /\ Q \subseteq X \X Y
    BY FS_Product
  <2> QED  BY <2>1, FS_Subset
<1> DEFINE p == [q \in Q |-> q[1]]
<1>2. \A q \in Q : p[q] \in X
  OBVIOUS
<1>3. ASSUME NEW x \in X PROVE v[x] = SumFunctionOnSet(w, Group(Q, p, x))
  <2> DEFINE S == C[x]
             T == {q \in Q : q[1] = x}
             f == [y \in S |-> w[<<x, y>>]]
             b == [y \in S |-> <<x, y>>]
  <2>1. S \subseteq Y
    OBVIOUS
  <2>2. IsFiniteSet(S) /\ IsFiniteSet(T)
    BY <1>1, <2>1, FS_Subset
  <2>3. ASSUME NEW y \in S PROVE b[y] \in T /\ w[b[y]] = f[y] /\ f[y] \in Int
    <3>1. <<x, y>> \in Q
      BY <2>1
    <3> QED  BY <3>1
  <2>4. ASSUME NEW q \in T PROVE \E y \in S : b[y] = q
    <3>1. q \in X \X Y /\ q[2] \in C[q[1]] /\ q[1] = x
      OBVIOUS
    <3>2. q[2] \in S /\ b[q[2]] = q
      BY <3>1
    <3> QED  BY <3>2
  <2>5. \A y, z \in S : b[y] = b[z] => y = z
    OBVIOUS
  <2>6. v[x] = SumFunctionOnSet(f, S)
    OBVIOUS
  <2> HIDE DEF S, T, f, b
  <2>7. SumFunctionOnSet(f, S) = SumFunctionOnSet(w, T)
    BY <2>2, <2>3, <2>4, <2>5, SumRenamed
  <2>8. T = Group(Q, p, x)
    BY DEF T, Group
  <2> QED  BY <2>6, <2>7, <2>8
<1> HIDE DEF p
<1>4. \A x \in X : v[x] = SumFunctionOnSet(w, Group(Q, p, x))
  BY <1>3
<1> QED  BY <1>1, <1>2, <1>4, SumByGroup

\* The pairs counted row by row.
THEOREM CountByRow ==
    ASSUME NEW v, NEW X, IsFiniteSet(X), NEW Y, IsFiniteSet(Y),
           NEW C \in [X -> SUBSET Y],
           NEW Q, Q = {q \in X \X Y : q[2] \in C[q[1]]},
           \A x \in X : v[x] = Cardinality(C[x])
    PROVE  SumFunctionOnSet(v, X) = Cardinality(Q) /\ IsFiniteSet(Q)
<1> DEFINE w == [q \in Q |-> 1]
<1>1. \A q \in Q : w[q] = 1 /\ w[q] \in Int
  OBVIOUS
<1>2. ASSUME NEW x \in X PROVE v[x] = SumFunctionOnSet([y \in C[x] |-> w[<<x, y>>]], C[x])
  <2> DEFINE S == C[x]
             f == [y \in S |-> w[<<x, y>>]]
  <2>1. ASSUME NEW y \in S PROVE f[y] = 1
    <3>1. <<x, y>> \in Q
      OBVIOUS
    <3> QED  BY <3>1
  <2>2. IsFiniteSet(S)
    BY FS_Subset
  <2>3. v[x] = Cardinality(S)
    OBVIOUS
  <2> HIDE DEF S, f, w
  <2>4. SumFunctionOnSet(f, S) = Cardinality(S)
    BY <2>1, <2>2, SumOnes
  <2> QED  BY <2>3, <2>4 DEF S, f
<1> HIDE DEF w
<1>3. \A x \in X : v[x] = SumFunctionOnSet([y \in C[x] |-> w[<<x, y>>]], C[x])
  BY <1>2
<1>4. SumFunctionOnSet(v, X) = SumFunctionOnSet(w, Q) /\ IsFiniteSet(Q)
  BY <1>1, <1>3, SumByRow
<1> QED  BY <1>1, <1>4, SumOnes

-----------------------------------------------------------------------------
\* Min and Max are what they are named for.
THEOREM MinIs ==
    ASSUME NEW S \in SUBSET Int, NEW m \in S, \A x \in S : m <= x
    PROVE  Min(S) = m
<1>1. Min(S) \in S /\ \A x \in S : Min(S) <= x
  BY DEF Min
<1>2. m \in Int /\ Min(S) \in Int
  BY <1>1
<1>3. m <= Min(S) /\ Min(S) <= m
  BY <1>1
<1> QED  BY <1>2, <1>3

THEOREM MaxIs ==
    ASSUME NEW S \in SUBSET Int, NEW m \in S, \A x \in S : x <= m
    PROVE  Max(S) = m
<1>1. Max(S) \in S /\ \A x \in S : Max(S) >= x
  BY DEF Max
<1>2. m \in Int /\ Max(S) \in Int
  BY <1>1
<1>3. Max(S) <= m /\ m <= Max(S)
  BY <1>1
<1> QED  BY <1>2, <1>3

THEOREM MinExists ==
    ASSUME NEW S \in SUBSET Nat, S # {}
    PROVE  Min(S) \in S /\ \A x \in S : Min(S) <= x
<1>1. PICK m \in S : \A x \in S : m <= x
  BY LeastNumber
<1>2. Min(S) = m
  BY <1>1, MinIs
<1> QED  BY <1>1, <1>2

\* The least and the greatest of some numbers are one of them.
THEOREM MinOf ==
    ASSUME NEW v, NEW S, S # {}, \A x \in S : v[x] \in Nat
    PROVE  /\ \E x \in S : Min({v[y] : y \in S}) = v[x]
           /\ \A x \in S : Min({v[y] : y \in S}) <= v[x]
<1> DEFINE T == {v[y] : y \in S}
<1>1. T \in SUBSET Nat /\ T # {} /\ (\A x \in S : v[x] \in T) /\ \A t \in T : \E x \in S : t = v[x]
  OBVIOUS
<1>2. Min(T) \in T /\ \A t \in T : Min(T) <= t
  <2> HIDE DEF T
  <2> QED  BY <1>1, MinExists
<1> QED  BY <1>1, <1>2

THEOREM MaxOf ==
    ASSUME NEW v, NEW S, IsFiniteSet(S), S # {}, \A x \in S : v[x] \in Nat
    PROVE  /\ \E x \in S : Max({v[y] : y \in S}) = v[x]
           /\ \A x \in S : v[x] <= Max({v[y] : y \in S})
<1> DEFINE Greatest(T, m) == \A x \in T : v[x] <= v[m]
           G == {T \in SUBSET S : T = {} \/ \E m \in T : Greatest(T, m)}
<1>1. {} \in G
  OBVIOUS
<1>2. ASSUME NEW T \in SUBSET S, NEW x \in S \ T, T \in G
      PROVE  T \cup {x} \in G
  <2>1. CASE T = {}
    <3>1. Greatest(T \cup {x}, x)
      BY <2>1
    <3> QED  BY <3>1
  <2>2. CASE \E m \in T : Greatest(T, m)
    <3>1. PICK m \in T : Greatest(T, m)
      BY <2>2
    <3>2. CASE v[x] <= v[m]
      <4>1. Greatest(T \cup {x}, m)
        BY <3>1, <3>2
      <4> QED  BY <3>1, <4>1
    <3>3. CASE ~(v[x] <= v[m])
      <4>1. \A y \in T : v[y] <= v[x]
        BY <3>1, <3>3
      <4>2. Greatest(T \cup {x}, x)
        BY <4>1
      <4> QED  BY <4>2
    <3> QED  BY <3>2, <3>3
  <2> QED  BY <1>2, <2>1, <2>2
<1>3. S \in G
  <2> HIDE DEF G
  <2>1. \A T \in SUBSET S : T \in G
    BY <1>1, <1>2, SubsetInduction
  <2> QED  BY <2>1
<1>4. PICK m \in S : \A x \in S : v[x] <= v[m]
  BY <1>3
<1>5. Max({v[y] : y \in S}) = v[m]
  <2> DEFINE T == {v[y] : y \in S}
  <2>1. T \in SUBSET Int /\ v[m] \in T /\ \A t \in T : t <= v[m]
    BY <1>4
  <2> HIDE DEF T
  <2>2. Max(T) = v[m]
    BY <2>1, MaxIs
  <2> QED  BY <2>2 DEF T
<1> QED  BY <1>4, <1>5
=============================================================================
