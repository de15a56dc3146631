------------------------------ MODULE NumberSets ------------------------------
(***************************************************************************)
(* Greatest and least members of finite sets of numbers, for the operators *)
(* that choose one.                                                        *)
(***************************************************************************)
EXTENDS Integers, FiniteSetTheorems, TLAPS

\* A function of numbers on a finite set, if not empty, is somewhere greatest:
\* otherwise a smallest subset on which it is not would have a smaller one.
LEMMA Greatest ==
  ASSUME NEW S, IsFiniteSet(S), S # {}, NEW f \in [S -> Nat]
  PROVE  \E m \in S : \A k \in S : f[k] <= f[m]
<1> DEFINE Bad == {E \in FiniteSubsetsOf(S) : E # {} /\ ~\E m \in E : \A k \in E : f[k] <= f[m]}
<1>1. SUFFICES ASSUME Bad # {} PROVE FALSE
  <2>1. S \in FiniteSubsetsOf(S)
    BY DEF FiniteSubsetsOf
  <2> QED
    BY <2>1, Zenon
<1>2. PICK E \in Bad : \A F \in Bad : ~(<<F, E>> \in StrictSubsetOrdering(S))
  <2>1. Bad \subseteq FiniteSubsetsOf(S)
    OBVIOUS
  <2> QED
    BY <1>1, <2>1, FS_StrictSubsetOrderingWellFounded, WFMin, Zenon
<1>3. PICK e \in E : TRUE
  OBVIOUS
<1> DEFINE F == E \ {e}
<1>4. E \subseteq S /\ IsFiniteSet(E)
  BY DEF FiniteSubsetsOf
<1>5. F \subseteq S /\ IsFiniteSet(F)
  BY <1>4, FS_Subset
<1>6. F \notin Bad
  BY <1>2, <1>3, <1>4, <1>5, Zenon DEF StrictSubsetOrdering, FiniteSubsetsOf
<1>7. F = {} \/ \E m \in F : \A k \in F : f[k] <= f[m]
  BY <1>5, <1>6 DEF FiniteSubsetsOf
<1>8. \E m \in E : \A k \in E : f[k] <= f[m]
  BY <1>3, <1>4, <1>7
<1> QED
  BY <1>8

\* A set of numbers up to n, if not empty, has a least one: that from which it is
\* farthest to n.
LEMMA Least ==
  ASSUME NEW n \in Nat, NEW S \in SUBSET (0..n), S # {}
  PROVE  \E m \in S : \A k \in S : m <= k
<1> DEFINE f == [k \in S |-> n - k]
<1>1. IsFiniteSet(S)
  <2>1. IsFiniteSet(0..n)
    BY FS_Interval
  <2> QED
    BY <2>1, FS_Subset
<1>2. f \in [S -> Nat]
  OBVIOUS
<1>3. PICK m \in S : \A k \in S : f[k] <= f[m]
  <2> HIDE DEF f
  <2> QED
    BY <1>1, <1>2, Greatest
<1>4. \A k \in S : m <= k
  BY <1>3
<1> QED
  BY <1>4
=============================================================================
