------------------------- MODULE Simplex_proofs --------------------------
(***************************************************************************)
(* Theorems about Simplex, for any number of rows, bounds and scopes: the  *)
(* tableau is exact while its entries stay -1, 0 or 1, which they do for   *)
(* forms that are differences; the bounds are those of the live tags; and  *)
(* what check answers is so.                                               *)
(***************************************************************************)
EXTENDS MCTheories, FiniteSetTheorems, SequenceTheorems, WellFoundedInduction, TLAPS

\* What holds of 0, and of n + 1 when of n, holds of Nat.
LEMMA NatInductive ==
    ASSUME NEW T, 0 \in T, \A n \in Nat : n \in T => n + 1 \in T
    PROVE  Nat \subseteq T
<1> SUFFICES ASSUME NEW m \in Nat, m \notin T PROVE FALSE
  OBVIOUS
<1> DEFINE F == {0 .. k : k \in Nat \ T}
           R == StrictSubsetOrdering(Nat)
<1>1. IsWellFoundedOn(R, FiniteSubsetsOf(Nat))
  BY FS_StrictSubsetOrderingWellFounded
<1>2. F \subseteq FiniteSubsetsOf(Nat) /\ F # {}
  <2>1. ASSUME NEW k \in Nat \ T PROVE 0 .. k \in FiniteSubsetsOf(Nat)
    <3>1. IsFiniteSet(0 .. k) BY FS_Interval
    <3>2. 0 .. k \in SUBSET Nat OBVIOUS
    <3> QED BY <3>1, <3>2 DEF FiniteSubsetsOf
  <2>2. 0 .. m \in F OBVIOUS
  <2> QED BY <2>1, <2>2
<1>3. \E x \in F : \A y \in F : <<y, x>> \notin R
  <2> HIDE DEF R, F
  <2> QED BY <1>1, <1>2, WFMin
<1>4. PICK k \in Nat \ T : \A j \in Nat \ T : <<0 .. j, 0 .. k>> \notin R
  BY <1>3
<1>5. k # 0 /\ k - 1 \in Nat \ T
  <2>1. k # 0 OBVIOUS
  <2> QED BY <2>1
<1>6. 0 .. (k - 1) \subseteq 0 .. k /\ k \in 0 .. k /\ k \notin 0 .. (k - 1)
  BY <1>5
<1>7. <<0 .. (k - 1), 0 .. k>> \in R
  BY <1>5, <1>6 DEF StrictSubsetOrdering
<1> QED BY <1>4, <1>5, <1>7

\* A sum taken one element after another, from the sums of smaller sets.
SumStep(f, s, G) ==
    IF s = {} THEN 0 ELSE LET x == CHOOSE y \in s : TRUE IN f[x] + G[s \ {x}]
SumRun(f, S, G) == G = [s \in SUBSET S |-> SumStep(f, s, G)]
Total(f, S) == LET G == CHOOSE G : SumRun(f, S, G) IN G[S]

\* The subsets that are small enough.
SmallSets(S, n) == {s \in SUBSET S : IsFiniteSet(s) /\ Cardinality(s) <= n}
SmallRun(f, S, n, G) == G = [s \in SmallSets(S, n) |-> SumStep(f, s, G)]

LEMMA ChosenFrom ==
    ASSUME NEW s, s # {}, IsFiniteSet(s)
    PROVE  LET x == CHOOSE y \in s : TRUE IN
           /\ x \in s /\ IsFiniteSet(s \ {x})
           /\ Cardinality(s) \in Nat /\ Cardinality(s) > 0
           /\ Cardinality(s \ {x}) \in Nat /\ Cardinality(s \ {x}) = Cardinality(s) - 1
<1> DEFINE x == CHOOSE y \in s : TRUE
<1>1. x \in s OBVIOUS
<1> HIDE DEF x
<1>2. IsFiniteSet(s \ {x}) /\ Cardinality(s \ {x}) = Cardinality(s) - 1 BY <1>1, FS_RemoveElement
<1>3. Cardinality(s) \in Nat /\ Cardinality(s \ {x}) \in Nat BY <1>2, FS_CardinalityType
<1> QED BY <1>1, <1>2, <1>3 DEF x

LEMMA SumStepSame ==
    ASSUME NEW f, NEW s, NEW G, NEW H,
           s # {} => G[s \ {CHOOSE y \in s : TRUE}] = H[s \ {CHOOSE y \in s : TRUE}]
    PROVE  SumStep(f, s, G) = SumStep(f, s, H)
  BY DEF SumStep

LEMMA SmallerSet ==
    ASSUME NEW S, NEW n \in Nat, NEW s \in SmallSets(S, n + 1), s # {}
    PROVE  s \ {CHOOSE y \in s : TRUE} \in SmallSets(S, n)
<1> DEFINE x == CHOOSE y \in s : TRUE
<1>1. s \in SUBSET S /\ IsFiniteSet(s) /\ Cardinality(s) <= n + 1 BY DEF SmallSets
<1>2. IsFiniteSet(s \ {x}) /\ Cardinality(s \ {x}) = Cardinality(s) - 1 /\ Cardinality(s) \in Nat
  BY <1>1, ChosenFrom
<1> HIDE DEF x
<1>3. Cardinality(s \ {x}) <= n BY <1>1, <1>2
<1> QED BY <1>1, <1>2, <1>3 DEF SmallSets, x

LEMMA NoneSmall == ASSUME NEW S PROVE SmallSets(S, 0) = {{}}
<1>1. ASSUME NEW s \in SmallSets(S, 0) PROVE s = {}
  <2>1. IsFiniteSet(s) /\ Cardinality(s) <= 0 BY DEF SmallSets
  <2>2. Cardinality(s) \in Nat BY <2>1, FS_CardinalityType
  <2> QED BY <2>1, <2>2, FS_EmptySet
<1>2. {} \in SmallSets(S, 0) BY FS_EmptySet DEF SmallSets
<1> QED BY <1>1, <1>2

LEMMA SmallRuns == ASSUME NEW f, NEW S, NEW N \in Nat PROVE \E G : SmallRun(f, S, N, G)
<1> DEFINE T == {n \in Nat : \E G : SmallRun(f, S, n, G)}
<1>1. 0 \in T
  <2> DEFINE G == [s \in SmallSets(S, 0) |-> SumStep(f, s, << >>)]
  <2>1. \A s \in SmallSets(S, 0) : SumStep(f, s, << >>) = SumStep(f, s, G)
    <3> HIDE DEF G
    <3> QED BY NoneSmall DEF SumStep
  <2>2. G = [s \in SmallSets(S, 0) |-> SumStep(f, s, G)] BY <2>1
  <2>3. SmallRun(f, S, 0, G)
    <3> HIDE DEF G
    <3> QED BY <2>2 DEF SmallRun
  <2> QED BY <2>3
<1>2. ASSUME NEW n \in Nat, n \in T PROVE n + 1 \in T
  <2>1. PICK G : SmallRun(f, S, n, G) BY <1>2
  <2> DEFINE H == [s \in SmallSets(S, n + 1) |-> SumStep(f, s, G)]
  <2>2. \A s \in SmallSets(S, n) : s \in SmallSets(S, n + 1)
    <3>1. \A s \in SmallSets(S, n) : Cardinality(s) \in Nat /\ Cardinality(s) <= n
      BY FS_CardinalityType DEF SmallSets
    <3> QED BY <3>1 DEF SmallSets
  <2>3. \A s \in SmallSets(S, n) : G[s] = SumStep(f, s, G) BY <2>1 DEF SmallRun
  <2>4. \A s \in SmallSets(S, n) : H[s] = G[s] BY <2>2, <2>3
  <2>5. \A s \in SmallSets(S, n + 1) : H[s] = SumStep(f, s, G) OBVIOUS
  <2>6. H = [s \in SmallSets(S, n + 1) |-> H[s]] OBVIOUS
  <2> HIDE DEF H
  <2>7. ASSUME NEW s \in SmallSets(S, n + 1) PROVE H[s] = SumStep(f, s, H)
    <3>1. s # {} => G[s \ {CHOOSE y \in s : TRUE}] = H[s \ {CHOOSE y \in s : TRUE}] BY SmallerSet, <2>4
    <3>2. SumStep(f, s, G) = SumStep(f, s, H) BY <3>1, SumStepSame
    <3> QED BY <2>5, <3>2
  <2>8. H = [s \in SmallSets(S, n + 1) |-> SumStep(f, s, H)] BY <2>6, <2>7
  <2>9. SmallRun(f, S, n + 1, H) BY <2>8 DEF SmallRun
  <2> QED BY <2>9
<1>3. Nat \subseteq T
  <2> HIDE DEF T
  <2> QED BY <1>1, <1>2, NatInductive
<1> QED BY <1>3

\* A finite set has one sum.
LEMMA SumRuns == ASSUME NEW f, NEW S, IsFiniteSet(S) PROVE \E G : SumRun(f, S, G)
<1>1. Cardinality(S) \in Nat BY FS_CardinalityType
<1>2. PICK G : SmallRun(f, S, Cardinality(S), G) BY <1>1, SmallRuns
<1>3. SmallSets(S, Cardinality(S)) = SUBSET S
  <2>1. \A s \in SUBSET S : IsFiniteSet(s) /\ Cardinality(s) <= Cardinality(S) BY FS_Subset
  <2> QED BY <2>1 DEF SmallSets
<1> QED BY <1>2, <1>3 DEF SmallRun, SumRun

LEMMA SumRunAt ==
    ASSUME NEW f, NEW S, NEW G, SumRun(f, S, G), NEW s \in SUBSET S
    PROVE  /\ s = {} => G[s] = 0
           /\ s # {} => LET x == CHOOSE y \in s : TRUE IN G[s] = f[x] + G[s \ {x}]
<1>1. G[s] = SumStep(f, s, G) BY DEF SumRun
<1> QED BY <1>1 DEF SumStep

LEMMA SumRunOnce ==
    ASSUME NEW f, NEW S, NEW R, NEW G, NEW H, SumRun(f, S, G), SumRun(f, R, H),
           NEW N \in Nat, NEW s \in SUBSET S, s \in SUBSET R, IsFiniteSet(s), Cardinality(s) <= N
    PROVE  G[s] = H[s]
<1> DEFINE T == {n \in Nat : \A u \in SUBSET S : u \in SUBSET R /\ IsFiniteSet(u) /\ Cardinality(u) <= n => G[u] = H[u]}
<1>1. 0 \in T
  <2>1. ASSUME NEW u \in SUBSET S, u \in SUBSET R, IsFiniteSet(u), Cardinality(u) <= 0 PROVE G[u] = H[u]
    <3>1. u = {} BY <2>1, FS_CardinalityType, FS_EmptySet
    <3>2. G[u] = 0 BY <3>1, SumRunAt
    <3>3. H[u] = 0 BY <3>1, SumRunAt
    <3> QED BY <3>2, <3>3
  <2> QED BY <2>1
<1>2. ASSUME NEW n \in Nat, n \in T PROVE n + 1 \in T
  <2>1. ASSUME NEW u \in SUBSET S, u \in SUBSET R, IsFiniteSet(u), Cardinality(u) <= n + 1 PROVE G[u] = H[u]
    <3>1. CASE u = {}
      <4>1. G[u] = 0 BY <3>1, SumRunAt
      <4>2. H[u] = 0 BY <2>1, <3>1, SumRunAt
      <4> QED BY <4>1, <4>2
    <3>2. CASE u # {}
      <4> DEFINE x == CHOOSE y \in u : TRUE
      <4>1. IsFiniteSet(u \ {x}) /\ Cardinality(u \ {x}) = Cardinality(u) - 1 /\ Cardinality(u) \in Nat
        BY <2>1, <3>2, ChosenFrom
      <4>2. G[u] = f[x] + G[u \ {x}] BY <3>2, SumRunAt
      <4>3. H[u] = f[x] + H[u \ {x}]
        <5>1. u \in SUBSET R BY <2>1
        <5> HIDE DEF x
        <5>2. LET y == CHOOSE y \in u : TRUE IN H[u] = f[y] + H[u \ {y}] BY <5>1, <3>2, SumRunAt
        <5> QED BY <5>2 DEF x
      <4> HIDE DEF x
      <4>4. Cardinality(u \ {x}) <= n BY <4>1, <2>1
      <4>5. u \ {x} \in SUBSET S /\ u \ {x} \in SUBSET R BY <2>1
      <4>6. G[u \ {x}] = H[u \ {x}] BY <4>1, <4>4, <4>5, <1>2
      <4> QED BY <4>2, <4>3, <4>6
    <3> QED BY <3>1, <3>2
  <2> QED BY <2>1
<1>3. Nat \subseteq T
  <2> HIDE DEF T
  <2> QED BY <1>1, <1>2, NatInductive
<1> QED BY <1>3

LEMMA TotalIs ==
    ASSUME NEW f, NEW S, IsFiniteSet(S), NEW R, S \subseteq R, NEW G, SumRun(f, R, G)
    PROVE  Total(f, S) = G[S]
<1> DEFINE H == CHOOSE H : SumRun(f, S, H)
<1>1. SumRun(f, S, H) BY SumRuns
<1>2. Total(f, S) = H[S] BY DEF Total
<1> HIDE DEF H
<1>3. Cardinality(S) \in Nat BY FS_CardinalityType
<1>4. S \in SUBSET S /\ S \in SUBSET R /\ Cardinality(S) <= Cardinality(S) BY <1>3
<1>5. H[S] = G[S] BY <1>1, <1>3, <1>4, SumRunOnce
<1> QED BY <1>2, <1>5

LEMMA TotalStep ==
    ASSUME NEW f, NEW S, IsFiniteSet(S)
    PROVE  /\ S = {} => Total(f, S) = 0
           /\ S # {} => LET x == CHOOSE y \in S : TRUE IN Total(f, S) = f[x] + Total(f, S \ {x})
<1>1. PICK G : SumRun(f, S, G) BY SumRuns
<1>2. Total(f, S) = G[S] BY <1>1, TotalIs
<1>3. S \in SUBSET S OBVIOUS
<1>4. S = {} => G[S] = 0 BY <1>1, <1>3, SumRunAt
<1>5. ASSUME S # {} PROVE LET x == CHOOSE y \in S : TRUE IN Total(f, S) = f[x] + Total(f, S \ {x})
  <2> DEFINE x == CHOOSE y \in S : TRUE
  <2>1. G[S] = f[x] + G[S \ {x}] BY <1>1, <1>3, <1>5, SumRunAt
  <2>2. IsFiniteSet(S \ {x}) BY <1>5, ChosenFrom
  <2> HIDE DEF x
  <2>3. Total(f, S \ {x}) = G[S \ {x}] BY <1>1, <2>2, TotalIs
  <2> QED BY <1>2, <2>1, <2>3 DEF x
<1> QED BY <1>2, <1>4, <1>5

\* What is summed is a number for each element.
Numbers(f, S) == \A x \in S : f[x] \in Int

\* The sum of fewer elements than n, for the inductions over a set.
LEMMA TotalInt == ASSUME NEW f, NEW S, IsFiniteSet(S), Numbers(f, S) PROVE Total(f, S) \in Int
<1> DEFINE T == {n \in Nat : \A s \in SUBSET S : IsFiniteSet(s) /\ Cardinality(s) <= n => Total(f, s) \in Int}
<1>1. 0 \in T
  <2>1. ASSUME NEW s \in SUBSET S, IsFiniteSet(s), Cardinality(s) <= 0 PROVE Total(f, s) \in Int
    <3>1. s = {} BY <2>1, FS_CardinalityType, FS_EmptySet
    <3>2. Total(f, s) = 0 BY <2>1, <3>1, TotalStep
    <3> QED BY <3>2
  <2> QED BY <2>1
<1>2. ASSUME NEW n \in Nat, n \in T PROVE n + 1 \in T
  <2>1. ASSUME NEW s \in SUBSET S, IsFiniteSet(s), Cardinality(s) <= n + 1, s # {} PROVE Total(f, s) \in Int
    <3> DEFINE x == CHOOSE y \in s : TRUE
    <3>1. x \in s /\ IsFiniteSet(s \ {x}) /\ Cardinality(s \ {x}) = Cardinality(s) - 1 /\ Cardinality(s) \in Nat
      BY <2>1, ChosenFrom
    <3>2. Total(f, s) = f[x] + Total(f, s \ {x}) BY <2>1, TotalStep
    <3> HIDE DEF x
    <3>3. Cardinality(s \ {x}) <= n /\ s \ {x} \in SUBSET S BY <3>1, <2>1
    <3>4. Total(f, s \ {x}) \in Int BY <3>1, <3>3, <1>2
    <3>5. f[x] \in Int BY <3>1 DEF Numbers
    <3> QED BY <3>2, <3>4, <3>5
  <2>2. ASSUME NEW s \in SUBSET S, IsFiniteSet(s), s = {} PROVE Total(f, s) \in Int
    <3>1. Total(f, s) = 0 BY <2>2, TotalStep
    <3> QED BY <3>1
  <2> QED BY <2>1, <2>2
<1>3. Nat \subseteq T
  <2> HIDE DEF T
  <2> QED BY <1>1, <1>2, NatInductive
<1>4. Cardinality(S) \in Nat BY FS_CardinalityType
<1> QED BY <1>3, <1>4

\* The order of the elements does not matter.
LEMMA TotalAny ==
    ASSUME NEW f, NEW S, IsFiniteSet(S), Numbers(f, S), NEW x \in S
    PROVE  Total(f, S) = f[x] + Total(f, S \ {x})
<1> DEFINE T == {n \in Nat : \A s \in SUBSET S : IsFiniteSet(s) /\ Cardinality(s) <= n
                                 => \A y \in s : Total(f, s) = f[y] + Total(f, s \ {y})}
<1>1. 0 \in T
  <2>1. ASSUME NEW s \in SUBSET S, IsFiniteSet(s), Cardinality(s) <= 0 PROVE s = {}
    BY <2>1, FS_CardinalityType, FS_EmptySet
  <2> QED BY <2>1
<1>2. ASSUME NEW n \in Nat, n \in T PROVE n + 1 \in T
  <2>1. ASSUME NEW s \in SUBSET S, IsFiniteSet(s), Cardinality(s) <= n + 1, NEW y \in s
        PROVE  Total(f, s) = f[y] + Total(f, s \ {y})
    <3> DEFINE c == CHOOSE z \in s : TRUE
    <3>1. c \in s /\ IsFiniteSet(s \ {c}) /\ Cardinality(s \ {c}) = Cardinality(s) - 1 /\ Cardinality(s) \in Nat
      BY <2>1, ChosenFrom
    <3>2. Total(f, s) = f[c] + Total(f, s \ {c}) BY <2>1, TotalStep
    <3> HIDE DEF c
    <3>3. CASE y = c BY <3>2, <3>3
    <3>4. CASE y # c
      <4> DEFINE u == s \ {y}
                 v == s \ {c}
                 w == s \ {c, y}
      <4>1. IsFiniteSet(u) /\ Cardinality(u) = Cardinality(s) - 1 BY <2>1, FS_RemoveElement
      <4>2. c \in u /\ y \in v /\ u \ {c} = w /\ v \ {y} = w BY <3>1, <3>4
      <4>3. u \in SUBSET S /\ v \in SUBSET S /\ w \in SUBSET S /\ IsFiniteSet(w)
        <5>1. w \in SUBSET u OBVIOUS
        <5> QED BY <4>1, <5>1, FS_Subset
      <4>4. v = s \ {c} /\ u = s \ {y} OBVIOUS
      <4> HIDE DEF u, v, w
      <4>5. Cardinality(u) <= n /\ Cardinality(v) <= n BY <4>1, <3>1, <4>4, <2>1
      <4>6. Total(f, u) = f[c] + Total(f, w) BY <4>1, <4>2, <4>3, <4>5, <1>2
      <4>7. Total(f, v) = f[y] + Total(f, w) BY <3>1, <4>2, <4>3, <4>4, <4>5, <1>2
      <4>8. Total(f, w) \in Int
        <5>1. Numbers(f, w) BY <4>3 DEF Numbers
        <5> QED BY <4>3, <5>1, TotalInt
      <4>9. f[c] \in Int /\ f[y] \in Int BY <3>1, <2>1 DEF Numbers
      <4> QED BY <3>2, <4>4, <4>6, <4>7, <4>8, <4>9
    <3> QED BY <3>3, <3>4
  <2> QED BY <2>1
<1>3. Nat \subseteq T
  <2> HIDE DEF T
  <2> QED BY <1>1, <1>2, NatInductive
<1>4. Cardinality(S) \in Nat BY FS_CardinalityType
<1> QED BY <1>3, <1>4


LEMMA SumTotal == ASSUME NEW f, NEW S, IsFiniteSet(S) PROVE SumOver(f, S) = Total(f, S)
<1> DEFINE P(G) == G = [s \in SUBSET S |->
                          IF s = {} THEN 0 ELSE LET x == CHOOSE y \in s : TRUE IN f[x] + G[s \ {x}]]
           H == CHOOSE G : P(G)
<1>1. SumOver(f, S) = H[S] BY DEF SumOver, MapThenSumSet, MapThenFoldSet
<1>2. \A G : P(G) <=> SumRun(f, S, G) BY DEF SumRun, SumStep
<1> HIDE DEF P
<1>3. \E G : P(G) BY <1>2, SumRuns
<1>4. P(H) BY <1>3
<1> HIDE DEF H
<1>5. Total(f, S) = H[S] BY <1>2, <1>4, TotalIs
<1> QED BY <1>1, <1>5

\* Sums over the first numbers.
LEMMA SumSegment ==
    ASSUME NEW f, NEW n \in Nat, Numbers(f, 1 .. n)
    PROVE  /\ SumOver(f, 1 .. n) \in Int
           /\ n = 0 => SumOver(f, 1 .. n) = 0
           /\ n # 0 => SumOver(f, 1 .. n) = SumOver(f, 1 .. n - 1) + f[n]
<1>1. IsFiniteSet(1 .. n) BY FS_Interval
<1>2. SumOver(f, 1 .. n) = Total(f, 1 .. n) BY <1>1, SumTotal
<1>3. Total(f, 1 .. n) \in Int BY <1>1, TotalInt
<1>4. ASSUME n = 0 PROVE Total(f, 1 .. n) = 0
  <2>1. 1 .. n = {} BY <1>4
  <2> QED BY <1>1, <2>1, TotalStep
<1>5. ASSUME n # 0 PROVE Total(f, 1 .. n) = SumOver(f, 1 .. n - 1) + f[n]
  <2>1. n \in 1 .. n /\ (1 .. n) \ {n} = 1 .. n - 1 BY <1>5
  <2>2. IsFiniteSet(1 .. n - 1) BY FS_Interval
  <2>3. Total(f, 1 .. n) = f[n] + Total(f, (1 .. n) \ {n}) BY <1>1, <2>1, TotalAny
  <2>4. Total(f, 1 .. n - 1) = SumOver(f, 1 .. n - 1) BY <2>2, SumTotal
  <2>5. Numbers(f, 1 .. n - 1)
    <3>1. \A i \in 1 .. n - 1 : i \in 1 .. n OBVIOUS
    <3> QED BY <3>1 DEF Numbers
  <2>6. Total(f, 1 .. n - 1) \in Int BY <2>2, <2>5, TotalInt
  <2>7. f[n] \in Int BY <2>1 DEF Numbers
  <2> DEFINE R == (1 .. n) \ {n}
             x == Total(f, 1 .. n - 1)
  <2>8. Total(f, R) = x BY <2>1
  <2>9. Total(f, 1 .. n) = f[n] + x BY <2>3, <2>8
  <2> HIDE DEF x
  <2>10. f[n] + x = x + f[n] BY <2>6, <2>7 DEF x
  <2> QED BY <2>4, <2>9, <2>10 DEF x
<1> QED BY <1>2, <1>3, <1>4, <1>5

\* Induction along a segment.
LEMMA SegmentInduction ==
    ASSUME NEW n \in Nat, NEW T, 0 \in T, \A k \in 1 .. n : k - 1 \in T => k \in T
    PROVE  n \in T
<1> DEFINE U == {k \in Nat : k <= n => k \in T}
<1>1. 0 \in U OBVIOUS
<1>2. ASSUME NEW k \in Nat, k \in U PROVE k + 1 \in U
  <2> SUFFICES ASSUME k + 1 <= n PROVE k + 1 \in T OBVIOUS
  <2>1. k + 1 \in 1 .. n /\ (k + 1) - 1 = k OBVIOUS
  <2>2. k \in T BY <1>2
  <2> QED BY <2>1, <2>2
<1>3. Nat \subseteq U
  <2> HIDE DEF U
  <2> QED BY <1>1, <1>2, NatInductive
<1> QED BY <1>3

\* A sum is linear.
LEMMA SumLinear ==
    ASSUME NEW n \in Nat, NEW f, NEW g, NEW h, NEW c \in Int,
           Numbers(f, 1 .. n), Numbers(g, 1 .. n), \A i \in 1 .. n : h[i] = f[i] + c * g[i]
    PROVE  SumOver(h, 1 .. n) = SumOver(f, 1 .. n) + c * SumOver(g, 1 .. n) /\ Numbers(h, 1 .. n)
<1>0. Numbers(h, 1 .. n)
  <2>1. \A i \in 1 .. n : f[i] \in Int /\ g[i] \in Int BY DEF Numbers
  <2>2. \A i \in 1 .. n : h[i] \in Int BY <2>1
  <2> QED BY <2>2 DEF Numbers
<1> DEFINE T == {k \in Nat : k <= n => SumOver(h, 1 .. k) = SumOver(f, 1 .. k) + c * SumOver(g, 1 .. k)}
<1>1. 0 \in T
  <2>1. Numbers(f, 1 .. 0) /\ Numbers(g, 1 .. 0) /\ Numbers(h, 1 .. 0) BY DEF Numbers
  <2>2. 0 \in Nat OBVIOUS
  <2>3. SumOver(f, 1 .. 0) = 0 /\ SumOver(g, 1 .. 0) = 0 /\ SumOver(h, 1 .. 0) = 0 BY <2>1, <2>2, SumSegment
  <2>4. c * 0 = 0 OBVIOUS
  <2> QED BY <2>3, <2>4
<1>2. ASSUME NEW k \in 1 .. n, k - 1 \in T PROVE k \in T
  <2>0. k \in Nat /\ k # 0 /\ \A i \in 1 .. k : i \in 1 .. n OBVIOUS
  <2>00. k - 1 \in Nat /\ \A i \in 1 .. k - 1 : i \in 1 .. n OBVIOUS
  <2>1. Numbers(f, 1 .. k) /\ Numbers(g, 1 .. k) /\ Numbers(h, 1 .. k) BY <1>0, <2>0 DEF Numbers
  <2>2. Numbers(f, 1 .. k - 1) /\ Numbers(g, 1 .. k - 1) BY <2>00 DEF Numbers
  <2> DEFINE F == SumOver(f, 1 .. k - 1)
             G == SumOver(g, 1 .. k - 1)
  <2>3. SumOver(f, 1 .. k) = F + f[k] /\ SumOver(g, 1 .. k) = G + g[k] /\ SumOver(h, 1 .. k) = SumOver(h, 1 .. k - 1) + h[k]
    BY <2>0, <2>1, SumSegment
  <2>4. F \in Int /\ G \in Int BY <2>00, <2>2, SumSegment
  <2>5. SumOver(h, 1 .. k - 1) = F + c * G BY <1>2, <2>00
  <2>6. h[k] = f[k] + c * g[k] /\ f[k] \in Int /\ g[k] \in Int BY <2>0 DEF Numbers
  <2> HIDE DEF F, G
  <2>7. c * (G + g[k]) = c * G + c * g[k] BY <2>4, <2>6
  <2> DEFINE p == c * G
             q == c * g[k]
  <2>8. p \in Int /\ q \in Int BY <2>4, <2>6
  <2>9. SumOver(h, 1 .. k) = (F + p) + (f[k] + q) BY <2>3, <2>5, <2>6
  <2>10. c * SumOver(g, 1 .. k) = p + q BY <2>3, <2>7
  <2> HIDE DEF p, q
  <2>11. SumOver(h, 1 .. k) = SumOver(f, 1 .. k) + c * SumOver(g, 1 .. k) BY <2>3, <2>4, <2>6, <2>8, <2>9, <2>10
  <2> QED BY <2>0, <2>11
<1>3. n \in T
  <2> HIDE DEF T
  <2> QED BY <1>1, <1>2, SegmentInduction
<1> QED BY <1>0, <1>3

Combines(n, f, g, h, c) ==
    Numbers(f, 1 .. n) /\ Numbers(g, 1 .. n) /\ \A i \in 1 .. n : h[i] = f[i] + c * g[i]

LEMMA SumCombines ==
    ASSUME NEW n \in Nat, NEW f, NEW g, NEW h, NEW c \in Int, Combines(n, f, g, h, c)
    PROVE  SumOver(h, 1 .. n) = SumOver(f, 1 .. n) + c * SumOver(g, 1 .. n)
<1>1. Numbers(f, 1 .. n) /\ Numbers(g, 1 .. n) /\ \A i \in 1 .. n : h[i] = f[i] + c * g[i] BY DEF Combines
<1> QED BY <1>1, SumLinear

\* A sum of zeros, a sum of the same numbers, a sum of one number.
LEMMA SumZero ==
    ASSUME NEW n \in Nat, NEW f, \A i \in 1 .. n : f[i] = 0 PROVE SumOver(f, 1 .. n) = 0
<1> DEFINE T == {k \in Nat : k <= n => SumOver(f, 1 .. k) = 0}
<1>1. 0 \in T
  <2>1. Numbers(f, 1 .. 0) BY DEF Numbers
  <2>2. 0 \in Nat OBVIOUS
  <2> QED BY <2>1, <2>2, SumSegment
<1>2. ASSUME NEW k \in 1 .. n, k - 1 \in T PROVE k \in T
  <2>1. k \in Nat /\ k # 0 /\ (\A i \in 1 .. k : i \in 1 .. n) /\ k - 1 \in Nat OBVIOUS
  <2>2. Numbers(f, 1 .. k) /\ f[k] = 0 BY <2>1 DEF Numbers
  <2>3. SumOver(f, 1 .. k) = SumOver(f, 1 .. k - 1) + f[k] BY <2>1, <2>2, SumSegment
  <2>4. SumOver(f, 1 .. k - 1) = 0 BY <1>2, <2>1
  <2> QED BY <2>1, <2>2, <2>3, <2>4
<1>3. n \in T
  <2> HIDE DEF T
  <2> QED BY <1>1, <1>2, SegmentInduction
<1> QED BY <1>3

LEMMA SumSame ==
    ASSUME NEW n \in Nat, NEW f, NEW h, Numbers(f, 1 .. n), \A i \in 1 .. n : h[i] = f[i]
    PROVE  SumOver(h, 1 .. n) = SumOver(f, 1 .. n)
<1> DEFINE T == {k \in Nat : k <= n => SumOver(h, 1 .. k) = SumOver(f, 1 .. k)}
<1>0. Numbers(h, 1 .. n) BY DEF Numbers
<1>1. 0 \in T
  <2>1. Numbers(f, 1 .. 0) /\ Numbers(h, 1 .. 0) BY DEF Numbers
  <2>2. 0 \in Nat OBVIOUS
  <2>3. SumOver(f, 1 .. 0) = 0 /\ SumOver(h, 1 .. 0) = 0 BY <2>1, <2>2, SumSegment
  <2> QED BY <2>3
<1>2. ASSUME NEW k \in 1 .. n, k - 1 \in T PROVE k \in T
  <2>1. k \in Nat /\ k # 0 /\ (\A i \in 1 .. k : i \in 1 .. n) /\ k - 1 \in Nat OBVIOUS
  <2>2. Numbers(f, 1 .. k) /\ Numbers(h, 1 .. k) /\ h[k] = f[k] BY <1>0, <2>1 DEF Numbers
  <2>3. SumOver(f, 1 .. k) = SumOver(f, 1 .. k - 1) + f[k] BY <2>1, <2>2, SumSegment
  <2>4. SumOver(h, 1 .. k) = SumOver(h, 1 .. k - 1) + h[k] BY <2>1, <2>2, SumSegment
  <2>5. SumOver(h, 1 .. k - 1) = SumOver(f, 1 .. k - 1) BY <1>2, <2>1
  <2> QED BY <2>1, <2>2, <2>3, <2>4, <2>5
<1>3. n \in T
  <2> HIDE DEF T
  <2> QED BY <1>1, <1>2, SegmentInduction
<1> QED BY <1>3

LEMMA SumSingle ==
    ASSUME NEW n \in Nat, NEW f, NEW v \in 1 .. n, f[v] \in Int, \A i \in 1 .. n : i # v => f[i] = 0
    PROVE  SumOver(f, 1 .. n) = f[v]
<1> DEFINE T == {k \in Nat : k <= n => SumOver(f, 1 .. k) = IF k < v THEN 0 ELSE f[v]}
<1>0. Numbers(f, 1 .. n)
  <2>1. \A i \in 1 .. n : f[i] \in Int OBVIOUS
  <2> QED BY <2>1 DEF Numbers
<1>1. 0 \in T
  <2>1. Numbers(f, 1 .. 0) BY DEF Numbers
  <2>2. 0 \in Nat /\ 0 < v OBVIOUS
  <2> QED BY <2>1, <2>2, SumSegment
<1>2. ASSUME NEW k \in 1 .. n, k - 1 \in T PROVE k \in T
  <2>1. k \in Nat /\ k # 0 /\ (\A i \in 1 .. k : i \in 1 .. n) /\ k - 1 \in Nat /\ k - 1 <= n OBVIOUS
  <2>2. Numbers(f, 1 .. k) BY <1>0, <2>1 DEF Numbers
  <2>3. SumOver(f, 1 .. k) = SumOver(f, 1 .. k - 1) + f[k] BY <2>1, <2>2, SumSegment
  <2>4. SumOver(f, 1 .. k - 1) = IF k - 1 < v THEN 0 ELSE f[v] BY <1>2, <2>1
  <2>5. CASE k = v BY <2>1, <2>3, <2>4, <2>5
  <2>6. CASE k < v
    <3>1. f[k] = 0 /\ k - 1 < v BY <2>6
    <3> QED BY <2>1, <2>3, <2>4, <2>6, <3>1
  <2>7. CASE k > v
    <3>1. f[k] = 0 /\ ~(k - 1 < v) /\ ~(k < v) BY <2>7
    <3> QED BY <2>1, <2>3, <2>4, <3>1
  <2> QED BY <2>5, <2>6, <2>7
<1>3. n \in T
  <2> HIDE DEF T
  <2> QED BY <1>1, <1>2, SegmentInduction
<1> QED BY <1>3

-----------------------------------------------------------------------------
(* Linear forms *)

Vectors == [Var -> Int]
Formed == [1 .. NumStruct -> Int]

LEMMA Sizes == /\ NumStruct \in Nat \ {0} /\ NumStruct \in Nat /\ Len(Forms) \in Nat /\ NumLinear \in Nat
               /\ NumStruct <= NumLinear /\ Var = 1 .. NumLinear
               /\ \A i \in 1 .. Len(Forms) : Forms[i] \in Formed /\ NumStruct + i \in Var
               /\ \A x \in 1 .. NumStruct : x \in Var
<1>1. Forms \in Seq([1 .. NumStruct -> -1 .. 1]) /\ NumStruct \in Nat \ {0} BY SimplexAssumption
<1>2. Len(Forms) \in Nat /\ DOMAIN Forms = 1 .. Len(Forms) /\ \A i \in 1 .. Len(Forms) : Forms[i] \in [1 .. NumStruct -> -1 .. 1]
  BY <1>1, LenProperties, ElementOfSeq
<1>3. NumLinear \in Nat /\ NumStruct <= NumLinear BY <1>1, <1>2 DEF NumLinear
<1>4. ASSUME NEW i \in 1 .. Len(Forms) PROVE Forms[i] \in Formed /\ NumStruct + i \in Var
  <2>1. Forms[i] \in [1 .. NumStruct -> -1 .. 1] BY <1>2
  <2>2. \A z \in -1 .. 1 : z \in Int OBVIOUS
  <2> QED BY <2>1, <2>2, <1>1, <1>2 DEF Formed, Var, NumLinear
<1> QED BY <1>1, <1>2, <1>3, <1>4 DEF Var

LEMMA Ring ==
    /\ \A a \in Int, b \in Int, k \in Int, v \in Int : (a + k * b) * v = a * v + k * (b * v)
    /\ \A a \in Int, b \in Int : a * b \in Int /\ a * b = b * a
    /\ \A a \in Int : a * 0 = 0 /\ 0 * a = 0 /\ a * 1 = a /\ 1 * a = a
    /\ \A a \in Int, b \in Int, c \in Int : a * (b * c) = (a * b) * c
    /\ \A a \in Int, b \in Int, c \in Int : a * (b + c) = a * b + a * c /\ a * (b - c) = a * b - a * c
OBVIOUS

LEMMA EvalInt == ASSUME NEW c \in Vectors, NEW u \in Vectors PROVE Eval(c, u) \in Int
<1> DEFINE f == [x \in Var |-> c[x] * u[x]]
<1>1. Numbers(f, 1 .. NumLinear)
  <2>1. \A x \in Var : c[x] \in Int /\ u[x] \in Int BY DEF Vectors
  <2>2. \A x \in Var : f[x] \in Int BY <2>1, Ring
  <2> QED BY <2>2, Sizes DEF Numbers
<1> HIDE DEF f
<1>2. SumOver(f, 1 .. NumLinear) \in Int BY <1>1, Sizes, SumSegment
<1> QED BY <1>2, Sizes DEF Eval, f

LEMMA EvalLinear ==
    ASSUME NEW c \in Vectors, NEW d \in Vectors, NEW e \in Vectors, NEW k \in Int, NEW u \in Vectors,
           \A y \in Var : e[y] = c[y] + k * d[y]
    PROVE  Eval(e, u) = Eval(c, u) + k * Eval(d, u)
<1> DEFINE f == [x \in Var |-> c[x] * u[x]]
           g == [x \in Var |-> d[x] * u[x]]
           h == [x \in Var |-> e[x] * u[x]]
           n == NumLinear
<1>0. n \in Nat /\ Var = 1 .. n BY Sizes
<1>1. \A x \in Var : c[x] \in Int /\ d[x] \in Int /\ e[x] \in Int /\ u[x] \in Int BY DEF Vectors
<1>2. \A x \in Var : f[x] \in Int /\ g[x] \in Int BY <1>1, Ring
<1>3. \A x \in Var : h[x] = f[x] + k * g[x]
  <2> TAKE x \in Var
  <2>1. h[x] = e[x] * u[x] /\ f[x] = c[x] * u[x] /\ g[x] = d[x] * u[x] OBVIOUS
  <2>2. e[x] = c[x] + k * d[x] OBVIOUS
  <2> HIDE DEF f, g, h
  <2> QED BY <1>1, <2>1, <2>2, Ring
<1>4. Eval(c, u) = SumOver(f, 1 .. n) /\ Eval(d, u) = SumOver(g, 1 .. n) /\ Eval(e, u) = SumOver(h, 1 .. n)
  BY <1>0 DEF Eval
<1> HIDE DEF f, g, h, n
<1>5. Numbers(f, 1 .. n) /\ Numbers(g, 1 .. n) /\ \A x \in 1 .. n : h[x] = f[x] + k * g[x]
  BY <1>0, <1>2, <1>3 DEF Numbers
<1>6. SumOver(h, 1 .. n) = SumOver(f, 1 .. n) + k * SumOver(g, 1 .. n) BY <1>0, <1>5, SumLinear
<1> QED BY <1>4, <1>6

LEMMA UnitIs == ASSUME NEW x \in Var PROVE UnitRow(x) \in Vectors /\ \A y \in Var : UnitRow(x)[y] = IF y = x THEN 1 ELSE 0
BY DEF UnitRow, Vectors

LEMMA EvalUnit == ASSUME NEW x \in Var, NEW u \in Vectors PROVE Eval(UnitRow(x), u) = u[x]
<1> DEFINE f == [y \in Var |-> UnitRow(x)[y] * u[y]]
           n == NumLinear
<1>0. n \in Nat /\ Var = 1 .. n BY Sizes
<1>1. \A y \in Var : u[y] \in Int BY DEF Vectors
<1>2. f[x] = u[x]
  <2>1. f[x] = UnitRow(x)[x] * u[x] /\ UnitRow(x)[x] = 1 BY UnitIs
  <2> HIDE DEF f
  <2> QED BY <1>1, <2>1, Ring
<1>3. ASSUME NEW y \in Var, y # x PROVE f[y] = 0
  <2>1. f[y] = UnitRow(x)[y] * u[y] /\ UnitRow(x)[y] = 0 BY <1>3, UnitIs
  <2> HIDE DEF f
  <2> QED BY <1>1, <2>1, Ring
<1>4. Eval(UnitRow(x), u) = SumOver(f, 1 .. n) BY <1>0 DEF Eval
<1> HIDE DEF f, n
<1>5. x \in 1 .. n /\ f[x] \in Int /\ \A y \in 1 .. n : y # x => f[y] = 0 BY <1>0, <1>1, <1>2, <1>3
<1>6. SumOver(f, 1 .. n) = f[x] BY <1>0, <1>5, SumSingle
<1> QED BY <1>2, <1>4, <1>6

\* One of the variables a form mentions takes another value.
LEMMA EvalMoved ==
    ASSUME NEW c \in Vectors, NEW u \in Vectors, NEW w \in Vectors, NEW v \in Var,
           \A y \in Var : c[y] # 0 /\ y # v => w[y] = u[y]
    PROVE  Eval(c, w) = Eval(c, u) + c[v] * (w[v] - u[v])
<1> DEFINE f == [x \in Var |-> c[x] * u[x]]
           g == [x \in Var |-> c[x] * (w[x] - u[x])]
           h == [x \in Var |-> c[x] * w[x]]
           n == NumLinear
<1>0. n \in Nat /\ Var = 1 .. n BY Sizes
<1>1. \A x \in Var : c[x] \in Int /\ u[x] \in Int /\ w[x] \in Int /\ w[x] - u[x] \in Int BY DEF Vectors
<1>2. \A x \in Var : f[x] \in Int /\ g[x] \in Int BY <1>1, Ring
<1>3. \A x \in Var : h[x] = f[x] + 1 * g[x]
  <2> TAKE x \in Var
  <2>1. h[x] = c[x] * w[x] /\ f[x] = c[x] * u[x] /\ g[x] = c[x] * (w[x] - u[x]) OBVIOUS
  <2>2. c[x] * (w[x] - u[x]) = c[x] * w[x] - c[x] * u[x] /\ c[x] * w[x] \in Int /\ c[x] * u[x] \in Int BY <1>1, Ring
  <2> HIDE DEF f, g, h
  <2> QED BY <1>2, <2>1, <2>2
<1>4. Eval(c, u) = SumOver(f, 1 .. n) /\ Eval(c, w) = SumOver(h, 1 .. n) BY <1>0 DEF Eval
<1>5. ASSUME NEW y \in Var, y # v PROVE g[y] = 0
  <2>1. g[y] = c[y] * (w[y] - u[y]) OBVIOUS
  <2> HIDE DEF g
  <2>2. CASE c[y] = 0 BY <1>1, <2>1, <2>2, Ring
  <2>3. CASE c[y] # 0
    <3>1. w[y] - u[y] = 0 BY <1>1, <1>5, <2>3
    <3> QED BY <1>1, <2>1, <3>1, Ring
  <2> QED BY <2>2, <2>3
<1>6. g[v] = c[v] * (w[v] - u[v]) OBVIOUS
<1> HIDE DEF f, g, h, n
<1>7. Numbers(f, 1 .. n) /\ Numbers(g, 1 .. n) /\ \A x \in 1 .. n : h[x] = f[x] + 1 * g[x]
  BY <1>0, <1>2, <1>3 DEF Numbers
<1>8. 1 \in Int OBVIOUS
<1>9. SumOver(h, 1 .. n) = SumOver(f, 1 .. n) + 1 * SumOver(g, 1 .. n) BY <1>0, <1>7, <1>8, SumLinear
<1>10. SumOver(g, 1 .. n) = g[v]
  <2>1. v \in 1 .. n /\ g[v] \in Int /\ \A y \in 1 .. n : y # v => g[y] = 0 BY <1>0, <1>2, <1>5
  <2> QED BY <1>0, <2>1, SumSingle
<1>11. g[v] \in Int BY <1>2
<1> QED BY <1>4, <1>6, <1>9, <1>10, <1>11, Ring

\* A row in which xj is replaced by the row new.
Turn(c, xj, new) == [y \in Var |-> (IF y = xj THEN 0 ELSE c[y]) + c[xj] * new[y]]

LEMMA TurnIs ==
    ASSUME NEW c \in Vectors, NEW xj \in Var, NEW new \in Vectors, new[xj] = 0
    PROVE  /\ Turn(c, xj, new) \in Vectors
           /\ \A y \in Var : Turn(c, xj, new)[y] = c[y] + c[xj] * (new[y] - UnitRow(xj)[y])
<1>1. \A y \in Var : c[y] \in Int /\ new[y] \in Int BY DEF Vectors
<1>2. \A y \in Var : c[xj] * new[y] \in Int BY <1>1, Ring
<1>3. \A y \in Var : Turn(c, xj, new)[y] = (IF y = xj THEN 0 ELSE c[y]) + c[xj] * new[y] BY DEF Turn
<1>4. Turn(c, xj, new) \in Vectors
  <2>1. \A y \in Var : (IF y = xj THEN 0 ELSE c[y]) + c[xj] * new[y] \in Int BY <1>1, <1>2
  <2> QED BY <2>1 DEF Turn, Vectors
<1>5. ASSUME NEW y \in Var PROVE Turn(c, xj, new)[y] = c[y] + c[xj] * (new[y] - UnitRow(xj)[y])
  <2>1. CASE y = xj
    <3>1. UnitRow(xj)[y] = 1 /\ new[y] = 0 BY <2>1, UnitIs
    <3>2. Turn(c, xj, new)[y] = 0 + c[xj] * 0 BY <1>3, <2>1
    <3>3. c[xj] * (0 - 1) = 0 - c[xj] BY <1>1
    <3> QED BY <1>1, <2>1, <3>1, <3>2, <3>3, Ring
  <2>2. CASE y # xj
    <3>1. UnitRow(xj)[y] = 0 BY <2>2, UnitIs
    <3>2. new[y] - 0 = new[y] BY <1>1
    <3> QED BY <1>3, <2>2, <3>1, <3>2
  <2> QED BY <2>1, <2>2
<1> QED BY <1>4, <1>5

\* Where xj is new, replacing it changes nothing.
LEMMA TurnEval ==
    ASSUME NEW c \in Vectors, NEW xj \in Var, NEW new \in Vectors, new[xj] = 0, NEW u \in Vectors,
           Eval(new, u) = u[xj]
    PROVE  Eval(Turn(c, xj, new), u) = Eval(c, u)
<1> DEFINE d == [y \in Var |-> new[y] - UnitRow(xj)[y]]
           e == Turn(c, xj, new)
           z == UnitRow(xj)
           k == c[xj]
<1>1. \A y \in Var : new[y] \in Int /\ z[y] \in Int BY UnitIs DEF Vectors
<1>2. d \in Vectors /\ \A y \in Var : d[y] = new[y] - z[y] BY <1>1 DEF Vectors
<1> HIDE DEF d
<1>3. e \in Vectors /\ \A y \in Var : e[y] = c[y] + k * d[y] BY <1>2, TurnIs
<1>4. k \in Int BY DEF Vectors
<1> HIDE DEF e, k
<1>5. Eval(e, u) = Eval(c, u) + k * Eval(d, u) BY <1>2, <1>3, <1>4, EvalLinear
<1>6. z \in Vectors BY UnitIs
<1>7. \A y \in Var : d[y] = new[y] + (0 - 1) * z[y] BY <1>1, <1>2
<1>8. 0 - 1 \in Int OBVIOUS
<1> HIDE DEF z
<1>9. Eval(d, u) = Eval(new, u) + (0 - 1) * Eval(z, u) BY <1>2, <1>6, <1>7, <1>8, EvalLinear
<1>10. Eval(z, u) = u[xj] BY EvalUnit DEF z
<1>11. u[xj] \in Int BY DEF Vectors
<1>12. Eval(d, u) = 0 BY <1>9, <1>10, <1>11
<1>13. Eval(c, u) \in Int BY EvalInt
<1> QED BY <1>4, <1>5, <1>12, <1>13, Ring DEF e

\* A form over the non-basic variables, given the row R[x] of each variable x.
SolvedBy(form, R) == [y \in Var |-> SumOver([x \in 1 .. NumStruct |-> form[x] * R[x][y]], 1 .. NumStruct)]

LEMMA SolvedInt ==
    ASSUME NEW form \in Formed, NEW R \in [Var -> Vectors] PROVE SolvedBy(form, R) \in Vectors
<1>1. ASSUME NEW y \in Var PROVE SumOver([x \in 1 .. NumStruct |-> form[x] * R[x][y]], 1 .. NumStruct) \in Int
  <2> DEFINE f == [x \in 1 .. NumStruct |-> form[x] * R[x][y]]
  <2>1. \A x \in 1 .. NumStruct : form[x] \in Int /\ R[x][y] \in Int BY Sizes DEF Formed, Vectors
  <2>2. \A x \in 1 .. NumStruct : f[x] \in Int BY <2>1, Ring
  <2>3. Numbers(f, 1 .. NumStruct) BY <2>2 DEF Numbers
  <2> HIDE DEF f
  <2>4. SumOver(f, 1 .. NumStruct) \in Int BY <2>3, Sizes, SumSegment
  <2> QED BY <2>4 DEF f
<1> QED BY <1>1 DEF SolvedBy, Vectors

\* Solving commutes with replacing a variable.
LEMMA SolvedTurned ==
    ASSUME NEW form \in Formed, NEW R \in [Var -> Vectors], NEW Q \in [Var -> Vectors],
           NEW xj \in Var, NEW new \in Vectors, new[xj] = 0,
           \A x \in 1 .. NumStruct : Q[x] = Turn(R[x], xj, new)
    PROVE  SolvedBy(form, Q) = Turn(SolvedBy(form, R), xj, new)
<1> DEFINE n == NumStruct
           S == SolvedBy(form, R)
<1>0. n \in Nat /\ \A x \in 1 .. n : x \in Var BY Sizes
<1>1. S \in Vectors BY SolvedInt
<1>2. ASSUME NEW y \in Var PROVE SolvedBy(form, Q)[y] = Turn(S, xj, new)[y]
  <2> DEFINE k == new[y] - UnitRow(xj)[y]
             f == [x \in 1 .. n |-> form[x] * R[x][y]]
             g == [x \in 1 .. n |-> form[x] * R[x][xj]]
             h == [x \in 1 .. n |-> form[x] * Q[x][y]]
  <2>1. k \in Int
    <3>1. new[y] \in Int /\ UnitRow(xj)[y] \in Int BY UnitIs DEF Vectors
    <3> QED BY <3>1
  <2>2. \A x \in 1 .. n : form[x] \in Int /\ R[x][y] \in Int /\ R[x][xj] \in Int
    BY <1>0 DEF Formed, Vectors
  <2>3. \A x \in 1 .. n : f[x] \in Int /\ g[x] \in Int BY <2>2, Ring
  <2>4. \A x \in 1 .. n : h[x] = f[x] + k * g[x]
    <3> TAKE x \in 1 .. n
    <3>1. h[x] = form[x] * Q[x][y] /\ f[x] = form[x] * R[x][y] /\ g[x] = form[x] * R[x][xj] OBVIOUS
    <3>2. Q[x][y] = R[x][y] + R[x][xj] * k
      <4>1. R[x] \in Vectors BY <1>0
      <4>2. Turn(R[x], xj, new)[y] = R[x][y] + R[x][xj] * k BY <4>1, TurnIs
      <4> QED BY <4>2
    <3> HIDE DEF k, f, g, h
    <3> DEFINE a == form[x]
               b == R[x][y]
               c == R[x][xj]
    <3>3. a \in Int /\ b \in Int /\ c \in Int BY <2>2
    <3>4. h[x] = a * (b + c * k) /\ f[x] = a * b /\ g[x] = a * c BY <3>1, <3>2
    <3> HIDE DEF a, b, c
    <3>5. a * (b + c * k) = a * b + a * (c * k) /\ a * (c * k) = (a * c) * k /\ (a * c) * k = k * (a * c)
      BY <2>1, <3>3, Ring
    <3> QED BY <3>4, <3>5
  <2>5. SolvedBy(form, Q)[y] = SumOver(h, 1 .. n) BY DEF SolvedBy
  <2>6. S[y] = SumOver(f, 1 .. n) BY DEF SolvedBy
  <2>7. S[xj] = SumOver(g, 1 .. n) BY DEF SolvedBy
  <2>8. Turn(S, xj, new)[y] = S[y] + S[xj] * k
    <3> HIDE DEF S
    <3> QED BY <1>1, TurnIs
  <2>9. S[xj] \in Int BY <1>1 DEF Vectors
  <2> HIDE DEF k, f, g, h, S
  <2>10. Numbers(f, 1 .. n) /\ Numbers(g, 1 .. n) BY <2>3 DEF Numbers
  <2>11. SumOver(h, 1 .. n) = SumOver(f, 1 .. n) + k * SumOver(g, 1 .. n)
    <3> HIDE DEF n
    <3>1. n \in Nat BY <1>0
    <3>2. \A x \in 1 .. n : h[x] = f[x] + k * g[x] BY <2>4
    <3>3. Combines(n, f, g, h, k) BY <3>2, <2>10 DEF Combines
    <3> QED BY <3>1, <3>3, <2>1, SumCombines
  <2>12. k * S[xj] = S[xj] * k BY <2>1, <2>9, Ring
  <2> QED BY <2>5, <2>6, <2>7, <2>8, <2>11, <2>12
<1>3. SolvedBy(form, Q) = [y \in Var |-> SolvedBy(form, Q)[y]] BY DEF SolvedBy
<1>4. Turn(S, xj, new) = [y \in Var |-> Turn(S, xj, new)[y]] BY DEF Turn
<1> HIDE DEF S
<1>5. SolvedBy(form, Q) = Turn(S, xj, new) BY <1>2, <1>3, <1>4
<1> QED BY <1>5 DEF S
VectorsCombine(c, d, e, k) == \A y \in Var : e[y] = c[y] + k * d[y]

LEMMA EvalCombines ==
    ASSUME NEW c \in Vectors, NEW d \in Vectors, NEW e \in Vectors, NEW k \in Int, NEW u \in Vectors,
           VectorsCombine(c, d, e, k)
    PROVE  Eval(e, u) = Eval(c, u) + k * Eval(d, u)
<1>1. \A y \in Var : e[y] = c[y] + k * d[y] BY DEF VectorsCombine
<1> QED BY <1>1, EvalLinear

\* Evaluating a solved form evaluates the form.
LEMMA SolvedEval ==
    ASSUME NEW form \in Formed, NEW R \in [Var -> Vectors], NEW u \in Vectors
    PROVE  Eval(SolvedBy(form, R), u) = SumOver([x \in 1 .. NumStruct |-> form[x] * Eval(R[x], u)], 1 .. NumStruct)
<1> DEFINE n == NumStruct
           Term(y) == [x \in 1 .. NumStruct |-> form[x] * R[x][y]]
           Part(k) == [y \in Var |-> SumOver(Term(y), 1 .. k)]
           G == [x \in 1 .. NumStruct |-> form[x] * Eval(R[x], u)]
           T == {k \in Nat : k <= n => Eval(Part(k), u) = SumOver(G, 1 .. k)}
<1>0. n \in Nat /\ n = NumStruct /\ \A x \in 1 .. n : x \in Var BY Sizes
<1>1. \A x \in 1 .. n : form[x] \in Int /\ R[x] \in Vectors BY <1>0 DEF Formed
<1>2. \A x \in 1 .. n : \A y \in Var : R[x][y] \in Int BY <1>1 DEF Vectors
<1>3. ASSUME NEW y \in Var, NEW x \in 1 .. n PROVE Term(y)[x] = form[x] * R[x][y] /\ Term(y)[x] \in Int
  <2>1. Term(y)[x] = form[x] * R[x][y] BY <1>0
  <2> QED BY <1>1, <1>2, <2>1, Ring
<1>4. ASSUME NEW x \in 1 .. n PROVE G[x] = form[x] * Eval(R[x], u) /\ G[x] \in Int
  <2>1. G[x] = form[x] * Eval(R[x], u) BY <1>0
  <2>2. Eval(R[x], u) \in Int BY <1>1, EvalInt
  <2> QED BY <1>1, <2>1, <2>2, Ring
<1>44. \A x \in 1 .. n : G[x] = form[x] * Eval(R[x], u) /\ G[x] \in Int BY <1>4
<1> HIDE DEF Term, G, n
<1>5. ASSUME NEW k \in 0 .. n, NEW y \in Var PROVE Numbers(Term(y), 1 .. k)
  <2>1. \A x \in 1 .. k : x \in 1 .. n BY <1>0
  <2> QED BY <1>3, <2>1 DEF Numbers
<1>6. ASSUME NEW k \in 0 .. n PROVE Numbers(G, 1 .. k)
  <2>1. \A x \in 1 .. k : x \in 1 .. n BY <1>0
  <2> QED BY <1>44, <2>1 DEF Numbers
<1>7. ASSUME NEW k \in 0 .. n PROVE Part(k) \in Vectors
  <2>1. \A y \in Var : SumOver(Term(y), 1 .. k) \in Int BY <1>0, <1>5, SumSegment
  <2> QED BY <2>1 DEF Vectors
<1>8. 0 \in T
  <2>1. 0 \in 0 .. n /\ 0 \in Nat BY <1>0
  <2>2. \A y \in Var : SumOver(Term(y), 1 .. 0) = 0 BY <1>5, <2>1, SumSegment
  <2>3. SumOver(G, 1 .. 0) = 0 BY <1>6, <2>1, SumSegment
  <2> DEFINE f == [x \in Var |-> Part(0)[x] * u[x]]
  <2>4. \A x \in Var : f[x] = 0
    <3> TAKE x \in Var
    <3>1. Part(0)[x] = 0 /\ u[x] \in Int BY <2>2 DEF Vectors
    <3>2. f[x] = Part(0)[x] * u[x] OBVIOUS
    <3> HIDE DEF f
    <3> QED BY <3>1, <3>2, Ring
  <2>5. Eval(Part(0), u) = SumOver(f, 1 .. NumLinear) BY Sizes DEF Eval
  <2> HIDE DEF f
  <2>6. SumOver(f, 1 .. NumLinear) = 0 BY <2>4, Sizes, SumZero
  <2> QED BY <2>3, <2>5, <2>6
<1>9. ASSUME NEW k \in 1 .. n, k - 1 \in T PROVE k \in T
  <2>1. k \in Nat /\ k # 0 /\ k \in 0 .. n /\ k - 1 \in 0 .. n /\ k - 1 <= n /\ k - 1 \in Nat BY <1>0
  <2>2. Part(k - 1) \in Vectors /\ Part(k) \in Vectors BY <1>7, <2>1
  <2>3. R[k] \in Vectors /\ form[k] \in Int BY <1>1
  <2>4. \A y \in Var : Part(k)[y] = Part(k - 1)[y] + form[k] * R[k][y]
    <3> TAKE y \in Var
    <3>1. SumOver(Term(y), 1 .. k) = SumOver(Term(y), 1 .. k - 1) + Term(y)[k] BY <1>5, <2>1, SumSegment
    <3>2. Term(y)[k] = form[k] * R[k][y] BY <1>3
    <3> QED BY <3>1, <3>2
  <2>5. Eval(Part(k - 1), u) = SumOver(G, 1 .. k - 1) BY <1>9, <2>1
  <2> HIDE DEF Part
  <2>44. VectorsCombine(Part(k - 1), R[k], Part(k), form[k]) BY <2>4 DEF VectorsCombine
  <2>6. Eval(Part(k), u) = Eval(Part(k - 1), u) + form[k] * Eval(R[k], u) BY <2>2, <2>3, <2>44, EvalCombines
  <2>7. SumOver(G, 1 .. k) = SumOver(G, 1 .. k - 1) + G[k] BY <1>6, <2>1, SumSegment
  <2>8. G[k] = form[k] * Eval(R[k], u) BY <1>44
  <2>9. Eval(Part(k), u) = SumOver(G, 1 .. k) BY <2>5, <2>6, <2>7, <2>8
  <2> QED BY <2>1, <2>9 DEF Part
<1>10. n \in T
  <2> HIDE DEF T
  <2> QED BY <1>0, <1>8, <1>9, SegmentInduction
<1>11. Eval(Part(n), u) = SumOver(G, 1 .. n) BY <1>0, <1>10
<1>12. SolvedBy(form, R) = Part(n) BY DEF SolvedBy, Term, n
<1> QED BY <1>11, <1>12 DEF G, n


-----------------------------------------------------------------------------
(* The tableau *)

\* The row of each variable over the non-basic ones.
Own(R, ro) == [x \in Var |-> IF ro[x] # 0 THEN R[ro[x]].coeffs ELSE UnitRow(x)]

LEMMA SolvedIs == ASSUME NEW form PROVE Solved(form) = SolvedBy(form, Own(rows, rowOf))
<1> DEFINE f(y) == [x \in 1 .. NumStruct |->
                       form[x] * (IF IsBasic(x) THEN rows[rowOf[x]].coeffs ELSE UnitRow(x))[y]]
           g(y) == [x \in 1 .. NumStruct |-> form[x] * Own(rows, rowOf)[x][y]]
<1>1. \A x \in 1 .. NumStruct : Own(rows, rowOf)[x] = IF IsBasic(x) THEN rows[rowOf[x]].coeffs ELSE UnitRow(x)
  BY Sizes DEF Own, IsBasic
<1>2. \A y \in Var : f(y) = g(y) BY <1>1
<1>3. Solved(form) = [y \in Var |-> SumOver(f(y), 1 .. NumStruct)] BY DEF Solved
<1>4. SolvedBy(form, Own(rows, rowOf)) = [y \in Var |-> SumOver(g(y), 1 .. NumStruct)] BY DEF SolvedBy
<1> HIDE DEF f, g
<1> QED BY <1>2, <1>3, <1>4

RowShape == [basic : Var, coeffs : Vectors]

\* Rows and basic variables name each other, rows mention non-basic variables that
\* were made, and every slack is its form.
TableauRight(R, ro) ==
    /\ R \in Seq(RowShape) /\ Len(R) <= Len(Forms) /\ ro \in [Var -> 0 .. Len(R)]
    /\ \A r \in 1 .. Len(R) : ro[R[r].basic] = r /\ R[r].basic <= NumStruct + Len(R)
    /\ \A v \in Var : ro[v] # 0 => R[ro[v]].basic = v
    /\ \A r \in 1 .. Len(R), v \in Var : R[r].coeffs[v] # 0 => ro[v] = 0 /\ v <= NumStruct + Len(R)
    /\ \A i \in 1 .. Len(R) : Own(R, ro)[NumStruct + i] = SolvedBy(Forms[i], Own(R, ro))

ColumnsRight(R, cl) == cl = [v \in Var |-> {r \in 1 .. Len(R) : R[r].coeffs[v] # 0}]

\* The values u satisfy the rows.
RowsHold(R, u) == \A r \in 1 .. Len(R) : u[R[r].basic] = Eval(R[r].coeffs, u)

LEMMA RowIs ==
    ASSUME NEW R, NEW ro, TableauRight(R, ro)
    PROVE  /\ Len(R) \in Nat /\ DOMAIN R = 1 .. Len(R)
           /\ \A r \in 1 .. Len(R) : /\ R[r] \in RowShape /\ R[r].basic \in Var /\ R[r].coeffs \in Vectors
                                     /\ R[r] = [basic |-> R[r].basic, coeffs |-> R[r].coeffs]
                                     /\ ro[R[r].basic] = r /\ R[r].coeffs[R[r].basic] = 0
                                     /\ \A v \in Var : R[r].coeffs[v] \in Int
           /\ \A v \in Var : ro[v] \in 0 .. Len(R) /\ (ro[v] # 0 => ro[v] \in 1 .. Len(R))
           /\ Own(R, ro) \in [Var -> Vectors]
<1>1. R \in Seq(RowShape) /\ ro \in [Var -> 0 .. Len(R)] BY DEF TableauRight
<1>2. Len(R) \in Nat /\ DOMAIN R = 1 .. Len(R) /\ \A r \in 1 .. Len(R) : R[r] \in RowShape
  BY <1>1, LenProperties, ElementOfSeq
<1>3. ASSUME NEW r \in 1 .. Len(R)
      PROVE  /\ R[r] \in RowShape /\ R[r].basic \in Var /\ R[r].coeffs \in Vectors
             /\ R[r] = [basic |-> R[r].basic, coeffs |-> R[r].coeffs]
             /\ ro[R[r].basic] = r /\ R[r].coeffs[R[r].basic] = 0
             /\ \A v \in Var : R[r].coeffs[v] \in Int
  <2>1. R[r] \in RowShape /\ R[r].basic \in Var /\ R[r].coeffs \in Vectors
        /\ R[r] = [basic |-> R[r].basic, coeffs |-> R[r].coeffs]
    BY <1>2 DEF RowShape
  <2>2. ro[R[r].basic] = r BY DEF TableauRight
  <2>3. ro[R[r].basic] # 0 BY <2>2
  <2>4. R[r].coeffs[R[r].basic] = 0 BY <2>1, <2>3 DEF TableauRight
  <2> QED BY <2>1, <2>2, <2>4 DEF Vectors
<1>4. \A v \in Var : ro[v] \in 0 .. Len(R) /\ (ro[v] # 0 => ro[v] \in 1 .. Len(R)) BY <1>1, <1>2
<1>5. \A x \in Var : (IF ro[x] # 0 THEN R[ro[x]].coeffs ELSE UnitRow(x)) \in Vectors BY <1>3, <1>4, UnitIs
<1>6. Own(R, ro) \in [Var -> Vectors] BY <1>5 DEF Own
<1> QED BY <1>2, <1>3, <1>4, <1>6
\* What holds of a row: it is over variables that are made and not basic.
LEMMA RowMentions ==
    ASSUME NEW R, NEW ro, TableauRight(R, ro), NEW r \in 1 .. Len(R), NEW v \in Var, R[r].coeffs[v] # 0
    PROVE  ro[v] = 0 /\ v <= NumStruct + Len(R)
BY DEF TableauRight

\* One row at a time.
LEMMA RowEach ==
    ASSUME NEW R, NEW ro, TableauRight(R, ro), NEW q \in 1 .. Len(R)
    PROVE  /\ R[q].basic \in Var /\ R[q].coeffs \in Vectors
           /\ ro[R[q].basic] = q /\ R[q].coeffs[R[q].basic] = 0
           /\ \A y \in Var : R[q].coeffs[y] \in Int
<1>1. R[q].basic \in Var /\ R[q].coeffs \in Vectors BY RowIs
<1>2. ro[R[q].basic] = q BY DEF TableauRight
<1>3. R[q].coeffs[R[q].basic] = 0
  <2>1. q # 0 BY RowIs
  <2> QED BY <1>1, <1>2, <2>1, RowMentions
<1> QED BY <1>1, <1>2, <1>3 DEF Vectors

Sign(k) == k = 1 \/ k = -1

LEMMA SignSquare == ASSUME NEW k, Sign(k), NEW a \in Int
                    PROVE  k \in Int /\ k # 0 /\ k * k = 1 /\ k * (k * a) = a /\ (k * a) * k = a /\ k * a \in Int /\ (k * a = 0 <=> a = 0)
<1>1. CASE k = 1 BY <1>1
<1>2. CASE k = -1 BY <1>2
<1> QED BY <1>1, <1>2 DEF Sign

\* The row of the variable that leaves, solved for the one that enters.
LEMMA SwappedIs ==
    ASSUME TableauRight(rows, rowOf), NEW r \in 1 .. Len(rows), NEW xj \in Var, NEW xi, xi = rows[r].basic,
           NEW k, k = rows[r].coeffs[xj], Sign(k), NEW new, new = Swapped(r, xi, xj)
    PROVE  /\ xi \in Var /\ xi # xj /\ new \in Vectors /\ new[xi] = k /\ new[xj] = 0
           /\ \A y \in Var : y # xi /\ y # xj => new[y] = 0 - k * rows[r].coeffs[y]
           /\ \A u \in Vectors : u[xi] = Eval(rows[r].coeffs, u) => Eval(new, u) = u[xj]
<1> DEFINE row == rows[r].coeffs
<1>1. xi \in Var /\ row \in Vectors /\ row[xi] = 0 /\ \A y \in Var : row[y] \in Int BY RowIs
<1>2. xi # xj /\ k \in Int /\ k = row[xj]
  <2>1. row[xj] # 0 BY DEF Sign
  <2> QED BY <1>1, <2>1
<1> HIDE DEF row
<1>3. new = [y \in Var |-> CASE y = xi -> k [] y = xj -> 0 [] OTHER -> -(k * row[y])] BY DEF Swapped, row
<1>4. \A y \in Var : k * row[y] \in Int BY <1>1, <1>2, Ring
<1>5. new[xi] = k /\ new[xj] = 0 /\ \A y \in Var : y # xi /\ y # xj => new[y] = 0 - k * row[y]
  BY <1>1, <1>2, <1>3, <1>4
<1>6. \A y \in Var : new[y] \in Int BY <1>2, <1>4, <1>5
<1>7. new \in Vectors BY <1>3, <1>6 DEF Vectors
<1>8. ASSUME NEW u \in Vectors, u[xi] = Eval(row, u) PROVE Eval(new, u) = u[xj]
  <2> DEFINE z == UnitRow(xi)
             w == UnitRow(xj)
             d == [y \in Var |-> z[y] - row[y]]
  <2>1. z \in Vectors /\ w \in Vectors /\ \A y \in Var : z[y] = (IF y = xi THEN 1 ELSE 0) /\ w[y] = IF y = xj THEN 1 ELSE 0
    BY <1>1, UnitIs
  <2>2. Eval(z, u) = u[xi] /\ Eval(w, u) = u[xj] BY <1>1, EvalUnit
  <2>3. d \in Vectors /\ \A y \in Var : d[y] = z[y] - row[y]
    <3>1. \A y \in Var : z[y] \in Int BY <2>1
    <3> HIDE DEF z
    <3>2. \A y \in Var : z[y] - row[y] \in Int BY <1>1, <3>1
    <3> QED BY <3>2 DEF Vectors
  <2> HIDE DEF z, w, d
  <2>40. 0 - 1 \in Int OBVIOUS
  <2>4. ASSUME NEW y \in Var PROVE d[y] = z[y] + (0 - 1) * row[y]
    <3>1. z[y] \in Int /\ row[y] \in Int /\ d[y] = z[y] - row[y] BY <1>1, <2>1, <2>3
    <3> QED BY <3>1
  <2>5. Eval(d, u) = Eval(z, u) + (0 - 1) * Eval(row, u) BY <1>1, <2>1, <2>3, <2>4, <2>40, EvalLinear
  <2>6. u[xi] \in Int /\ u[xj] \in Int BY <1>1 DEF Vectors
  <2>7. Eval(d, u) = 0 BY <1>8, <2>2, <2>5, <2>6
  <2>8. ASSUME NEW y \in Var PROVE new[y] = w[y] + k * d[y]
    <3>1. d[y] = z[y] - row[y] BY <2>3
    <3>2. CASE y = xi
      <4>1. w[y] = 0 /\ d[y] = 1 BY <1>1, <1>2, <2>1, <3>1, <3>2
      <4> QED BY <1>2, <1>5, <3>2, <4>1, Ring
    <3>3. CASE y = xj
      <4>1. w[y] = 1 /\ d[y] = 0 - k BY <1>1, <1>2, <2>1, <3>1, <3>3
      <4>2. k * (0 - k) = 0 - k * k /\ k * k = 1
        <5>1. 0 \in Int /\ k * 0 = 0 /\ k * (0 - k) = k * 0 - k * k BY <1>2, Ring
        <5>2. k * k = 1 BY <5>1, SignSquare
        <5> QED BY <5>1, <5>2
      <4>3. new[y] = 0 BY <1>5, <3>3
      <4> QED BY <4>1, <4>2, <4>3
    <3>4. CASE y # xi /\ y # xj
      <4>1. w[y] = 0 /\ d[y] = 0 - row[y] BY <1>1, <2>1, <3>1, <3>4
      <4>2. 0 \in Int /\ k * 0 = 0 /\ k * (0 - row[y]) = k * 0 - k * row[y] BY <1>1, <1>2, Ring
      <4>3. new[y] = 0 - k * row[y] BY <1>5, <3>4
      <4> QED BY <1>4, <4>1, <4>2, <4>3
    <3> QED BY <3>2, <3>3, <3>4
  <2>81. \A y \in Var : new[y] = w[y] + k * d[y] BY <2>8
  <2>82. new \in Vectors /\ w \in Vectors /\ d \in Vectors /\ k \in Int BY <1>2, <1>7, <2>1, <2>3
  <2>9. Eval(new, u) = Eval(w, u) + k * Eval(d, u) BY <2>81, <2>82, EvalLinear
  <2> QED BY <1>2, <2>2, <2>6, <2>7, <2>9, Ring
<1> QED BY <1>1, <1>2, <1>5, <1>7, <1>8 DEF row

\* What a pivot does to the rows and to the column index, entry by entry.
PivotDoes(r, xi, xj, new) ==
    /\ Len(rows') = Len(rows)
    /\ rows' \in Seq(RowShape)
    /\ \A q \in 1 .. Len(rows) : rows'[q] = [basic |-> IF q = r THEN xj ELSE rows[q].basic,
                                             coeffs |-> IF q = r THEN new ELSE Turn(rows[q].coeffs, xj, new)]
    /\ rowOf' = [rowOf EXCEPT ![xi] = 0, ![xj] = r]

LEMMA PivotIs ==
    ASSUME TableauRight(rows, rowOf), ColumnsRight(rows, col), NEW r \in 1 .. Len(rows), NEW xj \in Var, NEW xi, xi = rows[r].basic,
           Sign(rows[r].coeffs[xj]), NEW new, new = Swapped(r, xi, xj), PivotRows(r, xi, xj)
    PROVE  PivotDoes(r, xi, xj, new)
<1> DEFINE users == col[xj] \ {r}
           after == [u \in DOMAIN rows |->
                      CASE u = r -> [basic |-> xj, coeffs |-> new]
                        [] u \in users ->
                             [rows[u] EXCEPT !.coeffs =
                                [y \in Var |-> (IF y = xj THEN 0 ELSE @[y]) + @[xj] * new[y]]]
                        [] OTHER -> rows[u]]
<1>1. rows' = after /\ rowOf' = [rowOf EXCEPT ![xi] = 0, ![xj] = r] BY DEF PivotRows
<1>2. new \in Vectors /\ new[xj] = 0 BY SwappedIs
<1>3. DOMAIN rows = 1 .. Len(rows) /\ Len(rows) \in Nat
      /\ \A q \in 1 .. Len(rows) : /\ rows[q].basic \in Var /\ rows[q].coeffs \in Vectors
                                   /\ rows[q] = [basic |-> rows[q].basic, coeffs |-> rows[q].coeffs]
  BY RowIs
<1>4. users = {q \in 1 .. Len(rows) : q # r /\ rows[q].coeffs[xj] # 0} BY DEF ColumnsRight
<1>5. ASSUME NEW q \in 1 .. Len(rows)
      PROVE  after[q] = [basic |-> IF q = r THEN xj ELSE rows[q].basic,
                         coeffs |-> IF q = r THEN new ELSE Turn(rows[q].coeffs, xj, new)]
  <2>1. CASE q = r BY <1>3, <2>1
  <2>2. CASE q # r /\ q \in users
    <3>1. after[q] = [rows[q] EXCEPT !.coeffs = [y \in Var |-> (IF y = xj THEN 0 ELSE @[y]) + @[xj] * new[y]]]
      BY <1>3, <2>2
    <3>2. rows[q] = [basic |-> rows[q].basic, coeffs |-> rows[q].coeffs] BY <1>3
    <3>3. [rows[q] EXCEPT !.coeffs = [y \in Var |-> (IF y = xj THEN 0 ELSE @[y]) + @[xj] * new[y]]]
            = [basic |-> rows[q].basic, coeffs |-> Turn(rows[q].coeffs, xj, new)]
      BY <3>2 DEF Turn
    <3> QED BY <2>2, <3>1, <3>3
  <2>3. CASE q # r /\ q \notin users
    <3> DEFINE c == rows[q].coeffs
    <3>1. after[q] = rows[q] BY <1>3, <2>3
    <3>2. c[xj] = 0 BY <1>4, <2>3
    <3>3. c \in Vectors BY <1>3
    <3> HIDE DEF c
    <3>4. Turn(c, xj, new) = c
      <4>1. \A y \in Var : new[y] \in Int /\ c[y] \in Int BY <1>2, <3>3 DEF Vectors
      <4>2. \A y \in Var : 0 * new[y] = 0 BY <4>1, Ring
      <4>3. \A y \in Var : (IF y = xj THEN 0 ELSE c[y]) + c[xj] * new[y] = c[y] BY <3>2, <4>1, <4>2
      <4>4. c = [y \in Var |-> c[y]] BY <3>3 DEF Vectors
      <4> QED BY <4>3, <4>4 DEF Turn
    <3>5. rows[q] = [basic |-> rows[q].basic, coeffs |-> rows[q].coeffs] BY <1>3
    <3> QED BY <2>3, <3>1, <3>4, <3>5 DEF c
  <2> QED BY <2>1, <2>2, <2>3
<1>6. DOMAIN after = 1 .. Len(rows) BY <1>3
<1>66. after = [q \in 1 .. Len(rows) |-> after[q]] BY <1>3
<1> HIDE DEF after, users
<1>7. \A q \in 1 .. Len(rows) : after[q] \in RowShape
  <2> TAKE q \in 1 .. Len(rows)
  <2>1. (IF q = r THEN xj ELSE rows[q].basic) \in Var BY <1>3
  <2>2. (IF q = r THEN new ELSE Turn(rows[q].coeffs, xj, new)) \in Vectors BY <1>2, <1>3, TurnIs
  <2> DEFINE b == IF q = r THEN xj ELSE rows[q].basic
             c == IF q = r THEN new ELSE Turn(rows[q].coeffs, xj, new)
  <2>3. b \in Var /\ c \in Vectors BY <2>1, <2>2
  <2>4. after[q] = [basic |-> b, coeffs |-> c] BY <1>5
  <2> HIDE DEF b, c
  <2> QED BY <2>3, <2>4 DEF RowShape
<1>8. after \in Seq(RowShape) /\ Len(after) = Len(rows)
  <2>1. after \in [1 .. Len(rows) -> RowShape] BY <1>66, <1>7
  <2>2. after \in Seq(RowShape) BY <1>3, <2>1, SeqDef
  <2> QED BY <1>3, <1>6, <2>2, LenProperties
<1> QED BY <1>1, <1>5, <1>8 DEF PivotDoes

\* Every variable's row is turned alike.
LEMMA PivotOwn ==
    ASSUME TableauRight(rows, rowOf), NEW r \in 1 .. Len(rows), NEW xj \in Var, NEW xi, xi = rows[r].basic,
           Sign(rows[r].coeffs[xj]), NEW new, new = Swapped(r, xi, xj), PivotDoes(r, xi, xj, new),
           NEW x \in Var
    PROVE  Own(rows', rowOf')[x] = Turn(Own(rows, rowOf)[x], xj, new)
<1> DEFINE k == rows[r].coeffs[xj]
           row == rows[r].coeffs
<1>1. /\ xi \in Var /\ xi # xj /\ new \in Vectors /\ new[xi] = k /\ new[xj] = 0
      /\ \A y \in Var : y # xi /\ y # xj => new[y] = 0 - k * row[y]
  BY SwappedIs
<1>2. /\ Len(rows) \in Nat /\ rowOf[xi] = r /\ row[xi] = 0 /\ \A y \in Var : row[y] \in Int
      /\ \A v \in Var : rowOf[v] # 0 => rowOf[v] \in 1 .. Len(rows)
  <2>1. \A q \in 1 .. Len(rows) : rowOf[rows[q].basic] = q /\ rows[q].coeffs[rows[q].basic] = 0
                                    /\ \A y \in Var : rows[q].coeffs[y] \in Int
    BY RowEach
  <2>3. Len(rows) \in Nat BY RowIs
  <2>2. \A v \in Var : rowOf[v] # 0 => rowOf[v] \in 1 .. Len(rows) BY RowIs
  <2> QED BY <2>1, <2>2, <2>3
<1>3. Sign(k) /\ k \in Int /\ k # 0 /\ k * k = 1
  <2>1. Sign(k) OBVIOUS
  <2>2. 0 \in Int OBVIOUS
  <2> HIDE DEF k
  <2> QED BY <2>1, <2>2, SignSquare
<1>4. rowOf[xj] = 0 BY <1>3, RowMentions
<1>5. rowOf \in [Var -> 0 .. Len(rows)] BY DEF TableauRight
<1>6. rowOf' = [rowOf EXCEPT ![xi] = 0, ![xj] = r] BY DEF PivotDoes
<1>7. rowOf'[x] = IF x = xj THEN r ELSE IF x = xi THEN 0 ELSE rowOf[x] BY <1>1, <1>5, <1>6
<1>8. Own(rows', rowOf')[x] = IF rowOf'[x] # 0 THEN rows'[rowOf'[x]].coeffs ELSE UnitRow(x) BY DEF Own
<1>9. Own(rows, rowOf)[x] = IF rowOf[x] # 0 THEN rows[rowOf[x]].coeffs ELSE UnitRow(x) BY DEF Own
<1>10. ASSUME NEW q \in 1 .. Len(rows) PROVE rows'[q].coeffs = IF q = r THEN new ELSE Turn(rows[q].coeffs, xj, new)
  <2> DEFINE c == IF q = r THEN new ELSE Turn(rows[q].coeffs, xj, new)
  <2>1. rows'[q] = [basic |-> IF q = r THEN xj ELSE rows[q].basic, coeffs |-> c] BY DEF PivotDoes
  <2> HIDE DEF c
  <2> QED BY <2>1 DEF c
<1>11. \A y \in Var : new[y] \in Int BY <1>1 DEF Vectors
<1> HIDE DEF row, k
<1>12. CASE x = xj
  <2>1. Own(rows', rowOf')[x] = new BY <1>2, <1>7, <1>8, <1>10, <1>12
  <2>2. Own(rows, rowOf)[x] = UnitRow(xj) BY <1>4, <1>9, <1>12
  <2>3. \A y \in Var : (IF y = xj THEN 0 ELSE UnitRow(xj)[y]) + UnitRow(xj)[xj] * new[y] = new[y]
    <3> TAKE y \in Var
    <3>1. UnitRow(xj)[xj] = 1 /\ (y # xj => UnitRow(xj)[y] = 0) BY UnitIs
    <3>2. 1 * new[y] = new[y] BY <1>11, Ring
    <3> QED BY <1>11, <3>1, <3>2
  <2>4. new = [y \in Var |-> new[y]] BY <1>1 DEF Vectors
  <2>5. Turn(UnitRow(xj), xj, new) = new BY <2>3, <2>4 DEF Turn
  <2> QED BY <2>1, <2>2, <2>5
<1>13. CASE x = xi
  <2>1. Own(rows', rowOf')[x] = UnitRow(xi) BY <1>1, <1>7, <1>8, <1>13
  <2>2. Own(rows, rowOf)[x] = row BY <1>2, <1>9, <1>13 DEF row
  <2>3. ASSUME NEW y \in Var PROVE (IF y = xj THEN 0 ELSE row[y]) + row[xj] * new[y] = UnitRow(xi)[y]
    <3>0. row[xj] = k BY DEF row, k
    <3>1. CASE y = xi
      <4>1. UnitRow(xi)[y] = 1 BY <1>1, <3>1, UnitIs
      <4> QED BY <1>1, <1>2, <1>3, <3>0, <3>1, <4>1
    <3>2. CASE y = xj
      <4>1. UnitRow(xi)[y] = 0 BY <1>1, <3>2, UnitIs
      <4> QED BY <1>1, <1>3, <3>0, <3>2, <4>1, Ring
    <3>3. CASE y # xi /\ y # xj
      <4>1. UnitRow(xi)[y] = 0 BY <1>1, <3>3, UnitIs
      <4>2. new[y] = 0 - k * row[y] BY <1>1, <3>3
      <4>3. k * (k * row[y]) = row[y] /\ k * row[y] \in Int BY <1>2, <1>3, SignSquare
      <4>4. k * (0 - k * row[y]) = k * 0 - k * (k * row[y]) /\ k * 0 = 0 BY <1>3, <4>3, Ring
      <4> QED BY <1>2, <3>0, <3>3, <4>1, <4>2, <4>3, <4>4
    <3> QED BY <3>1, <3>2, <3>3
  <2>4. UnitRow(xi) = [y \in Var |-> UnitRow(xi)[y]] BY DEF UnitRow
  <2>5. Turn(row, xj, new) = UnitRow(xi) BY <2>3, <2>4 DEF Turn
  <2> QED BY <2>1, <2>2, <2>5
<1>14. CASE x # xi /\ x # xj /\ rowOf[x] # 0
  <2>1. rowOf[x] # r
    <3>1. rows[rowOf[x]].basic = x BY <1>14 DEF TableauRight
    <3> QED BY <1>14, <3>1
  <2>2. rowOf[x] \in 1 .. Len(rows) BY <1>2, <1>14
  <2> QED BY <1>7, <1>8, <1>9, <1>10, <1>14, <2>1, <2>2
<1>15. CASE x # xi /\ x # xj /\ rowOf[x] = 0
  <2>1. Own(rows', rowOf')[x] = UnitRow(x) /\ Own(rows, rowOf)[x] = UnitRow(x) BY <1>7, <1>8, <1>9, <1>15
  <2>2. \A y \in Var : (IF y = xj THEN 0 ELSE UnitRow(x)[y]) + UnitRow(x)[xj] * new[y] = UnitRow(x)[y]
    <3> TAKE y \in Var
    <3>1. UnitRow(x)[xj] = 0 /\ UnitRow(x)[y] \in Int BY <1>15, UnitIs
    <3>2. 0 * new[y] = 0 BY <1>11, Ring
    <3> QED BY <3>1, <3>2
  <2>3. UnitRow(x) = [y \in Var |-> UnitRow(x)[y]] BY DEF UnitRow
  <2>4. Turn(UnitRow(x), xj, new) = UnitRow(x) BY <2>2, <2>3 DEF Turn
  <2> QED BY <2>1, <2>4
<1> QED BY <1>12, <1>13, <1>14, <1>15

\* The pivot keeps the tableau that of the forms, and the values that satisfied it.
LEMMA PivotTableau ==
    ASSUME TableauRight(rows, rowOf), NEW r \in 1 .. Len(rows), NEW xj \in Var, NEW xi, xi = rows[r].basic,
           Sign(rows[r].coeffs[xj]), NEW new, new = Swapped(r, xi, xj), PivotDoes(r, xi, xj, new)
    PROVE  /\ TableauRight(rows', rowOf')
           /\ \A u \in Vectors : RowsHold(rows, u) => RowsHold(rows', u)
<1> DEFINE k == rows[r].coeffs[xj]
           row == rows[r].coeffs
           L == Len(rows)
<1>1. /\ xi \in Var /\ xi # xj /\ new \in Vectors /\ new[xi] = k /\ new[xj] = 0
      /\ \A y \in Var : y # xi /\ y # xj => new[y] = 0 - k * row[y]
      /\ \A u \in Vectors : u[xi] = Eval(row, u) => Eval(new, u) = u[xj]
  BY SwappedIs
<1>2. /\ L \in Nat /\ \A v \in Var : rowOf[v] \in 0 .. L /\ (rowOf[v] # 0 => rowOf[v] \in 1 .. L)
      /\ Own(rows, rowOf) \in [Var -> Vectors]
  BY RowIs
<1>3. \A q \in 1 .. L : /\ rows[q].basic \in Var /\ rows[q].coeffs \in Vectors
                        /\ rowOf[rows[q].basic] = q
                        /\ \A y \in Var : rows[q].coeffs[y] \in Int
  BY RowEach
<1>4. rowOf[xj] = 0 /\ xj <= NumStruct + L
  <2>1. row[xj] # 0 BY DEF Sign
  <2> QED BY <2>1, RowMentions
<1>5. rowOf \in [Var -> 0 .. L] /\ L <= Len(Forms) BY DEF TableauRight
<1>6. rowOf' = [rowOf EXCEPT ![xi] = 0, ![xj] = r] /\ Len(rows') = L /\ rows' \in Seq(RowShape) BY DEF PivotDoes
<1>7. \A x \in Var : rowOf'[x] = IF x = xj THEN r ELSE IF x = xi THEN 0 ELSE rowOf[x] BY <1>1, <1>5, <1>6
<1>8. ASSUME NEW q \in 1 .. L
      PROVE  /\ rows'[q].basic = IF q = r THEN xj ELSE rows[q].basic
             /\ rows'[q].coeffs = IF q = r THEN new ELSE Turn(rows[q].coeffs, xj, new)
  <2> DEFINE c == IF q = r THEN new ELSE Turn(rows[q].coeffs, xj, new)
             b == IF q = r THEN xj ELSE rows[q].basic
  <2>1. rows'[q] = [basic |-> b, coeffs |-> c] BY DEF PivotDoes
  <2> HIDE DEF c, b
  <2>2. rows'[q].basic = b /\ rows'[q].coeffs = c BY <2>1
  <2> QED BY <2>2 DEF c, b
<1>9. Own(rows', rowOf') \in [Var -> Vectors] /\ \A x \in Var : Own(rows', rowOf')[x] = Turn(Own(rows, rowOf)[x], xj, new)
  <2>1. \A x \in Var : Own(rows', rowOf')[x] = Turn(Own(rows, rowOf)[x], xj, new) BY PivotOwn
  <2>2. \A x \in Var : Turn(Own(rows, rowOf)[x], xj, new) \in Vectors BY <1>1, <1>2, TurnIs
  <2>3. Own(rows', rowOf') = [x \in Var |-> Own(rows', rowOf')[x]] BY DEF Own
  <2> QED BY <2>1, <2>2, <2>3
<1>10. xi <= NumStruct + L /\ rowOf[xi] = r BY <1>3 DEF TableauRight
<1> HIDE DEF k, row, L
<1>11. rowOf' \in [Var -> 0 .. L]
  <2>1. r \in 0 .. L /\ 0 \in 0 .. L BY <1>2 DEF L
  <2> QED BY <1>5, <1>6, <2>1
<1>12. ASSUME NEW q \in 1 .. L PROVE rowOf'[rows'[q].basic] = q /\ rows'[q].basic <= NumStruct + L
  <2>1. CASE q = r BY <1>1, <1>4, <1>7, <1>8, <2>1
  <2>2. CASE q # r
    <3>1. rows'[q].basic = rows[q].basic /\ rows[q].basic \in Var /\ rowOf[rows[q].basic] = q BY <1>3, <1>8, <2>2
    <3>2. rows[q].basic # xi /\ rows[q].basic # xj BY <1>2, <1>4, <1>10, <2>2, <3>1
    <3>3. rows[q].basic <= NumStruct + L BY DEF TableauRight, L
    <3> QED BY <1>7, <3>1, <3>2, <3>3
  <2> QED BY <2>1, <2>2
<1>13. ASSUME NEW v \in Var, rowOf'[v] # 0 PROVE rows'[rowOf'[v]].basic = v
  <2>1. CASE v = xj
    <3>1. rowOf'[v] = r /\ r \in 1 .. L BY <1>7, <2>1 DEF L
    <3> QED BY <1>8, <2>1, <3>1
  <2>2. CASE v # xj
    <3>1. v # xi /\ rowOf'[v] = rowOf[v] BY <1>7, <1>13, <2>2
    <3>2. rowOf[v] \in 1 .. L /\ rows[rowOf[v]].basic = v BY <1>2, <1>13, <3>1 DEF TableauRight
    <3>3. rowOf[v] # r BY <3>1, <3>2
    <3> QED BY <1>8, <3>1, <3>2, <3>3
  <2> QED BY <2>1, <2>2
<1>14. ASSUME NEW v \in Var, new[v] # 0 PROVE rowOf'[v] = 0 /\ v <= NumStruct + L
  <2>1. CASE v = xi BY <1>1, <1>7, <1>10, <2>1
  <2>2. CASE v # xi
    <3>1. v # xj BY <1>1, <1>14
    <3>2. row[v] # 0
      <4>1. new[v] = 0 - k * row[v] BY <1>1, <2>2, <3>1
      <4>2. k \in Int /\ k * 0 = 0 BY SignSquare DEF Sign, k
      <4> QED BY <1>14, <4>1, <4>2
    <3>3. rowOf[v] = 0 /\ v <= NumStruct + L BY <3>2, RowMentions DEF row, L
    <3> QED BY <1>7, <2>2, <3>1, <3>3
  <2> QED BY <2>1, <2>2
<1>15. ASSUME NEW q \in 1 .. L, NEW v \in Var, rows'[q].coeffs[v] # 0 PROVE rowOf'[v] = 0 /\ v <= NumStruct + L
  <2>1. CASE q = r BY <1>8, <1>14, <1>15, <2>1
  <2>2. CASE q # r
    <3> DEFINE c == rows[q].coeffs
    <3>1. rows'[q].coeffs = Turn(c, xj, new) BY <1>8, <2>2
    <3>2. c[xj] \in Int /\ c[v] \in Int /\ new[v] \in Int BY <1>1, <1>3 DEF Vectors
    <3>3. c[v] # 0 => rowOf[v] = 0 /\ v <= NumStruct + L BY RowMentions DEF L
    <3> HIDE DEF c
    <3>4. Turn(c, xj, new)[v] = (IF v = xj THEN 0 ELSE c[v]) + c[xj] * new[v] BY DEF Turn
    <3>5. c[xj] * 0 = 0 BY <3>2, Ring
    <3>6. CASE new[v] # 0 BY <1>14, <3>6
    <3>7. CASE new[v] = 0
      <4>1. v # xj /\ c[v] # 0 BY <1>15, <3>1, <3>2, <3>4, <3>5, <3>7
      <4> QED BY <1>7, <3>3, <4>1
    <3> QED BY <3>6, <3>7
  <2> QED BY <2>1, <2>2
<1>16. ASSUME NEW i \in 1 .. L PROVE Own(rows', rowOf')[NumStruct + i] = SolvedBy(Forms[i], Own(rows', rowOf'))
  <2>1. i \in 1 .. Len(Forms) BY <1>2, <1>5, Sizes
  <2>2. Forms[i] \in Formed /\ NumStruct + i \in Var BY <2>1, Sizes
  <2>3. Own(rows, rowOf)[NumStruct + i] = SolvedBy(Forms[i], Own(rows, rowOf)) BY DEF TableauRight, L
  <2>4. \A x \in 1 .. NumStruct : x \in Var BY Sizes
  <2>5. \A x \in 1 .. NumStruct : Own(rows', rowOf')[x] = Turn(Own(rows, rowOf)[x], xj, new) BY <1>9, <2>4
  <2> DEFINE P == Own(rows, rowOf)
             Q == Own(rows', rowOf')
  <2>6. P \in [Var -> Vectors] /\ Q \in [Var -> Vectors] BY <1>2, <1>9
  <2>7. P[NumStruct + i] = SolvedBy(Forms[i], P) /\ Q[NumStruct + i] = Turn(P[NumStruct + i], xj, new)
    BY <1>9, <2>2, <2>3
  <2>8. \A x \in 1 .. NumStruct : Q[x] = Turn(P[x], xj, new) BY <2>5
  <2> HIDE DEF P, Q
  <2>9. SolvedBy(Forms[i], Q) = Turn(SolvedBy(Forms[i], P), xj, new) BY <1>1, <2>2, <2>6, <2>8, SolvedTurned
  <2>10. Q[NumStruct + i] = SolvedBy(Forms[i], Q) BY <2>7, <2>9
  <2> QED BY <2>10 DEF Q
<1>17. TableauRight(rows', rowOf')
  BY <1>5, <1>6, <1>11, <1>12, <1>13, <1>15, <1>16 DEF TableauRight
<1>18. ASSUME NEW u \in Vectors, RowsHold(rows, u) PROVE RowsHold(rows', u)
  <2>0. \A q \in 1 .. L : u[rows[q].basic] = Eval(rows[q].coeffs, u) BY <1>18 DEF RowsHold, L
  <2>1. Eval(new, u) = u[xj]
    <3>1. u[xi] = Eval(row, u) BY <2>0 DEF row, L
    <3> QED BY <1>1, <3>1
  <2>2. ASSUME NEW q \in 1 .. L PROVE u[rows'[q].basic] = Eval(rows'[q].coeffs, u)
    <3>1. CASE q = r BY <1>8, <2>1, <3>1
    <3>2. CASE q # r
      <4>1. rows'[q].basic = rows[q].basic /\ rows'[q].coeffs = Turn(rows[q].coeffs, xj, new) BY <1>8, <3>2
      <4>2. rows[q].coeffs \in Vectors BY <1>3
      <4>3. Eval(Turn(rows[q].coeffs, xj, new), u) = Eval(rows[q].coeffs, u) BY <1>1, <2>1, <4>2, TurnEval
      <4> QED BY <2>0, <4>1, <4>3
    <3> QED BY <3>1, <3>2
  <2> QED BY <1>6, <2>2 DEF RowsHold
<1> QED BY <1>17, <1>18

\* The column index follows.
LEMMA PivotColumns ==
    ASSUME TableauRight(rows, rowOf), ColumnsRight(rows, col), NEW r \in 1 .. Len(rows), NEW xj \in Var, NEW xi, xi = rows[r].basic,
           Sign(rows[r].coeffs[xj]), PivotRows(r, xi, xj)
    PROVE  ColumnsRight(rows', col')
<1> DEFINE new == Swapped(r, xi, xj)
           users == col[xj] \ {r}
           L == Len(rows)
           gone(y) == {q \in users : rows'[q].coeffs[y] = 0}
           k == rows[r].coeffs[xj]
<1>0. new = Swapped(r, xi, xj) OBVIOUS
<1> HIDE DEF new
<1>1. PivotDoes(r, xi, xj, new) BY <1>0, PivotIs
<1>2. col' = [y \in Var |->
               CASE y = xj -> {}
                 [] y # xj /\ new[y] # 0 -> (col[y] \cup {r} \cup users) \ gone(y)
                 [] OTHER -> col[y]]
  BY DEF PivotRows, new, Vanished
<1>3. /\ xi \in Var /\ xi # xj /\ new \in Vectors /\ new[xi] = k /\ new[xj] = 0
      /\ \A y \in Var : y # xi /\ y # xj => new[y] = 0 - k * rows[r].coeffs[y]
  BY <1>0, SwappedIs
<1>4. users = {q \in 1 .. L : q # r /\ rows[q].coeffs[xj] # 0} /\ \A y \in Var : col[y] = {q \in 1 .. L : rows[q].coeffs[y] # 0}
  BY DEF ColumnsRight
<1>5. Len(rows') = L BY <1>1 DEF PivotDoes
<1>6. ASSUME NEW q \in 1 .. L, q # r, NEW y \in Var
      PROVE  /\ rows'[q].coeffs[y] = (IF y = xj THEN 0 ELSE rows[q].coeffs[y]) + rows[q].coeffs[xj] * new[y]
             /\ rows[q].coeffs[y] \in Int /\ rows[q].coeffs[xj] \in Int /\ new[y] \in Int
  <2>1. rows'[q] = [basic |-> rows[q].basic, coeffs |-> Turn(rows[q].coeffs, xj, new)] BY <1>1, <1>6 DEF PivotDoes
  <2>2. \A p \in 1 .. Len(rows) : \A z \in Var : rows[p].coeffs[z] \in Int BY RowIs
  <2>3. new[y] \in Int BY <1>3 DEF Vectors
  <2>4. rows'[q].coeffs = Turn(rows[q].coeffs, xj, new) BY <2>1
  <2> QED BY <2>2, <2>3, <2>4 DEF Turn
<1>7. rows'[r].coeffs = new
  <2>1. rows'[r] = [basic |-> xj, coeffs |-> new] BY <1>1 DEF PivotDoes
  <2> QED BY <2>1
<1>8. Sign(k) /\ k \in Int /\ k # 0
  <2>1. Sign(k) /\ 0 \in Int OBVIOUS
  <2> HIDE DEF k
  <2> QED BY <2>1, SignSquare
<1>9. r \in 1 .. L /\ r \notin users BY <1>4
<1>99. \A y \in Var : gone(y) \subseteq users /\ \A q \in users : q \in gone(y) <=> rows'[q].coeffs[y] = 0 OBVIOUS
<1>98. \A y \in Var : rows[r].coeffs[y] \in Int
  <2>1. \A p \in 1 .. Len(rows) : \A z \in Var : rows[p].coeffs[z] \in Int BY RowIs
  <2> QED BY <2>1
<1> DEFINE row == rows[r].coeffs
<1>97. \A y \in Var : row[y] \in Int BY <1>98
<1>96. \A y \in Var : y # xi /\ y # xj => new[y] = 0 - k * row[y] BY <1>3
<1>95. col[xi] = {q \in 1 .. L : rows[q].coeffs[xi] # 0} /\ row[xi] = 0
  <2>1. row[xi] = 0 BY RowEach
  <2> QED BY <1>3, <1>4, <2>1
<1> HIDE DEF k, L, users, gone, row
<1>10. ASSUME NEW y \in Var, NEW q \in 1 .. L PROVE q \in col'[y] <=> rows'[q].coeffs[y] # 0
  <2>1. CASE y = xj
    <3>1. col'[y] = {} BY <1>2, <2>1
    <3>2. CASE q = r BY <1>3, <1>7, <2>1, <3>1, <3>2
    <3>3. CASE q # r
      <4>1. rows[q].coeffs[xj] * 0 = 0 /\ rows'[q].coeffs[y] = 0 + rows[q].coeffs[xj] * 0
        BY <1>3, <1>6, <2>1, <3>3, Ring
      <4> QED BY <3>1, <4>1
    <3> QED BY <3>2, <3>3
  <2>2. CASE y # xj /\ new[y] # 0
    <3>1. col'[y] = (col[y] \cup {r} \cup users) \ gone(y) BY <1>2, <2>2
    <3>2. CASE q = r BY <1>7, <1>9, <1>99, <2>2, <3>1, <3>2
    <3>3. CASE q # r /\ q \in users BY <1>99, <3>1, <3>3
    <3>4. CASE q # r /\ q \notin users
      <4>1. rows[q].coeffs[xj] = 0 BY <1>4, <3>4
      <4>2. 0 * new[y] = 0 BY <1>6, <3>4, Ring
      <4>33. rows[q].coeffs[y] \in Int /\ rows'[q].coeffs[y] = rows[q].coeffs[y] + rows[q].coeffs[xj] * new[y]
        BY <1>6, <2>2, <3>4
      <4>3. rows'[q].coeffs[y] = rows[q].coeffs[y] BY <4>1, <4>2, <4>33
      <4>4. q \in col'[y] <=> q \in col[y] BY <1>99, <3>1, <3>4
      <4>5. q \in col[y] <=> rows[q].coeffs[y] # 0 BY <1>4
      <4> QED BY <4>3, <4>4, <4>5
    <3> QED BY <3>2, <3>3, <3>4
  <2>3. CASE y # xj /\ new[y] = 0
    <3>1. col'[y] = col[y] BY <1>2, <2>3
    <3>2. q \in col[y] <=> rows[q].coeffs[y] # 0 BY <1>4
    <3>3. CASE q = r
      <4>1. y # xi BY <1>3, <1>8, <2>3
      <4>2. 0 - k * row[y] = 0 /\ row[y] \in Int BY <1>96, <1>97, <2>3, <4>1
      <4>3. k * row[y] \in Int /\ (k * row[y] = 0 <=> row[y] = 0) BY <1>8, <4>2, SignSquare
      <4>4. row[y] = 0 BY <4>2, <4>3
      <4> QED BY <1>7, <2>3, <3>1, <3>2, <3>3, <4>4 DEF row
    <3>4. CASE q # r
      <4>1. rows[q].coeffs[xj] * 0 = 0 BY <1>6, <3>4, Ring
      <4>2. rows[q].coeffs[y] \in Int /\ rows'[q].coeffs[y] = rows[q].coeffs[y] + rows[q].coeffs[xj] * new[y]
        BY <1>6, <2>3, <3>4
      <4>3. rows'[q].coeffs[y] = rows[q].coeffs[y] BY <2>3, <4>1, <4>2
      <4> QED BY <3>1, <3>2, <4>3
    <3> QED BY <3>3, <3>4
  <2> QED BY <2>1, <2>2, <2>3
<1>11. ASSUME NEW y \in Var PROVE col'[y] = {q \in 1 .. L : rows'[q].coeffs[y] # 0}
  <2>1. col'[y] \subseteq 1 .. L
    <3>1. col[y] \subseteq 1 .. L /\ users \subseteq 1 .. L BY <1>4
    <3>2. col'[y] \subseteq col[y] \cup {r} \cup users BY <1>2
    <3> QED BY <1>9, <3>1, <3>2
  <2> QED BY <1>10, <2>1
<1>12. col' = [y \in Var |-> col'[y]] BY <1>2
<1> QED BY <1>5, <1>11, <1>12 DEF ColumnsRight

-----------------------------------------------------------------------------
(* Values and rows under the other operations *)

\* A non-basic variable takes a value: the basic ones follow, and no other moves.
LEMMA MovedIs ==
    ASSUME TableauRight(rows, rowOf), ColumnsRight(rows, col), assignment \in Vectors, RowsHold(rows, assignment),
           NEW v \in Var, rowOf[v] = 0, NEW val \in Int
    PROVE  /\ Moved(v, val) \in Vectors /\ RowsHold(rows, Moved(v, val)) /\ Moved(v, val)[v] = val
           /\ Disturbed(v) \subseteq Var /\ \A x \in Disturbed(v) : rowOf[x] # 0
           /\ \A x \in Var : x # v /\ x \notin Disturbed(v) => Moved(v, val)[x] = assignment[x]
           /\ \A r \in 1 .. Len(rows) : rows[r].coeffs[v] # 0 =>
                Moved(v, val)[rows[r].basic] = assignment[rows[r].basic] + rows[r].coeffs[v] * (val - assignment[v])
<1> DEFINE w == Moved(v, val)
           L == Len(rows)
<1>1. \A x \in Var : assignment[x] \in Int BY DEF Vectors
<1>2. L \in Nat /\ \A x \in Var : rowOf[x] # 0 => rowOf[x] \in 1 .. L BY RowIs
<1>3. col[v] = {r \in 1 .. L : rows[r].coeffs[v] # 0} BY DEF ColumnsRight
<1>4. \A x \in Var : w[x] = IF x = v THEN val
                            ELSE IF rowOf[x] \in col[v]
                                 THEN assignment[x] + rows[rowOf[x]].coeffs[v] * (val - assignment[v])
                                 ELSE assignment[x]
  BY DEF Moved
<1>5. \A r \in 1 .. L : /\ rows[r].basic \in Var /\ rows[r].coeffs \in Vectors /\ rowOf[rows[r].basic] = r
                        /\ \A y \in Var : rows[r].coeffs[y] \in Int
  BY RowEach
<1>6. w = [x \in Var |-> w[x]] BY DEF Moved
<1> HIDE DEF w
<1>7. val - assignment[v] \in Int BY <1>1
<1>8. \A r \in 1 .. L : rows[r].coeffs[v] * (val - assignment[v]) \in Int BY <1>5, <1>7, Ring
<1>9. \A x \in Var : w[x] \in Int
  <2> TAKE x \in Var
  <2>1. CASE x = v BY <1>4, <2>1
  <2>2. CASE x # v /\ rowOf[x] \in col[v]
    <3>1. rowOf[x] \in 1 .. L BY <1>3, <2>2
    <3> DEFINE a == rows[rowOf[x]].coeffs[v] * (val - assignment[v])
    <3>2. a \in Int BY <1>8, <3>1
    <3>3. w[x] = assignment[x] + a BY <1>4, <2>2
    <3> HIDE DEF a
    <3> QED BY <1>1, <3>2, <3>3
  <2>3. CASE x # v /\ rowOf[x] \notin col[v] BY <1>1, <1>4, <2>3
  <2> QED BY <2>1, <2>2, <2>3
<1>10. w \in Vectors BY <1>6, <1>9 DEF Vectors
<1>11. ASSUME NEW r \in 1 .. L, rows[r].coeffs[v] # 0
       PROVE  w[rows[r].basic] = assignment[rows[r].basic] + rows[r].coeffs[v] * (val - assignment[v])
  <2>1. rows[r].basic # v BY <1>2, <1>5
  <2>2. rowOf[rows[r].basic] = r /\ r \in col[v] /\ rows[r].basic \in Var BY <1>3, <1>5, <1>11
  <2> QED BY <1>4, <2>1, <2>2
<1>12. ASSUME NEW r \in 1 .. L PROVE w[rows[r].basic] = Eval(rows[r].coeffs, w)
  <2> DEFINE c == rows[r].coeffs
             b == rows[r].basic
  <2>1. c \in Vectors /\ b \in Var /\ rowOf[b] = r /\ c[v] \in Int BY <1>5
  <2>2. assignment[b] = Eval(c, assignment) BY DEF RowsHold
  <2>3. ASSUME NEW y \in Var, c[y] # 0, y # v PROVE w[y] = assignment[y]
    <3>1. rowOf[y] = 0 BY <2>3, RowMentions
    <3>2. rowOf[y] \notin col[v] BY <1>3, <3>1
    <3> QED BY <1>4, <2>3, <3>2
  <2>33. c[v] # 0 => w[b] = assignment[b] + c[v] * (val - assignment[v]) BY <1>11
  <2>34. c[v] = 0 => w[b] = assignment[b]
    <3> SUFFICES ASSUME c[v] = 0 PROVE w[b] = assignment[b] OBVIOUS
    <3>1. b # v BY <1>2, <2>1
    <3>2. rowOf[b] \notin col[v] BY <1>3, <2>1
    <3> QED BY <1>4, <2>1, <3>1, <3>2
  <2> HIDE DEF c, b
  <2>4. Eval(c, w) = Eval(c, assignment) + c[v] * (w[v] - assignment[v]) BY <1>10, <2>1, <2>3, EvalMoved
  <2>5. w[v] = val BY <1>4
  <2>6. Eval(c, assignment) \in Int BY <2>1, EvalInt
  <2>9. w[b] = Eval(c, w)
    <3>1. CASE c[v] # 0 BY <2>2, <2>33, <2>4, <2>5, <3>1
    <3>2. CASE c[v] = 0
      <4>1. 0 * (val - assignment[v]) = 0 BY <1>7, Ring
      <4> QED BY <2>2, <2>34, <2>4, <2>5, <2>6, <3>2, <4>1
    <3> QED BY <3>1, <3>2
  <2> QED BY <2>9 DEF c, b
<1>13. Disturbed(v) = {rows[r].basic : r \in col[v]} BY DEF Disturbed
<1>14. Disturbed(v) \subseteq Var /\ \A x \in Disturbed(v) : rowOf[x] # 0
  <2>1. \A q \in col[v] : q \in 1 .. L /\ q # 0 BY <1>2, <1>3
  <2>2. \A q \in col[v] : rows[q].basic \in Var /\ rowOf[rows[q].basic] # 0 BY <1>5, <2>1
  <2> QED BY <1>13, <2>2
<1>15. ASSUME NEW x \in Var, x # v, x \notin Disturbed(v) PROVE w[x] = assignment[x]
  <2>1. CASE rowOf[x] \in col[v]
    <3>1. rowOf[x] # 0 BY <1>3, <2>1
    <3>2. rows[rowOf[x]].basic = x BY <3>1 DEF TableauRight
    <3> QED BY <1>13, <1>15, <2>1, <3>2
  <2>2. CASE rowOf[x] \notin col[v] BY <1>4, <1>15, <2>2
  <2> QED BY <2>1, <2>2
<1>16. w[v] = val BY <1>4
<1> QED BY <1>10, <1>11, <1>12, <1>14, <1>15, <1>16 DEF w, RowsHold

LEMMA SolvedSame ==
    ASSUME NEW form, NEW R, NEW Q, \A x \in 1 .. NumStruct : Q[x] = R[x]
    PROVE  SolvedBy(form, Q) = SolvedBy(form, R)
<1>1. \A y \in Var : [x \in 1 .. NumStruct |-> form[x] * Q[x][y]] = [x \in 1 .. NumStruct |-> form[x] * R[x][y]]
  OBVIOUS
<1> QED BY <1>1 DEF SolvedBy

\* The row of a new slack is over variables that are made and not basic.
LEMMA SolvedMentions ==
    ASSUME NEW form \in Formed, NEW R, NEW ro, TableauRight(R, ro), NEW y \in Var,
           ro[y] # 0 \/ y > NumStruct + Len(R)
    PROVE  SolvedBy(form, Own(R, ro))[y] = 0
<1> DEFINE f == [x \in 1 .. NumStruct |-> form[x] * Own(R, ro)[x][y]]
           n == NumStruct
<1>0. n \in Nat /\ \A x \in 1 .. n : x \in Var /\ x <= NumStruct BY Sizes
<1>1. SolvedBy(form, Own(R, ro))[y] = SumOver(f, 1 .. n) BY DEF SolvedBy
<1>2. Len(R) \in Nat /\ NumStruct \in Nat /\ y \in Int BY RowIs, Sizes
<1>3. ASSUME NEW x \in 1 .. n PROVE Own(R, ro)[x][y] = 0
  <2>1. x \in Var BY <1>0
  <2>2. Own(R, ro)[x] = IF ro[x] # 0 THEN R[ro[x]].coeffs ELSE UnitRow(x) BY <2>1 DEF Own
  <2>3. CASE ro[x] # 0
    <3>1. ro[x] \in 1 .. Len(R) BY <2>1, <2>3, RowIs
    <3>2. R[ro[x]].coeffs[y] = 0 BY <1>2, <3>1, RowMentions
    <3> QED BY <2>2, <2>3, <3>2
  <2>4. CASE ro[x] = 0
    <3>1. x # y
      <4>1. CASE ro[y] # 0 BY <2>4, <4>1
      <4>2. CASE y > NumStruct + Len(R) BY <1>0, <1>2, <4>2
      <4> QED BY <4>1, <4>2
    <3>2. UnitRow(x)[y] = 0 BY <2>1, <3>1, UnitIs
    <3> QED BY <2>2, <2>4, <3>2
  <2> QED BY <2>3, <2>4
<1>4. \A x \in 1 .. n : f[x] = 0
  <2> TAKE x \in 1 .. n
  <2>1. f[x] = form[x] * Own(R, ro)[x][y] /\ form[x] \in Int BY DEF Formed
  <2> HIDE DEF f
  <2> QED BY <1>3, <2>1, Ring
<1> HIDE DEF f, n
<1> QED BY <1>0, <1>1, <1>4, SumZero

\* A slack that is made keeps the tableau, and takes the value of its form.
LEMMA AddRowTableau ==
    ASSUME TableauRight(rows, rowOf), ColumnsRight(rows, col), assignment \in Vectors, RowsHold(rows, assignment), AddRow
    PROVE  /\ TableauRight(rows', rowOf') /\ ColumnsRight(rows', col')
           /\ assignment' \in Vectors /\ RowsHold(rows', assignment')
           /\ \E s \in Var : /\ rowOf' = [rowOf EXCEPT ![s] = Len(rows) + 1] /\ dirty' = dirty \cup {s}
                             /\ \A x \in Var : x # s => assignment'[x] = assignment[x]
<1> DEFINE L == Len(rows)
           r == L + 1
           s == NumStruct + r
           c == Solved(Forms[r])
           w == Eval(c, assignment)
           P == Own(rows, rowOf)
<1>1. L \in Nat /\ DOMAIN rows = 1 .. L /\ P \in [Var -> Vectors]
      /\ \A v \in Var : rowOf[v] \in 0 .. L /\ (rowOf[v] # 0 => rowOf[v] \in 1 .. L)
  BY RowIs
<1>2. \A q \in 1 .. L : /\ rows[q].basic \in Var /\ rows[q].coeffs \in Vectors /\ rowOf[rows[q].basic] = q
                        /\ \A y \in Var : rows[q].coeffs[y] \in Int
  BY RowEach
<1>3. L < Len(Forms) /\ rows' = Append(rows, [basic |-> s, coeffs |-> c]) /\ rowOf' = [rowOf EXCEPT ![s] = r]
      /\ col' = [y \in Var |-> IF c[y] # 0 THEN col[y] \cup {r} ELSE col[y]]
      /\ assignment' = [assignment EXCEPT ![s] = w] /\ dirty' = dirty \cup {s}
  BY DEF AddRow
<1>4. r \in 1 .. Len(Forms) /\ s \in Var /\ Forms[r] \in Formed /\ NumStruct \in Nat /\ s > NumStruct + L
  BY <1>1, <1>3, Sizes
<1>5. c = SolvedBy(Forms[r], P) /\ c \in Vectors BY <1>1, <1>4, SolvedIs, SolvedInt
<1>6. ASSUME NEW y \in Var, c[y] # 0 PROVE rowOf[y] = 0 /\ y <= NumStruct + L
  <2>1. y \in Int /\ NumStruct + L \in Int BY <1>1, <1>4, Sizes
  <2>2. ~(rowOf[y] # 0 \/ y > NumStruct + L) BY <1>4, <1>5, <1>6, SolvedMentions
  <2> QED BY <2>1, <2>2
<1>7. w \in Int BY <1>5, EvalInt
<1>8. rowOf[s] = 0
  <2> SUFFICES ASSUME rowOf[s] # 0 PROVE FALSE OBVIOUS
  <2>1. rowOf[s] \in 1 .. L /\ rows[rowOf[s]].basic = s BY <1>1, <1>4 DEF TableauRight
  <2>2. s <= NumStruct + L BY <2>1 DEF TableauRight
  <2> QED BY <1>1, <1>4, <2>2
<1>9. ASSUME NEW q \in 1 .. L PROVE rows[q].coeffs[s] = 0
  <2>1. ~(s <= NumStruct + L) BY <1>1, <1>4
  <2> QED BY <1>4, <2>1, RowMentions
<1>10. c[s] = 0
  <2>1. ~(s <= NumStruct + L) BY <1>1, <1>4
  <2> QED BY <1>4, <1>6, <2>1
<1>11. r = L + 1 /\ s = NumStruct + r OBVIOUS
<1>111. P = Own(rows, rowOf) OBVIOUS
<1>112. L = Len(rows) OBVIOUS
<1> HIDE DEF r, s, c, w, P, L
<1>12. rows \in Seq(RowShape) /\ [basic |-> s, coeffs |-> c] \in RowShape BY <1>4, <1>5 DEF TableauRight, RowShape
<1>13. rows' \in Seq(RowShape) /\ Len(rows') = r /\ rows'[r] = [basic |-> s, coeffs |-> c]
       /\ \A q \in 1 .. L : rows'[q] = rows[q]
  BY <1>3, <1>11, <1>12, <1>112, AppendProperties
<1>14. rows'[r].basic = s /\ rows'[r].coeffs = c BY <1>13
<1>15. rowOf \in [Var -> 0 .. L] BY <1>112 DEF TableauRight
<1>16. \A x \in Var : rowOf'[x] = IF x = s THEN r ELSE rowOf[x] BY <1>3, <1>15
<1>17. 1 .. r = (1 .. L) \cup {r} /\ r \notin 1 .. L /\ r # 0 /\ r \in 0 .. r /\ \A q \in 0 .. L : q \in 0 .. r
  BY <1>1, <1>11
<1>18. rowOf' \in [Var -> 0 .. r] BY <1>3, <1>15, <1>17
<1>19. \A q \in 1 .. L : rows[q].basic # s BY <1>2, <1>8, <1>17
<1> DEFINE Q == Own(rows', rowOf')
<1>20. ASSUME NEW x \in Var PROVE Q[x] = IF x = s THEN c ELSE P[x]
  <2>1. Q[x] = IF rowOf'[x] # 0 THEN rows'[rowOf'[x]].coeffs ELSE UnitRow(x) BY DEF Own
  <2>2. P[x] = IF rowOf[x] # 0 THEN rows[rowOf[x]].coeffs ELSE UnitRow(x) BY <1>111 DEF Own
  <2>3. CASE x = s BY <1>14, <1>16, <1>17, <2>1, <2>3
  <2>4. CASE x # s
    <3>1. rowOf'[x] = rowOf[x] BY <1>16, <2>4
    <3>2. rowOf[x] # 0 => rows'[rowOf[x]] = rows[rowOf[x]] BY <1>1, <1>13
    <3> QED BY <2>1, <2>2, <2>4, <3>1, <3>2
  <2> QED BY <2>3, <2>4
<1>21. Q = Own(rows', rowOf') OBVIOUS
<1> HIDE DEF Q
<1>22. \A x \in 1 .. NumStruct : Q[x] = P[x]
  <2>1. \A x \in 1 .. NumStruct : x \in Var /\ x # s BY <1>1, <1>4, Sizes
  <2> QED BY <1>20, <2>1
<1>23. ASSUME NEW i \in 1 .. r PROVE Q[NumStruct + i] = SolvedBy(Forms[i], Q)
  <2>1. SolvedBy(Forms[i], Q) = SolvedBy(Forms[i], P) BY <1>22, SolvedSame
  <2>2. CASE i = r BY <1>4, <1>5, <1>11, <1>20, <2>1, <2>2
  <2>3. CASE i # r
    <3>1. i \in 1 .. L BY <1>17, <2>3
    <3>2. P[NumStruct + i] = SolvedBy(Forms[i], P) BY <1>111, <1>112, <3>1 DEF TableauRight
    <3>3. NumStruct + i \in Var /\ NumStruct + i # s
      <4>1. i \in 1 .. Len(Forms) BY <1>1, <1>3, <3>1, Sizes
      <4> QED BY <1>1, <1>4, <1>11, <2>3, <4>1, Sizes
    <3> QED BY <1>20, <2>1, <3>2, <3>3
  <2> QED BY <2>2, <2>3
<1>24. ASSUME NEW q \in 1 .. r PROVE rowOf'[rows'[q].basic] = q /\ rows'[q].basic <= NumStruct + r
  <2>1. CASE q = r BY <1>1, <1>4, <1>11, <1>14, <1>16, <2>1
  <2>2. CASE q # r
    <3>1. q \in 1 .. L BY <1>17, <2>2
    <3>2. rows'[q].basic = rows[q].basic /\ rows[q].basic \in Var /\ rowOf[rows[q].basic] = q /\ rows[q].basic # s
      BY <1>2, <1>13, <1>19, <3>1
    <3>3. rows[q].basic <= NumStruct + L BY <1>112, <3>1 DEF TableauRight
    <3>4. rows[q].basic \in Int BY <3>2, Sizes
    <3> QED BY <1>1, <1>4, <1>11, <1>16, <3>2, <3>3, <3>4
  <2> QED BY <2>1, <2>2
<1>25. ASSUME NEW v \in Var, rowOf'[v] # 0 PROVE rows'[rowOf'[v]].basic = v
  <2>1. CASE v = s BY <1>14, <1>16, <2>1
  <2>2. CASE v # s
    <3>1. rowOf'[v] = rowOf[v] /\ rowOf[v] \in 1 .. L BY <1>1, <1>16, <1>25, <2>2
    <3>2. rows[rowOf[v]].basic = v BY <1>25, <3>1 DEF TableauRight
    <3> QED BY <1>13, <3>1, <3>2
  <2> QED BY <2>1, <2>2
<1>26. ASSUME NEW q \in 1 .. r, NEW v \in Var, rows'[q].coeffs[v] # 0 PROVE rowOf'[v] = 0 /\ v <= NumStruct + r
  <2>0. v \in Int BY Sizes
  <2>1. rowOf[v] = 0 /\ v <= NumStruct + L
    <3>1. CASE q = r BY <1>6, <1>14, <1>26, <3>1
    <3>2. CASE q # r
      <4>1. q \in 1 .. L BY <1>17, <3>2
      <4>2. rows[q].coeffs[v] # 0 BY <1>13, <1>26, <4>1
      <4> QED BY <1>112, <4>1, <4>2, RowMentions
    <3> QED BY <3>1, <3>2
  <2>2. v # s
    <3>1. NumStruct + L \in Int /\ s > NumStruct + L BY <1>1, <1>4
    <3>2. ~(s <= NumStruct + L) BY <1>1, <1>4, <1>11, <3>1
    <3> QED BY <2>1, <3>2
  <2> QED BY <1>1, <1>4, <1>11, <1>16, <2>0, <2>1, <2>2
<1>27. TableauRight(rows', rowOf')
  <2>1. r <= Len(Forms) BY <1>4, Sizes
  <2> QED BY <1>13, <1>18, <1>21, <1>23, <1>24, <1>25, <1>26, <2>1 DEF TableauRight
<1>28. ColumnsRight(rows', col')
  <2>1. ASSUME NEW y \in Var PROVE col'[y] = {q \in 1 .. r : rows'[q].coeffs[y] # 0}
    <3>1. col[y] = {q \in 1 .. L : rows[q].coeffs[y] # 0} BY <1>112 DEF ColumnsRight
    <3>2. col'[y] = IF c[y] # 0 THEN col[y] \cup {r} ELSE col[y] BY <1>3
    <3>3. \A q \in 1 .. L : rows'[q].coeffs[y] = rows[q].coeffs[y] BY <1>13
    <3>4. rows'[r].coeffs[y] = c[y] BY <1>14
    <3> QED BY <1>17, <3>1, <3>2, <3>3, <3>4
  <2>2. col' = [y \in Var |-> col'[y]] BY <1>3
  <2> QED BY <1>13, <2>1, <2>2 DEF ColumnsRight
<1>29. assignment' \in Vectors /\ assignment'[s] = w /\ \A x \in Var : x # s => assignment'[x] = assignment[x]
  BY <1>3, <1>4, <1>7 DEF Vectors
<1>30. ASSUME NEW d \in Vectors, d[s] = 0 PROVE Eval(d, assignment') = Eval(d, assignment)
  <2>1. \A y \in Var : d[y] # 0 /\ y # s => assignment'[y] = assignment[y] BY <1>29
  <2>2. Eval(d, assignment') = Eval(d, assignment) + d[s] * (assignment'[s] - assignment[s])
    BY <1>4, <1>29, <2>1, EvalMoved
  <2>3. assignment[s] \in Int /\ Eval(d, assignment) \in Int BY <1>4, EvalInt DEF Vectors
  <2>4. d[s] * (assignment'[s] - assignment[s]) = 0 BY <1>7, <1>29, <1>30, <2>3, Ring
  <2> QED BY <2>2, <2>3, <2>4
<1>31. ASSUME NEW q \in 1 .. r PROVE assignment'[rows'[q].basic] = Eval(rows'[q].coeffs, assignment')
  <2>1. CASE q = r
    <3>1. Eval(c, assignment') = Eval(c, assignment) BY <1>5, <1>10, <1>30
    <3> QED BY <1>14, <1>29, <2>1, <3>1 DEF w
  <2>2. CASE q # r
    <3>1. q \in 1 .. L BY <1>17, <2>2
    <3>2. rows'[q] = rows[q] /\ rows[q].basic \in Var /\ rows[q].basic # s /\ rows[q].coeffs \in Vectors
      BY <1>2, <1>13, <1>19, <3>1
    <3>3. assignment[rows[q].basic] = Eval(rows[q].coeffs, assignment) BY <1>112, <3>1 DEF RowsHold
    <3>4. Eval(rows[q].coeffs, assignment') = Eval(rows[q].coeffs, assignment) BY <1>9, <1>30, <3>1, <3>2
    <3> QED BY <1>29, <3>2, <3>3, <3>4
  <2> QED BY <2>1, <2>2
<1>32. RowsHold(rows', assignment') BY <1>13, <1>31 DEF RowsHold
<1> QED BY <1>3, <1>4, <1>11, <1>112, <1>27, <1>28, <1>29, <1>32

-----------------------------------------------------------------------------
(* Bounds and scopes *)

LEMMA LeastIs ==
    ASSUME NEW S \in SUBSET Nat, S # {}
    PROVE  \E m \in S : \A x \in S : m <= x
<1> SUFFICES ASSUME \A m \in S : \E x \in S : x < m PROVE FALSE OBVIOUS
<1> DEFINE T == {k \in Nat : \A x \in S : k <= x}
<1>1. 0 \in T OBVIOUS
<1>2. ASSUME NEW k \in Nat, k \in T PROVE k + 1 \in T
  <2> SUFFICES ASSUME NEW x \in S, ~(k + 1 <= x) PROVE FALSE OBVIOUS
  <2>1. k <= x BY <1>2
  <2>2. x = k BY <2>1
  <2>3. PICK y \in S : y < x OBVIOUS
  <2> QED BY <1>2, <2>2, <2>3
<1>3. Nat \subseteq T
  <2> HIDE DEF T
  <2> QED BY <1>1, <1>2, NatInductive
<1>4. PICK s \in Nat : s \in S OBVIOUS
<1>5. s + 1 \in T
  <2> HIDE DEF T
  <2> QED BY <1>3
<1>6. s + 1 <= s BY <1>4, <1>5
<1> QED BY <1>6

\* A bound of no variable yet, or one with its tag.
BoundRec == [val : Int, tag : Nat]
UndoRec == [var : Var, lower : BOOLEAN, old : BoundRec]

\* The bound a asks no more than b does.
Weaker(isLower, a, b) ==
    a.tag = 0 \/ (b.tag # 0 /\ IF isLower THEN a.val <= b.val ELSE a.val >= b.val)

BoundOf(lo, up, isLower, v) == IF isLower THEN lo[v] ELSE up[v]

\* Every bound that was replaced asks no more than the ones that replaced it.
LogRight(lo, up, log) ==
    /\ log \in Seq(UndoRec)
    /\ \A i \in 1 .. Len(log) : Weaker(log[i].lower, log[i].old, BoundOf(lo, up, log[i].lower, log[i].var))
    /\ \A i \in 1 .. Len(log), j \in 1 .. Len(log) :
         i < j /\ log[i].var = log[j].var /\ log[i].lower = log[j].lower => Weaker(log[i].lower, log[i].old, log[j].old)

ScopesRight(sc, n) ==
    /\ sc \in Seq(Nat)
    /\ \A i \in 1 .. Len(sc) : sc[i] <= n
    /\ \A i \in 1 .. Len(sc), j \in 1 .. Len(sc) : i < j => sc[i] <= sc[j]

\* The two bounds of a variable leave it a value.
BoundsMeet(lo, up) == \A v \in Var : lo[v].tag # 0 /\ up[v].tag # 0 => lo[v].val <= up[v].val

BoundsRight(lo, up, log, sc) ==
    /\ lo \in [Var -> BoundRec] /\ up \in [Var -> BoundRec]
    /\ BoundsMeet(lo, up) /\ LogRight(lo, up, log) /\ ScopesRight(sc, Len(log))

LEMMA WeakerIs ==
    /\ \A a \in BoundRec, l \in BOOLEAN : Weaker(l, a, a)
    /\ \A a \in BoundRec, b \in BoundRec, c \in BoundRec, l \in BOOLEAN :
         Weaker(l, a, b) /\ Weaker(l, b, c) => Weaker(l, a, c)
<1>1. \A a \in BoundRec : a.val \in Int /\ a.tag \in Nat BY DEF BoundRec
<1> QED BY <1>1 DEF Weaker

\* Out of a bound of lo or up.
Out(lo, up, u, v) == (lo[v].tag # 0 /\ u[v] < lo[v].val) \/ (up[v].tag # 0 /\ u[v] > up[v].val)

LEMMA ViolatedIs == ASSUME NEW v PROVE (Violated(v) <=> Out(lower, upper, assignment, v)) /\ (Violated(v)' <=> Out(lower', upper', assignment', v))
BY DEF Violated, BelowLower, AboveUpper, Out

\* Weaker bounds are kept by what kept the stronger ones.
LEMMA WeakerOut ==
    ASSUME NEW lo \in [Var -> BoundRec], NEW up \in [Var -> BoundRec], NEW lo2 \in [Var -> BoundRec], NEW up2 \in [Var -> BoundRec],
           NEW u \in Vectors, NEW v \in Var,
           Weaker(TRUE, lo2[v], lo[v]), Weaker(FALSE, up2[v], up[v]), Out(lo2, up2, u, v)
    PROVE  Out(lo, up, u, v)
<1>1. lo[v].val \in Int /\ up[v].val \in Int /\ lo2[v].val \in Int /\ up2[v].val \in Int /\ u[v] \in Int
  BY DEF BoundRec, Vectors
<1>2. CASE lo2[v].tag # 0 /\ u[v] < lo2[v].val
  <2>1. lo[v].tag # 0 /\ lo2[v].val <= lo[v].val BY <1>2 DEF Weaker
  <2> QED BY <1>1, <1>2, <2>1 DEF Out
<1>3. CASE up2[v].tag # 0 /\ u[v] > up2[v].val
  <2>1. up[v].tag # 0 /\ up2[v].val >= up[v].val BY <1>3 DEF Weaker
  <2> QED BY <1>1, <1>3, <2>1 DEF Out
<1> QED BY <1>2, <1>3 DEF Out

LEMMA LogEntry ==
    ASSUME NEW log \in Seq(UndoRec), NEW i \in 1 .. Len(log)
    PROVE  log[i] \in UndoRec /\ log[i].var \in Var /\ log[i].lower \in BOOLEAN /\ log[i].old \in BoundRec
<1>1. log[i] \in UndoRec BY ElementOfSeq
<1> QED BY <1>1 DEF UndoRec

\* What a bound is replaced by when the log is undone down to mark.
LEMMA RestoredIs ==
    ASSUME NEW lo \in [Var -> BoundRec], NEW up \in [Var -> BoundRec], LogRight(lo, up, undoBounds),
           NEW mark \in 0 .. Len(undoBounds), NEW isLower \in BOOLEAN, NEW v \in Var,
           NEW side, side = IF isLower THEN lo ELSE up
    PROVE  LET b == Restored(side, isLower, mark)[v] IN
           /\ b \in BoundRec /\ Weaker(isLower, b, side[v])
           /\ \A i \in 1 .. mark : undoBounds[i].var = v /\ undoBounds[i].lower = isLower => Weaker(isLower, undoBounds[i].old, b)
<1> DEFINE hits == {i \in (mark + 1)..Len(undoBounds) : undoBounds[i].var = v /\ undoBounds[i].lower = isLower}
           b == Restored(side, isLower, mark)[v]
<1>1. b = IF hits = {} THEN side[v] ELSE undoBounds[Min(hits)].old BY DEF Restored
<1>2. undoBounds \in Seq(UndoRec) /\ Len(undoBounds) \in Nat /\ mark \in Nat /\ mark <= Len(undoBounds)
  <2>1. undoBounds \in Seq(UndoRec) BY DEF LogRight
  <2>2. Len(undoBounds) \in Nat BY <2>1, LenProperties
  <2> QED BY <2>1, <2>2
<1>3. side[v] \in BoundRec /\ BoundOf(lo, up, isLower, v) = side[v] BY DEF BoundOf
<1>4. \A i \in 1 .. mark : i \in 1 .. Len(undoBounds) BY <1>2
<1>5. CASE hits = {}
  <2>1. b = side[v] BY <1>1, <1>5
  <2>2. \A i \in 1 .. mark : undoBounds[i].var = v /\ undoBounds[i].lower = isLower => Weaker(isLower, undoBounds[i].old, b)
    BY <1>3, <1>4, <2>1 DEF LogRight
  <2>3. Weaker(isLower, b, side[v]) BY <1>3, <2>1, WeakerIs
  <2> HIDE DEF b
  <2>4. b \in BoundRec BY <1>3, <2>1
  <2> QED BY <2>2, <2>3, <2>4 DEF b
<1>6. CASE hits # {}
  <2> DEFINE m == Min(hits)
  <2>1. m \in hits /\ \A y \in hits : m <= y
    <3>1. hits \in SUBSET Nat BY <1>2
    <3>2. \E x \in hits : \A y \in hits : x <= y
      <4> HIDE DEF hits
      <4> QED BY <1>6, <3>1, LeastIs
    <3> HIDE DEF hits
    <3> QED BY <3>2 DEF Min
  <2>2. b = undoBounds[m].old BY <1>1, <1>6
  <2>3. m \in 1 .. Len(undoBounds) /\ m > mark /\ undoBounds[m].var = v /\ undoBounds[m].lower = isLower BY <1>2, <2>1
  <2> HIDE DEF m, hits, b
  <2>4. b \in BoundRec BY <1>2, <2>2, <2>3, LogEntry
  <2>5. Weaker(isLower, b, side[v]) BY <1>3, <2>2, <2>3 DEF LogRight
  <2>6. ASSUME NEW i \in 1 .. mark, undoBounds[i].var = v, undoBounds[i].lower = isLower PROVE Weaker(isLower, undoBounds[i].old, b)
    <3>1. i \in 1 .. Len(undoBounds) /\ i < m BY <1>2, <2>3
    <3> QED BY <2>2, <2>3, <2>6, <3>1 DEF LogRight
  <2> QED BY <2>4, <2>5, <2>6 DEF b
<1> QED BY <1>5, <1>6

\* Undoing scopes leaves bounds that ask no more, and a log that still fits them.
LEMMA PopBounds ==
    ASSUME BoundsRight(lower, upper, undoBounds, scopes), NEW k \in Nat, k <= Len(scopes), PopTo(k)
    PROVE  /\ BoundsRight(lower', upper', undoBounds', scopes')
           /\ \A v \in Var : Weaker(TRUE, lower'[v], lower[v]) /\ Weaker(FALSE, upper'[v], upper[v])
<1> DEFINE mark == IF k < Len(scopes) THEN scopes[k + 1] ELSE Len(undoBounds)
<1>1. lower \in [Var -> BoundRec] /\ upper \in [Var -> BoundRec] /\ LogRight(lower, upper, undoBounds)
      /\ BoundsMeet(lower, upper) /\ ScopesRight(scopes, Len(undoBounds))
  BY DEF BoundsRight
<1>2. undoBounds \in Seq(UndoRec) /\ Len(undoBounds) \in Nat
  <2>1. undoBounds \in Seq(UndoRec) BY <1>1 DEF LogRight
  <2> QED BY <2>1, LenProperties
<1>3. scopes \in Seq(Nat) /\ Len(scopes) \in Nat /\ \A i \in 1 .. Len(scopes) : scopes[i] \in Nat
  <2>1. scopes \in Seq(Nat) BY <1>1 DEF ScopesRight
  <2> QED BY <2>1, LenProperties, ElementOfSeq
<1>4. mark \in 0 .. Len(undoBounds)
  <2>1. CASE k < Len(scopes)
    <3>1. k + 1 \in 1 .. Len(scopes) BY <1>3, <2>1
    <3>2. scopes[k + 1] \in Nat /\ scopes[k + 1] <= Len(undoBounds) BY <1>1, <1>3, <3>1 DEF ScopesRight
    <3> QED BY <1>2, <2>1, <3>2
  <2>2. CASE ~(k < Len(scopes)) BY <1>2, <2>2
  <2> QED BY <2>1, <2>2
<1>5. lower' = Restored(lower, TRUE, mark) /\ upper' = Restored(upper, FALSE, mark)
      /\ undoBounds' = SubSeq(undoBounds, 1, mark) /\ scopes' = SubSeq(scopes, 1, k)
  BY DEF PopTo
<1>6. ASSUME NEW i \in 1 .. k PROVE scopes[i] <= mark
  <2>1. CASE k < Len(scopes)
    <3>1. i \in 1 .. Len(scopes) /\ k + 1 \in 1 .. Len(scopes) /\ i < k + 1 BY <1>3, <2>1
    <3>2. scopes[i] <= scopes[k + 1] BY <1>1, <3>1 DEF ScopesRight
    <3> QED BY <2>1, <3>2
  <2>2. CASE ~(k < Len(scopes))
    <3>1. i \in 1 .. Len(scopes) BY <1>3, <2>2
    <3> QED BY <1>1, <2>2, <3>1 DEF ScopesRight
  <2> QED BY <2>1, <2>2
<1> HIDE DEF mark
<1>7. mark \in Nat /\ mark <= Len(undoBounds) /\ \A i \in 1 .. mark : i \in 1 .. Len(undoBounds) BY <1>2, <1>4
<1>8. undoBounds' \in Seq(UndoRec) /\ Len(undoBounds') = mark /\ \A i \in 1 .. mark : undoBounds'[i] = undoBounds[i]
  <2>1. Len(SubSeq(undoBounds, 1, mark)) = mark /\ SubSeq(undoBounds, 1, mark) \in Seq(UndoRec) BY <1>2, <1>7, SubSeqProperties
  <2>2. \A i \in 1 .. mark : SubSeq(undoBounds, 1, mark)[i] = undoBounds[i]
    BY <1>2, <1>7, SubSeqProperties
  <2> QED BY <1>5, <2>1, <2>2
<1>9. scopes' \in Seq(Nat) /\ Len(scopes') = k /\ \A i \in 1 .. k : scopes'[i] = scopes[i]
  BY <1>3, <1>5, SubSeqProperties
<1>10. ASSUME NEW v \in Var
       PROVE  /\ lower'[v] \in BoundRec /\ upper'[v] \in BoundRec
              /\ Weaker(TRUE, lower'[v], lower[v]) /\ Weaker(FALSE, upper'[v], upper[v])
              /\ \A i \in 1 .. mark : undoBounds[i].var = v /\ undoBounds[i].lower = TRUE => Weaker(TRUE, undoBounds[i].old, lower'[v])
              /\ \A i \in 1 .. mark : undoBounds[i].var = v /\ undoBounds[i].lower = FALSE => Weaker(FALSE, undoBounds[i].old, upper'[v])
  <2>1. TRUE \in BOOLEAN /\ FALSE \in BOOLEAN OBVIOUS
  <2>2. lower = (IF TRUE THEN lower ELSE upper) /\ upper = (IF FALSE THEN lower ELSE upper) OBVIOUS
  <2>3. /\ lower'[v] \in BoundRec /\ Weaker(TRUE, lower'[v], lower[v])
        /\ \A i \in 1 .. mark : undoBounds[i].var = v /\ undoBounds[i].lower = TRUE => Weaker(TRUE, undoBounds[i].old, lower'[v])
    <3>1. LET b == Restored(lower, TRUE, mark)[v] IN
           /\ b \in BoundRec /\ Weaker(TRUE, b, lower[v])
           /\ \A i \in 1 .. mark : undoBounds[i].var = v /\ undoBounds[i].lower = TRUE => Weaker(TRUE, undoBounds[i].old, b)
      BY <1>1, <1>4, <2>1, <2>2, RestoredIs
    <3> QED BY <1>5, <3>1
  <2>4. /\ upper'[v] \in BoundRec /\ Weaker(FALSE, upper'[v], upper[v])
        /\ \A i \in 1 .. mark : undoBounds[i].var = v /\ undoBounds[i].lower = FALSE => Weaker(FALSE, undoBounds[i].old, upper'[v])
    <3>1. LET b == Restored(upper, FALSE, mark)[v] IN
           /\ b \in BoundRec /\ Weaker(FALSE, b, upper[v])
           /\ \A i \in 1 .. mark : undoBounds[i].var = v /\ undoBounds[i].lower = FALSE => Weaker(FALSE, undoBounds[i].old, b)
      BY <1>1, <1>4, <2>1, <2>2, RestoredIs
    <3> QED BY <1>5, <3>1
  <2> QED BY <2>3, <2>4
<1>11. lower' \in [Var -> BoundRec] /\ upper' \in [Var -> BoundRec]
  <2>1. lower' = [v \in Var |-> lower'[v]] /\ upper' = [v \in Var |-> upper'[v]] BY <1>5 DEF Restored
  <2>2. \A v \in Var : lower'[v] \in BoundRec /\ upper'[v] \in BoundRec BY <1>10
  <2> QED BY <2>1, <2>2
<1>12. BoundsMeet(lower', upper')
  <2>1. ASSUME NEW v \in Var, lower'[v].tag # 0, upper'[v].tag # 0 PROVE lower'[v].val <= upper'[v].val
    <3>1. lower[v].tag # 0 /\ lower'[v].val <= lower[v].val /\ upper[v].tag # 0 /\ upper'[v].val >= upper[v].val
      BY <1>10, <2>1 DEF Weaker
    <3>2. lower[v].val <= upper[v].val BY <1>1, <3>1 DEF BoundsMeet
    <3>3. lower[v].val \in Int /\ upper[v].val \in Int /\ lower'[v].val \in Int /\ upper'[v].val \in Int
      BY <1>1, <1>11 DEF BoundRec
    <3> QED BY <3>1, <3>2, <3>3
  <2> QED BY <2>1 DEF BoundsMeet
<1>13. LogRight(lower', upper', undoBounds')
  <2>1. ASSUME NEW i \in 1 .. mark
        PROVE  Weaker(undoBounds[i].lower, undoBounds[i].old, BoundOf(lower', upper', undoBounds[i].lower, undoBounds[i].var))
    <3>1. undoBounds[i].var \in Var /\ undoBounds[i].lower \in BOOLEAN BY <1>2, <1>7, LogEntry
    <3>2. CASE undoBounds[i].lower = TRUE BY <1>10, <3>1, <3>2 DEF BoundOf
    <3>3. CASE undoBounds[i].lower = FALSE BY <1>10, <3>1, <3>3 DEF BoundOf
    <3> QED BY <3>1, <3>2, <3>3
  <2>2. ASSUME NEW i \in 1 .. mark, NEW j \in 1 .. mark, i < j, undoBounds[i].var = undoBounds[j].var, undoBounds[i].lower = undoBounds[j].lower
        PROVE  Weaker(undoBounds[i].lower, undoBounds[i].old, undoBounds[j].old)
    BY <1>1, <1>7, <2>2 DEF LogRight
  <2> QED BY <1>8, <2>1, <2>2 DEF LogRight
<1>14. ScopesRight(scopes', mark)
  <2>1. \A i \in 1 .. k : i \in 1 .. Len(scopes) BY <1>3
  <2>2. \A i \in 1 .. k, j \in 1 .. k : i < j => scopes[i] <= scopes[j] BY <1>1, <2>1 DEF ScopesRight
  <2> QED BY <1>6, <1>9, <2>2 DEF ScopesRight
<1> QED BY <1>8, <1>10, <1>11, <1>12, <1>13, <1>14 DEF BoundsRight

LEMMA PushBounds ==
    ASSUME NEW lo, NEW up, NEW log, NEW sc, BoundsRight(lo, up, log, sc)
    PROVE  BoundsRight(lo, up, log, Append(sc, Len(log)))
<1>1. ScopesRight(sc, Len(log)) /\ sc \in Seq(Nat) /\ Len(log) \in Nat
  <2>1. log \in Seq(UndoRec) /\ sc \in Seq(Nat) BY DEF BoundsRight, LogRight, ScopesRight
  <2>2. Len(log) \in Nat BY <2>1, LenProperties
  <2> QED BY <2>1, <2>2 DEF BoundsRight
<1> DEFINE L == Len(sc)
           t == Append(sc, Len(log))
<1>2. L \in Nat /\ \A i \in 1 .. L : sc[i] \in Nat /\ sc[i] <= Len(log)
  BY <1>1, LenProperties, ElementOfSeq DEF ScopesRight
<1>3. t \in Seq(Nat) /\ Len(t) = L + 1 /\ t[L + 1] = Len(log) /\ \A i \in 1 .. L : t[i] = sc[i]
  BY <1>1, AppendProperties
<1>4. \A i \in 1 .. L, j \in 1 .. L : i < j => sc[i] <= sc[j] BY <1>1 DEF ScopesRight
<1> HIDE DEF t, L
<1>5. \A i \in 1 .. L + 1 : i \in 1 .. L \/ i = L + 1 BY <1>2
<1>6. \A i \in 1 .. L + 1 : t[i] <= Len(log) BY <1>1, <1>2, <1>3, <1>5
<1>7. ASSUME NEW i \in 1 .. L + 1, NEW j \in 1 .. L + 1, i < j PROVE t[i] <= t[j]
  <2>1. i \in 1 .. L BY <1>2, <1>7
  <2>2. CASE j = L + 1 BY <1>3, <1>6, <2>2
  <2>3. CASE j \in 1 .. L BY <1>3, <1>4, <1>7, <2>1, <2>3
  <2> QED BY <1>5, <2>2, <2>3
<1>8. ScopesRight(t, Len(log)) BY <1>3, <1>6, <1>7 DEF ScopesRight
<1> QED BY <1>8 DEF BoundsRight, t

LEMMA TightenBounds ==
    ASSUME BoundsRight(lower, upper, undoBounds, scopes), NEW v \in Var, NEW isLower \in BOOLEAN, NEW val \in Int,
           NEW tag \in Nat \ {0}, Tighten(v, isLower, val, tag)
    PROVE  /\ BoundsRight(lower', upper', undoBounds', scopes)
           /\ \A x \in Var : x # v => lower'[x] = lower[x] /\ upper'[x] = upper[x]
           /\ lower'[v] = IF isLower THEN [val |-> val, tag |-> tag] ELSE lower[v]
           /\ upper'[v] = IF isLower THEN upper[v] ELSE [val |-> val, tag |-> tag]
<1> DEFINE b == [val |-> val, tag |-> tag]
           old == IF isLower THEN lower[v] ELSE upper[v]
           e == [var |-> v, lower |-> isLower, old |-> old]
           L == Len(undoBounds)
<1>1. lower \in [Var -> BoundRec] /\ upper \in [Var -> BoundRec] /\ LogRight(lower, upper, undoBounds)
      /\ BoundsMeet(lower, upper) /\ ScopesRight(scopes, Len(undoBounds))
  BY DEF BoundsRight
<1>2. undoBounds \in Seq(UndoRec) /\ L \in Nat /\ scopes \in Seq(Nat)
  <2>1. undoBounds \in Seq(UndoRec) /\ scopes \in Seq(Nat) BY <1>1 DEF LogRight, ScopesRight
  <2> QED BY <2>1, LenProperties
<1>3. b \in BoundRec /\ b.val = val /\ b.tag = tag /\ b.tag # 0 BY DEF BoundRec
<1>4. /\ lower' = IF isLower THEN [lower EXCEPT ![v] = b] ELSE lower
      /\ upper' = IF isLower THEN upper ELSE [upper EXCEPT ![v] = b]
      /\ undoBounds' = IF scopes = << >> THEN undoBounds ELSE Append(undoBounds, e)
      /\ Tightens(v, isLower, val) /\ ~BoundClashes(v, isLower, val)
  BY DEF Tighten
<1>5. old \in BoundRec /\ e \in UndoRec /\ e.var = v /\ e.lower = isLower /\ e.old = old BY <1>1 DEF UndoRec
<1>6. Weaker(isLower, old, b)
  <2>1. old.val \in Int BY <1>5 DEF BoundRec
  <2> HIDE DEF b
  <2>2. CASE isLower
    <3>1. old = lower[v] /\ (lower[v].tag = 0 \/ val > lower[v].val) BY <1>4, <2>2 DEF Tightens
    <3> QED BY <1>3, <2>1, <2>2, <3>1 DEF Weaker
  <2>3. CASE ~isLower
    <3>1. old = upper[v] /\ (upper[v].tag = 0 \/ val < upper[v].val) BY <1>4, <2>3 DEF Tightens
    <3> QED BY <1>3, <2>1, <2>3, <3>1 DEF Weaker
  <2> QED BY <2>2, <2>3
<1> HIDE DEF b, e, L
<1>7. /\ lower' \in [Var -> BoundRec] /\ upper' \in [Var -> BoundRec]
      /\ \A x \in Var : x # v => lower'[x] = lower[x] /\ upper'[x] = upper[x]
      /\ lower'[v] = (IF isLower THEN b ELSE lower[v]) /\ upper'[v] = (IF isLower THEN upper[v] ELSE b)
  BY <1>1, <1>3, <1>4
<1>8. ASSUME NEW x \in Var, NEW l \in BOOLEAN
      PROVE  /\ BoundOf(lower, upper, l, x) \in BoundRec /\ BoundOf(lower', upper', l, x) \in BoundRec
             /\ Weaker(l, BoundOf(lower, upper, l, x), BoundOf(lower', upper', l, x))
  <2>1. BoundOf(lower, upper, l, x) \in BoundRec /\ BoundOf(lower', upper', l, x) \in BoundRec BY <1>1, <1>7 DEF BoundOf
  <2>2. CASE x = v /\ l = isLower
    <3>1. BoundOf(lower, upper, l, x) = old /\ BoundOf(lower', upper', l, x) = b BY <1>7, <2>2 DEF BoundOf
    <3> QED BY <1>6, <2>1, <2>2, <3>1
  <2>3. CASE ~(x = v /\ l = isLower)
    <3>1. BoundOf(lower, upper, l, x) = BoundOf(lower', upper', l, x) BY <1>7, <2>3 DEF BoundOf
    <3> QED BY <2>1, <3>1, WeakerIs
  <2> QED BY <2>2, <2>3
<1>9. BoundsMeet(lower', upper')
  <2>1. ASSUME NEW x \in Var, lower'[x].tag # 0, upper'[x].tag # 0 PROVE lower'[x].val <= upper'[x].val
    <3>1. CASE x # v BY <1>1, <1>7, <2>1, <3>1 DEF BoundsMeet
    <3>2. CASE x = v /\ isLower
      <4>1. lower'[x].val = val /\ upper'[x] = upper[v] /\ upper[v].val \in Int BY <1>1, <1>3, <1>7, <3>2 DEF BoundRec
      <4>2. ~(val > upper[v].val) BY <1>4, <2>1, <3>2, <4>1 DEF BoundClashes
      <4> QED BY <4>1, <4>2
    <3>3. CASE x = v /\ ~isLower
      <4>1. upper'[x].val = val /\ lower'[x] = lower[v] /\ lower[v].val \in Int BY <1>1, <1>3, <1>7, <3>3 DEF BoundRec
      <4>2. ~(val < lower[v].val) BY <1>4, <2>1, <3>3, <4>1 DEF BoundClashes
      <4> QED BY <4>1, <4>2
    <3> QED BY <3>1, <3>2, <3>3
  <2> QED BY <2>1 DEF BoundsMeet
<1>10. ASSUME NEW i \in 1 .. L
       PROVE  Weaker(undoBounds[i].lower, undoBounds[i].old, BoundOf(lower', upper', undoBounds[i].lower, undoBounds[i].var))
  <2>1. undoBounds[i].var \in Var /\ undoBounds[i].lower \in BOOLEAN /\ undoBounds[i].old \in BoundRec
    BY <1>2, LogEntry DEF L
  <2>2. Weaker(undoBounds[i].lower, undoBounds[i].old, BoundOf(lower, upper, undoBounds[i].lower, undoBounds[i].var))
    BY <1>1 DEF LogRight, L
  <2> QED BY <1>8, <2>1, <2>2, WeakerIs
<1>11. CASE scopes = << >>
  <2>1. undoBounds' = undoBounds BY <1>4, <1>11
  <2>2. LogRight(lower', upper', undoBounds) BY <1>1, <1>10 DEF LogRight, L
  <2> QED BY <1>1, <1>7, <1>9, <2>1, <2>2 DEF BoundsRight, b
<1>12. CASE scopes # << >>
  <2> DEFINE t == Append(undoBounds, e)
  <2>1. undoBounds' = t BY <1>4, <1>12
  <2>2. t \in Seq(UndoRec) /\ Len(t) = L + 1 /\ t[L + 1] = e /\ \A i \in 1 .. L : t[i] = undoBounds[i]
    BY <1>2, <1>5, AppendProperties DEF L
  <2> HIDE DEF t
  <2>3. \A i \in 1 .. L + 1 : i \in 1 .. L \/ i = L + 1 BY <1>2
  <2>4. ASSUME NEW i \in 1 .. L + 1 PROVE Weaker(t[i].lower, t[i].old, BoundOf(lower', upper', t[i].lower, t[i].var))
    <3>1. CASE i \in 1 .. L BY <1>10, <2>2, <3>1
    <3>2. CASE i = L + 1
      <4>1. BoundOf(lower', upper', isLower, v) = b BY <1>7 DEF BoundOf
      <4> QED BY <1>5, <1>6, <2>2, <3>2, <4>1
    <3> QED BY <2>3, <3>1, <3>2
  <2>5. ASSUME NEW i \in 1 .. L + 1, NEW j \in 1 .. L + 1, i < j, t[i].var = t[j].var, t[i].lower = t[j].lower
        PROVE  Weaker(t[i].lower, t[i].old, t[j].old)
    <3>1. i \in 1 .. L BY <1>2, <2>5
    <3>2. CASE j \in 1 .. L BY <1>1, <2>2, <2>5, <3>1, <3>2 DEF LogRight, L
    <3>3. CASE j = L + 1
      <4>1. undoBounds[i].var = v /\ undoBounds[i].lower = isLower BY <1>5, <2>2, <2>5, <3>1, <3>3
      <4>2. Weaker(isLower, undoBounds[i].old, BoundOf(lower, upper, isLower, v)) BY <1>1, <3>1, <4>1 DEF LogRight, L
      <4>3. BoundOf(lower, upper, isLower, v) = old BY DEF BoundOf
      <4> QED BY <1>5, <2>2, <3>1, <3>3, <4>1, <4>2, <4>3
    <3> QED BY <2>3, <3>2, <3>3
  <2>6. LogRight(lower', upper', t) BY <2>2, <2>4, <2>5 DEF LogRight
  <2>7. ScopesRight(scopes, Len(t))
    <3>1. \A i \in 1 .. Len(scopes) : scopes[i] \in Nat /\ scopes[i] <= L BY <1>1, <1>2, ElementOfSeq DEF ScopesRight, L
    <3>2. \A i \in 1 .. Len(scopes) : scopes[i] <= L + 1 BY <1>2, <3>1
    <3> QED BY <1>1, <2>2, <3>2 DEF ScopesRight
  <2> QED BY <1>7, <1>9, <2>1, <2>6, <2>7 DEF BoundsRight, b
<1> QED BY <1>11, <1>12

-----------------------------------------------------------------------------
(* The invariant *)

\* Every variable out of its bounds is basic and dirty.
Seen(lo, up, u, ro, d) == d \subseteq Var /\ \A v \in Var : Out(lo, up, u, v) => ro[v] # 0 /\ v \in d

TableauInv == TableauRight(rows, rowOf) /\ ColumnsRight(rows, col) /\ assignment \in Vectors /\ RowsHold(rows, assignment)
BoundsInv == BoundsRight(lower, upper, undoBounds, scopes)
SeenInv == Seen(lower, upper, assignment, rowOf, dirty)

SimplexInv == TableauInv /\ BoundsInv /\ SeenInv

LEMMA OutSame ==
    ASSUME NEW lo, NEW up, NEW u, NEW lo2, NEW up2, NEW u2, NEW v, lo2[v] = lo[v], up2[v] = up[v], u2[v] = u[v]
    PROVE  Out(lo2, up2, u2, v) <=> Out(lo, up, u, v)
BY DEF Out

LEMMA AddRowInv == ASSUME SimplexInv, AddRow PROVE SimplexInv'
<1>1. TableauInv /\ BoundsInv /\ SeenInv BY DEF SimplexInv
<1>2. /\ TableauRight(rows', rowOf') /\ ColumnsRight(rows', col') /\ assignment' \in Vectors /\ RowsHold(rows', assignment')
      /\ \E s \in Var : /\ rowOf' = [rowOf EXCEPT ![s] = Len(rows) + 1] /\ dirty' = dirty \cup {s}
                        /\ \A x \in Var : x # s => assignment'[x] = assignment[x]
  BY <1>1, AddRowTableau DEF TableauInv
<1>3. lower' = lower /\ upper' = upper /\ undoBounds' = undoBounds /\ scopes' = scopes BY DEF AddRow, boundVars
<1>4. PICK s \in Var : /\ rowOf' = [rowOf EXCEPT ![s] = Len(rows) + 1] /\ dirty' = dirty \cup {s}
                       /\ \A x \in Var : x # s => assignment'[x] = assignment[x]
  BY <1>2
<1>5. rowOf \in [Var -> 0 .. Len(rows)] /\ Len(rows) \in Nat BY <1>1, RowIs DEF TableauInv, TableauRight
<1>6. rowOf'[s] # 0 /\ \A x \in Var : x # s => rowOf'[x] = rowOf[x] BY <1>4, <1>5
<1>7. ASSUME NEW v \in Var, Out(lower', upper', assignment', v) PROVE rowOf'[v] # 0 /\ v \in dirty'
  <2>1. CASE v = s BY <1>4, <1>6, <2>1
  <2>2. CASE v # s
    <3>1. Out(lower, upper, assignment, v) BY <1>3, <1>4, <1>7, <2>2, OutSame
    <3> QED BY <1>1, <1>4, <1>6, <2>2, <3>1 DEF SeenInv, Seen
  <2> QED BY <2>1, <2>2
<1>8. dirty' \subseteq Var BY <1>1, <1>4 DEF SeenInv, Seen
<1>9. SeenInv' BY <1>7, <1>8 DEF SeenInv, Seen
<1>10. BoundsInv' BY <1>1, <1>3 DEF BoundsInv
<1> QED BY <1>2, <1>9, <1>10 DEF SimplexInv, TableauInv

LEMMA AssertInv ==
    ASSUME SimplexInv, NEW v \in Var, NEW isLower \in BOOLEAN, NEW val \in Int, NEW tag \in Nat \ {0},
           AssertBound(v, isLower, val, tag), UNCHANGED <<tableau, scopes>>
    PROVE  SimplexInv'
<1>1. TableauInv /\ BoundsInv /\ SeenInv BY DEF SimplexInv
<1>2. rows' = rows /\ rowOf' = rowOf /\ col' = col /\ scopes' = scopes BY DEF tableau
<1>3. CASE UNCHANGED <<lower, upper, undoBounds, assignment, dirty>>
  <2>1. lower' = lower /\ upper' = upper /\ undoBounds' = undoBounds /\ assignment' = assignment /\ dirty' = dirty BY <1>3
  <2> QED BY <1>1, <1>2, <2>1 DEF SimplexInv, TableauInv, BoundsInv, SeenInv
<1>4. CASE Tighten(v, isLower, val, tag)
  <2> DEFINE move == ~IsBasic(v) /\ Outside(v, isLower, val)
  <2>1. /\ BoundsRight(lower', upper', undoBounds', scopes)
        /\ \A x \in Var : x # v => lower'[x] = lower[x] /\ upper'[x] = upper[x]
        /\ lower'[v] = IF isLower THEN [val |-> val, tag |-> tag] ELSE lower[v]
        /\ upper'[v] = IF isLower THEN upper[v] ELSE [val |-> val, tag |-> tag]
    BY <1>1, <1>4, TightenBounds DEF BoundsInv
  <2>2. /\ assignment' = IF move THEN Moved(v, val) ELSE assignment
        /\ dirty' = dirty \cup (IF move THEN Disturbed(v) ELSE {}) \cup (IF IsBasic(v) THEN {v} ELSE {})
        /\ ~BoundClashes(v, isLower, val)
    BY <1>4 DEF Tighten
  <2>3. move => rowOf[v] = 0 BY DEF IsBasic
  <2>4. move => /\ assignment' \in Vectors /\ RowsHold(rows, assignment') /\ assignment'[v] = val
                /\ Disturbed(v) \subseteq Var /\ \A x \in Disturbed(v) : rowOf[x] # 0
                /\ \A x \in Var : x # v /\ x \notin Disturbed(v) => assignment'[x] = assignment[x]
    BY <1>1, <2>2, <2>3, MovedIs DEF TableauInv
  <2>5. ~move => assignment' = assignment BY <2>2
  <2>6. assignment' \in Vectors /\ RowsHold(rows, assignment') BY <1>1, <2>4, <2>5 DEF TableauInv
  <2>7. dirty \subseteq Var /\ \A x \in Var : Out(lower, upper, assignment, x) => rowOf[x] # 0 /\ x \in dirty
    BY <1>1 DEF SeenInv, Seen
  <2>8. dirty' \subseteq Var BY <2>2, <2>4, <2>7
  <2>9. ASSUME NEW x \in Var, Out(lower', upper', assignment', x) PROVE rowOf[x] # 0 /\ x \in dirty'
    <3>1. CASE x # v
      <4>1. CASE move /\ x \in Disturbed(v) BY <2>2, <2>4, <4>1
      <4>2. CASE ~(move /\ x \in Disturbed(v))
        <5>1. assignment'[x] = assignment[x] BY <2>4, <2>5, <3>1, <4>2
        <5>2. Out(lower, upper, assignment, x) BY <2>1, <2>9, <3>1, <5>1, OutSame
        <5> QED BY <2>2, <2>7, <5>2
      <4> QED BY <4>1, <4>2
    <3>2. CASE x = v /\ IsBasic(v) BY <2>2, <3>2 DEF IsBasic
    <3>3. CASE x = v /\ ~IsBasic(v)
      <4>1. rowOf[v] = 0 BY <3>3 DEF IsBasic
      <4>2. ~Out(lower, upper, assignment, v) BY <2>7, <4>1
      <4>3. lower[v].val \in Int /\ upper[v].val \in Int /\ assignment[v] \in Int
        BY <1>1 DEF BoundsInv, BoundsRight, BoundRec, TableauInv, Vectors
      <4>4. move \/ (IF isLower THEN assignment[v] >= val ELSE assignment[v] <= val)
        BY <3>3, <4>3 DEF Outside
      <4>5. IF isLower THEN ~(upper[v].tag # 0 /\ val > upper[v].val) ELSE ~(lower[v].tag # 0 /\ val < lower[v].val)
        BY <2>2 DEF BoundClashes
      <4>6. assignment'[v] = val \/ (assignment'[v] = assignment[v] /\ IF isLower THEN assignment[v] >= val ELSE assignment[v] <= val)
        BY <2>4, <2>5, <4>4
      <4> HIDE DEF move
      <4>7. CASE isLower
        <5>1. lower'[v].val = val /\ upper'[v] = upper[v] BY <2>1, <4>7
        <5>2. assignment'[v] < val \/ (upper[v].tag # 0 /\ assignment'[v] > upper[v].val) BY <2>9, <3>3, <5>1 DEF Out
        <5> QED BY <4>2, <4>3, <4>5, <4>6, <4>7, <5>2 DEF Out
      <4>8. CASE ~isLower
        <5>1. upper'[v].val = val /\ lower'[v] = lower[v] BY <2>1, <4>8
        <5>2. assignment'[v] > val \/ (lower[v].tag # 0 /\ assignment'[v] < lower[v].val) BY <2>9, <3>3, <5>1 DEF Out
        <5> QED BY <4>2, <4>3, <4>5, <4>6, <4>8, <5>2 DEF Out
      <4> QED BY <4>7, <4>8
    <3> QED BY <3>1, <3>2, <3>3
  <2>10. SeenInv' BY <1>2, <2>8, <2>9 DEF SeenInv, Seen
  <2> QED BY <1>1, <1>2, <2>1, <2>6, <2>10 DEF SimplexInv, TableauInv, BoundsInv
<1> QED BY <1>3, <1>4 DEF AssertBound, AlreadyHolds, Refuse

LEMMA PushInv == ASSUME SimplexInv, Push PROVE SimplexInv'
<1>1. TableauInv /\ BoundsInv /\ SeenInv BY DEF SimplexInv
<1>2. /\ scopes' = Append(scopes, Len(undoBounds)) /\ lower' = lower /\ upper' = upper /\ undoBounds' = undoBounds
      /\ assignment' = assignment /\ rows' = rows /\ rowOf' = rowOf /\ col' = col /\ dirty' = dirty
  BY DEF Push, tableau
<1>3. BoundsInv' BY <1>1, <1>2, PushBounds DEF BoundsInv
<1> QED BY <1>1, <1>2, <1>3 DEF SimplexInv, TableauInv, SeenInv

LEMMA PopInv == ASSUME SimplexInv, NEW k \in Nat, k <= Len(scopes), PopTo(k) PROVE SimplexInv'
<1>1. TableauInv /\ BoundsInv /\ SeenInv BY DEF SimplexInv
<1>2. assignment' = assignment /\ rows' = rows /\ rowOf' = rowOf /\ col' = col /\ dirty' = dirty
  BY DEF PopTo, tableau
<1>3. /\ BoundsRight(lower', upper', undoBounds', scopes')
      /\ \A v \in Var : Weaker(TRUE, lower'[v], lower[v]) /\ Weaker(FALSE, upper'[v], upper[v])
  BY <1>1, PopBounds DEF BoundsInv
<1>4. /\ lower \in [Var -> BoundRec] /\ upper \in [Var -> BoundRec] /\ lower' \in [Var -> BoundRec] /\ upper' \in [Var -> BoundRec]
      /\ assignment \in Vectors
  BY <1>1, <1>3 DEF BoundsInv, BoundsRight, TableauInv
<1>5. ASSUME NEW v \in Var, Out(lower', upper', assignment, v) PROVE rowOf[v] # 0 /\ v \in dirty
  <2>1. Out(lower, upper, assignment, v) BY <1>3, <1>4, <1>5, WeakerOut
  <2> QED BY <1>1, <2>1 DEF SeenInv, Seen
<1>6. SeenInv' BY <1>1, <1>2, <1>5 DEF SeenInv, Seen
<1>7. BoundsInv' BY <1>3 DEF BoundsInv
<1> QED BY <1>1, <1>2, <1>6, <1>7 DEF SimplexInv, TableauInv

\* The variable that leaves: the smallest that check can see out of its bounds.
LEMMA LeavingIs ==
    ASSUME dirty \subseteq Var, ViolatedDirty # {}
    PROVE  /\ Leaving \in Var /\ Leaving \in dirty /\ rowOf[Leaving] # 0 /\ Violated(Leaving)
           /\ \A y \in ViolatedDirty : Leaving <= y
<1>1. ViolatedDirty \in SUBSET Nat
  <2>1. ViolatedDirty \subseteq dirty BY DEF ViolatedDirty
  <2>2. \A v \in Var : v \in Nat BY Sizes
  <2> QED BY <2>1, <2>2
<1>2. \E m \in ViolatedDirty : \A y \in ViolatedDirty : m <= y BY <1>1, LeastIs
<1>3. Leaving \in ViolatedDirty /\ \A y \in ViolatedDirty : Leaving <= y
  <2> HIDE DEF ViolatedDirty
  <2> QED BY <1>2 DEF Leaving, Min
<1> QED BY <1>3 DEF ViolatedDirty, IsBasic

\* The dirty variables below the one that leaves are within their bounds.
LEMMA KeptDirty ==
    ASSUME SeenInv, ViolatedDirty # {}, NEW v \in Var, Out(lower, upper, assignment, v)
    PROVE  rowOf[v] # 0 /\ v \in {b \in dirty : b >= Leaving}
<1>1. dirty \subseteq Var /\ rowOf[v] # 0 /\ v \in dirty BY DEF SeenInv, Seen
<1>2. v \in ViolatedDirty BY <1>1, ViolatedIs DEF ViolatedDirty, IsBasic
<1>3. Leaving <= v /\ Leaving \in Var BY <1>1, <1>2, LeavingIs
<1>4. Leaving \in Int /\ v \in Int BY <1>3, Sizes
<1> QED BY <1>1, <1>3, <1>4

LEMMA StopInv == ASSUME SimplexInv, CheckSat \/ CheckUnsat \/ CheckExhausted PROVE SimplexInv'
<1>1. TableauInv /\ BoundsInv /\ SeenInv BY DEF SimplexInv
<1>2. dirty \subseteq Var /\ \A v \in Var : Out(lower, upper, assignment, v) => rowOf[v] # 0 /\ v \in dirty
  BY <1>1 DEF SeenInv, Seen
<1>3. CASE CheckSat
  <2>1. /\ ViolatedDirty = {} /\ dirty' = {} /\ assignment' = assignment
        /\ rows' = rows /\ rowOf' = rowOf /\ col' = col
        /\ lower' = lower /\ upper' = upper /\ undoBounds' = undoBounds /\ scopes' = scopes
    BY <1>3 DEF CheckSat, boundVars, tableau
  <2>2. ASSUME NEW v \in Var, Out(lower, upper, assignment, v) PROVE FALSE
    <3>1. v \in ViolatedDirty BY <1>2, <2>2, ViolatedIs DEF ViolatedDirty, IsBasic
    <3> QED BY <2>1, <3>1
  <2>3. SeenInv' BY <2>1, <2>2 DEF SeenInv, Seen
  <2> QED BY <1>1, <2>1, <2>3 DEF SimplexInv, TableauInv, BoundsInv
<1>4. CASE CheckUnsat \/ CheckExhausted
  <2>1. /\ ViolatedDirty # {} /\ dirty' = {b \in dirty : b >= Leaving} /\ assignment' = assignment
        /\ rows' = rows /\ rowOf' = rowOf /\ col' = col
        /\ lower' = lower /\ upper' = upper /\ undoBounds' = undoBounds /\ scopes' = scopes
    BY <1>4 DEF CheckUnsat, CheckExhausted, boundVars, tableau
  <2>2. \A v \in Var : Out(lower, upper, assignment, v) => rowOf[v] # 0 /\ v \in dirty'
    BY <1>1, <2>1, KeptDirty
  <2>3. SeenInv' BY <1>2, <2>1, <2>2 DEF SeenInv, Seen
  <2> QED BY <1>1, <2>1, <2>3 DEF SimplexInv, TableauInv, BoundsInv
<1> QED BY <1>3, <1>4

\* A round that pivots: the leaving variable goes to its bound.
LEMMA PivotInv ==
    ASSUME SimplexInv, Unimodular, CheckPivot
    PROVE  /\ SimplexInv'
           /\ Len(rows') = Len(rows) /\ \A u \in Vectors : RowsHold(rows, u) => RowsHold(rows', u)
<1> DEFINE xi == Leaving
           xj == Min(Helpful)
           r == rowOf[xi]
           aim == IF Increase THEN lower[xi].val ELSE upper[xi].val
           theta == (aim - assignment[xi]) * rows[r].coeffs[xj]
           val == assignment[xj] + theta
<1>1. TableauInv /\ BoundsInv /\ SeenInv BY DEF SimplexInv
<1>2. /\ TableauRight(rows, rowOf) /\ ColumnsRight(rows, col) /\ assignment \in Vectors /\ RowsHold(rows, assignment)
  BY <1>1 DEF TableauInv
<1>3. dirty \subseteq Var /\ \A v \in Var : Out(lower, upper, assignment, v) => rowOf[v] # 0 /\ v \in dirty
  BY <1>1 DEF SeenInv, Seen
<1>4. /\ ViolatedDirty # {} /\ Helpful # {}
      /\ assignment' = Moved(xj, val)
      /\ dirty' = {b \in dirty : b >= xi} \cup Disturbed(xj) \cup {xj}
      /\ PivotRows(r, xi, xj)
      /\ lower' = lower /\ upper' = upper /\ undoBounds' = undoBounds /\ scopes' = scopes
  BY DEF CheckPivot, boundVars
<1>5. xi \in Var /\ xi \in dirty /\ rowOf[xi] # 0 /\ Violated(xi) BY <1>3, <1>4, LeavingIs
<1>6. xj \in Helpful
  <2>1. Helpful \in SUBSET Nat BY Sizes DEF Helpful
  <2>2. \E m \in Helpful : \A y \in Helpful : m <= y BY <1>4, <2>1, LeastIs
  <2> HIDE DEF Helpful
  <2> QED BY <2>2 DEF Min
<1>7. xj \in Var /\ rows[r].coeffs[xj] # 0 BY <1>6 DEF Helpful, LeavingCoeffs
<1>8. r \in 1 .. Len(rows) /\ rows[r].basic = xi
  <2>1. rowOf[xi] \in 1 .. Len(rows) BY <1>2, <1>5, RowIs
  <2> QED BY <1>2, <1>5, <2>1 DEF TableauRight
<1>9. Sign(rows[r].coeffs[xj])
  <2>1. r \in DOMAIN rows BY <1>2, <1>8, RowIs
  <2>2. rows[r].coeffs[xj] \in -1 .. 1 BY <1>7, <2>1 DEF Unimodular, Coeffs
  <2> QED BY <1>7, <2>2 DEF Sign
<1>10. rowOf[xj] = 0 BY <1>2, <1>7, <1>8, RowMentions
<1>11. xi \in Int /\ \A v \in Var : lower[v].val \in Int /\ upper[v].val \in Int /\ assignment[v] \in Int
  BY <1>1, <1>5, Sizes DEF BoundsInv, BoundsRight, BoundRec, TableauInv, Vectors
<1> DEFINE k == rows[r].coeffs[xj]
<1>12. Sign(k) BY <1>9
<1>13. theta = (aim - assignment[xi]) * k /\ val = assignment[xj] + theta OBVIOUS
<1> HIDE DEF k, theta, val
<1>14. aim \in Int /\ assignment[xi] \in Int /\ assignment[xj] \in Int /\ k \in Int
  <2>1. k \in Int BY <1>12 DEF Sign
  <2> QED BY <1>5, <1>7, <1>11, <2>1
<1>15. theta \in Int /\ val \in Int /\ k * theta = aim - assignment[xi] /\ val - assignment[xj] = theta
  <2> DEFINE d == aim - assignment[xi]
  <2>1. d \in Int BY <1>14
  <2>2. theta = d * k BY <1>13
  <2>3. d = aim - assignment[xi] OBVIOUS
  <2> HIDE DEF d, aim
  <2>4. d * k = k * d BY <1>14, <2>1, Ring
  <2>5. k * (k * d) = d /\ k * d \in Int BY <1>12, <2>1, SignSquare
  <2>6. theta \in Int /\ k * theta = d BY <2>2, <2>4, <2>5
  <2> QED BY <1>13, <1>14, <2>3, <2>6
<1> HIDE DEF aim
<1>16. /\ assignment' \in Vectors /\ RowsHold(rows, assignment')
       /\ Disturbed(xj) \subseteq Var /\ \A x \in Disturbed(xj) : rowOf[x] # 0
       /\ \A x \in Var : x # xj /\ x \notin Disturbed(xj) => assignment'[x] = assignment[x]
       /\ \A q \in 1 .. Len(rows) : rows[q].coeffs[xj] # 0 =>
            assignment'[rows[q].basic] = assignment[rows[q].basic] + rows[q].coeffs[xj] * (val - assignment[xj])
  <2> HIDE DEF xj
  <2> QED BY <1>2, <1>4, <1>7, <1>10, <1>15, MovedIs
<1>17. assignment'[xi] = aim
  <2>1. assignment'[xi] = assignment[xi] + k * theta
    <3>1. assignment'[rows[r].basic] = assignment[rows[r].basic] + rows[r].coeffs[xj] * (val - assignment[xj])
      BY <1>7, <1>8, <1>16
    <3> QED BY <1>8, <1>15, <3>1 DEF k
  <2> HIDE DEF xi
  <2> QED BY <1>14, <1>15, <2>1
<1> DEFINE new == Swapped(r, xi, xj)
<1>18. new = Swapped(r, xi, xj) OBVIOUS
<1> HIDE DEF new, xj
<1>19. PivotDoes(r, xi, xj, new) BY <1>2, <1>4, <1>7, <1>8, <1>9, <1>18, PivotIs
<1>20. TableauRight(rows', rowOf') /\ RowsHold(rows', assignment') /\ \A u \in Vectors : RowsHold(rows, u) => RowsHold(rows', u)
  BY <1>2, <1>7, <1>8, <1>9, <1>16, <1>18, <1>19, PivotTableau
<1>21. ColumnsRight(rows', col') BY <1>2, <1>4, <1>7, <1>8, <1>9, PivotColumns
<1>22. rowOf' = [rowOf EXCEPT ![xi] = 0, ![xj] = r] BY <1>19 DEF PivotDoes
<1>23. rowOf \in [Var -> 0 .. Len(rows)] BY <1>2 DEF TableauRight
<1>24. rowOf'[xj] = r /\ r # 0 /\ \A x \in Var : x # xi /\ x # xj => rowOf'[x] = rowOf[x]
  BY <1>5, <1>7, <1>22, <1>23
<1>25. ~Out(lower, upper, assignment', xi)
  <2>1. BoundsMeet(lower, upper) BY <1>1 DEF BoundsInv, BoundsRight
  <2>2. lower[xi].tag # 0 /\ upper[xi].tag # 0 => lower[xi].val <= upper[xi].val BY <1>5, <2>1 DEF BoundsMeet
  <2>3. lower[xi].val \in Int /\ upper[xi].val \in Int BY <1>5, <1>11
  <2>4. CASE Increase
    <3>1. aim = lower[xi].val /\ lower[xi].tag # 0 BY <2>4 DEF aim, Increase, BelowLower
    <3> QED BY <1>17, <2>2, <2>3, <3>1 DEF Out
  <2>5. CASE ~Increase
    <3>1. aim = upper[xi].val BY <2>5 DEF aim
    <3>2. AboveUpper(xi) BY <1>5, <2>5 DEF Violated, Increase
    <3>3. upper[xi].tag # 0 BY <3>2 DEF AboveUpper
    <3> QED BY <1>17, <2>2, <2>3, <3>1, <3>3 DEF Out
  <2> QED BY <2>4, <2>5
<1>26. ASSUME NEW x \in Var, Out(lower, upper, assignment', x) PROVE rowOf'[x] # 0 /\ x \in dirty'
  <2>1. x # xi BY <1>25, <1>26
  <2>2. CASE x = xj BY <1>4, <1>24, <2>2
  <2>3. CASE x # xj /\ x \in Disturbed(xj) BY <1>4, <1>16, <1>24, <2>1, <2>3
  <2>4. CASE x # xj /\ x \notin Disturbed(xj)
    <3>1. assignment'[x] = assignment[x] BY <1>16, <2>4
    <3>2. Out(lower, upper, assignment, x) BY <1>26, <3>1, OutSame
    <3>3. rowOf[x] # 0 /\ x \in {b \in dirty : b >= Leaving} BY <1>1, <1>4, <3>2, KeptDirty
    <3> QED BY <1>4, <1>24, <2>1, <2>4, <3>3
  <2> QED BY <2>2, <2>3, <2>4
<1>27. dirty' \subseteq Var BY <1>3, <1>4, <1>7, <1>16
<1>28. SeenInv' BY <1>4, <1>26, <1>27 DEF SeenInv, Seen
<1>29. BoundsInv' BY <1>1, <1>4 DEF BoundsInv
<1>30. Len(rows') = Len(rows) BY <1>19 DEF PivotDoes
<1> QED BY <1>16, <1>20, <1>21, <1>28, <1>29, <1>30 DEF SimplexInv, TableauInv

LEMMA CheckInv == ASSUME SimplexInv, Unimodular, CheckStep PROVE SimplexInv'
BY StopInv, PivotInv DEF CheckStep

LEMMA InitInv == ASSUME SimplexInit PROVE SimplexInv
<1>1. /\ lower = [v \in Var |-> NoBound] /\ upper = [v \in Var |-> NoBound]
      /\ assignment = [v \in Var |-> 0]
      /\ rows = << >> /\ rowOf = [v \in Var |-> 0] /\ col = [v \in Var |-> {}]
      /\ undoBounds = << >> /\ scopes = << >> /\ dirty = {}
  BY DEF SimplexInit
<1>2. TableauRight(rows, rowOf)
  <2>1. rows \in Seq(RowShape) /\ Len(rows) = 0 /\ 1 .. 0 = {} BY <1>1
  <2>2. rowOf \in [Var -> 0 .. 0] /\ \A v \in Var : rowOf[v] = 0 BY <1>1
  <2>3. 0 <= Len(Forms) BY Sizes
  <2> QED BY <2>1, <2>2, <2>3 DEF TableauRight
<1>3. ColumnsRight(rows, col)
  <2>1. Len(rows) = 0 /\ 1 .. 0 = {} BY <1>1
  <2> QED BY <1>1, <2>1 DEF ColumnsRight
<1>4. assignment \in Vectors BY <1>1 DEF Vectors
<1>5. RowsHold(rows, assignment)
  <2>1. Len(rows) = 0 /\ 1 .. 0 = {} BY <1>1
  <2> QED BY <2>1 DEF RowsHold
<1>6. NoBound \in BoundRec /\ NoBound.tag = 0 BY DEF NoBound, BoundRec
<1>7. BoundsRight(lower, upper, undoBounds, scopes)
  <2>1. lower \in [Var -> BoundRec] /\ upper \in [Var -> BoundRec] BY <1>1, <1>6
  <2>2. BoundsMeet(lower, upper) BY <1>1, <1>6 DEF BoundsMeet
  <2>3. undoBounds \in Seq(UndoRec) /\ Len(undoBounds) = 0 /\ scopes \in Seq(Nat) /\ Len(scopes) = 0 /\ 1 .. 0 = {} BY <1>1
  <2>4. LogRight(lower, upper, undoBounds) BY <2>3 DEF LogRight
  <2>5. ScopesRight(scopes, Len(undoBounds)) BY <2>3 DEF ScopesRight
  <2> QED BY <2>1, <2>2, <2>4, <2>5 DEF BoundsRight
<1>8. Seen(lower, upper, assignment, rowOf, dirty)
  <2>1. \A v \in Var : ~Out(lower, upper, assignment, v) BY <1>1, <1>6 DEF Out
  <2> QED BY <1>1, <2>1 DEF Seen
<1> QED BY <1>2, <1>3, <1>4, <1>5, <1>7, <1>8 DEF SimplexInv, TableauInv, BoundsInv, SeenInv

LEMMA TagIs == ASSUME NEW t \in Tag
               PROVE  t \in Nat \ {0} /\ Bounds[t].var \in Var /\ Bounds[t].lower \in BOOLEAN /\ Bounds[t].val \in Int
<1>1. Bounds \in Seq([var : Var, lower : BOOLEAN, val : Int]) BY SimplexAssumption
<1>2. t \in 1 .. Len(Bounds) /\ Len(Bounds) \in Nat BY <1>1, LenProperties DEF Tag
<1>3. Bounds[t] \in [var : Var, lower : BOOLEAN, val : Int] BY <1>1, <1>2, ElementOfSeq
<1> QED BY <1>2, <1>3

LEMMA StepInv == ASSUME SimplexInv, Unimodular, [SimplexNext]_simplexVars PROVE SimplexInv'
<1>1. CASE AddRow BY <1>1, AddRowInv
<1>2. CASE Push BY <1>2, PushInv
<1>3. CASE Pop
  <2>1. scopes # << >> /\ PopTo(Len(scopes) - 1) BY <1>3 DEF Pop
  <2>2. scopes \in Seq(Nat) BY DEF SimplexInv, BoundsInv, BoundsRight, ScopesRight
  <2>3. Len(scopes) - 1 \in Nat /\ Len(scopes) - 1 <= Len(scopes) BY <2>1, <2>2, LenProperties, EmptySeq
  <2> QED BY <2>1, <2>3, PopInv
<1>4. CASE StartCheck
  <2>1. UNCHANGED <<boundVars, assignment, tableau, dirty>> BY <1>4 DEF StartCheck
  <2> QED BY <2>1 DEF SimplexInv, TableauInv, BoundsInv, SeenInv, boundVars, tableau
<1>5. CASE CheckStep BY <1>5, CheckInv
<1>6. ASSUME NEW t \in Tag, AssertTag(t) PROVE SimplexInv'
  <2>1. AssertBound(Bounds[t].var, Bounds[t].lower, Bounds[t].val, t) /\ UNCHANGED <<tableau, scopes>>
    BY <1>6 DEF AssertTag
  <2> QED BY <2>1, TagIs, AssertInv
<1>7. CASE UNCHANGED simplexVars
  BY <1>7 DEF simplexVars, SimplexInv, TableauInv, BoundsInv, SeenInv, boundVars, tableau
<1> QED BY <1>1, <1>2, <1>3, <1>4, <1>5, <1>6, <1>7 DEF SimplexNext

\* The invariant says what SimplexExact says.
LEMMA InvExact == ASSUME SimplexInv PROVE SimplexExact
<1>1. TableauInv /\ SeenInv BY DEF SimplexInv
<1>2. TableauRight(rows, rowOf) /\ ColumnsRight(rows, col) /\ RowsHold(rows, assignment) BY <1>1 DEF TableauInv
<1>3. DOMAIN rows = 1 .. Len(rows) /\ Len(rows) \in Nat /\ Len(rows) <= Len(Forms) BY <1>2, RowIs DEF TableauRight
<1>4. ASSUME NEW i \in DOMAIN rows
      PROVE  (IF IsBasic(NumStruct + i) THEN rows[rowOf[NumStruct + i]].coeffs ELSE UnitRow(NumStruct + i)) = Solved(Forms[i])
  <2>1. NumStruct + i \in Var BY <1>3, Sizes
  <2>2. Own(rows, rowOf)[NumStruct + i] = SolvedBy(Forms[i], Own(rows, rowOf)) BY <1>2, <1>3 DEF TableauRight
  <2> QED BY <2>1, <2>2, SolvedIs DEF Own, IsBasic
<1>5. \A q \in DOMAIN rows : /\ rowOf[rows[q].basic] = q
                             /\ \A v \in Var : rows[q].coeffs[v] # 0 => ~IsBasic(v)
                             /\ assignment[rows[q].basic] = Eval(rows[q].coeffs, assignment)
  BY <1>2, <1>3 DEF TableauRight, RowsHold, IsBasic
<1>6. TableauExact BY <1>4, <1>5 DEF TableauExact
<1>7. ColumnsExact BY <1>2, <1>3 DEF ColumnsRight, ColumnsExact
<1>8. NonbasicWithin /\ DirtyCovers BY <1>1, ViolatedIs DEF NonbasicWithin, DirtyCovers, SeenInv, Seen, IsBasic
<1> QED BY <1>6, <1>7, <1>8 DEF SimplexExact

\* Rows, columns, assignment and the list of what check must look at are exact, over any
\* sequence of added rows, bounds, scopes, updates and pivots, for every set of forms and
\* bounds for which the tableau stays unimodular (there the model's reciprocal is the code's).
THEOREM SimplexIsExact == SimplexSpec /\ []Unimodular => []SimplexExact
<1>1. SimplexInit => SimplexInv BY InitInv
<1>2. SimplexInv /\ Unimodular /\ [SimplexNext]_simplexVars => SimplexInv' BY StepInv
<1>3. SimplexInv => SimplexExact BY InvExact
<1> QED BY <1>1, <1>2, <1>3, PTL DEF SimplexSpec

-----------------------------------------------------------------------------
(* Difference forms: the tableau stays unimodular *)

\* The values w of the slacks are those of their forms.
FormValue(i, w) == SumOver([x \in 1 .. NumStruct |-> Forms[i][x] * w[x]], 1 .. NumStruct)
FormsHold(w, n) == \A i \in 1 .. n : w[NumStruct + i] = FormValue(i, w)

\* What satisfies the forms satisfies the rows.
FollowInv == \A w \in Vectors : FormsHold(w, Len(rows)) => RowsHold(rows, w)

LEMMA OwnEval ==
    ASSUME NEW R, NEW ro, TableauRight(R, ro), NEW w \in Vectors, RowsHold(R, w), NEW x \in Var
    PROVE  Eval(Own(R, ro)[x], w) = w[x]
<1>1. Own(R, ro)[x] = IF ro[x] # 0 THEN R[ro[x]].coeffs ELSE UnitRow(x) BY DEF Own
<1>2. CASE ro[x] # 0
  <2>1. ro[x] \in 1 .. Len(R) BY <1>2, RowIs
  <2>2. R[ro[x]].basic = x BY <1>2 DEF TableauRight
  <2>3. w[R[ro[x]].basic] = Eval(R[ro[x]].coeffs, w) BY <2>1 DEF RowsHold
  <2> QED BY <1>1, <1>2, <2>2, <2>3
<1>3. CASE ro[x] = 0 BY <1>1, <1>3, EvalUnit
<1> QED BY <1>2, <1>3

LEMMA AddRowFollows == ASSUME SimplexInv, FollowInv, AddRow PROVE FollowInv'
<1> DEFINE L == Len(rows)
           r == L + 1
           s == NumStruct + r
           P == Own(rows, rowOf)
<1>1. TableauRight(rows, rowOf) BY DEF SimplexInv, TableauInv
<1>2. L \in Nat /\ P \in [Var -> Vectors] BY <1>1, RowIs
<1>3. L < Len(Forms) /\ rows' = Append(rows, [basic |-> s, coeffs |-> Solved(Forms[r])]) BY DEF AddRow
<1>4. r \in 1 .. Len(Forms) /\ s \in Var /\ Forms[r] \in Formed BY <1>2, <1>3, Sizes
<1> DEFINE c == SolvedBy(Forms[r], P)
<1>5. Solved(Forms[r]) = c BY SolvedIs
<1>6. c \in Vectors BY <1>2, <1>4, SolvedInt
<1>7. rows \in Seq(RowShape) BY <1>1 DEF TableauRight
<1> HIDE DEF c
<1>8. [basic |-> s, coeffs |-> c] \in RowShape BY <1>4, <1>6 DEF RowShape
<1>9. Len(rows') = L + 1 /\ rows'[L + 1] = [basic |-> s, coeffs |-> c] /\ \A q \in 1 .. L : rows'[q] = rows[q]
  BY <1>3, <1>5, <1>7, <1>8, AppendProperties
<1>10. ASSUME NEW w \in Vectors, FormsHold(w, L + 1) PROVE RowsHold(rows', w)
  <2>1. FormsHold(w, L)
    <3>1. \A i \in 1 .. L : i \in 1 .. L + 1 BY <1>2
    <3> QED BY <1>10, <3>1 DEF FormsHold
  <2>2. RowsHold(rows, w) BY <2>1 DEF FollowInv
  <2>3. w[s] = FormValue(r, w)
    <3>1. r \in 1 .. L + 1 BY <1>2
    <3> QED BY <1>10, <3>1 DEF FormsHold
  <2>4. Eval(c, w) = FormValue(r, w)
    <3> DEFINE f == [x \in 1 .. NumStruct |-> Forms[r][x] * Eval(P[x], w)]
               g == [x \in 1 .. NumStruct |-> Forms[r][x] * w[x]]
    <3>1. Eval(c, w) = SumOver(f, 1 .. NumStruct) BY <1>2, <1>4, SolvedEval DEF c
    <3>2. \A x \in 1 .. NumStruct : Eval(P[x], w) = w[x]
      <4>1. \A x \in 1 .. NumStruct : x \in Var BY Sizes
      <4> QED BY <1>1, <2>2, <4>1, OwnEval
    <3>3. f = g BY <3>2
    <3> QED BY <3>1, <3>3 DEF FormValue
  <2>5. ASSUME NEW q \in 1 .. L + 1 PROVE w[rows'[q].basic] = Eval(rows'[q].coeffs, w)
    <3>1. CASE q = L + 1
      <4>1. rows'[q].basic = s /\ rows'[q].coeffs = c BY <1>9, <3>1
      <4> QED BY <2>3, <2>4, <4>1
    <3>2. CASE q # L + 1
      <4>1. q \in 1 .. L BY <1>2, <3>2
      <4> QED BY <1>9, <2>2, <4>1 DEF RowsHold
    <3> QED BY <3>1, <3>2
  <2> QED BY <1>9, <2>5 DEF RowsHold
<1> QED BY <1>9, <1>10 DEF FollowInv

LEMMA CheckFollows == ASSUME SimplexInv, FollowInv, Unimodular, CheckStep PROVE FollowInv'
<1>1. CASE CheckPivot BY <1>1, PivotInv DEF FollowInv
<1>2. CASE CheckSat \/ CheckUnsat \/ CheckExhausted
  <2>1. rows' = rows BY <1>2 DEF CheckSat, CheckUnsat, CheckExhausted, tableau
  <2> QED BY <2>1 DEF FollowInv
<1> QED BY <1>1, <1>2 DEF CheckStep

LEMMA StepFollows == ASSUME SimplexInv, FollowInv, Unimodular, [SimplexNext]_simplexVars PROVE FollowInv'
<1>1. CASE AddRow BY <1>1, AddRowFollows
<1>2. CASE CheckStep BY <1>2, CheckFollows
<1>3. CASE Push \/ Pop \/ StartCheck \/ (\E t \in Tag : AssertTag(t)) \/ UNCHANGED simplexVars
  <2>1. rows' = rows BY <1>3 DEF Push, Pop, PopTo, StartCheck, AssertTag, simplexVars, tableau
  <2> QED BY <2>1 DEF FollowInv
<1> QED BY <1>1, <1>2, <1>3 DEF SimplexNext

LEMMA InitFollows == ASSUME SimplexInit PROVE FollowInv
<1>1. rows = << >> BY DEF SimplexInit
<1>2. Len(rows) = 0 /\ 1 .. 0 = {} BY <1>1
<1> QED BY <1>2 DEF FollowInv, RowsHold

IsDifference(i, a, b) == \A x \in 1 .. NumStruct : Forms[i][x] = OneAt(x, a) - OneAt(x, b)

\* The value of a node.
AtNode(w, a) == IF a = 0 THEN 0 ELSE w[a]

LEMMA PlusSum ==
    ASSUME NEW w \in Vectors, NEW a \in 0 .. NumStruct
    PROVE  LET f == [x \in 1 .. NumStruct |-> OneAt(x, a) * w[x]] IN
           Numbers(f, 1 .. NumStruct) /\ SumOver(f, 1 .. NumStruct) = AtNode(w, a) /\ AtNode(w, a) \in Int
<1> DEFINE n == NumStruct
           f == [x \in 1 .. NumStruct |-> OneAt(x, a) * w[x]]
<1>0. n \in Nat /\ n = NumStruct /\ \A x \in 1 .. n : x \in Var /\ w[x] \in Int BY Sizes DEF Vectors
<1>1. ASSUME NEW x \in 1 .. n PROVE f[x] = IF x = a THEN w[x] ELSE 0
  <2>1. f[x] = OneAt(x, a) * w[x] OBVIOUS
  <2> HIDE DEF f
  <2> QED BY <1>0, <2>1, Ring DEF OneAt
<1> HIDE DEF f, n
<1>2. Numbers(f, 1 .. n) BY <1>0, <1>1 DEF Numbers
<1>3. CASE a = 0
  <2>1. \A x \in 1 .. n : f[x] = 0 BY <1>0, <1>1, <1>3
  <2>2. SumOver(f, 1 .. n) = 0 BY <1>0, <2>1, SumZero
  <2> QED BY <1>0, <1>2, <1>3, <2>2 DEF AtNode, f
<1>4. CASE a # 0
  <2>1. a \in 1 .. n BY <1>0, <1>4
  <2>2. f[a] = w[a] /\ f[a] \in Int /\ \A x \in 1 .. n : x # a => f[x] = 0 BY <1>0, <1>1, <2>1
  <2>3. SumOver(f, 1 .. n) = f[a] BY <1>0, <2>1, <2>2, SumSingle
  <2> QED BY <1>0, <1>2, <1>4, <2>2, <2>3 DEF AtNode, f
<1> QED BY <1>3, <1>4

LEMMA DifferenceValue ==
    ASSUME NEW i \in 1 .. Len(Forms), NEW a \in 0 .. NumStruct, NEW b \in 0 .. NumStruct, IsDifference(i, a, b), NEW w \in Vectors
    PROVE  FormValue(i, w) = AtNode(w, a) - AtNode(w, b)
<1> DEFINE n == NumStruct
           f == [x \in 1 .. NumStruct |-> OneAt(x, a) * w[x]]
           g == [x \in 1 .. NumStruct |-> OneAt(x, b) * w[x]]
           h == [x \in 1 .. NumStruct |-> Forms[i][x] * w[x]]
<1>0. n \in Nat /\ n = NumStruct /\ \A x \in 1 .. n : w[x] \in Int BY Sizes DEF Vectors
<1>1. Numbers(f, 1 .. n) /\ SumOver(f, 1 .. n) = AtNode(w, a) /\ AtNode(w, a) \in Int BY PlusSum
<1>2. Numbers(g, 1 .. n) /\ SumOver(g, 1 .. n) = AtNode(w, b) /\ AtNode(w, b) \in Int BY PlusSum
<1>3. FormValue(i, w) = SumOver(h, 1 .. n) BY DEF FormValue
<1>4. ASSUME NEW x \in 1 .. n PROVE h[x] = f[x] + (0 - 1) * g[x]
  <2>1. Forms[i][x] = OneAt(x, a) - OneAt(x, b) BY <1>0 DEF IsDifference
  <2>2. h[x] = Forms[i][x] * w[x] /\ f[x] = OneAt(x, a) * w[x] /\ g[x] = OneAt(x, b) * w[x] OBVIOUS
  <2> HIDE DEF f, g, h
  <2>3. w[x] \in Int /\ 0 * w[x] = 0 /\ 1 * w[x] = w[x] /\ (0 - 1) * w[x] = 0 - w[x] BY <1>0
  <2>4. CASE x = a /\ x = b
    <3>1. Forms[i][x] = 0 /\ OneAt(x, a) = 1 /\ OneAt(x, b) = 1 BY <2>1, <2>4 DEF OneAt
    <3> QED BY <2>2, <2>3, <3>1
  <2>5. CASE x = a /\ x # b
    <3>1. Forms[i][x] = 1 /\ OneAt(x, a) = 1 /\ OneAt(x, b) = 0 BY <2>1, <2>5 DEF OneAt
    <3> QED BY <2>2, <2>3, <3>1
  <2>6. CASE x # a /\ x = b
    <3>1. Forms[i][x] = 0 - 1 /\ OneAt(x, a) = 0 /\ OneAt(x, b) = 1 BY <2>1, <2>6 DEF OneAt
    <3> QED BY <2>2, <2>3, <3>1
  <2>7. CASE x # a /\ x # b
    <3>1. Forms[i][x] = 0 /\ OneAt(x, a) = 0 /\ OneAt(x, b) = 0 BY <2>1, <2>7 DEF OneAt
    <3> QED BY <2>2, <2>3, <3>1
  <2> QED BY <2>4, <2>5, <2>6, <2>7
<1> HIDE DEF f, g, h, n
<1>5. 0 - 1 \in Int OBVIOUS
<1>6. Combines(n, f, g, h, 0 - 1) BY <1>1, <1>2, <1>4 DEF Combines
<1>7. SumOver(h, 1 .. n) = SumOver(f, 1 .. n) + (0 - 1) * SumOver(g, 1 .. n) BY <1>0, <1>5, <1>6, SumCombines
<1> QED BY <1>1, <1>2, <1>3, <1>7

LEMMA EvalSingle ==
    ASSUME NEW c \in Vectors, NEW w \in Vectors, NEW y \in Var, \A x \in Var : x # y /\ c[x] # 0 => w[x] = 0
    PROVE  Eval(c, w) = c[y] * w[y]
<1> DEFINE f == [x \in Var |-> c[x] * w[x]]
           n == NumLinear
<1>0. n \in Nat /\ Var = 1 .. n BY Sizes
<1>1. \A x \in Var : c[x] \in Int /\ w[x] \in Int BY DEF Vectors
<1>2. ASSUME NEW x \in Var, x # y PROVE f[x] = 0
  <2>1. f[x] = c[x] * w[x] OBVIOUS
  <2> HIDE DEF f
  <2>2. CASE c[x] = 0 BY <1>1, <2>1, <2>2, Ring
  <2>3. CASE c[x] # 0
    <3>1. w[x] = 0 BY <1>2, <2>3
    <3> QED BY <1>1, <2>1, <3>1, Ring
  <2> QED BY <2>2, <2>3
<1>3. f[y] = c[y] * w[y] OBVIOUS
<1>4. Eval(c, w) = SumOver(f, 1 .. n) BY <1>0 DEF Eval
<1> HIDE DEF f, n
<1>5. f[y] \in Int BY <1>1, <1>3, Ring
<1>6. y \in 1 .. n /\ \A x \in 1 .. n : x # y => f[x] = 0 BY <1>0, <1>2
<1>7. SumOver(f, 1 .. n) = f[y] BY <1>0, <1>5, <1>6, SumSingle
<1> QED BY <1>3, <1>4, <1>7

\* Every variable that is made is the difference of two nodes.
IsArc(v, n, a, b) == \A w \in Vectors : FormsHold(w, n) => w[v] = AtNode(w, a) - AtNode(w, b)

LEMMA ArcOf ==
    ASSUME Differences, NEW n \in Nat, n <= Len(Forms), NEW v \in Var, v <= NumStruct + n
    PROVE  \E a \in 0 .. NumStruct : \E b \in 0 .. NumStruct : IsArc(v, n, a, b)
<1>0. NumStruct \in Nat /\ v \in Nat /\ v # 0 /\ Len(Forms) \in Nat /\ 0 \in 0 .. NumStruct BY Sizes
<1>1. CASE v <= NumStruct
  <2>1. v \in 0 .. NumStruct BY <1>0, <1>1
  <2>2. IsArc(v, n, v, 0)
    <3>1. \A w \in Vectors : w[v] \in Int BY DEF Vectors
    <3> QED BY <1>0, <3>1 DEF IsArc, AtNode
  <2> QED BY <1>0, <2>1, <2>2
<1>2. CASE v > NumStruct
  <2>1. PICK i \in 1 .. n : v = NumStruct + i
    <3>1. v - NumStruct \in 1 .. n /\ v = NumStruct + (v - NumStruct) BY <1>0, <1>2
    <3> QED BY <3>1
  <2>2. i \in 1 .. Len(Forms) BY <1>0
  <2>3. PICK a \in 0 .. NumStruct : \E b \in 0 .. NumStruct : IsDifference(i, a, b) BY <2>2 DEF Differences, IsDifference
  <2>4. PICK b \in 0 .. NumStruct : IsDifference(i, a, b) BY <2>3
  <2>5. \A w \in Vectors : FormValue(i, w) = AtNode(w, a) - AtNode(w, b) BY <2>2, <2>4, DifferenceValue
  <2>6. IsArc(v, n, a, b) BY <2>1, <2>5 DEF IsArc, FormsHold
  <2> QED BY <2>6
<1> QED BY <1>0, <1>1, <1>2

\* The nodes at t or above against the others; the slacks follow their forms.
Over(t, z) == IF z >= t THEN 1 ELSE 0
CutNodes(u, t) == [v \in Var |-> Over(t, u[v]) - Over(t, 0)]
Cut(u, t) == [v \in Var |-> IF v <= NumStruct THEN CutNodes(u, t)[v] ELSE FormValue(v - NumStruct, CutNodes(u, t))]

LEMMA FormValueInt == ASSUME NEW i \in 1 .. Len(Forms), NEW w \in Vectors PROVE FormValue(i, w) \in Int
<1> DEFINE f == [x \in 1 .. NumStruct |-> Forms[i][x] * w[x]]
<1>1. \A x \in 1 .. NumStruct : Forms[i][x] \in Int /\ w[x] \in Int BY Sizes DEF Formed, Vectors
<1>2. \A x \in 1 .. NumStruct : f[x] \in Int BY <1>1, Ring
<1>3. Numbers(f, 1 .. NumStruct) BY <1>2 DEF Numbers
<1> HIDE DEF f
<1>4. SumOver(f, 1 .. NumStruct) \in Int BY <1>3, Sizes, SumSegment
<1> QED BY <1>4 DEF FormValue, f

LEMMA CutIs ==
    ASSUME NEW u \in Vectors, NEW t \in Int, NEW n \in Nat, n <= Len(Forms)
    PROVE  /\ Cut(u, t) \in Vectors /\ FormsHold(Cut(u, t), n)
           /\ \A a \in 0 .. NumStruct : AtNode(Cut(u, t), a) = Over(t, AtNode(u, a)) - Over(t, 0)
<1> DEFINE p == CutNodes(u, t)
           q == Cut(u, t)
<1>0. NumStruct \in Nat /\ Len(Forms) \in Nat /\ NumLinear = NumStruct + Len(Forms) /\ Var = 1 .. NumLinear
  BY Sizes DEF NumLinear
<1>1. p \in Vectors
  <2>1. \A v \in Var : Over(t, u[v]) - Over(t, 0) \in Int BY DEF Over
  <2> QED BY <2>1 DEF CutNodes, Vectors
<1>2. \A v \in Var : q[v] = IF v <= NumStruct THEN p[v] ELSE FormValue(v - NumStruct, p) BY DEF Cut
<1>3. \A v \in Var : p[v] = Over(t, u[v]) - Over(t, 0) BY DEF CutNodes
<1>4. q = [v \in Var |-> q[v]] BY DEF Cut
<1> HIDE DEF p, q
<1>5. ASSUME NEW v \in Var PROVE q[v] \in Int
  <2>1. CASE v <= NumStruct
    <3>1. p[v] \in Int BY <1>1 DEF Vectors
    <3> QED BY <1>2, <2>1, <3>1
  <2>2. CASE ~(v <= NumStruct)
    <3>1. v - NumStruct \in 1 .. Len(Forms) BY <1>0, <2>2
    <3> QED BY <1>1, <1>2, <2>2, <3>1, FormValueInt
  <2> QED BY <2>1, <2>2
<1>6. q \in Vectors BY <1>4, <1>5 DEF Vectors
<1>7. \A x \in 1 .. NumStruct : x \in Var /\ q[x] = p[x]
  <2>1. \A x \in 1 .. NumStruct : x \in Var /\ x <= NumStruct BY <1>0
  <2> QED BY <1>2, <2>1
<1>8. ASSUME NEW i \in 1 .. n PROVE q[NumStruct + i] = FormValue(i, q)
  <2>1. i \in 1 .. Len(Forms) /\ NumStruct + i \in Var /\ ~(NumStruct + i <= NumStruct) /\ (NumStruct + i) - NumStruct = i
    BY <1>0
  <2>2. q[NumStruct + i] = FormValue(i, p) BY <1>2, <2>1
  <2>3. [x \in 1 .. NumStruct |-> Forms[i][x] * q[x]] = [x \in 1 .. NumStruct |-> Forms[i][x] * p[x]] BY <1>7
  <2> QED BY <2>2, <2>3 DEF FormValue
<1>9. ASSUME NEW a \in 0 .. NumStruct PROVE AtNode(q, a) = Over(t, AtNode(u, a)) - Over(t, 0)
  <2>1. CASE a = 0 BY <2>1 DEF AtNode, Over
  <2>2. CASE a # 0
    <3>1. a \in 1 .. NumStruct BY <1>0, <2>2
    <3>2. q[a] = p[a] /\ p[a] = Over(t, u[a]) - Over(t, 0) BY <1>3, <1>7, <3>1
    <3> QED BY <2>2, <3>2 DEF AtNode
  <2> QED BY <2>1, <2>2
<1> QED BY <1>6, <1>8, <1>9 DEF FormsHold, q

LEMMA OverIs == ASSUME NEW t \in Int, NEW z \in Int PROVE Over(t, z) \in {0, 1} /\ (Over(t, z) = 1 <=> z >= t)
BY DEF Over

LEMMA NodeInt == ASSUME NEW u \in Vectors, NEW a \in 0 .. NumStruct PROVE AtNode(u, a) \in Int
<1>1. CASE a = 0 BY <1>1 DEF AtNode
<1>2. CASE a # 0
  <2>1. a \in Var /\ u[a] \in Int BY <1>2, Sizes DEF Vectors
  <2> QED BY <1>2, <2>1 DEF AtNode
<1> QED BY <1>1, <1>2

\* A cut of the nodes cuts every variable alike.
LEMMA CutArc ==
    ASSUME NEW u \in Vectors, NEW t \in Int, NEW n \in Nat, n <= Len(Forms), NEW v \in Var, NEW a \in 0 .. NumStruct, NEW b \in 0 .. NumStruct,
           IsArc(v, n, a, b), FormsHold(u, n)
    PROVE  /\ u[v] = AtNode(u, a) - AtNode(u, b)
           /\ Cut(u, t)[v] = Over(t, AtNode(u, a)) - Over(t, AtNode(u, b))
           /\ AtNode(u, a) \in Int /\ AtNode(u, b) \in Int
<1>1. /\ Cut(u, t) \in Vectors /\ FormsHold(Cut(u, t), n)
      /\ AtNode(Cut(u, t), a) = Over(t, AtNode(u, a)) - Over(t, 0)
      /\ AtNode(Cut(u, t), b) = Over(t, AtNode(u, b)) - Over(t, 0)
  BY CutIs
<1>2. u[v] = AtNode(u, a) - AtNode(u, b) BY DEF IsArc
<1>3. Cut(u, t)[v] = AtNode(Cut(u, t), a) - AtNode(Cut(u, t), b) BY <1>1 DEF IsArc
<1>4. AtNode(u, a) \in Int /\ AtNode(u, b) \in Int BY NodeInt
<1>5. 0 \in Int OBVIOUS
<1>6. Over(t, AtNode(u, a)) \in Int /\ Over(t, AtNode(u, b)) \in Int /\ Over(t, 0) \in Int
  BY <1>4, <1>5, OverIs
<1> QED BY <1>1, <1>2, <1>3, <1>4, <1>6

\* The coefficients of y in the rows are the values of a cut: -1, 0 or 1.
LEMMA DifferencesUnimodular == ASSUME Differences, SimplexInv, FollowInv PROVE Unimodular
<1> DEFINE L == Len(rows)
           P == Own(rows, rowOf)
<1>1. TableauRight(rows, rowOf) BY DEF SimplexInv, TableauInv
<1>2. L \in Nat /\ DOMAIN rows = 1 .. L /\ P \in [Var -> Vectors] /\ L <= Len(Forms)
      /\ \A v \in Var : rowOf[v] # 0 => rowOf[v] \in 1 .. L
  BY <1>1, RowIs DEF TableauRight
<1>3. ASSUME NEW q \in 1 .. L, NEW y \in Var, rows[q].coeffs[y] # 0 PROVE rows[q].coeffs[y] \in -1 .. 1
  <2> DEFINE u == [v \in Var |-> P[v][y]]
  <2>1. rowOf[y] = 0 /\ y <= NumStruct + L BY <1>1, <1>3, RowMentions
  <2>2. u \in Vectors
    <3>1. \A v \in Var : P[v][y] \in Int BY <1>2 DEF Vectors
    <3> QED BY <3>1 DEF Vectors
  <2>3. \A v \in Var : rowOf[v] = 0 => u[v] = IF v = y THEN 1 ELSE 0
    <3> TAKE v \in Var
    <3>1. rowOf[v] = 0 => P[v] = UnitRow(v) BY DEF Own
    <3>2. UnitRow(v)[y] = IF y = v THEN 1 ELSE 0 BY UnitIs
    <3> QED BY <3>1, <3>2
  <2>4. FormsHold(u, L)
    <3>1. ASSUME NEW i \in 1 .. L PROVE u[NumStruct + i] = FormValue(i, u)
      <4>1. i \in 1 .. Len(Forms) /\ NumStruct + i \in Var
        <5>1. i \in 1 .. Len(Forms) BY <1>2, Sizes
        <5> QED BY <5>1, Sizes
      <4>2. P[NumStruct + i] = SolvedBy(Forms[i], P) BY <1>1 DEF TableauRight
      <4>3. u[NumStruct + i] = SumOver([x \in 1 .. NumStruct |-> Forms[i][x] * P[x][y]], 1 .. NumStruct)
        BY <4>1, <4>2 DEF SolvedBy
      <4>4. \A x \in 1 .. NumStruct : u[x] = P[x][y]
        <5>1. \A x \in 1 .. NumStruct : x \in Var BY Sizes
        <5> QED BY <5>1
      <4>5. [x \in 1 .. NumStruct |-> Forms[i][x] * P[x][y]] = [x \in 1 .. NumStruct |-> Forms[i][x] * u[x]] BY <4>4
      <4> QED BY <4>3, <4>5 DEF FormValue
    <3> QED BY <3>1 DEF FormsHold
  <2> HIDE DEF u, P, L
  <2>5. PICK a \in 0 .. NumStruct : \E b \in 0 .. NumStruct : IsArc(y, L, a, b) BY <1>2, <2>1, ArcOf
  <2>6. PICK b \in 0 .. NumStruct : IsArc(y, L, a, b) BY <2>5
  <2> DEFINE t == AtNode(u, a)
             w == Cut(u, t)
  <2>7. t \in Int BY <2>2, NodeInt
  <2>8. w \in Vectors /\ FormsHold(w, L)
    <3> HIDE DEF t
    <3> QED BY <1>2, <2>2, <2>7, CutIs
  <2>9. w[y] = 1
    <3> HIDE DEF t
    <3>1. u[y] = AtNode(u, a) - AtNode(u, b) /\ w[y] = Over(t, AtNode(u, a)) - Over(t, AtNode(u, b))
          /\ AtNode(u, a) \in Int /\ AtNode(u, b) \in Int
      <4>1. L \in Nat /\ L <= Len(Forms) BY <1>2
      <4>2. u[y] = AtNode(u, a) - AtNode(u, b) /\ Cut(u, t)[y] = Over(t, AtNode(u, a)) - Over(t, AtNode(u, b))
            /\ AtNode(u, a) \in Int /\ AtNode(u, b) \in Int
        BY <2>2, <2>4, <2>5, <2>6, <2>7, <4>1, CutArc
      <4> QED BY <4>2
    <3>2. u[y] = 1 BY <2>1, <2>3
    <3>3. AtNode(u, a) >= t /\ ~(AtNode(u, b) >= t) BY <3>1, <3>2 DEF t
    <3>4. Over(t, AtNode(u, a)) = 1 /\ Over(t, AtNode(u, b)) = 0 BY <2>7, <3>1, <3>3, OverIs
    <3> QED BY <3>1, <3>4
  <2> HIDE DEF t, w
  <2>10. ASSUME NEW v \in Var, v <= NumStruct + L PROVE w[v] \in -1 .. 1 /\ (u[v] = 0 => w[v] = 0)
    <3>1. PICK c \in 0 .. NumStruct : \E d \in 0 .. NumStruct : IsArc(v, L, c, d) BY <1>2, <2>10, ArcOf
    <3>2. PICK d \in 0 .. NumStruct : IsArc(v, L, c, d) BY <3>1
    <3>3. u[v] = AtNode(u, c) - AtNode(u, d) /\ w[v] = Over(t, AtNode(u, c)) - Over(t, AtNode(u, d))
          /\ AtNode(u, c) \in Int /\ AtNode(u, d) \in Int
      <4>1. L \in Nat /\ L <= Len(Forms) BY <1>2
      <4>2. u[v] = AtNode(u, c) - AtNode(u, d) /\ Cut(u, t)[v] = Over(t, AtNode(u, c)) - Over(t, AtNode(u, d))
            /\ AtNode(u, c) \in Int /\ AtNode(u, d) \in Int
        BY <2>2, <2>4, <2>7, <3>1, <3>2, <4>1, CutArc
      <4> QED BY <4>2 DEF w
    <3>4. Over(t, AtNode(u, c)) \in {0, 1} /\ Over(t, AtNode(u, d)) \in {0, 1} BY <2>7, <3>3, OverIs
    <3>5. w[v] \in -1 .. 1 BY <3>3, <3>4
    <3>6. ASSUME u[v] = 0 PROVE w[v] = 0
      <4>1. AtNode(u, c) = AtNode(u, d) BY <3>3, <3>6
      <4> QED BY <3>3, <3>4, <4>1
    <3> QED BY <3>5, <3>6
  <2>11. RowsHold(rows, w) BY <2>8 DEF FollowInv, L
  <2> DEFINE c == rows[q].coeffs
             v == rows[q].basic
  <2>12. c \in Vectors /\ v \in Var /\ v <= NumStruct + L BY <1>1, RowEach DEF TableauRight, L
  <2>13. w[v] = Eval(c, w) BY <2>11 DEF RowsHold, L
  <2>14. \A x \in Var : x # y /\ c[x] # 0 => w[x] = 0
    <3> SUFFICES ASSUME NEW x \in Var, x # y, c[x] # 0 PROVE w[x] = 0 OBVIOUS
    <3>1. rowOf[x] = 0 /\ x <= NumStruct + L BY <1>1, RowMentions DEF L
    <3>2. u[x] = 0 BY <2>3, <3>1
    <3> QED BY <2>10, <3>1, <3>2
  <2> HIDE DEF c, v
  <2>15. Eval(c, w) = c[y] * w[y] BY <2>8, <2>12, <2>14, EvalSingle
  <2>16. c[y] \in Int BY <2>12 DEF Vectors
  <2>17. c[y] = w[v] BY <2>9, <2>13, <2>15, <2>16, Ring
  <2>18. c[y] \in -1 .. 1 BY <2>10, <2>12, <2>17
  <2> QED BY <2>18 DEF c
<1>4. ASSUME NEW q \in 1 .. L PROVE rows[q].coeffs \in Coeffs
  <2>1. rows[q].coeffs \in Vectors BY <1>1, RowEach
  <2>2. 0 \in -1 .. 1 OBVIOUS
  <2>3. \A y \in Var : rows[q].coeffs[y] \in -1 .. 1 BY <1>3, <2>2
  <2> QED BY <2>1, <2>3 DEF Vectors, Coeffs
<1> QED BY <1>2, <1>4 DEF Unimodular

\* Forms that are a variable, its negative or a difference of two keep every tableau that
\* pivots can reach unimodular, so for them all of SimplexExact holds outright.
THEOREM DifferencesAreExact == ASSUME Differences PROVE SimplexSpec => [](SimplexExact /\ Unimodular)
<1>1. SimplexInit => SimplexInv /\ FollowInv BY InitInv, InitFollows
<1>2. SimplexInv /\ FollowInv /\ [SimplexNext]_simplexVars => SimplexInv' /\ FollowInv'
  BY DifferencesUnimodular, StepInv, StepFollows
<1>3. SimplexInv /\ FollowInv => SimplexExact /\ Unimodular BY InvExact, DifferencesUnimodular
<1> QED BY <1>1, <1>2, <1>3, PTL DEF SimplexSpec

-----------------------------------------------------------------------------
(* The bounds are those of the tags that are live, at every scope *)

LEMMA MinIs == ASSUME NEW S \in SUBSET Nat, NEW m \in S, \A y \in S : m <= y PROVE Min(S) = m
<1> DEFINE c == CHOOSE x \in S : \A y \in S : x <= y
<1>1. c \in S /\ \A y \in S : c <= y OBVIOUS
<1>2. Min(S) = c BY DEF Min
<1> HIDE DEF c
<1>3. c \in Nat /\ m \in Nat /\ c <= m /\ m <= c BY <1>1
<1> QED BY <1>2, <1>3

\* The bound of v on one side once the log is undone down to mark.
Hits(log, isLower, mark, v) == {i \in (mark + 1) .. Len(log) : log[i].var = v /\ log[i].lower = isLower}
Back(b, log, isLower, mark, v) == LET hits == Hits(log, isLower, mark, v) IN IF hits = {} THEN b ELSE log[Min(hits)].old

LEMMA HitsNat == ASSUME NEW log \in Seq(UndoRec), NEW mark \in Nat, NEW isLower, NEW v PROVE Hits(log, isLower, mark, v) \in SUBSET Nat
<1>1. Len(log) \in Nat BY LenProperties
<1> QED BY <1>1 DEF Hits

LEMMA BackNow == ASSUME NEW log \in Seq(UndoRec), NEW b, NEW isLower, NEW v PROVE Back(b, log, isLower, Len(log), v) = b
<1>1. Len(log) \in Nat /\ (Len(log) + 1) .. Len(log) = {}
  <2>1. Len(log) \in Nat BY LenProperties
  <2> QED BY <2>1
<1>2. Hits(log, isLower, Len(log), v) = {} BY <1>1 DEF Hits
<1> QED BY <1>2 DEF Back

\* An entry that is logged is undone first of all.
LEMMA BackAppend ==
    ASSUME NEW log \in Seq(UndoRec), NEW e \in UndoRec, NEW mark \in 0 .. Len(log), NEW isLower, NEW v, NEW b, NEW c,
           (e.var = v /\ e.lower = isLower) => e.old = b, ~(e.var = v /\ e.lower = isLower) => c = b
    PROVE  Back(c, Append(log, e), isLower, mark, v) = Back(b, log, isLower, mark, v)
<1> DEFINE L == Len(log)
           t == Append(log, e)
           S == Hits(log, isLower, mark, v)
           T == Hits(t, isLower, mark, v)
           here == e.var = v /\ e.lower = isLower
<1>1. L \in Nat /\ mark \in Nat /\ mark <= L BY LenProperties
<1>2. t \in Seq(UndoRec) /\ Len(t) = L + 1 /\ t[L + 1] = e /\ \A i \in 1 .. L : t[i] = log[i] BY AppendProperties
<1>3. S \in SUBSET Nat /\ T \in SUBSET Nat BY <1>1, <1>2, HitsNat
<1>4. \A i : i \in S <=> i \in (mark + 1) .. L /\ log[i].var = v /\ log[i].lower = isLower BY DEF Hits
<1>5. \A i : i \in T <=> i \in (mark + 1) .. (L + 1) /\ t[i].var = v /\ t[i].lower = isLower BY <1>2 DEF Hits
<1>6. Back(c, t, isLower, mark, v) = (IF T = {} THEN c ELSE t[Min(T)].old) /\ Back(b, log, isLower, mark, v) = IF S = {} THEN b ELSE log[Min(S)].old
  BY DEF Back
<1> HIDE DEF S, T, t, L
<1>7. \A i \in (mark + 1) .. L : i \in 1 .. L /\ (i \in S <=> i \in T)
  <2>1. \A i \in (mark + 1) .. L : i \in 1 .. L /\ i \in (mark + 1) .. (L + 1) BY <1>1
  <2> QED BY <1>2, <1>4, <1>5, <2>1
<1>8. L + 1 \in T <=> here
  <2>1. L + 1 \in (mark + 1) .. (L + 1) BY <1>1
  <2> QED BY <1>2, <1>5, <2>1
<1>9. \A i \in T : i \in S \/ (i = L + 1 /\ here)
  <2>1. \A i \in (mark + 1) .. (L + 1) : i \in (mark + 1) .. L \/ i = L + 1 BY <1>1
  <2> QED BY <1>5, <1>7, <1>8, <2>1
<1>10. S \subseteq T /\ \A i \in S : i \in 1 .. L /\ i <= L BY <1>1, <1>4, <1>7
<1>11. CASE S = {}
  <2>1. CASE here
    <3>1. T = {L + 1} BY <1>8, <1>9, <1>11, <2>1
    <3>2. Min(T) = L + 1 BY <1>1, <1>3, <3>1, MinIs
    <3> QED BY <1>2, <1>6, <1>11, <2>1, <3>1, <3>2 DEF t
  <2>2. CASE ~here
    <3>1. T = {} BY <1>9, <1>11, <2>2
    <3> QED BY <1>6, <1>11, <2>2, <3>1 DEF t
  <2> QED BY <2>1, <2>2
<1>12. CASE S # {}
  <2>1. PICK m \in S : \A y \in S : m <= y BY <1>3, <1>12, LeastIs
  <2>2. Min(S) = m BY <1>3, <2>1, MinIs
  <2>3. m <= L /\ m \in 1 .. L /\ m \in T BY <1>10, <2>1
  <2>4. \A y \in T : m <= y BY <1>1, <1>9, <2>1, <2>3
  <2>5. Min(T) = m BY <1>3, <2>3, <2>4, MinIs
  <2>6. t[m] = log[m] BY <1>2, <2>3
  <2> QED BY <1>6, <1>12, <2>2, <2>3, <2>5, <2>6 DEF t
<1> QED BY <1>11, <1>12

\* Undoing in two steps is undoing in one.
LEMMA BackSub ==
    ASSUME NEW log \in Seq(UndoRec), NEW m \in 0 .. Len(log), NEW mark \in 0 .. m, NEW isLower, NEW v, NEW b, NEW c,
           c = Back(b, log, isLower, m, v)
    PROVE  Back(c, SubSeq(log, 1, m), isLower, mark, v) = Back(b, log, isLower, mark, v)
<1> DEFINE L == Len(log)
           t == SubSeq(log, 1, m)
           S == Hits(log, isLower, mark, v)
           T == Hits(t, isLower, mark, v)
           U == Hits(log, isLower, m, v)
<1>1. L \in Nat /\ mark \in Nat /\ m \in Nat /\ mark <= m /\ m <= L
  <2>1. L \in Nat BY LenProperties
  <2> QED BY <2>1
<1>2. t \in Seq(UndoRec) /\ Len(t) = m /\ \A i \in 1 .. m : t[i] = log[i]
  <2>1. \A i \in 1 .. m : i \in 1 .. L BY <1>1
  <2>2. t \in Seq(UndoRec) /\ Len(t) = m BY <1>1, SubSeqProperties
  <2>3. \A i \in 1 .. m : t[i] = log[i] BY <1>1, SubSeqProperties
  <2> QED BY <2>2, <2>3
<1>3. S \in SUBSET Nat /\ T \in SUBSET Nat /\ U \in SUBSET Nat BY <1>1, <1>2, HitsNat
<1>4. \A i : i \in S <=> i \in (mark + 1) .. L /\ log[i].var = v /\ log[i].lower = isLower BY DEF Hits
<1>5. \A i : i \in T <=> i \in (mark + 1) .. m /\ t[i].var = v /\ t[i].lower = isLower BY <1>2 DEF Hits
<1>55. \A i : i \in U <=> i \in (m + 1) .. L /\ log[i].var = v /\ log[i].lower = isLower BY DEF Hits
<1>6. /\ Back(c, t, isLower, mark, v) = (IF T = {} THEN c ELSE t[Min(T)].old)
      /\ Back(b, log, isLower, mark, v) = (IF S = {} THEN b ELSE log[Min(S)].old)
      /\ c = IF U = {} THEN b ELSE log[Min(U)].old
  BY DEF Back
<1> HIDE DEF S, T, U, t, L
<1>7. \A i \in T : i \in S /\ i <= m /\ i \in 1 .. m
  <2>1. \A i \in (mark + 1) .. m : i \in 1 .. m /\ i \in (mark + 1) .. L /\ i <= m BY <1>1
  <2> QED BY <1>2, <1>4, <1>5, <2>1
<1>8. \A i \in S : i \in T \/ (i \in U /\ i > m)
  <2> TAKE i \in S
  <2>1. i \in (mark + 1) .. L /\ log[i].var = v /\ log[i].lower = isLower BY <1>4
  <2>2. CASE i <= m
    <3>1. i \in (mark + 1) .. m /\ i \in 1 .. m BY <1>1, <2>1, <2>2
    <3> QED BY <1>2, <1>5, <2>1, <3>1
  <2>3. CASE ~(i <= m)
    <3>1. i \in (m + 1) .. L /\ i > m BY <1>1, <2>1, <2>3
    <3> QED BY <1>55, <2>1, <3>1
  <2> QED BY <2>2, <2>3
<1>9. U \subseteq S
  <2>1. \A i \in (m + 1) .. L : i \in (mark + 1) .. L BY <1>1
  <2> QED BY <1>4, <1>55, <2>1
<1>10. CASE T = {}
  <2>1. S = U BY <1>8, <1>9, <1>10
  <2> QED BY <1>6, <1>10, <2>1 DEF t
<1>11. CASE T # {}
  <2>1. PICK k \in T : \A y \in T : k <= y BY <1>3, <1>11, LeastIs
  <2>2. Min(T) = k BY <1>3, <2>1, MinIs
  <2>3. k \in S /\ k \in 1 .. m /\ k <= m /\ k \in Nat BY <1>3, <1>7, <2>1
  <2>4. ASSUME NEW y \in S PROVE k <= y
    <3>1. CASE y \in T BY <2>1, <3>1
    <3>2. CASE y > m BY <1>1, <1>3, <2>3, <3>2
    <3> QED BY <1>8, <3>1, <3>2
  <2>5. Min(S) = k BY <1>3, <2>3, <2>4, MinIs
  <2>6. t[k] = log[k] BY <1>2, <2>3
  <2> QED BY <1>6, <1>11, <2>2, <2>3, <2>5, <2>6 DEF t
<1> QED BY <1>10, <1>11


\* The length of the log at the k-th scope, and the tags asserted up to there.
MarkAt(log, sc, k) == IF k < Len(sc) THEN sc[k + 1] ELSE Len(log)
LiveTo(lv, k) == UNION {lv[i] : i \in 1 .. k + 1}

\* The tags that bound v on one side, and the tightest of their bounds.
Sided(S, isLower, v) == {t \in S : Bounds[t].var = v /\ Bounds[t].lower = isLower}
Tightest(b, isLower, v, S) ==
    /\ Sided(S, isLower, v) = {} => b = NoBound
    /\ Sided(S, isLower, v) # {} => b.tag \in Sided(S, isLower, v) /\ b.val = Bounds[b.tag].val
    /\ \A t \in Sided(S, isLower, v) : IF isLower THEN Bounds[t].val <= b.val ELSE Bounds[t].val >= b.val

LevelsRight(lo, up, log, sc, lv) ==
    /\ lv \in Seq(SUBSET Tag) /\ Len(lv) = Len(sc) + 1
    /\ \A k \in 0 .. Len(sc) : \A isLower \in BOOLEAN : \A v \in Var :
         Tightest(Back(BoundOf(lo, up, isLower, v), log, isLower, MarkAt(log, sc, k), v), isLower, v, LiveTo(lv, k))

LEMMA MarkIs ==
    ASSUME NEW log \in Seq(UndoRec), NEW sc, ScopesRight(sc, Len(log)), NEW k \in 0 .. Len(sc)
    PROVE  /\ MarkAt(log, sc, k) \in 0 .. Len(log) /\ Len(log) \in Nat /\ Len(sc) \in Nat
           /\ k < Len(sc) => MarkAt(log, sc, k) = sc[k + 1] /\ k + 1 \in 1 .. Len(sc)
           /\ k = Len(sc) => MarkAt(log, sc, k) = Len(log)
<1>1. sc \in Seq(Nat) /\ Len(log) \in Nat BY LenProperties DEF ScopesRight
<1>2. Len(sc) \in Nat BY <1>1, LenProperties
<1>3. CASE k < Len(sc)
  <2>1. k + 1 \in 1 .. Len(sc) BY <1>2, <1>3
  <2>2. sc[k + 1] \in Nat /\ sc[k + 1] <= Len(log) BY <1>1, <2>1, ElementOfSeq DEF ScopesRight
  <2> QED BY <1>1, <1>2, <1>3, <2>1, <2>2 DEF MarkAt
<1>4. CASE ~(k < Len(sc)) BY <1>1, <1>2, <1>4 DEF MarkAt
<1> QED BY <1>3, <1>4

\* The levels that stay when the sequence of levels is cut or grown.
LEMMA LiveToSame ==
    ASSUME NEW lv, NEW lw, NEW k \in Nat, \A i \in 1 .. k + 1 : lw[i] = lv[i]
    PROVE  LiveTo(lw, k) = LiveTo(lv, k)
BY DEF LiveTo

\* A tag more: the tightest bound is the old one or the new one.
LEMMA TightestMore ==
    ASSUME NEW b \in BoundRec, NEW c \in BoundRec, NEW isLower \in BOOLEAN, NEW v \in Var, NEW S \in SUBSET Tag, NEW t \in Tag,
           Tightest(b, isLower, v, S),
           IF Bounds[t].var = v /\ Bounds[t].lower = isLower
           THEN \/ c = b /\ b.tag # 0 /\ (IF isLower THEN Bounds[t].val <= b.val ELSE Bounds[t].val >= b.val)
                \/ c = [val |-> Bounds[t].val, tag |-> t] /\ Weaker(isLower, b, c)
           ELSE c = b
    PROVE  Tightest(c, isLower, v, S \cup {t})
<1> DEFINE A == Sided(S, isLower, v)
           B == Sided(S \cup {t}, isLower, v)
           here == Bounds[t].var = v /\ Bounds[t].lower = isLower
<1>1. \A x : x \in A <=> x \in S /\ Bounds[x].var = v /\ Bounds[x].lower = isLower BY DEF Sided
<1>2. \A x : x \in B <=> (x \in S \/ x = t) /\ Bounds[x].var = v /\ Bounds[x].lower = isLower BY DEF Sided
<1>3. /\ A = {} => b = NoBound
      /\ A # {} => b.tag \in A /\ b.val = Bounds[b.tag].val
      /\ \A x \in A : IF isLower THEN Bounds[x].val <= b.val ELSE Bounds[x].val >= b.val
  BY DEF Tightest
<1>4. \A x \in Tag : Bounds[x].val \in Int /\ x \in Nat \ {0} BY TagIs
<1>5. b.val \in Int /\ c.val \in Int BY DEF BoundRec
<1> HIDE DEF A, B
<1>6. SUFFICES /\ B = {} => c = NoBound
               /\ B # {} => c.tag \in B /\ c.val = Bounds[c.tag].val
               /\ \A x \in B : IF isLower THEN Bounds[x].val <= c.val ELSE Bounds[x].val >= c.val
  BY DEF Tightest, B
<1>7. CASE ~here
  <2>1. A = B BY <1>1, <1>2, <1>7
  <2> QED BY <1>3, <1>7, <2>1
<1>8. CASE here
  <2>1. t \in B /\ A \subseteq B /\ \A x \in B : x \in A \/ x = t BY <1>1, <1>2, <1>8
  <2>2. CASE c = b /\ b.tag # 0 /\ (IF isLower THEN Bounds[t].val <= b.val ELSE Bounds[t].val >= b.val)
    <3>1. A # {} BY <1>3, <2>2 DEF NoBound
    <3> QED BY <1>3, <2>1, <2>2, <3>1
  <2>3. CASE c = [val |-> Bounds[t].val, tag |-> t] /\ Weaker(isLower, b, c)
    <3>1. c.tag = t /\ c.val = Bounds[t].val BY <2>3
    <3>2. ASSUME NEW x \in A PROVE IF isLower THEN Bounds[x].val <= c.val ELSE Bounds[x].val >= c.val
      <4>1. b.tag \in A /\ x \in Tag /\ b.tag \in Tag BY <1>1, <1>3, <3>2
      <4>2. b.tag # 0 BY <1>4, <4>1
      <4>3. IF isLower THEN b.val <= c.val ELSE b.val >= c.val BY <2>3, <4>2 DEF Weaker
      <4> QED BY <1>3, <1>4, <1>5, <3>2, <4>1, <4>3
    <3> QED BY <1>4, <2>1, <3>1, <3>2
  <2> QED BY <1>8, <2>2, <2>3
<1> QED BY <1>7, <1>8

LevelsInv == LevelsRight(lower, upper, undoBounds, scopes, live)

LEMMA BackIs ==
    ASSUME NEW b \in BoundRec, NEW log \in Seq(UndoRec), NEW mark \in Nat, NEW isLower, NEW v
    PROVE  Back(b, log, isLower, mark, v) \in BoundRec
<1> DEFINE S == Hits(log, isLower, mark, v)
<1>1. S \in SUBSET Nat BY HitsNat
<1>2. Len(log) \in Nat BY LenProperties
<1>3. CASE S = {} BY <1>3 DEF Back
<1>4. CASE S # {}
  <2>1. PICK m \in S : \A y \in S : m <= y BY <1>1, <1>4, LeastIs
  <2>2. Min(S) = m BY <1>1, <2>1, MinIs
  <2>3. m \in 1 .. Len(log)
    <3>1. m \in (mark + 1) .. Len(log) BY <2>1 DEF Hits
    <3> QED BY <1>2, <3>1
  <2>4. log[m].old \in BoundRec BY <2>3, LogEntry
  <2> QED BY <1>4, <2>2, <2>4 DEF Back
<1> QED BY <1>3, <1>4

\* What is in force is the last level.
LEMMA LastLevel ==
    ASSUME BoundsInv, LevelsInv, NEW isLower \in BOOLEAN, NEW v \in Var
    PROVE  /\ Tightest(BoundOf(lower, upper, isLower, v), isLower, v, LiveTags)
           /\ LiveTags = LiveTo(live, Len(scopes)) /\ LiveTags \in SUBSET Tag
           /\ BoundOf(lower, upper, isLower, v) \in BoundRec
<1>1. undoBounds \in Seq(UndoRec) /\ ScopesRight(scopes, Len(undoBounds)) /\ lower \in [Var -> BoundRec] /\ upper \in [Var -> BoundRec]
  BY DEF BoundsInv, BoundsRight, LogRight
<1>2. Len(scopes) \in Nat
  <2>1. scopes \in Seq(Nat) BY <1>1 DEF ScopesRight
  <2> QED BY <2>1, LenProperties
<1>3. live \in Seq(SUBSET Tag) /\ Len(live) = Len(scopes) + 1 BY DEF LevelsInv, LevelsRight
<1>4. DOMAIN live = 1 .. Len(scopes) + 1 BY <1>3, LenProperties
<1>5. LiveTags = LiveTo(live, Len(scopes)) BY <1>4 DEF LiveTags, LiveTo
<1>6. \A i \in 1 .. Len(scopes) + 1 : live[i] \in SUBSET Tag BY <1>3, ElementOfSeq
<1>7. LiveTags \in SUBSET Tag BY <1>4, <1>6 DEF LiveTags
<1>8. MarkAt(undoBounds, scopes, Len(scopes)) = Len(undoBounds) BY <1>2 DEF MarkAt
<1>9. Len(scopes) \in 0 .. Len(scopes) BY <1>2
<1>10. Tightest(Back(BoundOf(lower, upper, isLower, v), undoBounds, isLower, MarkAt(undoBounds, scopes, Len(scopes)), v), isLower, v, LiveTo(live, Len(scopes)))
  BY <1>9 DEF LevelsInv, LevelsRight
<1>11. Back(BoundOf(lower, upper, isLower, v), undoBounds, isLower, Len(undoBounds), v) = BoundOf(lower, upper, isLower, v)
  BY <1>1, BackNow
<1>12. BoundOf(lower, upper, isLower, v) \in BoundRec BY <1>1 DEF BoundOf
<1> QED BY <1>5, <1>7, <1>8, <1>10, <1>11, <1>12

LEMMA AssertLevels == ASSUME BoundsInv, LevelsInv, NEW t \in Tag, AssertTag(t) PROVE LevelsInv'
<1> DEFINE x == Bounds[t].var
           l == Bounds[t].lower
           val == Bounds[t].val
           K == Len(scopes)
<1>1. t \in Nat \ {0} /\ x \in Var /\ l \in BOOLEAN /\ val \in Int BY TagIs
<1>2. /\ AssertBound(x, l, val, t) /\ scopes' = scopes
      /\ live' = IF answer'.kind = "unsat" THEN live ELSE [live EXCEPT ![Len(live)] = @ \cup {t}]
  BY DEF AssertTag
<1>3. /\ undoBounds \in Seq(UndoRec) /\ ScopesRight(scopes, Len(undoBounds)) /\ lower \in [Var -> BoundRec] /\ upper \in [Var -> BoundRec]
      /\ scopes \in Seq(Nat) /\ BoundsRight(lower, upper, undoBounds, scopes)
  BY DEF BoundsInv, BoundsRight, LogRight, ScopesRight
<1>4. K \in Nat BY <1>3, LenProperties
<1>5. live \in Seq(SUBSET Tag) /\ Len(live) = K + 1 /\ DOMAIN live = 1 .. K + 1 /\ \A i \in 1 .. K + 1 : live[i] \in SUBSET Tag
  <2>1. live \in Seq(SUBSET Tag) /\ Len(live) = K + 1 BY DEF LevelsInv, LevelsRight
  <2> QED BY <2>1, LenProperties, ElementOfSeq
<1> HIDE DEF x, l, val, K
<1>6. CASE Refuse(x, l, val, t)
  <2>1. answer'.kind = "unsat" BY <1>6 DEF Refuse
  <2>2. live' = live BY <1>2, <2>1
  <2>3. lower' = lower /\ upper' = upper /\ undoBounds' = undoBounds BY <1>6 DEF Refuse
  <2> QED BY <1>2, <2>2, <2>3 DEF LevelsInv
<1>7. ASSUME answer' = Ok,
             /\ lower' \in [Var -> BoundRec] /\ upper' \in [Var -> BoundRec]
             /\ \A y \in Var : y # x => lower'[y] = lower[y] /\ upper'[y] = upper[y],
             IF l THEN upper' = upper ELSE lower' = lower,
             \/ /\ BoundOf(lower', upper', l, x) = BoundOf(lower, upper, l, x)
                /\ BoundOf(lower, upper, l, x).tag # 0
                /\ IF l THEN val <= BoundOf(lower, upper, l, x).val ELSE val >= BoundOf(lower, upper, l, x).val
                /\ undoBounds' = undoBounds
             \/ /\ BoundOf(lower', upper', l, x) = [val |-> val, tag |-> t]
                /\ Weaker(l, BoundOf(lower, upper, l, x), BoundOf(lower', upper', l, x))
                /\ undoBounds' = IF scopes = << >> THEN undoBounds
                                 ELSE Append(undoBounds, [var |-> x, lower |-> l, old |-> BoundOf(lower, upper, l, x)])
      PROVE  LevelsInv'
  <2>1. answer'.kind # "unsat" BY <1>7 DEF Ok
  <2>2. live' = [live EXCEPT ![K + 1] = @ \cup {t}] BY <1>2, <1>5, <2>1
  <2>3. live' \in Seq(SUBSET Tag) /\ Len(live') = K + 1 /\ live'[K + 1] = live[K + 1] \cup {t} /\ \A i \in 1 .. K : live'[i] = live[i]
    <3>1. K + 1 \in 1 .. K + 1 BY <1>4
    <3>2. live[K + 1] \cup {t} \in SUBSET Tag BY <1>5, <3>1
    <3>3. live' \in Seq(SUBSET Tag) /\ Len(live') = Len(live) BY <1>5, <2>2, <3>1, <3>2, ExceptSeq
    <3>4. \A i \in 1 .. K : i \in 1 .. K + 1 /\ i # K + 1 BY <1>4
    <3> QED BY <1>5, <2>2, <3>1, <3>3, <3>4
  <2>4. ASSUME NEW k \in 0 .. K, NEW isLower \in BOOLEAN, NEW v \in Var
        PROVE  Tightest(Back(BoundOf(lower', upper', isLower, v), undoBounds', isLower, MarkAt(undoBounds', scopes, k), v),
                        isLower, v, LiveTo(live', k))
    <3> DEFINE b == BoundOf(lower, upper, isLower, v)
               c == BoundOf(lower', upper', isLower, v)
    <3>1. b \in BoundRec /\ c \in BoundRec BY <1>3, <1>7 DEF BoundOf
    <3>2. ~(v = x /\ isLower = l) => c = b
      <4>1. CASE v # x BY <1>7, <4>1 DEF BoundOf
      <4>2. CASE isLower # l
        <5>1. CASE l
          <6>1. ~isLower /\ upper' = upper BY <1>7, <4>2, <5>1
          <6> QED BY <6>1 DEF BoundOf
        <5>2. CASE ~l
          <6>1. isLower /\ lower' = lower BY <1>1, <1>7, <4>2, <5>2
          <6> QED BY <6>1 DEF BoundOf
        <5> QED BY <5>1, <5>2
      <4> QED BY <4>1, <4>2
    <3>3. Tightest(Back(b, undoBounds, isLower, MarkAt(undoBounds, scopes, k), v), isLower, v, LiveTo(live, k))
      BY DEF LevelsInv, LevelsRight, K
    <3> HIDE DEF b, c
    <3>4. CASE k = K
      <4>1. MarkAt(undoBounds', scopes, k) = Len(undoBounds') BY <1>4, <3>4 DEF MarkAt, K
      <4>2. undoBounds' \in Seq(UndoRec)
        <5> DEFINE e == [var |-> x, lower |-> l, old |-> BoundOf(lower, upper, l, x)]
        <5>1. e \in UndoRec
          <6>1. BoundOf(lower, upper, l, x) \in BoundRec BY <1>1, <1>3 DEF BoundOf
          <6> QED BY <1>1, <6>1 DEF UndoRec
        <5>2. undoBounds' = undoBounds \/ undoBounds' = Append(undoBounds, e) BY <1>7
        <5> HIDE DEF e
        <5>3. Append(undoBounds, e) \in Seq(UndoRec) BY <1>3, <5>1, AppendProperties
        <5> QED BY <1>3, <5>2, <5>3
      <4>3. Back(c, undoBounds', isLower, Len(undoBounds'), v) = c BY <4>2, BackNow
      <4>4. Tightest(b, isLower, v, LiveTags) /\ LiveTags = LiveTo(live, K) /\ LiveTags \in SUBSET Tag BY LastLevel DEF b, K
      <4>5. LiveTo(live', K) = LiveTags \cup {t}
        <5>1. LiveTo(live, K) = UNION {live[i] : i \in 1 .. K + 1} /\ LiveTo(live', K) = UNION {live'[i] : i \in 1 .. K + 1} BY DEF LiveTo
        <5>2. \A i \in 1 .. K + 1 : i = K + 1 \/ i \in 1 .. K BY <1>4
        <5>3. K + 1 \in 1 .. K + 1 BY <1>4
        <5>4. ASSUME NEW y \in LiveTo(live', K) PROVE y \in LiveTags \cup {t}
          <6>1. PICK i \in 1 .. K + 1 : y \in live'[i] BY <5>1
          <6>2. y \in live[i] \/ y = t BY <2>3, <5>2, <6>1
          <6> QED BY <4>4, <5>1, <6>1, <6>2
        <5>5. ASSUME NEW y \in LiveTags PROVE y \in LiveTo(live', K)
          <6>1. PICK i \in 1 .. K + 1 : y \in live[i] BY <4>4, <5>1
          <6>2. y \in live'[i] BY <2>3, <5>2, <6>1
          <6> QED BY <5>1, <6>1, <6>2
        <5>6. t \in LiveTo(live', K) BY <2>3, <5>1, <5>3
        <5> QED BY <5>4, <5>5, <5>6
      <4>6. IF Bounds[t].var = v /\ Bounds[t].lower = isLower
            THEN \/ c = b /\ b.tag # 0 /\ (IF isLower THEN Bounds[t].val <= b.val ELSE Bounds[t].val >= b.val)
                 \/ c = [val |-> Bounds[t].val, tag |-> t] /\ Weaker(isLower, b, c)
            ELSE c = b
        <5>1. CASE v = x /\ isLower = l BY <1>7, <5>1 DEF x, l, val, b, c
        <5>2. CASE ~(v = x /\ isLower = l) BY <3>2, <5>2 DEF x, l
        <5> QED BY <5>1, <5>2
      <4>7. Tightest(c, isLower, v, LiveTags \cup {t}) BY <3>1, <4>4, <4>6, TightestMore
      <4> QED BY <3>4, <4>1, <4>3, <4>5, <4>7 DEF c
    <3>5. CASE k # K
      <4>1. k \in Nat /\ k < K /\ scopes # << >> /\ \A i \in 1 .. k + 1 : i \in 1 .. K
        <5>1. k \in Nat /\ k < K BY <1>4, <3>5
        <5>2. scopes # << >> BY <1>3, <5>1 DEF K
        <5> QED BY <1>4, <5>1, <5>2
      <4>2. LiveTo(live', k) = LiveTo(live, k) BY <2>3, <4>1, LiveToSame
      <4>3. MarkAt(undoBounds, scopes, k) \in 0 .. Len(undoBounds) /\ MarkAt(undoBounds', scopes, k) = MarkAt(undoBounds, scopes, k)
        <5>1. MarkAt(undoBounds, scopes, k) \in 0 .. Len(undoBounds) BY <1>3, MarkIs DEF K
        <5> QED BY <4>1, <5>1 DEF MarkAt, K
      <4>4. Back(c, undoBounds', isLower, MarkAt(undoBounds, scopes, k), v) = Back(b, undoBounds, isLower, MarkAt(undoBounds, scopes, k), v)
        <5>1. CASE undoBounds' = undoBounds /\ BoundOf(lower', upper', l, x) = BoundOf(lower, upper, l, x)
          <6>1. c = b BY <3>2, <5>1 DEF b, c
          <6> QED BY <5>1, <6>1
        <5>2. CASE undoBounds' = Append(undoBounds, [var |-> x, lower |-> l, old |-> BoundOf(lower, upper, l, x)])
          <6> DEFINE e == [var |-> x, lower |-> l, old |-> BoundOf(lower, upper, l, x)]
          <6>1. e \in UndoRec /\ e.var = x /\ e.lower = l /\ e.old = BoundOf(lower, upper, l, x)
            <7>1. BoundOf(lower, upper, l, x) \in BoundRec BY <1>1, <1>3 DEF BoundOf
            <7> QED BY <1>1, <7>1 DEF UndoRec
          <6>2. undoBounds' = Append(undoBounds, e) BY <5>2
          <6> HIDE DEF e
          <6>3. (e.var = v /\ e.lower = isLower) => e.old = b BY <6>1 DEF b
          <6>4. ~(e.var = v /\ e.lower = isLower) => c = b BY <3>2, <6>1
          <6> QED BY <1>3, <4>3, <6>1, <6>2, <6>3, <6>4, BackAppend
        <5> QED BY <1>7, <4>1, <5>1, <5>2
      <4> QED BY <3>3, <4>2, <4>3, <4>4 DEF c
    <3> QED BY <3>4, <3>5
  <2>5. LevelsRight(lower', upper', undoBounds', scopes, live') BY <2>3, <2>4 DEF LevelsRight, K
  <2> QED BY <1>2, <2>5 DEF LevelsInv
<1>8. CASE AlreadyHolds(x, l, val)
  <2>1. ~Tightens(x, l, val) /\ answer' = Ok /\ lower' = lower /\ upper' = upper /\ undoBounds' = undoBounds BY <1>8 DEF AlreadyHolds
  <2>2. lower[x].val \in Int /\ upper[x].val \in Int BY <1>1, <1>3 DEF BoundRec
  <2>3. /\ BoundOf(lower, upper, l, x).tag # 0
        /\ IF l THEN val <= BoundOf(lower, upper, l, x).val ELSE val >= BoundOf(lower, upper, l, x).val
    BY <1>1, <2>1, <2>2 DEF Tightens, BoundOf
  <2> QED BY <1>3, <1>7, <2>1, <2>3
<1>9. CASE Tighten(x, l, val, t)
  <2>1. /\ BoundsRight(lower', upper', undoBounds', scopes)
        /\ \A y \in Var : y # x => lower'[y] = lower[y] /\ upper'[y] = upper[y]
        /\ lower'[x] = IF l THEN [val |-> val, tag |-> t] ELSE lower[x]
        /\ upper'[x] = IF l THEN upper[x] ELSE [val |-> val, tag |-> t]
    BY <1>1, <1>3, <1>9, TightenBounds
  <2>2. /\ answer' = Ok /\ Tightens(x, l, val)
        /\ lower' = (IF l THEN [lower EXCEPT ![x] = [val |-> val, tag |-> t]] ELSE lower)
        /\ upper' = (IF l THEN upper ELSE [upper EXCEPT ![x] = [val |-> val, tag |-> t]])
        /\ undoBounds' = IF scopes = << >> THEN undoBounds
                         ELSE Append(undoBounds, [var |-> x, lower |-> l, old |-> IF l THEN lower[x] ELSE upper[x]])
    BY <1>9 DEF Tighten
  <2>3. lower' \in [Var -> BoundRec] /\ upper' \in [Var -> BoundRec] BY <2>1 DEF BoundsRight
  <2>4. BoundOf(lower', upper', l, x) = [val |-> val, tag |-> t] /\ BoundOf(lower, upper, l, x) = (IF l THEN lower[x] ELSE upper[x])
    BY <2>1 DEF BoundOf
  <2>5. Weaker(l, BoundOf(lower, upper, l, x), BoundOf(lower', upper', l, x))
    <3>1. lower[x].val \in Int /\ upper[x].val \in Int BY <1>1, <1>3 DEF BoundRec
    <3>2. [val |-> val, tag |-> t].tag # 0 /\ [val |-> val, tag |-> t].val = val BY <1>1
    <3>3. IF l THEN lower[x].tag = 0 \/ val > lower[x].val ELSE upper[x].tag = 0 \/ val < upper[x].val BY <2>2 DEF Tightens
    <3>4. CASE l BY <1>1, <2>4, <3>1, <3>2, <3>3, <3>4 DEF Weaker
    <3>5. CASE ~l BY <1>1, <2>4, <3>1, <3>2, <3>3, <3>5 DEF Weaker
    <3> QED BY <3>4, <3>5
  <2>6. IF l THEN upper' = upper ELSE lower' = lower BY <2>2
  <2>7. undoBounds' = IF scopes = << >> THEN undoBounds
                      ELSE Append(undoBounds, [var |-> x, lower |-> l, old |-> BoundOf(lower, upper, l, x)])
    BY <2>2, <2>4
  <2> QED BY <1>7, <2>1, <2>2, <2>3, <2>4, <2>5, <2>6, <2>7
<1> QED BY <1>2, <1>6, <1>8, <1>9 DEF AssertBound

LEMMA PushLevels == ASSUME BoundsInv, LevelsInv, Push PROVE LevelsInv'
<1> DEFINE K == Len(scopes)
<1>1. /\ scopes' = Append(scopes, Len(undoBounds)) /\ live' = Append(live, {})
      /\ lower' = lower /\ upper' = upper /\ undoBounds' = undoBounds
  BY DEF Push
<1>2. undoBounds \in Seq(UndoRec) /\ ScopesRight(scopes, Len(undoBounds)) /\ scopes \in Seq(Nat)
  BY DEF BoundsInv, BoundsRight, LogRight, ScopesRight
<1>3. K \in Nat /\ Len(undoBounds) \in Nat BY <1>2, LenProperties
<1>4. live \in Seq(SUBSET Tag) /\ Len(live) = K + 1 BY DEF LevelsInv, LevelsRight
<1>5. Len(scopes') = K + 1 /\ scopes'[K + 1] = Len(undoBounds) /\ \A i \in 1 .. K : scopes'[i] = scopes[i]
  BY <1>1, <1>2, <1>3, AppendProperties
<1>6. live' \in Seq(SUBSET Tag) /\ Len(live') = K + 2 /\ live'[K + 2] = {} /\ \A i \in 1 .. K + 1 : live'[i] = live[i]
  <2>1. {} \in SUBSET Tag OBVIOUS
  <2>2. Append(live, {}) \in Seq(SUBSET Tag) /\ Len(Append(live, {})) = Len(live) + 1
        /\ Append(live, {})[Len(live) + 1] = {} /\ \A i \in 1 .. Len(live) : Append(live, {})[i] = live[i]
    BY <1>4, <2>1, AppendProperties
  <2>3. (K + 1) + 1 = K + 2 BY <1>3
  <2> QED BY <1>1, <1>4, <2>2, <2>3
<1> HIDE DEF K
<1>7. ASSUME NEW k \in 0 .. K + 1, NEW isLower \in BOOLEAN, NEW v \in Var
      PROVE  Tightest(Back(BoundOf(lower', upper', isLower, v), undoBounds', isLower, MarkAt(undoBounds', scopes', k), v),
                      isLower, v, LiveTo(live', k))
  <2>1. \A j \in 0 .. K : Tightest(Back(BoundOf(lower, upper, isLower, v), undoBounds, isLower, MarkAt(undoBounds, scopes, j), v), isLower, v, LiveTo(live, j))
    BY DEF LevelsInv, LevelsRight, K
  <2>2. CASE k = K + 1
    <3>1. MarkAt(undoBounds', scopes', k) = MarkAt(undoBounds, scopes, K) BY <1>1, <1>3, <1>5, <2>2 DEF MarkAt, K
    <3>2. LiveTo(live', k) = LiveTo(live, K)
      <4>1. LiveTo(live', k) = UNION {live'[i] : i \in 1 .. K + 2} /\ LiveTo(live, K) = UNION {live[i] : i \in 1 .. K + 1}
        <5>1. (K + 1) + 1 = K + 2 BY <1>3
        <5> QED BY <2>2, <5>1 DEF LiveTo
      <4>2. \A i \in 1 .. K + 2 : i \in 1 .. K + 1 \/ i = K + 2 BY <1>3
      <4>3. \A i \in 1 .. K + 1 : i \in 1 .. K + 2 BY <1>3
      <4>4. ASSUME NEW y \in LiveTo(live', k) PROVE y \in LiveTo(live, K)
        <5>1. PICK i \in 1 .. K + 2 : y \in live'[i] BY <4>1
        <5>2. i \in 1 .. K + 1 BY <1>6, <4>2, <5>1
        <5> QED BY <1>6, <4>1, <5>1, <5>2
      <4>5. ASSUME NEW y \in LiveTo(live, K) PROVE y \in LiveTo(live', k)
        <5>1. PICK i \in 1 .. K + 1 : y \in live[i] BY <4>1
        <5> QED BY <1>6, <4>1, <4>3, <5>1
      <4> QED BY <4>4, <4>5
    <3>3. K \in 0 .. K BY <1>3
    <3> QED BY <1>1, <2>1, <3>1, <3>2, <3>3
  <2>3. CASE k # K + 1
    <3>1. k \in 0 .. K /\ k \in Nat /\ k <= K /\ \A i \in 1 .. k + 1 : i \in 1 .. K + 1 BY <1>3, <2>3
    <3>2. LiveTo(live', k) = LiveTo(live, k) BY <1>6, <3>1, LiveToSame
    <3>3. MarkAt(undoBounds', scopes', k) = MarkAt(undoBounds, scopes, k)
      <4>1. CASE k < K
        <5>1. k + 1 \in 1 .. K /\ k < K + 1 BY <1>3, <3>1, <4>1
        <5> QED BY <1>5, <4>1, <5>1 DEF MarkAt, K
      <4>2. CASE ~(k < K)
        <5>1. k = K /\ k < K + 1 BY <1>3, <3>1, <4>2
        <5> QED BY <1>1, <1>5, <4>2, <5>1 DEF MarkAt, K
      <4> QED BY <4>1, <4>2
    <3> QED BY <1>1, <2>1, <3>1, <3>2, <3>3
  <2> QED BY <2>2, <2>3
<1>8. Len(live') = Len(scopes') + 1 BY <1>3, <1>5, <1>6
<1> QED BY <1>5, <1>6, <1>7, <1>8 DEF LevelsInv, LevelsRight

LEMMA PopLevels == ASSUME BoundsInv, LevelsInv, NEW n \in Nat, n <= Len(scopes), PopTo(n) PROVE LevelsInv'
<1> DEFINE K == Len(scopes)
           m == MarkAt(undoBounds, scopes, n)
<1>1. /\ lower' = Restored(lower, TRUE, m) /\ upper' = Restored(upper, FALSE, m)
      /\ undoBounds' = SubSeq(undoBounds, 1, m) /\ scopes' = SubSeq(scopes, 1, n) /\ live' = SubSeq(live, 1, n + 1)
  BY DEF PopTo, MarkAt
<1>2. /\ undoBounds \in Seq(UndoRec) /\ ScopesRight(scopes, Len(undoBounds)) /\ scopes \in Seq(Nat)
  BY DEF BoundsInv, BoundsRight, LogRight, ScopesRight
<1>3. K \in Nat /\ Len(undoBounds) \in Nat BY <1>2, LenProperties
<1>4. live \in Seq(SUBSET Tag) /\ Len(live) = K + 1 BY DEF LevelsInv, LevelsRight
<1>5. n \in 0 .. K BY <1>3
<1>6. m \in 0 .. Len(undoBounds) /\ m \in Nat /\ m <= Len(undoBounds) BY <1>2, <1>3, <1>5, MarkIs
<1>7. Len(scopes') = n /\ \A i \in 1 .. n : scopes'[i] = scopes[i] BY <1>1, <1>2, <1>3, SubSeqProperties
<1>8. live' \in Seq(SUBSET Tag) /\ Len(live') = n + 1 /\ \A i \in 1 .. n + 1 : live'[i] = live[i]
  <2>1. n + 1 <= K + 1 /\ n + 1 \in Nat BY <1>3
  <2> QED BY <1>1, <1>4, <2>1, SubSeqProperties
<1>9. Len(undoBounds') = m BY <1>1, <1>2, <1>6, SubSeqProperties
<1> HIDE DEF m, K
<1>10. ASSUME NEW isLower \in BOOLEAN, NEW v \in Var
       PROVE  BoundOf(lower', upper', isLower, v) = Back(BoundOf(lower, upper, isLower, v), undoBounds, isLower, m, v)
  <2>1. Restored(lower, TRUE, m)[v] = Back(lower[v], undoBounds, TRUE, m, v) BY DEF Restored, Back, Hits
  <2>2. Restored(upper, FALSE, m)[v] = Back(upper[v], undoBounds, FALSE, m, v) BY DEF Restored, Back, Hits
  <2>3. CASE isLower = TRUE BY <1>1, <2>1, <2>3 DEF BoundOf
  <2>4. CASE isLower = FALSE BY <1>1, <2>2, <2>4 DEF BoundOf
  <2> QED BY <2>3, <2>4
<1>11. ASSUME NEW k \in 0 .. n, NEW isLower \in BOOLEAN, NEW v \in Var
       PROVE  Tightest(Back(BoundOf(lower', upper', isLower, v), undoBounds', isLower, MarkAt(undoBounds', scopes', k), v),
                       isLower, v, LiveTo(live', k))
  <2>1. k \in Nat /\ k <= n /\ k \in 0 .. K /\ \A i \in 1 .. k + 1 : i \in 1 .. n + 1 BY <1>3, <1>5
  <2>2. LiveTo(live', k) = LiveTo(live, k) BY <1>8, <2>1, LiveToSame
  <2>3. MarkAt(undoBounds', scopes', k) = MarkAt(undoBounds, scopes, k) /\ MarkAt(undoBounds, scopes, k) \in 0 .. m
    <3>1. CASE k < n
      <4>1. k + 1 \in 1 .. n /\ k < K /\ k + 1 \in 1 .. K BY <1>3, <1>5, <2>1, <3>1
      <4>2. MarkAt(undoBounds', scopes', k) = scopes[k + 1] /\ MarkAt(undoBounds, scopes, k) = scopes[k + 1]
        BY <1>7, <3>1, <4>1 DEF MarkAt, K
      <4>3. scopes[k + 1] \in Nat BY <1>2, <4>1, ElementOfSeq DEF K
      <4>4. scopes[k + 1] <= m
        <5>1. CASE n < K
          <6>1. n + 1 \in 1 .. K /\ k + 1 < n + 1 BY <1>3, <1>5, <3>1, <5>1
          <6>2. scopes[k + 1] <= scopes[n + 1] BY <1>2, <4>1, <6>1 DEF ScopesRight, K
          <6> QED BY <5>1, <6>2 DEF m, MarkAt, K
        <5>2. CASE ~(n < K) BY <1>2, <4>1, <5>2 DEF ScopesRight, m, MarkAt, K
        <5> QED BY <5>1, <5>2
      <4> QED BY <1>6, <4>2, <4>3, <4>4
    <3>2. CASE ~(k < n)
      <4>1. k = n BY <2>1, <3>2
      <4>2. MarkAt(undoBounds', scopes', k) = m BY <1>7, <1>9, <3>2 DEF MarkAt
      <4> QED BY <1>6, <4>1, <4>2 DEF m
    <3> QED BY <3>1, <3>2
  <2> DEFINE b == BoundOf(lower, upper, isLower, v)
             c == BoundOf(lower', upper', isLower, v)
  <2>4. Tightest(Back(b, undoBounds, isLower, MarkAt(undoBounds, scopes, k), v), isLower, v, LiveTo(live, k))
    BY <2>1 DEF LevelsInv, LevelsRight, K
  <2>5. c = Back(b, undoBounds, isLower, m, v) BY <1>10
  <2> HIDE DEF b, c
  <2>6. Back(c, SubSeq(undoBounds, 1, m), isLower, MarkAt(undoBounds, scopes, k), v) = Back(b, undoBounds, isLower, MarkAt(undoBounds, scopes, k), v)
    BY <1>2, <1>6, <2>3, <2>5, BackSub
  <2> QED BY <1>1, <2>2, <2>3, <2>4, <2>6 DEF c
<1>12. Len(live') = Len(scopes') + 1 BY <1>7, <1>8
<1> QED BY <1>7, <1>8, <1>11, <1>12 DEF LevelsInv, LevelsRight

\* The bounds, the log and the levels do not depend on the tableau.
LEMMA BoundsStep == ASSUME BoundsInv, LevelsInv, [SimplexNext]_simplexVars PROVE BoundsInv' /\ LevelsInv'
<1>1. CASE UNCHANGED boundVars BY <1>1 DEF boundVars, BoundsInv, LevelsInv
<1>2. CASE Push
  <2>1. scopes' = Append(scopes, Len(undoBounds)) /\ lower' = lower /\ upper' = upper /\ undoBounds' = undoBounds BY <1>2 DEF Push
  <2>2. BoundsInv' BY <2>1, PushBounds DEF BoundsInv
  <2> QED BY <1>2, <2>2, PushLevels
<1>3. CASE Pop
  <2>1. scopes # << >> /\ PopTo(Len(scopes) - 1) BY <1>3 DEF Pop
  <2>2. scopes \in Seq(Nat) BY DEF BoundsInv, BoundsRight, ScopesRight
  <2>3. Len(scopes) - 1 \in Nat /\ Len(scopes) - 1 <= Len(scopes) BY <2>1, <2>2, LenProperties, EmptySeq
  <2>4. BoundsInv' BY <2>1, <2>3, PopBounds DEF BoundsInv
  <2> QED BY <2>1, <2>3, <2>4, PopLevels
<1>4. ASSUME NEW t \in Tag, AssertTag(t) PROVE BoundsInv' /\ LevelsInv'
  <2>1. AssertBound(Bounds[t].var, Bounds[t].lower, Bounds[t].val, t) /\ scopes' = scopes BY <1>4 DEF AssertTag
  <2>2. CASE Tighten(Bounds[t].var, Bounds[t].lower, Bounds[t].val, t)
    <3>1. BoundsRight(lower', upper', undoBounds', scopes) BY <2>2, TagIs, TightenBounds DEF BoundsInv
    <3> QED BY <1>4, <2>1, <3>1, AssertLevels DEF BoundsInv
  <2>3. CASE UNCHANGED <<lower, upper, undoBounds>>
    <3>1. BoundsInv' BY <2>1, <2>3 DEF BoundsInv
    <3> QED BY <1>4, <3>1, AssertLevels
  <2> QED BY <2>1, <2>2, <2>3 DEF AssertBound, AlreadyHolds, Refuse
<1> QED BY <1>1, <1>2, <1>3, <1>4
    DEF SimplexNext, AddRow, StartCheck, CheckStep, CheckSat, CheckUnsat, CheckExhausted, CheckPivot, simplexVars

LEMMA BoundsStart == ASSUME SimplexInit PROVE BoundsInv /\ LevelsInv
<1>1. lower = [v \in Var |-> NoBound] /\ upper = [v \in Var |-> NoBound] /\ undoBounds = << >> /\ scopes = << >> /\ live = <<{}>>
  BY DEF SimplexInit
<1>2. BoundsInv BY InitInv DEF SimplexInv
<1>3. live \in Seq(SUBSET Tag) /\ Len(live) = 1 /\ Len(scopes) = 0 /\ Len(undoBounds) = 0 /\ live[1] = {} BY <1>1
<1>4. ASSUME NEW k \in 0 .. 0, NEW isLower \in BOOLEAN, NEW v \in Var
      PROVE  Tightest(Back(BoundOf(lower, upper, isLower, v), undoBounds, isLower, MarkAt(undoBounds, scopes, k), v), isLower, v, LiveTo(live, k))
  <2>1. k = 0 /\ MarkAt(undoBounds, scopes, k) = 0 BY <1>3 DEF MarkAt
  <2>2. LiveTo(live, k) = {}
    <3>1. \A i \in 1 .. k + 1 : live[i] = {} BY <1>3, <2>1
    <3> QED BY <3>1 DEF LiveTo
  <2>3. undoBounds \in Seq(UndoRec) /\ BoundOf(lower, upper, isLower, v) = NoBound BY <1>1 DEF BoundOf
  <2>4. Back(BoundOf(lower, upper, isLower, v), undoBounds, isLower, 0, v) = NoBound
    <3>1. Back(NoBound, undoBounds, isLower, Len(undoBounds), v) = NoBound BY <2>3, BackNow
    <3> QED BY <1>3, <2>3, <3>1
  <2>5. Sided({}, isLower, v) = {} BY DEF Sided
  <2> QED BY <2>1, <2>2, <2>4, <2>5 DEF Tightest
<1> QED BY <1>2, <1>3, <1>4 DEF LevelsInv, LevelsRight

LEMMA MaxIs == ASSUME NEW S \in SUBSET Int, NEW m \in S, \A y \in S : y <= m PROVE Max(S) = m
<1> DEFINE c == CHOOSE x \in S : \A y \in S : x >= y
<1>1. c \in S /\ \A y \in S : c >= y OBVIOUS
<1>2. Max(S) = c BY DEF Max
<1> HIDE DEF c
<1>3. c \in Int /\ m \in Int /\ c <= m /\ m <= c BY <1>1
<1> QED BY <1>2, <1>3

LEMMA MinInt == ASSUME NEW S \in SUBSET Int, NEW m \in S, \A y \in S : m <= y PROVE Min(S) = m
<1> DEFINE c == CHOOSE x \in S : \A y \in S : x <= y
<1>1. c \in S /\ \A y \in S : c <= y OBVIOUS
<1>2. Min(S) = c BY DEF Min
<1> HIDE DEF c
<1>3. c \in Int /\ m \in Int /\ c <= m /\ m <= c BY <1>1
<1> QED BY <1>2, <1>3

LEMMA LevelsExact == ASSUME BoundsInv, LevelsInv PROVE BoundsExact
<1> SUFFICES ASSUME NEW v \in Var
             PROVE  LET low == {Bounds[t].val : t \in {u \in LiveTags : Bounds[u].var = v /\ Bounds[u].lower}}
                        high == {Bounds[t].val : t \in {u \in LiveTags : Bounds[u].var = v /\ ~Bounds[u].lower}}
                    IN  /\ IF low = {} THEN lower[v] = NoBound ELSE lower[v].tag \in LiveTags /\ lower[v].val = Max(low)
                        /\ IF high = {} THEN upper[v] = NoBound ELSE upper[v].tag \in LiveTags /\ upper[v].val = Min(high)
  BY DEF BoundsExact
<1> DEFINE lows == {u \in LiveTags : Bounds[u].var = v /\ Bounds[u].lower}
           highs == {u \in LiveTags : Bounds[u].var = v /\ ~Bounds[u].lower}
           low == {Bounds[t].val : t \in lows}
           high == {Bounds[t].val : t \in highs}
<1>1. Tightest(lower[v], TRUE, v, LiveTags) /\ Tightest(upper[v], FALSE, v, LiveTags) /\ LiveTags \in SUBSET Tag
  <2>1. BoundOf(lower, upper, TRUE, v) = lower[v] /\ BoundOf(lower, upper, FALSE, v) = upper[v] BY DEF BoundOf
  <2>2. TRUE \in BOOLEAN /\ FALSE \in BOOLEAN OBVIOUS
  <2> QED BY <2>1, <2>2, LastLevel
<1>2. \A u \in LiveTags : Bounds[u].lower \in BOOLEAN /\ Bounds[u].val \in Int BY <1>1, TagIs
<1>3. lows = Sided(LiveTags, TRUE, v) /\ highs = Sided(LiveTags, FALSE, v) BY <1>2 DEF Sided
<1>4. low \in SUBSET Int /\ high \in SUBSET Int /\ lows \subseteq LiveTags /\ highs \subseteq LiveTags BY <1>2
<1>5. /\ lows = {} => lower[v] = NoBound
      /\ lows # {} => lower[v].tag \in lows /\ lower[v].val = Bounds[lower[v].tag].val
      /\ \A t \in lows : Bounds[t].val <= lower[v].val
  BY <1>1, <1>3 DEF Tightest
<1>6. /\ highs = {} => upper[v] = NoBound
      /\ highs # {} => upper[v].tag \in highs /\ upper[v].val = Bounds[upper[v].tag].val
      /\ \A t \in highs : Bounds[t].val >= upper[v].val
  BY <1>1, <1>3 DEF Tightest
<1> HIDE DEF lows, highs
<1>7. IF low = {} THEN lower[v] = NoBound ELSE lower[v].tag \in LiveTags /\ lower[v].val = Max(low)
  <2>1. CASE lows = {} BY <1>5, <2>1
  <2>2. CASE lows # {}
    <3>1. lower[v].tag \in lows /\ lower[v].val \in low /\ low # {} BY <1>5, <2>2
    <3>2. \A y \in low : y <= lower[v].val BY <1>5
    <3> HIDE DEF low
    <3>3. Max(low) = lower[v].val BY <1>4, <3>1, <3>2, MaxIs
    <3> QED BY <1>4, <3>1, <3>3
  <2> QED BY <2>1, <2>2
<1>8. IF high = {} THEN upper[v] = NoBound ELSE upper[v].tag \in LiveTags /\ upper[v].val = Min(high)
  <2>1. CASE highs = {} BY <1>6, <2>1
  <2>2. CASE highs # {}
    <3>1. upper[v].tag \in highs /\ upper[v].val \in high /\ high # {} BY <1>6, <2>2
    <3>2. \A y \in high : upper[v].val <= y
      <4>1. upper[v].val \in Int BY <1>4, <3>1
      <4>2. \A t \in highs : Bounds[t].val \in Int BY <1>2, <1>4
      <4> QED BY <1>6, <4>1, <4>2
    <3> HIDE DEF high
    <3>3. Min(high) = upper[v].val BY <1>4, <3>1, <3>2, MinInt
    <3> QED BY <1>4, <3>1, <3>3
  <2> QED BY <2>1, <2>2
<1> QED BY <1>7, <1>8 DEF lows, highs

\* What a scope replaced comes back: the bounds are the tightest of those asserted and
\* not retracted, whatever the tableau does.
THEOREM BoundsAreExact == SimplexSpec => []BoundsExact
<1>1. SimplexInit => BoundsInv /\ LevelsInv BY BoundsStart
<1>2. BoundsInv /\ LevelsInv /\ [SimplexNext]_simplexVars => BoundsInv' /\ LevelsInv' BY BoundsStep
<1>3. BoundsInv /\ LevelsInv => BoundsExact BY LevelsExact
<1> QED BY <1>1, <1>2, <1>3, PTL DEF SimplexSpec

-----------------------------------------------------------------------------
(* What check answers *)

LEMMA SumMonotone ==
    ASSUME NEW n \in Nat, NEW f, NEW g, Numbers(f, 1 .. n), Numbers(g, 1 .. n), \A i \in 1 .. n : f[i] <= g[i]
    PROVE  SumOver(f, 1 .. n) <= SumOver(g, 1 .. n)
<1> DEFINE T == {k \in Nat : k <= n => SumOver(f, 1 .. k) <= SumOver(g, 1 .. k)}
<1>1. ASSUME NEW k \in Nat, k <= n PROVE Numbers(f, 1 .. k) /\ Numbers(g, 1 .. k)
  <2>1. \A i \in 1 .. k : i \in 1 .. n BY <1>1
  <2> QED BY <2>1 DEF Numbers
<1>2. 0 \in T
  <2>1. 0 \in Nat /\ 0 <= n OBVIOUS
  <2>2. SumOver(f, 1 .. 0) = 0 /\ SumOver(g, 1 .. 0) = 0 BY <1>1, <2>1, SumSegment
  <2> QED BY <2>2
<1>3. ASSUME NEW k \in 1 .. n, k - 1 \in T PROVE k \in T
  <2>1. k \in Nat /\ k # 0 /\ k <= n /\ k - 1 \in Nat /\ k - 1 <= n OBVIOUS
  <2>2. SumOver(f, 1 .. k - 1) <= SumOver(g, 1 .. k - 1) BY <1>3, <2>1
  <2>3. SumOver(f, 1 .. k) = SumOver(f, 1 .. k - 1) + f[k] /\ SumOver(g, 1 .. k) = SumOver(g, 1 .. k - 1) + g[k] BY <1>1, <2>1, SumSegment
  <2>4. SumOver(f, 1 .. k - 1) \in Int /\ SumOver(g, 1 .. k - 1) \in Int BY <1>1, <2>1, SumSegment
  <2>5. f[k] \in Int /\ g[k] \in Int /\ f[k] <= g[k] BY DEF Numbers
  <2> HIDE DEF T
  <2>6. SumOver(f, 1 .. k) <= SumOver(g, 1 .. k) BY <2>2, <2>3, <2>4, <2>5
  <2> QED BY <2>1, <2>6 DEF T
<1>4. n \in T
  <2> HIDE DEF T
  <2> QED BY <1>2, <1>3, SegmentInduction
<1> QED BY <1>4

\* A row of ones and minus ones is at most what it is at values that are farther.
LEMMA EvalMonotone ==
    ASSUME NEW c \in Coeffs, NEW u \in Vectors, NEW w \in Vectors,
           \A y \in Var : (c[y] > 0 => u[y] <= w[y]) /\ (c[y] < 0 => u[y] >= w[y])
    PROVE  Eval(c, u) <= Eval(c, w)
<1> DEFINE n == NumLinear
           f == [x \in Var |-> c[x] * u[x]]
           g == [x \in Var |-> c[x] * w[x]]
<1>1. n \in Nat /\ Var = 1 .. n BY Sizes
<1>2. Eval(c, u) = SumOver(f, 1 .. n) /\ Eval(c, w) = SumOver(g, 1 .. n) BY <1>1 DEF Eval
<1>3. ASSUME NEW y \in Var PROVE f[y] \in Int /\ g[y] \in Int /\ f[y] <= g[y]
  <2>1. f[y] = c[y] * u[y] /\ g[y] = c[y] * w[y] OBVIOUS
  <2>2. c[y] \in -1 .. 1 /\ u[y] \in Int /\ w[y] \in Int BY DEF Coeffs, Vectors
  <2> HIDE DEF f, g
  <2>3. CASE c[y] = 1 BY <2>1, <2>2, <2>3
  <2>4. CASE c[y] = 0 BY <2>1, <2>2, <2>4
  <2>5. CASE c[y] = -1 BY <2>1, <2>2, <2>5
  <2> QED BY <2>2, <2>3, <2>4, <2>5
<1> HIDE DEF f, g, n
<1>4. Numbers(f, 1 .. n) /\ Numbers(g, 1 .. n) BY <1>1, <1>3 DEF Numbers
<1>5. SumOver(f, 1 .. n) <= SumOver(g, 1 .. n) BY <1>1, <1>3, <1>4, SumMonotone
<1> QED BY <1>2, <1>5

\* What satisfies the rows satisfies the forms.
LEMMA RowsForm ==
    ASSUME NEW R, NEW ro, TableauRight(R, ro), NEW w \in Vectors, RowsHold(R, w)
    PROVE  FormsHold(w, Len(R))
<1> DEFINE P == Own(R, ro)
<1>1. Len(R) \in Nat /\ P \in [Var -> Vectors] BY RowIs
<1>2. ASSUME NEW i \in 1 .. Len(R) PROVE w[NumStruct + i] = FormValue(i, w)
  <2>1. i \in 1 .. Len(Forms) BY <1>1, Sizes DEF TableauRight
  <2>2. Forms[i] \in Formed /\ NumStruct + i \in Var BY <2>1, Sizes
  <2>3. P[NumStruct + i] = SolvedBy(Forms[i], P) BY DEF TableauRight
  <2>4. Eval(P[NumStruct + i], w) = w[NumStruct + i] BY <2>2, OwnEval
  <2> DEFINE f == [x \in 1 .. NumStruct |-> Forms[i][x] * Eval(P[x], w)]
             g == [x \in 1 .. NumStruct |-> Forms[i][x] * w[x]]
  <2>5. Eval(SolvedBy(Forms[i], P), w) = SumOver(f, 1 .. NumStruct) BY <1>1, <2>2, SolvedEval
  <2>6. \A x \in 1 .. NumStruct : Eval(P[x], w) = w[x]
    <3>1. \A x \in 1 .. NumStruct : x \in Var BY Sizes
    <3> QED BY <3>1, OwnEval
  <2>7. f = g BY <2>6
  <2> QED BY <2>3, <2>4, <2>5, <2>7 DEF FormValue
<1> QED BY <1>2 DEF FormsHold

\* The values of the structural variables, and of the slacks with them.
Extended(x) == [v \in Var |-> IF v <= NumStruct THEN x[v] ELSE FormValue(v - NumStruct, x)]

\* The value of a variable under x.
Holds(x, v) == IF v <= NumStruct THEN x[v] ELSE FormValue(v - NumStruct, x)

LEMMA SatisfiesIs ==
    ASSUME NEW x, NEW t \in Tag
    PROVE  Satisfies(x, t) <=> IF Bounds[t].lower THEN Holds(x, Bounds[t].var) >= Bounds[t].val ELSE Holds(x, Bounds[t].var) <= Bounds[t].val
BY DEF Satisfies, Holds, FormValue

LEMMA FormSame ==
    ASSUME NEW i, NEW x, NEW w, \A y \in 1 .. NumStruct : w[y] = x[y]
    PROVE  FormValue(i, w) = FormValue(i, x)
<1>1. [y \in 1 .. NumStruct |-> Forms[i][y] * w[y]] = [y \in 1 .. NumStruct |-> Forms[i][y] * x[y]] OBVIOUS
<1> QED BY <1>1 DEF FormValue

LEMMA FormInt == ASSUME NEW i \in 1 .. Len(Forms), NEW x \in [1 .. NumStruct -> Int] PROVE FormValue(i, x) \in Int
<1> DEFINE f == [y \in 1 .. NumStruct |-> Forms[i][y] * x[y]]
<1>1. ASSUME NEW y \in 1 .. NumStruct PROVE f[y] \in Int
  <2>1. Forms[i][y] \in Int /\ x[y] \in Int BY Sizes DEF Formed
  <2> QED BY <2>1, Ring
<1>2. Numbers(f, 1 .. NumStruct) BY <1>1 DEF Numbers
<1> HIDE DEF f
<1>3. SumOver(f, 1 .. NumStruct) \in Int BY <1>2, Sizes, SumSegment
<1> QED BY <1>3 DEF f, FormValue

LEMMA ExtendedIs ==
    ASSUME NEW x \in [1 .. NumStruct -> Int]
    PROVE  Extended(x) \in Vectors /\ FormsHold(Extended(x), Len(Forms)) /\ \A v \in Var : Extended(x)[v] = Holds(x, v)
<1> DEFINE w == Extended(x)
<1>1. \A v \in Var : w[v] = Holds(x, v) BY DEF Extended, Holds
<1>2. ASSUME NEW v \in Var PROVE w[v] \in Int
  <2>1. CASE v <= NumStruct
    <3>1. v \in 1 .. NumStruct BY <2>1, Sizes
    <3> QED BY <1>1, <2>1, <3>1 DEF Holds
  <2>2. CASE ~(v <= NumStruct)
    <3>1. v - NumStruct \in 1 .. Len(Forms) BY <2>2, Sizes DEF NumLinear
    <3> QED BY <1>1, <2>2, <3>1, FormInt DEF Holds
  <2> QED BY <2>1, <2>2
<1>3. w \in Vectors BY <1>2 DEF Extended, Vectors
<1> HIDE DEF w
<1>4. ASSUME NEW i \in 1 .. Len(Forms) PROVE w[NumStruct + i] = FormValue(i, w)
  <2>1. NumStruct + i \in Var /\ ~(NumStruct + i <= NumStruct) /\ (NumStruct + i) - NumStruct = i BY Sizes
  <2>2. w[NumStruct + i] = FormValue(i, x) BY <1>1, <2>1 DEF Holds
  <2>3. \A y \in 1 .. NumStruct : w[y] = x[y]
    <3>1. \A y \in 1 .. NumStruct : y \in Var /\ y <= NumStruct BY Sizes
    <3> QED BY <1>1, <3>1 DEF Holds
  <2> QED BY <2>2, <2>3, FormSame
<1> QED BY <1>1, <1>3, <1>4 DEF w, FormsHold

\* The bounds in force are those of live tags, and meet all of them.
LEMMA LowerIs ==
    ASSUME BoundsInv, LevelsInv, NEW v \in Var
    PROVE  /\ lower[v].val \in Int
           /\ lower[v].tag # 0 => /\ lower[v].tag \in LiveTags /\ lower[v].tag \in Tag /\ Bounds[lower[v].tag].var = v
                                  /\ Bounds[lower[v].tag].lower = TRUE /\ Bounds[lower[v].tag].val = lower[v].val
           /\ \A t \in LiveTags : Bounds[t].var = v /\ Bounds[t].lower = TRUE => lower[v].tag # 0 /\ Bounds[t].val <= lower[v].val
<1>1. BoundOf(lower, upper, TRUE, v) = lower[v] BY DEF BoundOf
<1>2. TRUE \in BOOLEAN OBVIOUS
<1>3. Tightest(lower[v], TRUE, v, LiveTags) /\ LiveTags \in SUBSET Tag /\ lower[v] \in BoundRec BY <1>1, <1>2, LastLevel
<1>4. \A t \in Tag : t \in Nat \ {0} BY TagIs
<1>5. NoBound.tag = 0 BY DEF NoBound
<1>6. \A t : t \in Sided(LiveTags, TRUE, v) <=> t \in LiveTags /\ Bounds[t].var = v /\ Bounds[t].lower = TRUE BY DEF Sided
<1>7. lower[v].val \in Int BY <1>3 DEF BoundRec
<1> QED BY <1>3, <1>4, <1>5, <1>6, <1>7 DEF Tightest

LEMMA UpperIs ==
    ASSUME BoundsInv, LevelsInv, NEW v \in Var
    PROVE  /\ upper[v].val \in Int
           /\ upper[v].tag # 0 => /\ upper[v].tag \in LiveTags /\ upper[v].tag \in Tag /\ Bounds[upper[v].tag].var = v
                                  /\ Bounds[upper[v].tag].lower = FALSE /\ Bounds[upper[v].tag].val = upper[v].val
           /\ \A t \in LiveTags : Bounds[t].var = v /\ Bounds[t].lower = FALSE => upper[v].tag # 0 /\ Bounds[t].val >= upper[v].val
<1>1. BoundOf(lower, upper, FALSE, v) = upper[v] BY DEF BoundOf
<1>2. FALSE \in BOOLEAN OBVIOUS
<1>3. Tightest(upper[v], FALSE, v, LiveTags) /\ LiveTags \in SUBSET Tag /\ upper[v] \in BoundRec BY <1>1, <1>2, LastLevel
<1>4. \A t \in Tag : t \in Nat \ {0} BY TagIs
<1>5. NoBound.tag = 0 BY DEF NoBound
<1>6. \A t : t \in Sided(LiveTags, FALSE, v) <=> t \in LiveTags /\ Bounds[t].var = v /\ Bounds[t].lower = FALSE BY DEF Sided
<1>7. upper[v].val \in Int BY <1>3 DEF BoundRec
<1> QED BY <1>3, <1>4, <1>5, <1>6, <1>7 DEF Tightest

\* The variables that live tags bound were made.
MadeInv == \A t \in LiveTags : Made(Bounds[t].var)

\* No values of the structural variables satisfy the tags of a core.
Clash(core) == core \subseteq Tag /\ \A x \in [1 .. NumStruct -> Int] : \E t \in core : ~Satisfies(x, t)
AnswerInv ==
    /\ checking => answer = Ok
    /\ answer.kind = "unsat" => Clash(answer.core) /\ Cardinality(answer.core \ LiveTags) <= 1
    /\ answer.kind = "sat" => \A t \in LiveTags : Satisfies(assignment, t)

LEMMA OkAnswers == ASSUME NEW a, a \in {Ok, [kind |-> "exhausted", core |-> {}]} PROVE a.kind # "unsat" /\ a.kind # "sat"
BY DEF Ok

\* A bound that is refused clashes with the one on the other side.
LEMMA RefusedClash ==
    ASSUME BoundsInv, LevelsInv, NEW t \in Tag, AssertTag(t), answer'.kind = "unsat"
    PROVE  Clash(answer'.core) /\ Cardinality(answer'.core \ LiveTags') <= 1
<1> DEFINE v == Bounds[t].var
           l == Bounds[t].lower
           val == Bounds[t].val
           o == IF l THEN upper[v].tag ELSE lower[v].tag
<1>1. v \in Var /\ l \in BOOLEAN /\ val \in Int BY TagIs
<1>2. AssertBound(v, l, val, t) /\ live' = live BY DEF AssertTag
<1>3. ~AlreadyHolds(v, l, val) /\ ~Tighten(v, l, val, t) BY OkAnswers DEF AlreadyHolds, Tighten
<1>4. Refuse(v, l, val, t) BY <1>2, <1>3 DEF AssertBound
<1>5. answer'.core = {t, o} /\ BoundClashes(v, l, val) BY <1>4 DEF Refuse
<1>6. LiveTags' = LiveTags BY <1>2 DEF LiveTags
<1>7. \A x : Satisfies(x, t) <=> IF l THEN Holds(x, v) >= val ELSE Holds(x, v) <= val BY SatisfiesIs
<1>8. \A x \in [1 .. NumStruct -> Int] : Holds(x, v) \in Int
  <2> TAKE x \in [1 .. NumStruct -> Int]
  <2>1. Extended(x) \in Vectors /\ Extended(x)[v] = Holds(x, v) BY <1>1, ExtendedIs
  <2> QED BY <1>1, <2>1 DEF Vectors
<1> HIDE DEF v, l, val
<1>9. o \in LiveTags /\ o \in Tag /\ \A x \in [1 .. NumStruct -> Int] : ~Satisfies(x, t) \/ ~Satisfies(x, o)
  <2>1. CASE l
    <3>1. upper[v].tag # 0 /\ val > upper[v].val BY <1>5, <2>1 DEF BoundClashes
    <3>2. o = upper[v].tag BY <2>1
    <3>3. o \in LiveTags /\ o \in Tag /\ Bounds[o].var = v /\ Bounds[o].lower = FALSE /\ Bounds[o].val = upper[v].val /\ upper[v].val \in Int
      BY <1>1, <3>1, <3>2, UpperIs
    <3> HIDE DEF o
    <3>4. ASSUME NEW x \in [1 .. NumStruct -> Int], Satisfies(x, t), Satisfies(x, o) PROVE FALSE
      <4>1. Holds(x, v) >= val BY <1>7, <2>1, <3>4
      <4>2. Holds(x, v) <= upper[v].val BY <3>3, <3>4, SatisfiesIs
      <4>3. Holds(x, v) \in Int BY <1>8
      <4> QED BY <1>1, <3>1, <3>3, <4>1, <4>2, <4>3
    <3> QED BY <3>3, <3>4
  <2>2. CASE ~l
    <3>1. lower[v].tag # 0 /\ val < lower[v].val BY <1>5, <2>2 DEF BoundClashes
    <3>2. o = lower[v].tag BY <2>2
    <3>3. o \in LiveTags /\ o \in Tag /\ Bounds[o].var = v /\ Bounds[o].lower = TRUE /\ Bounds[o].val = lower[v].val /\ lower[v].val \in Int
      BY <1>1, <3>1, <3>2, LowerIs
    <3> HIDE DEF o
    <3>4. ASSUME NEW x \in [1 .. NumStruct -> Int], Satisfies(x, t), Satisfies(x, o) PROVE FALSE
      <4>1. Holds(x, v) <= val BY <1>7, <2>2, <3>4
      <4>2. Holds(x, v) >= lower[v].val BY <3>3, <3>4, SatisfiesIs
      <4>3. Holds(x, v) \in Int BY <1>8
      <4> QED BY <1>1, <3>1, <3>3, <4>1, <4>2, <4>3
    <3> QED BY <3>3, <3>4
  <2> QED BY <2>1, <2>2
<1> HIDE DEF o
<1>10. Clash(answer'.core) BY <1>5, <1>9 DEF Clash
<1>11. answer'.core \ LiveTags' = {} \/ answer'.core \ LiveTags' = {t} BY <1>5, <1>6, <1>9
<1>12. Cardinality({}) = 0 /\ Cardinality({t}) = 1 BY FS_EmptySet, FS_Singleton
<1>13. Cardinality(answer'.core \ LiveTags') <= 1 BY <1>11, <1>12
<1> QED BY <1>10, <1>13

\* The row of the variable that leaves, when no variable can help it.
LEMMA StuckClash ==
    ASSUME SimplexInv, LevelsInv, FollowInv, Unimodular, CheckUnsat
    PROVE  Clash(answer'.core) /\ answer'.core \subseteq LiveTags
<1> DEFINE xi == Leaving
           r == rowOf[xi]
           row == rows[r].coeffs
           own == IF Increase THEN lower[xi].tag ELSE upper[xi].tag
           core == {own} \cup {Blocking(x) : x \in {y \in Var : row[y] # 0}}
<1>1. TableauInv /\ BoundsInv /\ SeenInv BY DEF SimplexInv
<1>2. TableauRight(rows, rowOf) /\ assignment \in Vectors /\ RowsHold(rows, assignment) BY <1>1 DEF TableauInv
<1>3. ViolatedDirty # {} /\ Helpful = {} /\ answer'.core = core BY DEF CheckUnsat, LeavingCoeffs
<1>4. xi \in Var /\ rowOf[xi] # 0 /\ Violated(xi)
  <2>1. dirty \subseteq Var BY <1>1 DEF SeenInv, Seen
  <2> QED BY <1>3, <2>1, LeavingIs
<1>5. r \in 1 .. Len(rows) /\ rows[r].basic = xi /\ row \in Coeffs
  <2>1. r \in 1 .. Len(rows) /\ DOMAIN rows = 1 .. Len(rows) BY <1>2, <1>4, RowIs
  <2> QED BY <1>2, <1>4, <2>1 DEF TableauRight, Unimodular
<1>6. assignment[xi] = Eval(row, assignment) BY <1>2, <1>5 DEF RowsHold
<1>7. \A y \in Var : assignment[y] \in Int /\ row[y] \in -1 .. 1 BY <1>2, <1>5 DEF Vectors, Coeffs
<1>8. ASSUME NEW y \in Var, row[y] # 0
      PROVE  IF (row[y] > 0) = Increase
             THEN Blocking(y) = upper[y].tag /\ upper[y].tag # 0 /\ assignment[y] >= upper[y].val
             ELSE Blocking(y) = lower[y].tag /\ lower[y].tag # 0 /\ assignment[y] <= lower[y].val
  <2>1. lower[y].val \in Int /\ upper[y].val \in Int BY <1>1, LowerIs, UpperIs
  <2>2. y \notin Helpful BY <1>3
  <2>3. IF (row[y] > 0) = Increase THEN ~CanIncrease(y) ELSE ~CanDecrease(y) BY <1>8, <2>2 DEF Helpful, LeavingCoeffs
  <2> HIDE DEF row, xi, r
  <2>4. CASE (row[y] > 0) = Increase
    <3>1. Blocking(y) = upper[y].tag BY <2>4 DEF Blocking, LeavingCoeffs, row, r, xi
    <3> QED BY <1>7, <2>1, <2>3, <2>4, <3>1 DEF CanIncrease
  <2>5. CASE ~((row[y] > 0) = Increase)
    <3>1. Blocking(y) = lower[y].tag BY <2>5 DEF Blocking, LeavingCoeffs, row, r, xi
    <3> QED BY <1>7, <2>1, <2>3, <2>5, <3>1 DEF CanDecrease
  <2> QED BY <2>4, <2>5
<1>9. IF Increase THEN lower[xi].tag # 0 /\ assignment[xi] < lower[xi].val ELSE upper[xi].tag # 0 /\ assignment[xi] > upper[xi].val
  BY <1>4 DEF Increase, Violated, BelowLower, AboveUpper
<1>10. Increase \in BOOLEAN BY DEF Increase, BelowLower
<1> HIDE DEF xi, r, row
<1>11. own \in LiveTags /\ own \in Tag /\ \A y \in Var : row[y] # 0 => Blocking(y) \in LiveTags /\ Blocking(y) \in Tag
  <2>1. own \in LiveTags /\ own \in Tag BY <1>1, <1>4, <1>9, LowerIs, UpperIs
  <2>2. ASSUME NEW y \in Var, row[y] # 0 PROVE Blocking(y) \in LiveTags /\ Blocking(y) \in Tag
    <3>1. (Blocking(y) = upper[y].tag /\ upper[y].tag # 0) \/ (Blocking(y) = lower[y].tag /\ lower[y].tag # 0) BY <1>8, <2>2
    <3>2. CASE Blocking(y) = upper[y].tag /\ upper[y].tag # 0 BY <1>1, <3>2, UpperIs
    <3>3. CASE Blocking(y) = lower[y].tag /\ lower[y].tag # 0 BY <1>1, <3>3, LowerIs
    <3> QED BY <3>1, <3>2, <3>3
  <2> QED BY <2>1, <2>2
<1>12. ASSUME NEW x \in [1 .. NumStruct -> Int], \A t \in core : Satisfies(x, t) PROVE FALSE
  <2> DEFINE w == Extended(x)
  <2>1. w \in Vectors /\ FormsHold(w, Len(Forms)) /\ \A v \in Var : w[v] = Holds(x, v) BY ExtendedIs
  <2> HIDE DEF w
  <2>2. FormsHold(w, Len(rows))
    <3>1. Len(rows) \in Nat /\ Len(rows) <= Len(Forms) BY <1>2, RowIs DEF TableauRight
    <3>2. \A i \in 1 .. Len(rows) : i \in 1 .. Len(Forms) BY <3>1, Sizes
    <3> QED BY <2>1, <3>2 DEF FormsHold
  <2>3. w[xi] = Eval(row, w)
    <3>1. RowsHold(rows, w) BY <2>1, <2>2 DEF FollowInv
    <3> QED BY <1>5, <3>1 DEF RowsHold, row
  <2>4. \A y \in Var : w[y] \in Int BY <2>1 DEF Vectors
  <2>5. Satisfies(x, own) BY <1>12
  <2>6. ASSUME NEW y \in Var, row[y] # 0
        PROVE  IF (row[y] > 0) = Increase THEN w[y] <= assignment[y] ELSE w[y] >= assignment[y]
    <3>1. Satisfies(x, Blocking(y)) BY <1>12, <2>6
    <3>2. CASE (row[y] > 0) = Increase
      <4>1. Blocking(y) = upper[y].tag /\ upper[y].tag # 0 /\ assignment[y] >= upper[y].val BY <1>8, <2>6, <3>2
      <4>2. upper[y].val \in Int /\ upper[y].tag \in Tag /\ Bounds[upper[y].tag].var = y /\ Bounds[upper[y].tag].lower = FALSE /\ Bounds[upper[y].tag].val = upper[y].val
        BY <1>1, <4>1, UpperIs
      <4>3. w[y] <= upper[y].val BY <2>1, <3>1, <4>1, <4>2, SatisfiesIs
      <4>4. w[y] <= assignment[y] BY <1>7, <2>4, <4>1, <4>2, <4>3
      <4> QED BY <3>2, <4>4
    <3>3. CASE ~((row[y] > 0) = Increase)
      <4>1. Blocking(y) = lower[y].tag /\ lower[y].tag # 0 /\ assignment[y] <= lower[y].val BY <1>8, <2>6, <3>3
      <4>2. lower[y].val \in Int /\ lower[y].tag \in Tag /\ Bounds[lower[y].tag].var = y /\ Bounds[lower[y].tag].lower = TRUE /\ Bounds[lower[y].tag].val = lower[y].val
        BY <1>1, <4>1, LowerIs
      <4>3. w[y] >= lower[y].val BY <2>1, <3>1, <4>1, <4>2, SatisfiesIs
      <4>4. w[y] >= assignment[y] BY <1>7, <2>4, <4>1, <4>2, <4>3
      <4> QED BY <3>3, <4>4
    <3> QED BY <3>2, <3>3
  <2>7. CASE Increase
    <3>1. ASSUME NEW y \in Var PROVE (row[y] > 0 => w[y] <= assignment[y]) /\ (row[y] < 0 => w[y] >= assignment[y])
      <4>1. CASE row[y] > 0
        <5>1. row[y] # 0 /\ (row[y] > 0) = TRUE /\ Increase = TRUE /\ ~(row[y] < 0) BY <1>7, <1>10, <2>7, <4>1
        <5>2. w[y] <= assignment[y] BY <2>6, <5>1
        <5> QED BY <5>1, <5>2
      <4>2. CASE row[y] < 0
        <5>1. row[y] # 0 /\ (row[y] > 0) = FALSE BY <1>7, <4>2
        <5>2. w[y] >= assignment[y] BY <2>6, <2>7, <5>1
        <5> QED BY <5>1, <5>2
      <4> QED BY <4>1, <4>2
    <3>2. Eval(row, w) <= Eval(row, assignment) BY <1>2, <1>5, <2>1, <3>1, EvalMonotone
    <3>3. own = lower[xi].tag /\ lower[xi].tag # 0 /\ assignment[xi] < lower[xi].val BY <1>9, <2>7
    <3>4. lower[xi].val \in Int /\ own \in Tag /\ Bounds[own].var = xi /\ Bounds[own].lower = TRUE /\ Bounds[own].val = lower[xi].val
      BY <1>1, <1>4, <3>3, LowerIs
    <3>5. w[xi] >= lower[xi].val BY <1>4, <2>1, <2>5, <3>4, SatisfiesIs
    <3> QED BY <1>4, <1>6, <1>7, <2>3, <2>4, <3>2, <3>3, <3>4, <3>5
  <2>8. CASE ~Increase
    <3>1. ASSUME NEW y \in Var PROVE (row[y] > 0 => assignment[y] <= w[y]) /\ (row[y] < 0 => assignment[y] >= w[y])
      <4>1. CASE row[y] > 0
        <5>1. row[y] # 0 /\ (row[y] > 0) = TRUE BY <1>7, <4>1
        <5>2. w[y] >= assignment[y] BY <2>6, <2>8, <5>1
        <5> QED BY <1>7, <2>4, <4>1, <5>2
      <4>2. CASE row[y] < 0
        <5>1. row[y] # 0 /\ (row[y] > 0) = FALSE BY <1>7, <4>2
        <5>2. w[y] <= assignment[y] BY <1>10, <2>6, <2>8, <5>1
        <5> QED BY <1>7, <2>4, <4>2, <5>2
      <4> QED BY <4>1, <4>2
    <3>2. Eval(row, assignment) <= Eval(row, w) BY <1>2, <1>5, <2>1, <3>1, EvalMonotone
    <3>3. own = upper[xi].tag /\ upper[xi].tag # 0 /\ assignment[xi] > upper[xi].val BY <1>9, <2>8
    <3>4. upper[xi].val \in Int /\ own \in Tag /\ Bounds[own].var = xi /\ Bounds[own].lower = FALSE /\ Bounds[own].val = upper[xi].val
      BY <1>1, <1>4, <3>3, UpperIs
    <3>5. w[xi] <= upper[xi].val BY <1>4, <2>1, <2>5, <3>4, SatisfiesIs
    <3> QED BY <1>4, <1>6, <1>7, <2>3, <2>4, <3>2, <3>3, <3>4, <3>5
  <2> QED BY <2>7, <2>8
<1>13. core \subseteq Tag /\ core \subseteq LiveTags BY <1>11
<1> HIDE DEF core
<1> QED BY <1>3, <1>12, <1>13 DEF Clash

\* When check finds no bound violated, the assignment satisfies all that are live.
LEMMA SatModel ==
    ASSUME SimplexInv, LevelsInv, MadeInv, ViolatedDirty = {}, NEW t \in LiveTags
    PROVE  Satisfies(assignment, t)
<1> DEFINE v == Bounds[t].var
<1>1. TableauInv /\ BoundsInv /\ SeenInv BY DEF SimplexInv
<1>2. TableauRight(rows, rowOf) /\ assignment \in Vectors /\ RowsHold(rows, assignment) BY <1>1 DEF TableauInv
<1>3. t \in Tag
  <2>1. NumStruct \in Var /\ TRUE \in BOOLEAN BY Sizes
  <2> QED BY <1>1, <2>1, LastLevel
<1>4. v \in Var /\ Bounds[t].lower \in BOOLEAN /\ Bounds[t].val \in Int BY <1>3, TagIs
<1>5. v <= NumStruct + Len(rows) BY DEF MadeInv, Made
<1>6. ~Violated(v)
  <2>1. \A x \in Var : Out(lower, upper, assignment, x) => rowOf[x] # 0 /\ x \in dirty BY <1>1 DEF SeenInv, Seen
  <2>2. v \notin ViolatedDirty OBVIOUS
  <2> QED BY <1>4, <2>1, <2>2, ViolatedIs DEF ViolatedDirty, IsBasic
<1>7. Holds(assignment, v) = assignment[v]
  <2>1. CASE v <= NumStruct BY <2>1 DEF Holds
  <2>2. CASE ~(v <= NumStruct)
    <3>1. FormsHold(assignment, Len(rows)) BY <1>2, RowsForm
    <3>2. Len(rows) \in Nat BY <1>2, RowIs
    <3>3. v - NumStruct \in 1 .. Len(rows) /\ NumStruct + (v - NumStruct) = v BY <1>4, <1>5, <2>2, <3>2, Sizes
    <3>4. assignment[v] = FormValue(v - NumStruct, assignment) BY <3>1, <3>3 DEF FormsHold
    <3> QED BY <2>2, <3>4 DEF Holds
  <2> QED BY <2>1, <2>2
<1>8. Satisfies(assignment, t) <=> IF Bounds[t].lower THEN Holds(assignment, v) >= Bounds[t].val ELSE Holds(assignment, v) <= Bounds[t].val
  BY <1>3, SatisfiesIs
<1>9. v = Bounds[t].var OBVIOUS
<1> HIDE DEF v
<1>10. assignment[v] \in Int BY <1>2, <1>4 DEF Vectors
<1>11. CASE Bounds[t].lower = TRUE
  <2>1. lower[v].tag # 0 /\ Bounds[t].val <= lower[v].val /\ lower[v].val \in Int BY <1>1, <1>4, <1>9, <1>11, LowerIs
  <2>2. ~(assignment[v] < lower[v].val) BY <1>6, <2>1 DEF Violated, BelowLower
  <2> QED BY <1>4, <1>7, <1>8, <1>10, <1>11, <2>1, <2>2
<1>12. CASE Bounds[t].lower = FALSE
  <2>1. upper[v].tag # 0 /\ Bounds[t].val >= upper[v].val /\ upper[v].val \in Int BY <1>1, <1>4, <1>9, <1>12, UpperIs
  <2>2. ~(assignment[v] > upper[v].val) BY <1>6, <2>1 DEF Violated, AboveUpper
  <2> QED BY <1>4, <1>7, <1>8, <1>10, <1>12, <2>1, <2>2
<1> QED BY <1>4, <1>11, <1>12

\* The live tags grow by the one asserted, and shrink by the scopes undone.
LEMMA MadeStep == ASSUME SimplexInv, LevelsInv, MadeInv, Unimodular, [SimplexNext]_simplexVars PROVE MadeInv'
<1>1. BoundsInv /\ TableauRight(rows, rowOf) BY DEF SimplexInv, TableauInv
<1>2. Len(rows) \in Nat /\ Len(rows') \in Nat /\ Len(rows) <= Len(rows')
  <2>1. Len(rows) \in Nat BY <1>1, RowIs
  <2>2. CASE AddRow
    <3>1. rows \in Seq(RowShape) BY <1>1 DEF TableauRight
    <3>2. Len(rows') = Len(rows) + 1 BY <2>2, <3>1, AppendProperties DEF AddRow
    <3> QED BY <2>1, <3>2
  <2>3. CASE CheckPivot
    <3>1. Len(rows') = Len(rows) BY <2>3, PivotInv
    <3> QED BY <2>1, <3>1
  <2>4. CASE rows' = rows BY <2>1, <2>4
  <2> QED BY <2>2, <2>3, <2>4
      DEF SimplexNext, Push, Pop, PopTo, StartCheck, CheckStep, CheckSat, CheckUnsat, CheckExhausted, AssertTag, simplexVars, tableau
<1>3. ASSUME NEW u \in Tag, Made(Bounds[u].var) PROVE Made(Bounds[u].var)'
  <2>1. Bounds[u].var <= NumStruct + Len(rows) /\ Bounds[u].var \in Int /\ NumStruct \in Int
    BY <1>3, TagIs, Sizes DEF Made
  <2> QED BY <1>2, <2>1 DEF Made
<1>4. LiveTags \in SUBSET Tag
  <2>1. NumStruct \in Var /\ TRUE \in BOOLEAN BY Sizes
  <2> QED BY <1>1, <2>1, LastLevel
<1>5. live \in Seq(SUBSET Tag) /\ Len(live) \in Nat /\ DOMAIN live = 1 .. Len(live) /\ Len(live) = Len(scopes) + 1
  <2>1. live \in Seq(SUBSET Tag) /\ Len(live) = Len(scopes) + 1 BY DEF LevelsInv, LevelsRight
  <2> QED BY <2>1, LenProperties
<1>6. ASSUME LiveTags' \subseteq LiveTags PROVE MadeInv'
  <2>1. ASSUME NEW u \in LiveTags' PROVE Made(Bounds[u].var)'
    <3>1. u \in LiveTags /\ u \in Tag BY <1>4, <1>6
    <3> QED BY <1>3, <3>1 DEF MadeInv
  <2> QED BY <2>1 DEF MadeInv
<1>7. CASE live' = live
  <2>1. LiveTags' = LiveTags BY <1>7 DEF LiveTags
  <2> QED BY <1>6, <2>1
<1>8. CASE Push
  <2>1. live' = Append(live, {}) BY <1>8 DEF Push
  <2>2. {} \in SUBSET Tag OBVIOUS
  <2>3. live' \in Seq(SUBSET Tag) /\ Len(live') = Len(live) + 1 /\ live'[Len(live) + 1] = {} /\ \A i \in 1 .. Len(live) : live'[i] = live[i]
    BY <1>5, <2>1, <2>2, AppendProperties
  <2>4. DOMAIN live' = 1 .. Len(live) + 1 /\ \A i \in 1 .. Len(live) + 1 : i \in 1 .. Len(live) \/ i = Len(live) + 1
    BY <1>5, <2>3, LenProperties
  <2>5. ASSUME NEW u \in LiveTags' PROVE u \in LiveTags
    <3>1. PICK i \in DOMAIN live' : u \in live'[i] BY DEF LiveTags
    <3>2. i \in 1 .. Len(live) /\ u \in live[i] BY <2>3, <2>4, <3>1
    <3> QED BY <1>5, <3>2 DEF LiveTags
  <2> QED BY <1>6, <2>5
<1>9. CASE Pop
  <2> DEFINE n == Len(scopes) - 1
  <2>1. scopes # << >> /\ live' = SubSeq(live, 1, n + 1) BY <1>9 DEF Pop, PopTo
  <2>2. n + 1 \in Nat /\ n + 1 <= Len(live) BY <1>5
  <2> HIDE DEF n
  <2>3. live' \in Seq(SUBSET Tag) /\ Len(live') = n + 1 /\ \A i \in 1 .. n + 1 : live'[i] = live[i] BY <1>5, <2>1, <2>2, SubSeqProperties
  <2>4. DOMAIN live' = 1 .. n + 1 /\ \A i \in 1 .. n + 1 : i \in 1 .. Len(live) BY <1>5, <2>2, <2>3, LenProperties
  <2>5. ASSUME NEW u \in LiveTags' PROVE u \in LiveTags
    <3>1. PICK i \in DOMAIN live' : u \in live'[i] BY DEF LiveTags
    <3>2. i \in 1 .. Len(live) /\ u \in live[i] BY <2>3, <2>4, <3>1
    <3> QED BY <1>5, <3>2 DEF LiveTags
  <2> QED BY <1>6, <2>5
<1>10. ASSUME NEW t \in Tag, AssertTag(t) PROVE MadeInv'
  <2>1. Made(Bounds[t].var) /\ (live' = live \/ live' = [live EXCEPT ![Len(live)] = @ \cup {t}]) BY <1>10 DEF AssertTag
  <2>2. CASE live' = [live EXCEPT ![Len(live)] = @ \cup {t}]
    <3>1. DOMAIN live' = DOMAIN live /\ \A i \in DOMAIN live : live'[i] \subseteq live[i] \cup {t} BY <2>2
    <3>2. ASSUME NEW u \in LiveTags' PROVE u \in LiveTags \/ u = t
      <4>1. PICK i \in DOMAIN live' : u \in live'[i] BY DEF LiveTags
      <4> QED BY <3>1, <4>1 DEF LiveTags
    <3>3. ASSUME NEW u \in LiveTags' PROVE Made(Bounds[u].var)'
      <4>1. u \in Tag /\ Made(Bounds[u].var) BY <1>4, <2>1, <3>2 DEF MadeInv
      <4> QED BY <1>3, <4>1
    <3> QED BY <3>3 DEF MadeInv
  <2> QED BY <1>7, <2>1, <2>2
<1> QED BY <1>7, <1>8, <1>9, <1>10
    DEF SimplexNext, AddRow, StartCheck, CheckStep, CheckSat, CheckUnsat, CheckExhausted, CheckPivot, simplexVars, boundVars

LEMMA AnswerKept ==
    ASSUME SimplexInv, LevelsInv, MadeInv, FollowInv, AnswerInv, Unimodular, [SimplexNext]_simplexVars
    PROVE  AnswerInv'
<1>1. BoundsInv BY DEF SimplexInv
<1>2. Ok.kind = "ok" BY DEF Ok
<1>3. ASSUME answer'.kind # "unsat", answer'.kind # "sat", checking' => answer' = Ok PROVE AnswerInv'
  BY <1>3 DEF AnswerInv
<1>4. CASE AddRow \/ Push \/ Pop \/ StartCheck
  <2>1. answer' = Ok BY <1>4 DEF AddRow, Push, Pop, StartCheck
  <2> QED BY <1>2, <1>3, <2>1
<1>5. CASE CheckSat
  <2>1. /\ ViolatedDirty = {} /\ checking' = FALSE /\ answer' = [kind |-> "sat", core |-> {}]
        /\ assignment' = assignment /\ live' = live
    BY <1>5 DEF CheckSat, boundVars
  <2>2. LiveTags' = LiveTags BY <2>1 DEF LiveTags
  <2>3. ASSUME NEW t \in LiveTags PROVE Satisfies(assignment, t)' 
    <3>1. Satisfies(assignment, t) BY <2>1, SatModel
    <3> QED BY <2>1, <3>1 DEF Satisfies
  <2>4. \A t \in LiveTags' : Satisfies(assignment, t)' BY <2>2, <2>3
  <2>5. answer'.kind = "sat" /\ answer'.kind # "unsat" BY <2>1
  <2> QED BY <2>1, <2>4, <2>5 DEF AnswerInv
<1>6. CASE CheckUnsat
  <2>1. checking' = FALSE /\ answer'.kind = "unsat" /\ live' = live BY <1>6 DEF CheckUnsat, boundVars
  <2>2. LiveTags' = LiveTags BY <2>1 DEF LiveTags
  <2>3. Clash(answer'.core) /\ answer'.core \subseteq LiveTags BY <1>6, StuckClash
  <2>4. answer'.core \ LiveTags' = {} BY <2>2, <2>3
  <2>5. Cardinality(answer'.core \ LiveTags') <= 1 BY <2>4, FS_EmptySet
  <2> QED BY <2>1, <2>3, <2>5 DEF AnswerInv
<1>7. CASE CheckExhausted
  <2>1. checking' = FALSE /\ answer' = [kind |-> "exhausted", core |-> {}] BY <1>7 DEF CheckExhausted
  <2> QED BY <1>3, <2>1
<1>8. CASE CheckPivot
  <2>1. checking /\ checking' = checking /\ answer' = answer BY <1>8 DEF CheckPivot
  <2>2. answer = Ok BY <2>1 DEF AnswerInv
  <2> QED BY <1>2, <1>3, <2>1, <2>2
<1>9. ASSUME NEW t \in Tag, AssertTag(t) PROVE AnswerInv'
  <2>1. checking' = FALSE BY <1>9 DEF AssertTag
  <2>2. AssertBound(Bounds[t].var, Bounds[t].lower, Bounds[t].val, t) BY <1>9 DEF AssertTag
  <2>3. answer' = Ok \/ answer'.kind = "unsat" BY <2>2 DEF AssertBound, AlreadyHolds, Refuse, Tighten
  <2>4. CASE answer' = Ok BY <1>2, <1>3, <2>1, <2>4
  <2>5. CASE answer'.kind = "unsat"
    <3>1. Clash(answer'.core) /\ Cardinality(answer'.core \ LiveTags') <= 1 BY <1>1, <1>9, <2>5, RefusedClash
    <3> QED BY <2>1, <2>5, <3>1 DEF AnswerInv
  <2> QED BY <2>3, <2>4, <2>5
<1>10. CASE UNCHANGED simplexVars
  <2>1. answer' = answer /\ checking' = checking /\ live' = live /\ assignment' = assignment BY <1>10 DEF simplexVars, boundVars
  <2>2. LiveTags' = LiveTags BY <2>1 DEF LiveTags
  <2>3. \A t : Satisfies(assignment, t)' <=> Satisfies(assignment, t) BY <2>1 DEF Satisfies
  <2>4. answer.kind = "sat" => \A t \in LiveTags : Satisfies(assignment, t) BY DEF AnswerInv
  <2>5. answer'.kind = "sat" => \A t \in LiveTags' : Satisfies(assignment, t)' BY <2>1, <2>2, <2>3, <2>4
  <2> QED BY <2>1, <2>2, <2>5 DEF AnswerInv
<1> QED BY <1>4, <1>5, <1>6, <1>7, <1>8, <1>9, <1>10 DEF SimplexNext, CheckStep

LEMMA AnswerStart == ASSUME SimplexInit PROVE MadeInv /\ AnswerInv
<1>1. answer = Ok /\ live = <<{}>> BY DEF SimplexInit
<1>2. LiveTags = {}
  <2>1. DOMAIN live = 1 .. 1 /\ live[1] = {} BY <1>1
  <2> QED BY <2>1 DEF LiveTags
<1>3. answer.kind = "ok" BY <1>1 DEF Ok
<1> QED BY <1>1, <1>2, <1>3 DEF MadeInv, AnswerInv

\* A clash over all integers is one over those near the bounds.
LEMMA CoresInfeasible == ASSUME AnswerInv PROVE CoreInfeasible
<1>1. ASSUME answer.kind = "unsat"
      PROVE  Cardinality(answer.core \ LiveTags) <= 1 /\ 0 \notin answer.core /\ ~Feasible[answer.core]
  <2>1. Clash(answer.core) /\ Cardinality(answer.core \ LiveTags) <= 1 BY <1>1 DEF AnswerInv
  <2>2. answer.core \in SUBSET Tag /\ 0 \notin Tag BY <2>1, TagIs DEF Clash
  <2> DEFINE meets == [x \in [1 .. NumStruct -> Near] |-> {t \in Tag : Satisfies(x, t)}]
             sets == {meets[x] : x \in DOMAIN meets}
  <2>3. Feasible[answer.core] <=> \E m \in sets : answer.core \subseteq m BY <2>2 DEF Feasible
  <2>4. ASSUME NEW m \in sets, answer.core \subseteq m PROVE FALSE
    <3>1. PICK x \in [1 .. NumStruct -> Near] : m = {t \in Tag : Satisfies(x, t)} OBVIOUS
    <3>2. Near \subseteq Int
      <4>1. Unit \in Int BY DEF Unit
      <4>2. ASSUME NEW y \in Near PROVE y \in Int
        <5>1. PICK a \in -2 .. 2, b \in -2 .. 2 : y = a * Unit + b BY DEF Near
        <5>2. a \in Int /\ b \in Int OBVIOUS
        <5>3. a * Unit \in Int BY <4>1, <5>2, Ring
        <5> QED BY <5>1, <5>2, <5>3
      <4> QED BY <4>2
    <3>3. x \in [1 .. NumStruct -> Int] BY <3>2
    <3>4. PICK t \in answer.core : ~Satisfies(x, t) BY <2>1, <3>3 DEF Clash
    <3> QED BY <2>4, <3>1, <3>4
  <2> QED BY <2>1, <2>2, <2>3, <2>4
<1>2. answer.kind = "sat" => \A t \in LiveTags : Satisfies(assignment, t) BY DEF AnswerInv
<1> QED BY <1>1, <1>2 DEF CoreInfeasible

-----------------------------------------------------------------------------
(* Reading the model *)

Fractions == (Nat \ {0}) \X (Nat \ {0})
NoMore(d, e) == d[1] * e[2] <= e[1] * d[2]

LEMMA CrossChain ==
    ASSUME NEW a \in Nat \ {0}, NEW b \in Nat \ {0}, NEW c \in Nat \ {0}, NEW d \in Nat \ {0}, NEW e \in Nat \ {0}, NEW f \in Nat \ {0},
           a * d <= c * b, c * f <= e * d
    PROVE  a * f <= e * b
<1>1. (a * d) * f <= (c * b) * f
  <2> DEFINE m == a * d
             n == c * b
  <2>1. m \in Nat /\ n \in Nat /\ m <= n OBVIOUS
  <2> HIDE DEF m, n
  <2>2. m * f <= n * f BY <2>1
  <2> QED BY <2>2 DEF m, n
<1>2. (c * f) * b <= (e * d) * b
  <2> DEFINE m == c * f
             n == e * d
  <2>1. m \in Nat /\ n \in Nat /\ m <= n OBVIOUS
  <2> HIDE DEF m, n
  <2>2. m * b <= n * b BY <2>1
  <2> QED BY <2>2 DEF m, n
<1>3. (a * f) * d = (a * d) * f /\ (c * b) * f = (c * f) * b /\ (e * d) * b = (e * b) * d OBVIOUS
<1> DEFINE p == a * f
           q == e * b
<1>4. p \in Nat /\ q \in Nat OBVIOUS
<1>5. p * d <= q * d
  <2>1. (a * d) * f \in Nat /\ (c * b) * f \in Nat /\ (e * d) * b \in Nat OBVIOUS
  <2> QED BY <1>1, <1>2, <1>3, <2>1
<1> HIDE DEF p, q
<1>6. p <= q
  <2> SUFFICES ASSUME q + 1 <= p PROVE FALSE BY <1>4
  <2>1. PICK k \in Nat : p = q + 1 + k
    <3>1. p - (q + 1) \in Nat /\ p = q + 1 + (p - (q + 1)) BY <1>4
    <3> QED BY <3>1
  <2>2. p * d = q * d + d + k * d BY <1>4, <2>1
  <2>3. q * d \in Nat /\ k * d \in Nat BY <1>4, <2>1
  <2> QED BY <1>5, <2>2, <2>3
<1> QED BY <1>6 DEF p, q

LEMMA Chain == ASSUME NEW x \in Fractions, NEW y \in Fractions, NEW z \in Fractions, NoMore(x, y), NoMore(y, z) PROVE NoMore(x, z)
<1> DEFINE a == x[1]
           b == x[2]
           c == y[1]
           d == y[2]
           e == z[1]
           f == z[2]
<1>1. a \in Nat \ {0} /\ b \in Nat \ {0} /\ c \in Nat \ {0} /\ d \in Nat \ {0} /\ e \in Nat \ {0} /\ f \in Nat \ {0}
  BY DEF Fractions
<1>2. a * d <= c * b /\ c * f <= e * d BY DEF NoMore
<1> HIDE DEF a, b, c, d, e, f
<1>3. a * f <= e * b BY <1>1, <1>2, CrossChain
<1> QED BY <1>3 DEF NoMore, a, b, e, f

LEMMA Either == ASSUME NEW x \in Fractions, NEW y \in Fractions PROVE (NoMore(x, y) \/ NoMore(y, x)) /\ NoMore(x, x)
<1>1. x[1] \in Nat /\ x[2] \in Nat /\ y[1] \in Nat /\ y[2] \in Nat BY DEF Fractions
<1>2. x[1] * y[2] \in Nat /\ y[1] * x[2] \in Nat /\ x[1] * x[2] \in Nat BY <1>1
<1> QED BY <1>2 DEF NoMore

\* Fractions of small denominators have a least one.
LEMMA LeastFraction ==
    ASSUME NEW S \in SUBSET Fractions, S # {}, NEW N \in Nat, \A q \in S : q[2] <= N
    PROVE  \E d \in S : \A e \in S : NoMore(d, e)
<1> DEFINE Below(n) == {q \in S : q[2] <= n}
           T == {n \in Nat : Below(n) # {} => \E d \in Below(n) : \A e \in Below(n) : NoMore(d, e)}
<1>0. \A q \in S : q \in Fractions /\ q[1] \in Nat \ {0} /\ q[2] \in Nat \ {0} BY DEF Fractions
<1>1. 0 \in T
  <2>1. Below(0) = {} BY <1>0
  <2> QED BY <2>1
<1>2. ASSUME NEW n \in Nat, n \in T PROVE n + 1 \in T
  <2> DEFINE A == Below(n)
             B == Below(n + 1)
             C == {q \in S : q[2] = n + 1}
             Tops == {q[1] : q \in C}
  <2>1. A \subseteq S /\ B \subseteq S /\ C \subseteq S /\ A \subseteq B /\ C \subseteq B /\ \A q \in B : q \in A \/ q \in C
    <3>1. \A q \in S : q[2] \in Nat /\ (q[2] <= n + 1 <=> q[2] <= n \/ q[2] = n + 1) BY <1>0
    <3> QED BY <3>1
  <2>2. A # {} => \E d \in A : \A e \in A : NoMore(d, e) BY <1>2
  <2>3. C # {} => \E d \in C : \A e \in C : NoMore(d, e)
    <3> SUFFICES ASSUME C # {} PROVE \E d \in C : \A e \in C : NoMore(d, e) OBVIOUS
    <3>1. Tops \in SUBSET Nat /\ Tops # {} BY <1>0
    <3>2. PICK m \in Tops : \A x \in Tops : m <= x BY <3>1, LeastIs
    <3>3. PICK d \in C : d[1] = m BY <3>2
    <3>4. ASSUME NEW e \in C PROVE NoMore(d, e)
      <4>1. e[1] \in Tops /\ d[1] <= e[1] /\ e[2] = n + 1 /\ d[2] = n + 1 BY <3>2, <3>3
      <4>2. d[1] \in Nat /\ e[1] \in Nat BY <1>0, <2>1
      <4>3. \A a \in Nat, b \in Nat, k \in Nat : a <= b => a * k <= b * k OBVIOUS
      <4>4. d[1] * (n + 1) <= e[1] * (n + 1) BY <4>1, <4>2, <4>3
      <4> QED BY <4>1, <4>4 DEF NoMore
    <3> QED BY <3>4
  <2>4. ASSUME B # {} PROVE \E d \in B : \A e \in B : NoMore(d, e)
    <3> HIDE DEF A, B, C
    <3>1. CASE A = {} BY <2>1, <2>3, <2>4, <3>1
    <3>2. CASE C = {} BY <2>1, <2>2, <2>4, <3>2
    <3>3. CASE A # {} /\ C # {}
      <4>1. PICK a \in A : \A e \in A : NoMore(a, e) BY <2>2, <3>3
      <4>2. PICK c \in C : \A e \in C : NoMore(c, e) BY <2>3, <3>3
      <4>3. a \in Fractions /\ c \in Fractions /\ a \in B /\ c \in B /\ \A e \in B : e \in Fractions BY <1>0, <2>1, <4>1, <4>2
      <4>4. CASE NoMore(a, c)
        <5>1. \A e \in B : NoMore(a, e) BY <2>1, <4>1, <4>2, <4>3, <4>4, Chain
        <5> QED BY <4>3, <5>1
      <4>5. CASE NoMore(c, a)
        <5>1. \A e \in B : NoMore(c, e) BY <2>1, <4>1, <4>2, <4>3, <4>5, Chain
        <5> QED BY <4>3, <5>1
      <4> QED BY <4>3, <4>4, <4>5, Either
    <3> QED BY <3>1, <3>2, <3>3
  <2> QED BY <2>4
<1>3. Nat \subseteq T
  <2> HIDE DEF T
  <2> QED BY <1>1, <1>2, NatInductive
<1>4. N \in T
  <2> HIDE DEF T
  <2> QED BY <1>3
<1>5. Below(N) = S OBVIOUS
<1> QED BY <1>4, <1>5

\* A number is a rational part and a few infinitesimals, and compares as the pair.
LEMMA PairIs ==
    ASSUME NEW n \in Int
    PROVE  /\ Rational(n) \in Int /\ Infinitesimals(n) \in Int
           /\ Infinitesimals(n) >= -50 /\ Infinitesimals(n) <= 49
           /\ n = 100 * Rational(n) + Infinitesimals(n)
<1> DEFINE k == ((n + 50) % 100) - 50
<1>1. Infinitesimals(n) = k BY DEF Infinitesimals, Unit
<1>2. Rational(n) = (n - k) \div 100 BY <1>1 DEF Rational, Unit
<1>3. (n + 50) % 100 \in 0 .. 99 /\ n + 50 = 100 * ((n + 50) \div 100) + ((n + 50) % 100) /\ (n + 50) \div 100 \in Int OBVIOUS
<1> HIDE DEF k
<1>4. k \in Int /\ k >= -50 /\ k <= 49 BY <1>3 DEF k
<1>5. n - k = 100 * ((n + 50) \div 100) BY <1>3 DEF k
<1> DEFINE q == (n + 50) \div 100
<1>6. q \in Int /\ n - k = 100 * q BY <1>3, <1>5
<1> HIDE DEF q
<1>7. (100 * q) \div 100 = q BY <1>6
<1>8. Rational(n) = q BY <1>2, <1>6, <1>7
<1> QED BY <1>1, <1>4, <1>6, <1>8

LEMMA PairOrder ==
    ASSUME NEW m \in Int, NEW n \in Int, m <= n
    PROVE  Rational(m) < Rational(n) \/ (Rational(m) = Rational(n) /\ Infinitesimals(m) <= Infinitesimals(n))
<1>1. /\ Rational(m) \in Int /\ Infinitesimals(m) \in Int /\ Infinitesimals(m) >= -50 /\ Infinitesimals(m) <= 49
      /\ m = 100 * Rational(m) + Infinitesimals(m)
  BY PairIs
<1>2. /\ Rational(n) \in Int /\ Infinitesimals(n) \in Int /\ Infinitesimals(n) >= -50 /\ Infinitesimals(n) <= 49
      /\ n = 100 * Rational(n) + Infinitesimals(n)
  BY PairIs
<1> QED BY <1>1, <1>2

\* The pairs that bound delta.
Quotients ==
    {<<Rational(p[2]) - Rational(p[1]), Infinitesimals(p[1]) - Infinitesimals(p[2])>> :
       p \in {q \in OrderedPairs : Rational(q[1]) < Rational(q[2]) /\ Infinitesimals(q[1]) > Infinitesimals(q[2])}}
      \cup {<<1, 1>>}

\* For delta, the pairs keep their order.
LEMMA DeltaIs ==
    ASSUME OrderedPairs \subseteq Int \X Int, \A p \in OrderedPairs : p[1] <= p[2]
    PROVE  Delta \in Fractions /\ \A p \in OrderedPairs : At(p[1], Delta) <= At(p[2], Delta)
<1>1. ASSUME NEW q \in Quotients PROVE q \in Fractions /\ q[2] <= 99
  <2>1. CASE q = <<1, 1>> BY <2>1 DEF Fractions
  <2>2. CASE q # <<1, 1>>
    <3>1. PICK p \in OrderedPairs : /\ Rational(p[1]) < Rational(p[2]) /\ Infinitesimals(p[1]) > Infinitesimals(p[2])
                                    /\ q = <<Rational(p[2]) - Rational(p[1]), Infinitesimals(p[1]) - Infinitesimals(p[2])>>
      BY <2>2 DEF Quotients
    <3>2. p[1] \in Int /\ p[2] \in Int OBVIOUS
    <3>3. Rational(p[2]) - Rational(p[1]) \in Nat \ {0} /\ Infinitesimals(p[1]) - Infinitesimals(p[2]) \in Nat \ {0}
          /\ Infinitesimals(p[1]) - Infinitesimals(p[2]) <= 99
      BY <3>1, <3>2, PairIs
    <3> QED BY <3>1, <3>3 DEF Fractions
  <2> QED BY <2>1, <2>2
<1>2. Quotients \in SUBSET Fractions /\ Quotients # {} BY <1>1 DEF Quotients
<1>3. \E d \in Quotients : \A e \in Quotients : NoMore(d, e) BY <1>1, <1>2, LeastFraction
<1>4. Delta = CHOOSE d \in Quotients : \A e \in Quotients : d[1] * e[2] <= e[1] * d[2] BY DEF Delta, Quotients
<1>5. Delta = CHOOSE d \in Quotients : \A e \in Quotients : NoMore(d, e) BY <1>4 DEF NoMore
<1> HIDE DEF Quotients
<1>6. Delta \in Quotients /\ \A e \in Quotients : NoMore(Delta, e)
  <2> DEFINE c == CHOOSE d \in Quotients : \A e \in Quotients : NoMore(d, e)
  <2>1. c \in Quotients /\ \A e \in Quotients : NoMore(c, e) BY <1>3
  <2> HIDE DEF c
  <2> QED BY <1>5, <2>1 DEF c
<1> DEFINE a == Delta[1]
           b == Delta[2]
<1>7. a \in Nat \ {0} /\ b \in Nat \ {0} /\ Delta \in Fractions BY <1>2, <1>6 DEF Fractions
<1>8. ASSUME NEW p \in OrderedPairs PROVE At(p[1], Delta) <= At(p[2], Delta)
  <2> DEFINE r == Rational(p[1])
             s == Rational(p[2])
             k == Infinitesimals(p[1])
             l == Infinitesimals(p[2])
  <2>1. p[1] \in Int /\ p[2] \in Int /\ p[1] <= p[2] OBVIOUS
  <2>2. r \in Int /\ s \in Int /\ k \in Int /\ l \in Int BY <2>1, PairIs
  <2>3. r < s \/ (r = s /\ k <= l) BY <2>1, PairOrder
  <2>4. At(p[1], Delta) = r * b + k * a /\ At(p[2], Delta) = s * b + l * a BY DEF At
  <2>5. r < s /\ k > l => a * (k - l) <= (s - r) * b
    <3> SUFFICES ASSUME r < s, k > l PROVE a * (k - l) <= (s - r) * b OBVIOUS
    <3>1. <<s - r, k - l>> \in Quotients BY DEF Quotients
    <3>2. NoMore(Delta, <<s - r, k - l>>) BY <1>6, <3>1
    <3> QED BY <3>2 DEF NoMore
  <2> HIDE DEF a, b, r, s, k, l
  <2>6. /\ (s - r) * b = s * b - r * b /\ a * (k - l) = k * a - l * a /\ (l - k) * a = l * a - k * a
        /\ s * b \in Int /\ r * b \in Int /\ k * a \in Int /\ l * a \in Int
    BY <1>7, <2>2
  <2>7. \A x \in Nat, y \in Nat : x * y \in Nat OBVIOUS
  <2>8. CASE r < s /\ k > l BY <2>4, <2>5, <2>6, <2>8
  <2>9. CASE r <= s /\ k <= l
    <3>1. s - r \in Nat /\ l - k \in Nat BY <2>2, <2>9
    <3>2. (s - r) * b \in Nat /\ (l - k) * a \in Nat BY <1>7, <2>7, <3>1
    <3> QED BY <2>4, <2>6, <3>2
  <2> QED BY <2>2, <2>3, <2>8, <2>9
<1> QED BY <1>7, <1>8

\* Multiples in order.
LEMMA Scaled == \A a \in Int, b \in Int, k \in Nat \ {0} : (a <= b => a * k <= b * k) /\ (a < b => a * k < b * k) /\ a * k \in Int
<1> SUFFICES ASSUME NEW a \in Int, NEW b \in Int, NEW k \in Nat \ {0} PROVE (a <= b => a * k <= b * k) /\ (a < b => a * k < b * k) /\ a * k \in Int
  OBVIOUS
<1>1. a * k \in Int /\ b * k \in Int /\ (b - a) * k = b * k - a * k OBVIOUS
<1>2. ASSUME a <= b PROVE a * k <= b * k
  <2>1. b - a \in Nat BY <1>2
  <2>2. \A x \in Nat, y \in Nat : x * y \in Nat OBVIOUS
  <2>3. (b - a) * k \in Nat BY <2>1, <2>2
  <2> QED BY <1>1, <2>3
<1>3. ASSUME a < b PROVE a * k < b * k
  <2>1. (b - a) - 1 \in Nat BY <1>3
  <2>2. \A x \in Nat, y \in Nat : x * y \in Nat OBVIOUS
  <2>3. ((b - a) - 1) * k \in Nat BY <2>1, <2>2
  <2>4. ((b - a) - 1) * k = (b - a) * k - k BY <1>1
  <2> QED BY <1>1, <2>3, <2>4
<1> QED BY <1>1, <1>2, <1>3

LEMMA ModelRead ==
    ASSUME SimplexInv, LevelsInv, MadeInv, AnswerInv, BoundsAreStrict
    PROVE  ModelMeetsBounds
<1> SUFFICES ASSUME answer.kind = "sat", NEW t \in LiveTags
             PROVE  LET b == Bounds[t]
                        d == Delta
                        x == At(assignment[b.var], d)
                        c == Rational(b.val) * d[2]
                        strict == Infinitesimals(b.val) # 0
                    IN  /\ IF b.lower THEN x >= c ELSE x <= c
                        /\ strict => x # c
  BY DEF ModelMeetsBounds
<1>1. TableauInv /\ BoundsInv /\ SeenInv BY DEF SimplexInv
<1>2. TableauRight(rows, rowOf) /\ assignment \in Vectors /\ RowsHold(rows, assignment) BY <1>1 DEF TableauInv
<1>3. LiveTags \subseteq Tag
  <2>1. NumStruct \in Var /\ TRUE \in BOOLEAN BY Sizes
  <2> QED BY <1>1, <2>1, LastLevel
\* A live bound is met, with its infinitesimals.
<1>4. ASSUME NEW s \in LiveTags
      PROVE  /\ Bounds[s].var \in Var /\ Bounds[s].lower \in BOOLEAN /\ Bounds[s].val \in Int /\ assignment[Bounds[s].var] \in Int
             /\ IF Bounds[s].lower THEN assignment[Bounds[s].var] >= Bounds[s].val ELSE assignment[Bounds[s].var] <= Bounds[s].val
  <2>1. s \in Tag BY <1>3
  <2>2. Bounds[s].var \in Var /\ Bounds[s].lower \in BOOLEAN /\ Bounds[s].val \in Int BY <2>1, TagIs
  <2>3. Satisfies(assignment, s) BY DEF AnswerInv
  <2>4. Holds(assignment, Bounds[s].var) = assignment[Bounds[s].var]
    <3> DEFINE v == Bounds[s].var
    <3>1. CASE v <= NumStruct BY <3>1 DEF Holds
    <3>2. CASE ~(v <= NumStruct)
      <4>1. FormsHold(assignment, Len(rows)) /\ Len(rows) \in Nat BY <1>2, RowsForm, RowIs
      <4>2. v <= NumStruct + Len(rows) BY DEF MadeInv, Made
      <4>3. v \in Var BY <2>2
      <4> HIDE DEF v
      <4>4. v - NumStruct \in 1 .. Len(rows) /\ NumStruct + (v - NumStruct) = v BY <3>2, <4>1, <4>2, <4>3, Sizes
      <4>5. assignment[v] = FormValue(v - NumStruct, assignment) BY <4>1, <4>4 DEF FormsHold
      <4>6. Holds(assignment, v) = assignment[v] BY <3>2, <4>5 DEF Holds
      <4> QED BY <4>6 DEF v
    <3> QED BY <3>1, <3>2
  <2>5. assignment[Bounds[s].var] \in Int BY <1>2, <2>2 DEF Vectors
  <2> QED BY <2>1, <2>2, <2>3, <2>4, <2>5, SatisfiesIs
\* The bounds in force are live.
<1>5. ASSUME NEW v \in Var
      PROVE  /\ lower[v].val \in Int /\ upper[v].val \in Int /\ assignment[v] \in Int
             /\ lower[v].tag # 0 => lower[v].val <= assignment[v] /\ Infinitesimals(lower[v].val) >= 0
             /\ upper[v].tag # 0 => assignment[v] <= upper[v].val /\ Infinitesimals(upper[v].val) <= 0
  <2>1. lower[v].val \in Int /\ upper[v].val \in Int /\ assignment[v] \in Int BY <1>1, <1>2, LowerIs, UpperIs DEF Vectors
  <2>2. ASSUME lower[v].tag # 0 PROVE lower[v].val <= assignment[v] /\ Infinitesimals(lower[v].val) >= 0
    <3> DEFINE s == lower[v].tag
    <3>1. s \in LiveTags /\ s \in Tag /\ Bounds[s].var = v /\ Bounds[s].lower = TRUE /\ Bounds[s].val = lower[v].val
      BY <1>1, <2>2, LowerIs
    <3> HIDE DEF s
    <3>2. assignment[v] >= Bounds[s].val BY <1>4, <3>1
    <3>3. Infinitesimals(Bounds[s].val) >= 0 BY <3>1 DEF BoundsAreStrict
    <3> QED BY <2>1, <3>1, <3>2, <3>3
  <2>3. ASSUME upper[v].tag # 0 PROVE assignment[v] <= upper[v].val /\ Infinitesimals(upper[v].val) <= 0
    <3> DEFINE s == upper[v].tag
    <3>1. s \in LiveTags /\ s \in Tag /\ Bounds[s].var = v /\ Bounds[s].lower = FALSE /\ Bounds[s].val = upper[v].val
      BY <1>1, <2>3, UpperIs
    <3> HIDE DEF s
    <3>2. assignment[v] <= Bounds[s].val BY <1>4, <3>1
    <3>3. Infinitesimals(Bounds[s].val) <= 0 BY <3>1 DEF BoundsAreStrict
    <3> QED BY <2>1, <3>1, <3>2, <3>3
  <2> QED BY <2>1, <2>2, <2>3
<1>6. ASSUME NEW p \in OrderedPairs PROVE p \in Int \X Int /\ p[1] <= p[2]
  <2>1. \/ \E v \in Var : lower[v].tag # 0 /\ p = <<lower[v].val, assignment[v]>>
        \/ \E v \in Var : upper[v].tag # 0 /\ p = <<assignment[v], upper[v].val>>
    BY DEF OrderedPairs
  <2> QED BY <1>5, <2>1
<1>7. OrderedPairs \subseteq Int \X Int /\ \A p \in OrderedPairs : p[1] <= p[2] BY <1>6
<1>8. Delta \in Fractions /\ \A p \in OrderedPairs : At(p[1], Delta) <= At(p[2], Delta) BY <1>7, DeltaIs
<1> DEFINE a == Delta[1]
           b == Delta[2]
           v == Bounds[t].var
           val == Bounds[t].val
<1>9. a \in Nat \ {0} /\ b \in Nat \ {0} BY <1>8 DEF Fractions
<1>10. v \in Var /\ val \in Int /\ Bounds[t].lower \in BOOLEAN BY <1>4
<1>11. \A n : At(n, Delta) = Rational(n) * b + Infinitesimals(n) * a BY DEF At
<1>12. v = Bounds[t].var /\ val = Bounds[t].val OBVIOUS
<1>13. IF Bounds[t].lower THEN Infinitesimals(val) >= 0 ELSE Infinitesimals(val) <= 0 BY <1>3 DEF BoundsAreStrict
<1> HIDE DEF a, b, v, val
<1>14. assignment[v] \in Int BY <1>5, <1>10
<1>15. At(assignment[v], Delta) \in Int /\ Rational(val) * b \in Int
  <2>1. Rational(assignment[v]) \in Int /\ Infinitesimals(assignment[v]) \in Int /\ Rational(val) \in Int BY <1>10, <1>14, PairIs
  <2> QED BY <1>9, <1>11, <2>1, Scaled
<1>16. CASE Bounds[t].lower = TRUE
  <2> DEFINE n == lower[v].val
  <2>1. lower[v].tag # 0 /\ val <= n /\ n \in Int BY <1>1, <1>10, <1>12, <1>16, LowerIs
  <2>2. Infinitesimals(n) >= 0 BY <1>5, <1>10, <2>1
  <2>3. At(n, Delta) <= At(assignment[v], Delta)
    <3>1. <<n, assignment[v]>> \in OrderedPairs BY <1>10, <2>1 DEF OrderedPairs
    <3>2. At(<<n, assignment[v]>>[1], Delta) <= At(<<n, assignment[v]>>[2], Delta) BY <1>8, <3>1
    <3> QED BY <3>2
  <2> HIDE DEF n
  <2>4. Rational(val) < Rational(n) \/ (Rational(val) = Rational(n) /\ Infinitesimals(val) <= Infinitesimals(n)) BY <1>10, <2>1, PairOrder
  <2>5. Rational(val) \in Int /\ Rational(n) \in Int /\ Infinitesimals(n) \in Int /\ Infinitesimals(val) \in Int BY <1>10, <2>1, PairIs
  <2>6. At(n, Delta) = Rational(n) * b + Infinitesimals(n) * a BY <1>11
  <2>7. 0 * a = 0 /\ 0 * a <= Infinitesimals(n) * a /\ (0 < Infinitesimals(n) => 0 * a < Infinitesimals(n) * a)
        /\ Infinitesimals(n) * a \in Int /\ Rational(n) * b \in Int
    BY <1>9, <2>2, <2>5, Scaled
  <2>8. At(n, Delta) >= Rational(val) * b /\ (Infinitesimals(val) # 0 => At(n, Delta) > Rational(val) * b)
    <3>1. CASE Rational(val) < Rational(n)
      <4>1. Rational(val) * b < Rational(n) * b BY <1>9, <2>5, <3>1, Scaled
      <4> QED BY <1>15, <2>6, <2>7, <4>1
    <3>2. CASE Rational(val) = Rational(n) /\ Infinitesimals(val) <= Infinitesimals(n)
      <4>1. Infinitesimals(val) # 0 => 0 < Infinitesimals(n) BY <1>13, <1>16, <2>5, <3>2
      <4> QED BY <1>15, <2>6, <2>7, <3>2, <4>1
    <3> QED BY <2>4, <3>1, <3>2
  <2>9. At(n, Delta) \in Int BY <2>6, <2>7
  <2>10. At(assignment[v], Delta) >= Rational(val) * b /\ (Infinitesimals(val) # 0 => At(assignment[v], Delta) # Rational(val) * b)
    BY <1>15, <2>3, <2>8, <2>9
  <2> QED BY <1>12, <1>16, <2>10 DEF b
<1>17. CASE Bounds[t].lower = FALSE
  <2> DEFINE n == upper[v].val
  <2>1. upper[v].tag # 0 /\ n <= val /\ n \in Int
    <3>1. upper[v].tag # 0 /\ val >= n /\ n \in Int BY <1>1, <1>10, <1>12, <1>17, UpperIs
    <3> QED BY <1>10, <3>1
  <2>2. Infinitesimals(n) <= 0 BY <1>5, <1>10, <2>1
  <2>3. At(assignment[v], Delta) <= At(n, Delta)
    <3>1. <<assignment[v], n>> \in OrderedPairs BY <1>10, <2>1 DEF OrderedPairs
    <3>2. At(<<assignment[v], n>>[1], Delta) <= At(<<assignment[v], n>>[2], Delta) BY <1>8, <3>1
    <3> QED BY <3>2
  <2> HIDE DEF n
  <2>4. Rational(n) < Rational(val) \/ (Rational(n) = Rational(val) /\ Infinitesimals(n) <= Infinitesimals(val)) BY <1>10, <2>1, PairOrder
  <2>5. Rational(val) \in Int /\ Rational(n) \in Int /\ Infinitesimals(n) \in Int /\ Infinitesimals(val) \in Int BY <1>10, <2>1, PairIs
  <2>6. At(n, Delta) = Rational(n) * b + Infinitesimals(n) * a BY <1>11
  <2>7. 0 * a = 0 /\ Infinitesimals(n) * a <= 0 * a /\ (Infinitesimals(n) < 0 => Infinitesimals(n) * a < 0 * a)
        /\ Infinitesimals(n) * a \in Int /\ Rational(n) * b \in Int
    BY <1>9, <2>2, <2>5, Scaled
  <2>8. At(n, Delta) <= Rational(val) * b /\ (Infinitesimals(val) # 0 => At(n, Delta) < Rational(val) * b)
    <3>1. CASE Rational(n) < Rational(val)
      <4>1. Rational(n) * b < Rational(val) * b BY <1>9, <2>5, <3>1, Scaled
      <4> QED BY <1>15, <2>6, <2>7, <4>1
    <3>2. CASE Rational(n) = Rational(val) /\ Infinitesimals(n) <= Infinitesimals(val)
      <4>1. Infinitesimals(val) # 0 => Infinitesimals(n) < 0 BY <1>13, <1>17, <2>5, <3>2
      <4> QED BY <1>15, <2>6, <2>7, <3>2, <4>1
    <3> QED BY <2>4, <3>1, <3>2
  <2>9. At(n, Delta) \in Int BY <2>6, <2>7
  <2>10. At(assignment[v], Delta) <= Rational(val) * b /\ (Infinitesimals(val) # 0 => At(assignment[v], Delta) # Rational(val) * b)
    BY <1>15, <2>3, <2>8, <2>9
  <2> QED BY <1>12, <1>17, <2>10 DEF b
<1> QED BY <1>10, <1>16, <1>17

\* The simplex and what it may tell its caller.
ToldInv == SimplexInv /\ FollowInv /\ LevelsInv /\ MadeInv /\ AnswerInv

LEMMA ToldStep == ASSUME ToldInv, Unimodular, [SimplexNext]_simplexVars PROVE ToldInv'
<1>1. SimplexInv /\ FollowInv /\ LevelsInv /\ MadeInv /\ AnswerInv BY DEF ToldInv
<1>2. SimplexInv' /\ FollowInv' BY <1>1, StepInv, StepFollows
<1>3. BoundsInv BY <1>1 DEF SimplexInv
<1>4. LevelsInv' BY <1>1, <1>3, BoundsStep
<1>5. MadeInv' /\ AnswerInv' BY <1>1, MadeStep, AnswerKept
<1> QED BY <1>2, <1>4, <1>5 DEF ToldInv

LEMMA ToldExact == ASSUME ToldInv, BoundsAreStrict PROVE AnswersRight
<1>1. SimplexInv /\ FollowInv /\ LevelsInv /\ MadeInv /\ AnswerInv BY DEF ToldInv
<1>2. BoundsInv BY <1>1 DEF SimplexInv
<1> QED BY <1>1, <1>2, LevelsExact, CoresInfeasible, ModelRead DEF AnswersRight

\* An unsat core names asserted bounds that no values meet, a sat answer leaves values
\* that meet all, and the delta read from them is small enough for every strict bound.
THEOREM AnswersAreRight == ASSUME BoundsAreStrict PROVE SimplexSpec /\ []Unimodular => []AnswersRight
<1>1. SimplexInit => ToldInv BY InitInv, InitFollows, BoundsStart, AnswerStart DEF ToldInv
<1>2. ToldInv /\ Unimodular /\ [SimplexNext]_simplexVars => ToldInv' BY ToldStep
<1>3. ToldInv => AnswersRight BY ToldExact
<1> QED BY <1>1, <1>2, <1>3, PTL DEF SimplexSpec

\* The caller of the simplex in the composition gets right answers: nothing else moves it.
THEOREM SimplexIsRight == TheoriesSpec => []SimplexRight
<1> DEFINE I == part # "simplex" \/ ToldInv
<1>1. TheoriesInit => I
  <2> SUFFICES ASSUME TheoriesInit PROVE ToldInv OBVIOUS
  <2>1. SimplexInit BY DEF TheoriesInit, HInit
  <2> QED BY <2>1, InitInv, InitFollows, BoundsStart, AnswerStart DEF ToldInv
<1>2. I /\ [TheoriesNext]_all => I'
  <2> SUFFICES ASSUME I, [TheoriesNext]_all PROVE I' OBVIOUS
  <2>1. part' = part BY DEF TheoriesNext, all
  <2> SUFFICES ASSUME part = "simplex" PROVE ToldInv' BY <2>1
  <2>2. [SimplexNext]_simplexVars BY DEF TheoriesNext, all, hvars
  <2>3. ToldInv OBVIOUS
  <2>4. Unimodular BY <2>3, ParametersAssumption, DifferencesUnimodular DEF ToldInv
  <2> QED BY <2>2, <2>3, <2>4, ToldStep
<1>3. I => SimplexRight
  <2>1. ToldInv => AnswersRight BY ParametersAssumption, ToldExact
  <2> QED BY <2>1 DEF SimplexRight
<1> QED BY <1>1, <1>2, <1>3, PTL DEF TheoriesSpec
=============================================================================
