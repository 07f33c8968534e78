-------------------------- MODULE SatSolver_proofs --------------------------
(***************************************************************************)
(* Theorems about SatSolver, for every value of its constants: how its     *)
(* trail, levels, antecedents and watches refer to one another, the prefix *)
(* of the trail a theory relies on, the soundness of what a search         *)
(* concludes (antecedents imply, levels fit, every clause learnt or given  *)
(* and every literal of level 0 follows from the clauses added and the     *)
(* theory, Unsat is real), and that the search overlooks nothing: the      *)
(* watch lists and the decision heap are exact in every run; without       *)
(* chronological backtracking a Sat comes with a model, and without a      *)
(* theory propagation stops at fixpoints only.                             *)
(***************************************************************************)
EXTENDS SatSolver, FiniteSetTheorems, SequenceTheorems, TLAPS

-----------------------------------------------------------------------------
(* Facts about naturals: least elements, bounds of functions, the maximum   *)
(* FiniteSetsExt!Max chooses, and the element of a given rank.              *)

\* A nonempty set of naturals has a least element.
LEMMA LeastNat ==
  ASSUME NEW T, T \subseteq Nat, T # {}
  PROVE  \E x \in T : \A y \in T : x <= y
<1>1. PICK x \in T : \A y \in T : ~(<<y, x>> \in OpToRel(<, Nat))
  BY NatLessThanWellFounded, WFMin
<1>2. ASSUME NEW y \in T PROVE x <= y
  <2>1. ~(<<y, x>> \in OpToRel(<, Nat))
    BY <1>1
  <2>2. x \in Nat /\ y \in Nat
    BY <1>1
  <2>3. ~(y < x)
    BY <2>1, <2>2 DEF OpToRel
  <2> QED BY <2>2, <2>3
<1> QED BY <1>1, <1>2

\* The maximum of a nonempty bounded set of naturals is one of its elements
\* and bounds them all.
LEMMA MaxIn ==
  ASSUME NEW S, S \subseteq Nat, S # {}, NEW b \in Nat, \A s \in S : s <= b
  PROVE  /\ Max(S) \in S
         /\ \A s \in S : s <= Max(S)
<1> DEFINE B == {n \in Nat : \A s \in S : s <= n}
<1>1. B \subseteq Nat /\ B # {}
  OBVIOUS
<1>2. PICK m \in B : \A n \in B : m <= n
  BY <1>1, LeastNat
<1>3. m \in S
  <2> SUFFICES ASSUME m \notin S PROVE FALSE
    OBVIOUS
  <2>1. \A s \in S : s < m
    BY <1>2
  <2>2. m \in Nat /\ m - 1 \in Nat
    <3>1. PICK s \in S : TRUE
      OBVIOUS
    <3>2. s \in Nat /\ m \in Nat /\ s < m
      BY <2>1
    <3> QED BY <3>2
  <2>3. \A s \in S : s <= m - 1
    BY <2>1, <2>2
  <2> QED BY <1>2, <2>2, <2>3
<1>4. \A s \in S : m >= s
  BY <1>2
<1>5. \E x \in S : \A y \in S : x >= y
  BY <1>3, <1>4
<1> HIDE DEF B
<1> QED BY <1>5 DEF Max

\* A function from 1..n to the naturals is bounded.
LEMMA FunctionBounded ==
  ASSUME NEW n \in Nat, NEW f \in [1..n -> Nat]
  PROVE  \E b \in Nat : \A i \in 1..n : f[i] <= b
<1> DEFINE U == {k \in Nat : k <= n /\ ~\E b \in Nat : \A i \in 1..k : f[i] <= b}
<1>1. SUFFICES ASSUME U # {} PROVE FALSE
  <2>1. n \notin U => \E b \in Nat : \A i \in 1..n : f[i] <= b
    OBVIOUS
  <2> QED BY <2>1
<1>2. PICK k \in U : \A j \in U : k <= j
  <2>1. U \subseteq Nat
    OBVIOUS
  <2> HIDE DEF U
  <2> QED BY <1>1, <2>1, LeastNat
<1>k. k \in Nat /\ k <= n
  BY <1>2
<1>3. k # 0
  <2>1. \A i \in 1..0 : f[i] <= 0
    OBVIOUS
  <2> QED BY <1>2, <2>1
<1>4. k - 1 \in Nat /\ k - 1 \notin U
  <2>1. k - 1 \in Nat /\ ~(k <= k - 1)
    BY <1>k, <1>3
  <2> HIDE DEF U
  <2> QED BY <1>2, <2>1
<1>5. PICK b \in Nat : \A i \in 1..(k - 1) : f[i] <= b
  BY <1>k, <1>4
<1>6. f[k] \in Nat
  BY <1>k, <1>3
<1>7. PICK c \in Nat : b <= c /\ f[k] <= c
  BY <1>5, <1>6
<1>8. \A i \in 1..k : f[i] <= c
  <2> TAKE i \in 1..k
  <2>1. CASE i = k
    BY <2>1, <1>7
  <2>2. CASE i # k
    <3>1. i \in 1..(k - 1) /\ f[i] \in Nat
      BY <2>2, <1>k
    <3> QED BY <3>1, <1>5, <1>7
  <2> QED BY <2>1, <2>2
<1> QED BY <1>2, <1>7, <1>8

\* A bounded set of naturals with at least j >= 1 elements has an element of
\* rank j.
LEMMA RankExists ==
  ASSUME NEW S, S \subseteq Nat, NEW b \in Nat, \A s \in S : s <= b,
         NEW j \in 1..Cardinality(S)
  PROVE  \E i \in S : Cardinality({h \in S : h <= i}) = j
<1> DEFINE Below(i) == {h \in S : h <= i}
<1> DEFINE T == {i \in S : j <= Cardinality(Below(i))}
<1>1. IsFiniteSet(S)
  BY FS_BoundedSetOfNaturals
<1>2. Cardinality(S) \in Nat
  BY <1>1, FS_CardinalityType
<1>3. \A i : IsFiniteSet(Below(i)) /\ Cardinality(Below(i)) \in Nat
  <2> TAKE i
  <2>1. Below(i) \in SUBSET S
    OBVIOUS
  <2> QED BY <1>1, <2>1, FS_Subset, FS_CardinalityType
<1>4. S # {}
  BY <1>2, FS_EmptySet
<1>5. Max(S) \in S /\ \A s \in S : s <= Max(S)
  BY <1>4, MaxIn
<1>6. Below(Max(S)) = S
  BY <1>5
<1>7. T # {}
  BY <1>2, <1>5, <1>6
<1>8. PICK i \in T : \A k \in T : i <= k
  <2>1. T \subseteq Nat
    OBVIOUS
  <2> HIDE DEF T
  <2> QED BY <1>7, <2>1, LeastNat
<1>9. i \in S /\ j <= Cardinality(Below(i))
  BY <1>8
<1>10. Cardinality(Below(i)) <= j
  <2> SUFFICES ASSUME j < Cardinality(Below(i)) PROVE FALSE
    BY <1>3, <1>2
  <2> DEFINE R == Below(i) \ {i}
  <2>1. i \in Below(i)
    BY <1>9
  <2>2. IsFiniteSet(R) /\ Cardinality(R) = Cardinality(Below(i)) - 1
    BY <2>1, <1>3, FS_RemoveElement
  <2>3. R # {}
    BY <2>2, <1>2, <1>3, FS_EmptySet
  <2>4. R \subseteq Nat /\ \A s \in R : s <= b
    OBVIOUS
  <2>5. Max(R) \in R /\ \A s \in R : s <= Max(R)
    <3> HIDE DEF R
    <3> QED BY <2>3, <2>4, MaxIn
  <2>6. Max(R) \in S /\ Max(R) < i
    <3> HIDE DEF R
    <3>1. \A x \in R : x \in S /\ x <= i /\ x # i
      BY DEF R
    <3>2. Max(R) \in S /\ Max(R) <= i /\ Max(R) # i
      BY <2>5, <3>1
    <3>3. Max(R) \in Nat /\ i \in Nat
      BY <3>2, <1>9
    <3> QED BY <3>2, <3>3
  <2>7. Below(Max(R)) = R
    <3>1. ASSUME NEW x \in S, x <= Max(R) PROVE x \in R
      <4>1. x \in Nat /\ Max(R) \in Nat /\ i \in Nat
        BY <2>6, <1>9
      <4>2. x <= i /\ x # i
        <5> HIDE DEF R
        <5> QED BY <3>1, <4>1, <2>6
      <4> QED BY <4>2
    <3>2. ASSUME NEW x \in R PROVE x \in S /\ x <= Max(R)
      <4>1. x \in S
        BY <3>2
      <4> QED BY <4>1, <2>5
    <3> HIDE DEF R
    <3> QED BY <3>1, <3>2
  <2>8. j <= Cardinality(Below(Max(R)))
    <3>1. j \in Nat /\ Cardinality(Below(i)) \in Nat
      BY <1>2, <1>3
    <3> HIDE DEF R, Below
    <3> QED BY <3>1, <2>7, <2>2
  <2>9. Max(R) \in T
    BY <2>6, <2>8
  <2>10. i <= Max(R)
    BY <2>9, <1>8
  <2>11. Max(R) \in Nat /\ i \in Nat
    BY <2>6, <1>9
  <2> HIDE DEF R
  <2> QED BY <2>6, <2>10, <2>11
<1> QED BY <1>9, <1>10, <1>2, <1>3

-----------------------------------------------------------------------------
(* The inductive invariant: types, and the index arithmetic that keeps the *)
(* trail, the decision levels and the clause references within bounds.     *)

\* Watch entries of the first n clauses.
WatchIn(n) == [cref : 1..n, blocker : Lit]

\* Decision levels begin at increasing positions within the trail.
TrailOK ==
  /\ trail \in Seq(Lit) /\ lims \in Seq(Nat)
  /\ level \in [Var -> Nat]
  /\ heap \subseteq Var /\ qhead \in Nat /\ stable \in Nat
  /\ \A d \in 1..Len(lims) : lims[d] <= Len(trail)
  /\ \A d, e \in 1..Len(lims) : d <= e => lims[d] <= lims[e]

\* Antecedents and watches refer to clauses of the database.
ReasonOK == reason \in [Var -> 0..Len(clauses)]
DbOK == /\ clauses \in Seq(Clause)
        /\ watches \in [Lit -> SUBSET WatchIn(Len(clauses))]

\* What the places in search() know of its locals.
LocalsOK ==
  /\ todo \subseteq WatchIn(Len(clauses))
  /\ confl \in Nat /\ resolvent \subseteq Lit /\ cursor \in Nat
  /\ uip \in Lit \cup {0}
  /\ todo # {} => pc = "bcp" /\ qhead \in 1..Len(trail)
  /\ pc = "conflict" => confl \in 1..Len(clauses)
  /\ pc = "analyze" => cursor <= Len(trail) + 1
  /\ pc = "learn" => uip \in Lit

\* The other variables have their types.
RestOK ==
  /\ ok \in BOOLEAN /\ nvars \in 0..NumVars /\ maxLearnt \in Nat
  /\ seenLen \in Nat /\ pending \in Seq(SUBSET Lit)
  /\ pc \in Phases /\ run \in Search
  /\ answer \subseteq [lit : Lit, why : SUBSET Lit] /\ progress \in BOOLEAN
  /\ verdict \in Verdicts
  /\ inputs \subseteq SUBSET Lit /\ passTrail \in Seq(Lit)
  /\ offered \in 0..Len(Pool) /\ solves \in Nat

IndInv == TrailOK /\ ReasonOK /\ DbOK /\ LocalsOK /\ RestOK
-----------------------------------------------------------------------------
(* Literals, levels and variables.                                         *)

\* Negation and the variable of a literal stay within the instance.
LEMMA LitFacts ==
  ASSUME NEW l \in Lit
  PROVE  -l \in Lit /\ VarOf(l) \in Var
<1>1. CASE l \in Var
  BY <1>1, SatAssumption DEF Lit, Var, VarOf
<1>2. CASE l \in {-v : v \in Var}
  <2>1. PICK v \in Var : l = -v
    BY <1>2
  <2>2. v \in 1..NumVars /\ NumVars \in Nat
    BY SatAssumption DEF Var
  <2>3. -l = v /\ ~(l > 0)
    BY <2>1, <2>2
  <2> QED BY <2>3 DEF Lit, VarOf
<1> QED BY <1>1, <1>2 DEF Lit

\* A total map of the variables to levels takes its largest value on any set
\* of literals, 0 included: the maxima in enqueue, conflict_level and analyze.
LEMMA MaxLevelType ==
  ASSUME NEW f \in [Var -> Nat], NEW c \in SUBSET Lit
  PROVE  /\ Max({0} \cup {f[VarOf(q)] : q \in c}) \in Nat
         /\ \A q \in c : f[VarOf(q)] <= Max({0} \cup {f[VarOf(r)] : r \in c})
<1> DEFINE S == {0} \cup {f[VarOf(q)] : q \in c}
<1>1. \A q \in c : f[VarOf(q)] \in Nat
  BY LitFacts
<1>2. S \subseteq Nat /\ S # {}
  BY <1>1
<1>3. f \in [1..NumVars -> Nat] /\ NumVars \in Nat
  BY SatAssumption DEF Var
<1>4. PICK b \in Nat : \A v \in 1..NumVars : f[v] <= b
  BY <1>3, FunctionBounded
<1>5. \A s \in S : s <= b
  <2>1. \A q \in c : f[VarOf(q)] <= b
    BY <1>4, LitFacts DEF Var
  <2> QED BY <2>1
<1>6. Max(S) \in S /\ \A s \in S : s <= Max(S)
  <2> HIDE DEF S
  <2> QED BY <1>2, <1>5, MaxIn
<1> QED BY <1>2, <1>6

\* ensure_var never allocates a variable beyond those of the literals.
LEMMA VarsAfterType ==
  ASSUME nvars \in 0..NumVars, NEW c \in SUBSET Lit
  PROVE  VarsAfter(c) \in 0..NumVars /\ NewVars(c) \subseteq Var
<1> DEFINE S == {nvars} \cup {VarOf(l) : l \in c}
<1>1. NumVars \in Nat
  BY SatAssumption
<1>2. \A l \in c : VarOf(l) \in 1..NumVars
  BY LitFacts DEF Var
<1>3. S \subseteq 0..NumVars /\ S # {}
  BY <1>1, <1>2
<1>4. S \subseteq Nat /\ \A s \in S : s <= NumVars
  BY <1>1, <1>3
<1>5. Max(S) \in S
  <2> HIDE DEF S
  <2> QED BY <1>1, <1>3, <1>4, MaxIn
<1>6. Max(S) \in 0..NumVars
  BY <1>3, <1>5
<1>7. VarsAfter(c) \in 0..NumVars
  BY <1>6 DEF VarsAfter
<1> QED BY <1>1, <1>7 DEF NewVars, Var

\* The literals of the trail are literals, their variables variables.
LEMMA TrailLits ==
  ASSUME trail \in Seq(Lit)
  PROVE  Range(trail) \subseteq Lit /\ Assigned \subseteq Var
<1>1. \A i \in DOMAIN trail : trail[i] \in Lit
  BY LenProperties, ElementOfSeq
<1>2. Range(trail) \subseteq Lit
  BY <1>1 DEF Range
<1> QED BY <1>2, LitFacts DEF Assigned
-----------------------------------------------------------------------------
(* cancel_until.                                                           *)

\* The kept literals are taken from the trail.
LEMMA KeptType ==
  ASSUME TrailOK, NEW k \in Nat, k < DecisionLevel
  PROVE  /\ Target(k) \in 0..Len(trail)
         /\ [j \in 1..Cardinality(Kept(k)) |-> trail[Nth(Kept(k), j)]]
              \in Seq(Lit)
<1> DEFINE n == Cardinality(Kept(k))
           K == Kept(k)
<1>1. k + 1 \in 1..Len(lims)
  BY LenProperties DEF TrailOK, DecisionLevel
<1>2. Target(k) \in Nat /\ Target(k) <= Len(trail) /\ Len(trail) \in Nat
  BY <1>1, ElementOfSeq, LenProperties DEF TrailOK, Target
<1>3. K \subseteq 1..Len(trail)
  BY <1>2 DEF Kept
<1>4. K \subseteq Nat /\ \A i \in K : i <= Len(trail)
  BY <1>2, <1>3
<1>5. n \in Nat
  <2>1. IsFiniteSet(K)
    <3> HIDE DEF K
    <3> QED BY <1>2, <1>4, FS_BoundedSetOfNaturals
  <2> QED BY <2>1, FS_CardinalityType
<1>6. \A j \in 1..n : Nth(K, j) \in K
  <2> TAKE j \in 1..n
  <2> HIDE DEF K
  <2>1. \E i \in K : Cardinality({h \in K : h <= i}) = j
    BY <1>2, <1>4, RankExists DEF K
  <2> QED BY <2>1 DEF Nth
<1>7. \A j \in 1..n : trail[Nth(K, j)] \in Lit
  BY <1>3, <1>6, ElementOfSeq DEF TrailOK
<1>8. [j \in 1..n |-> trail[Nth(K, j)]] \in [1..n -> Lit]
  <2> HIDE DEF K, n
  <2> QED BY <1>7
<1>9. [j \in 1..n |-> trail[Nth(K, j)]] \in Seq(Lit)
  <2> HIDE DEF K, n
  <2> QED BY <1>5, <1>8, SeqDef
<1> QED BY <1>2, <1>9

\* cancel_until(k) leaves a trail of literals that begins with the first
\* Target(k) literals of the old one.
LEMMA TrailAfterType ==
  ASSUME TrailOK, NEW k \in Nat
  PROVE  /\ TrailAfter(k) \in Seq(Lit)
         /\ Len(TrailAfter(k)) \in Nat
         /\ k < DecisionLevel =>
              /\ Target(k) \in Nat /\ Target(k) <= Len(TrailAfter(k))
              /\ \A i \in 1..Target(k) : TrailAfter(k)[i] = trail[i]
<1>1. CASE ~(k < DecisionLevel)
  <2>1. DecisionLevel \in Nat
    BY LenProperties DEF TrailOK, DecisionLevel
  <2>2. TrailAfter(k) = trail
    BY <1>1, <2>1 DEF TrailAfter
  <2> QED BY <1>1, <2>2, LenProperties DEF TrailOK
<1>2. CASE k < DecisionLevel
  <2> DEFINE kept == [j \in 1..Cardinality(Kept(k)) |-> trail[Nth(Kept(k), j)]]
             head == SubSeq(trail, 1, Target(k))
  <2>1. Target(k) \in 0..Len(trail) /\ kept \in Seq(Lit)
    BY <1>2, KeptType
  <2>2. Len(trail) \in Nat /\ \A i \in 1..Len(trail) : trail[i] \in Lit
    BY LenProperties, ElementOfSeq DEF TrailOK
  <2>3. /\ head \in Seq(Lit) /\ Len(head) = Target(k)
        /\ \A i \in 1..Target(k) : head[i] = trail[i]
    BY <2>1, <2>2, SubSeqProperties
  <2>4. TrailAfter(k) = head \o kept
    <3>1. ~(DecisionLevel <= k)
      BY <1>2, LenProperties DEF TrailOK, DecisionLevel
    <3> QED BY <3>1 DEF TrailAfter
  <2> HIDE DEF head, kept
  <2>5. /\ head \o kept \in Seq(Lit)
        /\ Len(head \o kept) = Len(head) + Len(kept)
        /\ \A i \in 1..Len(head) + Len(kept) : (head \o kept)[i] =
             IF i <= Len(head) THEN head[i] ELSE kept[i - Len(head)]
    BY <2>1, <2>3, ConcatProperties
  <2>6. Len(kept) \in Nat
    BY <2>1, LenProperties
  <2>7. TrailAfter(k) \in Seq(Lit)
    BY <2>4, <2>5
  <2>8. Len(TrailAfter(k)) = Target(k) + Len(kept) /\ Target(k) \in Nat
    BY <2>1, <2>2, <2>3, <2>4, <2>5
  <2>9. \A i \in 1..Target(k) : TrailAfter(k)[i] = trail[i]
    <3> TAKE i \in 1..Target(k)
    <3>1. i \in 1..Len(head) + Len(kept) /\ i <= Len(head)
      BY <2>3, <2>6, <2>8
    <3>2. (head \o kept)[i] = head[i]
      BY <2>5, <3>1
    <3> QED BY <2>3, <2>4, <3>2
  <2> QED BY <2>6, <2>7, <2>8, <2>9
<1> QED BY <1>1, <1>2

\* What cancel_until(k) leaves of the decision levels, the queue head, the
\* unassigned variables and the antecedents.
LEMMA CancelTypes ==
  ASSUME TrailOK, NEW k \in Nat
  PROVE  /\ LimsAfter(k) \in Seq(Nat)
         /\ \A d \in 1..Len(LimsAfter(k)) :
              LimsAfter(k)[d] <= Len(TrailAfter(k))
         /\ \A d, e \in 1..Len(LimsAfter(k)) :
              d <= e => LimsAfter(k)[d] <= LimsAfter(k)[e]
         /\ QheadAfter(k) \in Nat
         /\ Undone(k) \subseteq Var
         /\ ReasonOK /\ DbOK => ReasonsAfter(k) \in [Var -> 0..Len(clauses)]
<1>1. DecisionLevel \in Nat /\ DecisionLevel = Len(lims)
  BY LenProperties DEF TrailOK, DecisionLevel
<1>2. Undone(k) \subseteq Var
  <2>1. Range(trail) \subseteq Lit
    BY TrailLits DEF TrailOK
  <2> QED BY <2>1, LitFacts DEF Undone
<1>3. ReasonOK /\ DbOK => ReasonsAfter(k) \in [Var -> 0..Len(clauses)]
  <2> SUFFICES ASSUME ReasonOK, DbOK
               PROVE  ReasonsAfter(k) \in [Var -> 0..Len(clauses)]
    OBVIOUS
  <2>1. 0 \in 0..Len(clauses)
    BY LenProperties DEF DbOK
  <2> QED BY <2>1 DEF ReasonsAfter, ReasonOK, NoReason
<1>4. CASE DecisionLevel <= k
  <2>1. LimsAfter(k) = lims /\ TrailAfter(k) = trail /\ QheadAfter(k) = qhead
    BY <1>4 DEF LimsAfter, TrailAfter, QheadAfter
  <2> QED BY <2>1, <1>2, <1>3 DEF TrailOK
<1>5. CASE ~(DecisionLevel <= k)
  <2>1. LimsAfter(k) = SubSeq(lims, 1, k) /\ QheadAfter(k) = Target(k)
    BY <1>5 DEF LimsAfter, QheadAfter
  <2>2. Target(k) \in Nat /\ Target(k) <= Len(TrailAfter(k))
        /\ Len(TrailAfter(k)) \in Nat
    <3>1. k < DecisionLevel
      BY <1>1, <1>5
    <3> QED BY <3>1, TrailAfterType
  <2>3. \A d \in 1..Len(lims) : lims[d] \in Nat
    BY ElementOfSeq DEF TrailOK
  <2>4. \A d \in 1..k : d \in 1..Len(lims)
    BY <1>1, <1>5
  <2>5. /\ SubSeq(lims, 1, k) \in Seq(Nat)
        /\ Len(SubSeq(lims, 1, k)) = k
        /\ \A d \in 1..k : SubSeq(lims, 1, k)[d] = lims[d]
    BY <2>3, <2>4, SubSeqProperties
  <2>6. \A d \in 1..k : lims[d] <= Target(k)
    <3>1. k + 1 \in 1..Len(lims)
      BY <1>1, <1>5
    <3> QED BY <3>1, <2>4 DEF TrailOK, Target
  <2>7. \A d \in 1..k : lims[d] <= Len(TrailAfter(k))
    BY <2>2, <2>3, <2>4, <2>6
  <2>8. \A d, e \in 1..k : d <= e => lims[d] <= lims[e]
    BY <2>4 DEF TrailOK
  <2> QED BY <2>1, <2>2, <2>5, <2>7, <2>8, <1>2, <1>3
<1> QED BY <1>4, <1>5

\* The theory's low-water mark only sinks, and what lies below it stays.
LEMMA StableAfterFacts ==
  ASSUME TrailOK, NEW k \in Nat, NEW n \in Nat
  PROVE  /\ StableAfter(k, n) \in Nat /\ StableAfter(k, n) <= n
         /\ n <= Len(trail) =>
              /\ StableAfter(k, n) <= Len(TrailAfter(k))
              /\ \A i \in 1..StableAfter(k, n) : TrailAfter(k)[i] = trail[i]
<1>1. DecisionLevel \in Nat
  BY LenProperties DEF TrailOK, DecisionLevel
<1>2. CASE DecisionLevel <= k
  BY <1>2 DEF StableAfter, TrailAfter
<1>3. CASE ~(DecisionLevel <= k)
  <2>1. /\ Target(k) \in Nat /\ Target(k) <= Len(TrailAfter(k))
        /\ Len(TrailAfter(k)) \in Nat
        /\ \A i \in 1..Target(k) : TrailAfter(k)[i] = trail[i]
    <3>1. k < DecisionLevel
      BY <1>1, <1>3
    <3> QED BY <3>1, TrailAfterType
  <2>2. StableAfter(k, n) = IF n <= Target(k) THEN n ELSE Target(k)
    BY <1>3 DEF StableAfter
  <2> QED BY <2>1, <2>2
<1> QED BY <1>2, <1>3
-----------------------------------------------------------------------------
(* The shapes of steps: what the operators that change the state preserve. *)

\* Literals are appended to a trail.
LEMMA AppendLit ==
  ASSUME NEW s \in Seq(Lit), NEW l \in Lit
  PROVE  Append(s, l) \in Seq(Lit) /\ Len(Append(s, l)) = Len(s) + 1
         /\ Len(s) \in Nat
BY AppendProperties, LenProperties

\* cancel_until keeps the trail's type, even when the mark is reset.
LEMMA CancelTrail ==
  ASSUME TrailOK, NEW k \in Nat, NEW n \in Nat,
         trail' = TrailAfter(k), lims' = LimsAfter(k), level' = level,
         heap' = heap \cup Undone(k), qhead' = QheadAfter(k),
         stable' = StableAfter(k, n)
  PROVE  TrailOK'
<1>1. StableAfter(k, n) \in Nat
  BY StableAfterFacts
<1>2. TrailAfter(k) \in Seq(Lit)
  BY TrailAfterType
<1>3. heap' \subseteq Var
  BY CancelTypes DEF TrailOK
<1>4. /\ trail' \in Seq(Lit) /\ lims' \in Seq(Nat) /\ level' \in [Var -> Nat]
      /\ qhead' \in Nat /\ stable' \in Nat
  BY <1>1, <1>2, CancelTypes DEF TrailOK
<1>5. /\ \A d \in 1..Len(lims') : lims'[d] <= Len(trail')
      /\ \A d, e \in 1..Len(lims') : d <= e => lims'[d] <= lims'[e]
  BY CancelTypes
<1> QED BY <1>3, <1>4, <1>5 DEF TrailOK

\* So does assigning a literal after it.
LEMMA CancelAndAssignTrail ==
  ASSUME TrailOK, NEW k \in Nat, NEW l \in Lit, NEW r, NEW lv \in Nat,
         CancelAndAssign(k, l, r, lv)
  PROVE  TrailOK'
<1>1. stable' \in Nat
  <2>1. StableAfter(k, stable) \in Nat
    BY StableAfterFacts DEF TrailOK
  <2> QED BY <2>1 DEF CancelAndAssign, Retract
<1>2. TrailAfter(k) \in Seq(Lit)
  BY TrailAfterType
<1>3. /\ trail' \in Seq(Lit) /\ Len(trail') = Len(TrailAfter(k)) + 1
      /\ Len(TrailAfter(k)) \in Nat
  BY <1>2, AppendLit DEF CancelAndAssign
<1>4. heap' \subseteq Var
  BY CancelTypes DEF TrailOK, CancelAndAssign, Retract
<1>5. level' \in [Var -> Nat]
  BY LitFacts DEF TrailOK, CancelAndAssign
<1>6. lims' \in Seq(Nat) /\ qhead' \in Nat
  BY CancelTypes DEF CancelAndAssign, Retract
<1>7. /\ \A d \in 1..Len(lims') : lims'[d] <= Len(TrailAfter(k))
      /\ \A d, e \in 1..Len(lims') : d <= e => lims'[d] <= lims'[e]
  BY CancelTypes DEF CancelAndAssign, Retract
<1>8. \A d \in 1..Len(lims') : lims'[d] <= Len(trail')
  <2> TAKE d \in 1..Len(lims')
  <2>1. lims'[d] \in Nat
    BY <1>6, ElementOfSeq
  <2> QED BY <1>3, <1>7, <2>1
<1> QED BY <1>1, <1>3, <1>4, <1>5, <1>6, <1>7, <1>8 DEF TrailOK

\* Antecedents stay references into the database.
LEMMA CancelReason ==
  ASSUME TrailOK, ReasonOK, DbOK, NEW k \in Nat, Len(clauses') \in Nat,
         Len(clauses) <= Len(clauses'), reason' = ReasonsAfter(k)
  PROVE  ReasonOK'
<1>1. ReasonsAfter(k) \in [Var -> 0..Len(clauses)] /\ Len(clauses) \in Nat
  BY CancelTypes, LenProperties DEF DbOK
<1> QED BY <1>1 DEF ReasonOK

\* So they do when a literal is assigned after backtracking, with a reference
\* into the new database.
LEMMA CancelAndAssignReason ==
  ASSUME TrailOK, ReasonOK, DbOK, NEW k \in Nat, NEW l \in Lit,
         NEW r \in 0..Len(clauses'), NEW lv, Len(clauses') \in Nat,
         Len(clauses) <= Len(clauses'), CancelAndAssign(k, l, r, lv)
  PROVE  ReasonOK'
<1>1. ReasonsAfter(k) \in [Var -> 0..Len(clauses)] /\ Len(clauses) \in Nat
  BY CancelTypes, LenProperties DEF DbOK
<1>2. reason' = [ReasonsAfter(k) EXCEPT ![VarOf(l)] = r]
  BY DEF CancelAndAssign
<1>3. ReasonsAfter(k) \in [Var -> 0..Len(clauses')]
  BY <1>1
<1> QED BY <1>2, <1>3, LitFacts DEF ReasonOK

\* attach_clause adds one clause and two watches that refer to it.
LEMMA AttachDb ==
  ASSUME DbOK, NEW c \in SUBSET Lit, NEW w0 \in Lit, NEW w1 \in Lit,
         NEW b \in BOOLEAN, Attach(c, w0, w1, b)
  PROVE  /\ DbOK' /\ Len(clauses') = Len(clauses) + 1 /\ Len(clauses) \in Nat
         /\ Len(clauses') \in Nat
<1> DEFINE n == Len(clauses)
           x == [lits |-> c, w0 |-> w0, w1 |-> w1, learnt |-> b]
<1>1. n \in Nat /\ x \in Clause
  BY LenProperties DEF DbOK, Clause
<1>2. clauses' = Append(clauses, x)
  BY DEF Attach
<1>3. clauses' \in Seq(Clause) /\ Len(clauses') = n + 1
  <2> HIDE DEF x
  <2> QED BY <1>1, <1>2, AppendProperties DEF DbOK
<1>4. WatchIn(n) \subseteq WatchIn(n + 1)
  BY <1>1 DEF WatchIn
<1>5. /\ [cref |-> n + 1, blocker |-> w1] \in WatchIn(n + 1)
      /\ [cref |-> n + 1, blocker |-> w0] \in WatchIn(n + 1)
  BY <1>1 DEF WatchIn
<1>6. watches \in [Lit -> SUBSET WatchIn(n + 1)]
  BY <1>4 DEF DbOK
<1>7. watches' = [watches EXCEPT
        ![-w0] = @ \cup {[cref |-> n + 1, blocker |-> w1]},
        ![-w1] = @ \cup {[cref |-> n + 1, blocker |-> w0]}]
  BY DEF Attach
<1>8. watches' \in [Lit -> SUBSET WatchIn(n + 1)]
  <2> HIDE DEF n
  <2> QED BY <1>5, <1>6, <1>7, LitFacts
<1> QED BY <1>1, <1>3, <1>8 DEF DbOK

\* propagate and conflict_level reorder the literals of a clause.
LEMMA RewatchSeq ==
  ASSUME DbOK, NEW i \in 1..Len(clauses), NEW a \in Lit, NEW b \in Lit
  PROVE  /\ [clauses EXCEPT ![i].w0 = a, ![i].w1 = b] \in Seq(Clause)
         /\ Len([clauses EXCEPT ![i].w0 = a, ![i].w1 = b]) = Len(clauses)
<1> DEFINE c1 == [clauses EXCEPT ![i].w0 = a]
           c2 == [clauses EXCEPT ![i].w0 = a, ![i].w1 = b]
<1>1. clauses[i] \in Clause /\ Len(clauses) \in Nat
  BY ElementOfSeq, LenProperties DEF DbOK
<1>2. c1 = [clauses EXCEPT ![i] = [clauses[i] EXCEPT !.w0 = a]]
  OBVIOUS
<1>3. [clauses[i] EXCEPT !.w0 = a] \in Clause
  BY <1>1 DEF Clause
<1>4. c1 \in Seq(Clause) /\ Len(c1) = Len(clauses)
  BY <1>2, <1>3, ExceptSeq DEF DbOK
<1>5. c2 = [c1 EXCEPT ![i] = [c1[i] EXCEPT !.w1 = b]]
  OBVIOUS
<1>6. [c1[i] EXCEPT !.w1 = b] \in Clause
  <2>1. c1[i] \in Clause
    <3> HIDE DEF c1
    <3> QED BY <1>4, ElementOfSeq
  <2> QED BY <2>1 DEF Clause
<1>7. c2 \in Seq(Clause) /\ Len(c2) = Len(c1)
  <2> HIDE DEF c1
  <2>1. i \in 1..Len(c1) /\ c1 \in Seq(Clause)
    BY <1>4
  <2> DEFINE y == [c1[i] EXCEPT !.w1 = b]
  <2>2. y \in Clause /\ c2 = [c1 EXCEPT ![i] = y]
    BY <1>5, <1>6
  <2> HIDE DEF y
  <2>3. [c1 EXCEPT ![i] = y] \in Seq(Clause)
        /\ Len([c1 EXCEPT ![i] = y]) = Len(c1)
    BY <2>1, <2>2, ExceptSeq
  <2> QED BY <2>2, <2>3
<1> QED BY <1>4, <1>7

\* The clauses of the database consist of literals.
LEMMA ClauseFacts ==
  ASSUME DbOK, NEW i \in 1..Len(clauses)
  PROVE  /\ clauses[i] \in Clause /\ clauses[i].lits \subseteq Lit
         /\ clauses[i].w0 \in Lit /\ clauses[i].w1 \in Lit
         /\ i \in DOMAIN clauses
<1>1. clauses[i] \in Clause /\ DOMAIN clauses = 1..Len(clauses)
  BY ElementOfSeq, LenProperties DEF DbOK
<1> QED BY <1>1 DEF Clause
-----------------------------------------------------------------------------
(* Steps that leave a part of the invariant alone.                         *)

\* A step that leaves the trail alone keeps its type.
LEMMA TrailSame ==
  ASSUME TrailOK, UNCHANGED <<trail, lims, level, heap, qhead, stable>>
  PROVE  TrailOK'
BY DEF TrailOK

\* A database that only grows keeps the antecedents in range.
LEMMA ReasonSame ==
  ASSUME ReasonOK, reason' = reason, Len(clauses) \in Nat,
         Len(clauses') \in Nat, Len(clauses) <= Len(clauses')
  PROVE  ReasonOK'
BY DEF ReasonOK

\* A step that leaves the database alone keeps its type.
LEMMA DbSame ==
  ASSUME DbOK, UNCHANGED dbVars
  PROVE  DbOK' /\ Len(clauses) \in Nat /\ Len(clauses') = Len(clauses)
BY LenProperties DEF DbOK, dbVars

\* Outside propagation no watch is left to visit.
LEMMA LocalsQuiet ==
  ASSUME LocalsOK, todo' = {}, confl' \in {confl, NoReason},
         UNCHANGED analysisVars, pc' \notin {"conflict", "analyze", "learn"}
  PROVE  LocalsOK'
<1>1. confl' \in Nat
  BY DEF LocalsOK, NoReason
<1>2. /\ resolvent' \subseteq Lit /\ cursor' \in Nat
      /\ uip' \in Lit \cup {0}
  BY DEF LocalsOK, analysisVars
<1> QED BY <1>1, <1>2 DEF LocalsOK

\* Leaving search() resets its locals.
LEMMA LocalsReset ==
  ASSUME EndLocals, pc' \notin {"conflict", "analyze", "learn"}
  PROVE  LocalsOK'
BY DEF EndLocals, LocalsOK, NoReason

\* Only the invariants' own variables matter to a caller's operation.
LEMMA CallAddFacts ==
  ASSUME IndInv, NEW c, CallAdd(c)
  PROVE  /\ c \in SUBSET Lit
         /\ VarsAfter(c) \in 0..NumVars /\ NewVars(c) \subseteq Var
         /\ LocalsOK'
         /\ ok' \in BOOLEAN /\ nvars' \in 0..NumVars
              /\ pending' \in Seq(SUBSET Lit) => RestOK'
<1>1. PICK i \in (offered + 1)..Len(Pool) : c = Pool[i] /\ offered' = i
  BY DEF CallAdd
<1>2. offered \in Nat /\ Len(Pool) \in Nat /\ Pool \in Seq(SUBSET Lit)
  BY LenProperties, SatAssumption DEF IndInv, RestOK
<1>3. i \in 1..Len(Pool)
  BY <1>1, <1>2
<1>4. c \in SUBSET Lit
  BY <1>1, <1>2, <1>3, ElementOfSeq
<1>5. VarsAfter(c) \in 0..NumVars /\ NewVars(c) \subseteq Var
  BY <1>4, VarsAfterType DEF IndInv, RestOK
<1>6. LocalsOK'
  <2>1. /\ pc' = "idle" /\ todo' = {} /\ confl' = confl
        /\ UNCHANGED analysisVars
    BY DEF IndInv, LocalsOK, CallAdd
  <2> QED BY <2>1, LocalsQuiet DEF IndInv
<1>7. ASSUME ok' \in BOOLEAN, nvars' \in 0..NumVars,
             pending' \in Seq(SUBSET Lit)
      PROVE  RestOK'
  <2>1. offered' \in 0..Len(Pool) /\ inputs' \subseteq SUBSET Lit
    BY <1>1, <1>2, <1>3, <1>4 DEF IndInv, RestOK, CallAdd
  <2>2. /\ maxLearnt' = maxLearnt /\ seenLen' = seenLen /\ pc' = pc
        /\ run' = run /\ answer' = answer /\ progress' = progress
        /\ verdict' = "none" /\ passTrail' = passTrail /\ solves' = solves
    BY DEF CallAdd, passVars, theoryVars
  <2> QED BY <1>7, <2>1, <2>2 DEF IndInv, RestOK, Verdicts
<1> QED BY <1>4, <1>5, <1>6, <1>7
-----------------------------------------------------------------------------
(* The caller's operations.                                                *)

\* MkVar preserves the invariant.
LEMMA MkVarStep ==
  ASSUME IndInv, MkVar PROVE IndInv'
<1>1. nvars + 1 \in 0..NumVars /\ nvars + 1 \in Var
  BY SatAssumption DEF IndInv, RestOK, MkVar, Var
<1>2. TrailOK'
  BY <1>1 DEF IndInv, TrailOK, MkVar
<1>3. DbOK' /\ ReasonOK'
  BY DbSame, ReasonSame DEF IndInv, MkVar, dbVars
<1>4. LocalsOK'
  <2>1. /\ pc' = "idle" /\ todo' = {} /\ confl' = confl
        /\ UNCHANGED analysisVars
    BY DEF IndInv, LocalsOK, MkVar
  <2> QED BY <2>1, LocalsQuiet DEF IndInv
<1>5. RestOK'
  BY <1>1 DEF IndInv, RestOK, MkVar, passVars, theoryVars, apiVars, Verdicts
<1> QED BY <1>2, <1>3, <1>4, <1>5 DEF IndInv

\* AddIgnored preserves the invariant.
LEMMA AddIgnoredStep ==
  ASSUME IndInv, NEW c, AddIgnored(c) PROVE IndInv'
<1>1. CallAdd(c) /\ UNCHANGED <<ok, nvars, dbVars, trailVars, pending>>
  BY DEF AddIgnored
<1>2. TrailOK' /\ DbOK' /\ ReasonOK'
  BY <1>1, TrailSame, DbSame, ReasonSame DEF IndInv, trailVars
<1>3. LocalsOK' /\ RestOK'
  BY <1>1, CallAddFacts DEF IndInv, RestOK
<1> QED BY <1>2, <1>3 DEF IndInv

\* AddDeferred preserves the invariant.
LEMMA AddDeferredStep ==
  ASSUME IndInv, NEW c, AddDeferred(c) PROVE IndInv'
<1>1. CallAdd(c)
  BY DEF AddDeferred
<1>2. /\ c \in SUBSET Lit /\ VarsAfter(c) \in 0..NumVars
      /\ NewVars(c) \subseteq Var
  BY <1>1, CallAddFacts
<1>3. TrailOK'
  BY <1>2 DEF IndInv, TrailOK, AddDeferred
<1>4. DbOK' /\ ReasonOK'
  BY DbSame, ReasonSame DEF IndInv, AddDeferred
<1>5. pending' \in Seq(SUBSET Lit)
  BY <1>2, AppendProperties DEF IndInv, RestOK, AddDeferred
<1>6. ok' \in BOOLEAN /\ nvars' \in 0..NumVars
  BY <1>2 DEF AddDeferred
<1>7. LocalsOK' /\ RestOK'
  BY <1>1, <1>5, <1>6, CallAddFacts
<1> QED BY <1>3, <1>4, <1>7 DEF IndInv

\* AddAtRoot preserves the invariant.
LEMMA AddAtRootStep ==
  ASSUME IndInv, NEW c, AddAtRoot(c) PROVE IndInv'
<1>1. CallAdd(c) /\ ok \in BOOLEAN /\ 0 \in Nat
  BY DEF AddAtRoot, IndInv, RestOK
<1>2. /\ c \in SUBSET Lit /\ VarsAfter(c) \in 0..NumVars
      /\ NewVars(c) \subseteq Var
  BY <1>1, CallAddFacts
<1>3. RootTrail \in Seq(Lit)
  BY TrailAfterType DEF IndInv, RootTrail
<1>4. /\ heap' \subseteq Var /\ qhead' \in Nat /\ lims' = <<>>
  <2>1. Undone(0) \subseteq Var /\ QheadAfter(0) \in Nat
    BY CancelTypes DEF IndInv
  <2> QED BY <1>2, <2>1 DEF AddAtRoot, IndInv, TrailOK
<1>5. stable' \in Nat
  BY StableAfterFacts DEF IndInv, TrailOK, AddAtRoot
<1> DEFINE Added ==
      /\ trail' \in Seq(Lit) /\ level' \in [Var -> Nat] /\ ok' \in BOOLEAN
      /\ DbOK' /\ Len(clauses) <= Len(clauses') /\ Len(clauses') \in Nat
      /\ reason' \in [Var -> 0..Len(clauses)]
<1>6. Added
  <2>1. /\ level \in [Var -> Nat] /\ DbOK
        /\ ReasonsAfter(0) \in [Var -> 0..Len(clauses)]
        /\ NoReason \in 0..Len(clauses)
    <3>1. ReasonsAfter(0) \in [Var -> 0..Len(clauses)]
      BY <1>1, CancelTypes DEF IndInv
    <3>2. Len(clauses) \in Nat
      BY LenProperties DEF IndInv, DbOK
    <3> QED BY <3>1, <3>2 DEF IndInv, TrailOK, NoReason
  <2>2. CASE /\ trail' = RootTrail /\ reason' = ReasonsAfter(0)
             /\ ok' \in BOOLEAN /\ UNCHANGED <<dbVars, level>>
    BY <1>3, <2>1, <2>2, DbSame
  <2>3. ASSUME NEW l \in Lit, trail' = Append(RootTrail, l),
               level' = [level EXCEPT ![VarOf(l)] = 0],
               reason' = [ReasonsAfter(0) EXCEPT ![VarOf(l)] = NoReason],
               UNCHANGED <<ok, dbVars>>
        PROVE  Added
    BY <1>1, <1>3, <2>1, <2>3, DbSame, AppendLit, LitFacts
  <2>4. ASSUME NEW w0 \in c, NEW w1 \in c, Attach(c, w0, w1, FALSE),
               trail' = RootTrail, reason' = ReasonsAfter(0),
               UNCHANGED <<ok, level>>
        PROVE  Added
    <3>1. w0 \in Lit /\ w1 \in Lit
      BY <1>2
    <3>2. /\ DbOK' /\ Len(clauses') = Len(clauses) + 1
          /\ Len(clauses) \in Nat /\ Len(clauses') \in Nat
      BY <1>2, <2>1, <2>4, <3>1, AttachDb
    <3> QED BY <1>1, <1>3, <2>1, <2>4, <3>2
  <2> QED BY <1>1, <2>2, <2>3, <2>4 DEF AddAtRoot
<1>7. TrailOK'
  BY <1>4, <1>5, <1>6 DEF TrailOK
<1>8. ReasonOK'
  <2>1. Len(clauses) \in Nat
    BY LenProperties DEF IndInv, DbOK
  <2> QED BY <1>6, <2>1 DEF ReasonOK
<1>9. LocalsOK' /\ RestOK'
  <2>1. nvars' \in 0..NumVars /\ pending' \in Seq(SUBSET Lit)
    BY <1>2 DEF AddAtRoot, IndInv, RestOK
  <2> QED BY <1>1, <1>6, <2>1, CallAddFacts
<1> QED BY <1>6, <1>7, <1>8, <1>9 DEF IndInv
\* ResetTheory preserves the invariant.
LEMMA ResetTheoryStep ==
  ASSUME IndInv, ResetTheory PROVE IndInv'
<1>1. TrailOK' /\ DbOK' /\ ReasonOK'
  <2>1. stable' = 0 /\ UNCHANGED <<trail, lims, level, reason, heap, qhead>>
        /\ UNCHANGED dbVars
    BY DEF ResetTheory
  <2>2. TrailOK'
    BY <2>1 DEF IndInv, TrailOK
  <2> QED BY <2>1, <2>2, DbSame, ReasonSame DEF IndInv
<1>2. LocalsOK'
  <2>1. /\ pc' = "idle" /\ todo' = {} /\ confl' = confl
        /\ UNCHANGED analysisVars
    BY DEF IndInv, LocalsOK, ResetTheory
  <2> QED BY <2>1, LocalsQuiet DEF IndInv
<1>3. RestOK'
  BY DEF IndInv, RestOK, ResetTheory, theoryVars, apiVars, Verdicts, UsizeMax
<1> QED BY <1>1, <1>2, <1>3 DEF IndInv

\* Solve preserves the invariant.
LEMMA SolveStep ==
  ASSUME IndInv, NEW assume \in AssumptionLists, NEW limit \in ConflictLimits,
         NEW theory \in TheoryCalls, Solve(assume, limit, theory)
  PROVE  IndInv'
<1>1. assume \in Seq(Lit) /\ limit \in Nat /\ theory \in BOOLEAN
  BY SatAssumption
<1>2. /\ Range(assume) \in SUBSET Lit
      /\ VarsAfter(Range(assume)) \in 0..NumVars
      /\ NewVars(Range(assume)) \subseteq Var
  <2>1. \A i \in DOMAIN assume : assume[i] \in Lit
    BY <1>1, LenProperties, ElementOfSeq
  <2>2. Range(assume) \in SUBSET Lit
    BY <2>1 DEF Range
  <2> QED BY <2>2, VarsAfterType DEF IndInv, RestOK
<1>3. DbOK' /\ Len(clauses) \in Nat /\ Len(clauses') = Len(clauses)
  BY DbSame DEF IndInv, Solve
<1>4. TrailOK' /\ ReasonOK'
  <2>1. CASE UNCHANGED trailVars
    BY <1>3, <2>1, TrailSame, ReasonSame DEF IndInv, trailVars
  <2>2. CASE /\ trail' = TrailAfter(0) /\ reason' = ReasonsAfter(0)
             /\ lims' = <<>> /\ qhead' = 0 /\ stable' = StableAfter(0, stable)
             /\ heap' = heap \cup Undone(0) \cup NewVars(Range(assume))
             /\ UNCHANGED level
    <3>1. stable' \in Nat
      BY <2>2, StableAfterFacts DEF IndInv, TrailOK
    <3>2. Undone(0) \subseteq Var /\ trail' \in Seq(Lit)
      BY <2>2, CancelTypes, TrailAfterType DEF IndInv
    <3>3. TrailOK'
      BY <1>2, <2>2, <3>1, <3>2 DEF IndInv, TrailOK
    <3>4. ReasonOK'
      BY <1>3, <2>2, CancelReason DEF IndInv
    <3> QED BY <3>3, <3>4
  <2> QED BY <2>1, <2>2 DEF Solve
<1>5. pc' \in {"idle", "bcp", "attach"} /\ verdict' \in Verdicts
      /\ nvars' \in 0..NumVars /\ ok' = ok
  BY <1>2 DEF Solve, ToLoopHead, IndInv, RestOK, Verdicts
<1>6. LocalsOK'
  <2>1. todo' = {} /\ confl' = confl /\ UNCHANGED analysisVars
    BY DEF IndInv, LocalsOK, Solve
  <2> QED BY <1>5, <2>1, LocalsQuiet DEF IndInv
<1>7. RestOK'
  <2>1. run' \in Search /\ solves' \in Nat
    BY <1>1 DEF Solve, Search, IndInv, RestOK
  <2>2. UNCHANGED <<maxLearnt, passVars, pending, theoryVars, inputs, offered>>
    BY DEF Solve
  <2> QED BY <1>5, <2>1, <2>2
          DEF IndInv, RestOK, Phases, passVars, theoryVars
<1> QED BY <1>3, <1>4, <1>6, <1>7 DEF IndInv

\* Every operation of the caller preserves the invariant.
LEMMA CallStep ==
  ASSUME IndInv, Call PROVE IndInv'
BY MkVarStep, AddIgnoredStep, AddDeferredStep, AddAtRootStep,
   ResetTheoryStep, SolveStep DEF Call
-----------------------------------------------------------------------------
(* attach_pending.                                                         *)

\* What attach_pending takes is a clause, and the rest is typed.
LEMMA TakePendingFacts ==
  ASSUME IndInv, TakePending
  PROVE  /\ Head(pending) \in SUBSET Lit
         /\ todo = {}
         /\ ok' \in BOOLEAN /\ pc' \in Phases /\ verdict' \in Verdicts
              /\ UNCHANGED theoryVars => RestOK'
         /\ ok' \in BOOLEAN /\ pc' \in Phases /\ verdict' \in Verdicts
              /\ EndLocals => RestOK'
<1>1. pending \in Seq(SUBSET Lit) /\ pending # <<>>
  BY DEF IndInv, RestOK, TakePending
<1>2. Head(pending) \in SUBSET Lit /\ Tail(pending) \in Seq(SUBSET Lit)
  BY <1>1, HeadTailProperties
<1>3. todo = {}
  BY DEF IndInv, LocalsOK, TakePending
<1>4. /\ pending' = Tail(pending)
      /\ UNCHANGED <<nvars, maxLearnt, passVars, run, apiVars>>
  BY DEF TakePending
<1> QED BY <1>2, <1>3, <1>4
        DEF IndInv, RestOK, passVars, apiVars, theoryVars, EndLocals

\* PendingUnit preserves the invariant.
LEMMA PendingUnitStep ==
  ASSUME IndInv, PendingUnit PROVE IndInv'
<1>1. TakePending /\ UNCHANGED dbVars
  BY DEF PendingUnit
<1>2. DbOK' /\ Len(clauses) \in Nat /\ Len(clauses') = Len(clauses)
  BY <1>1, DbSame DEF IndInv
<1>3. PICK l \in Lit : PendingUnit!3!(l)
  BY DEF PendingUnit
<1>4. /\ todo = {} /\ ok \in BOOLEAN /\ pc \in Phases
      /\ verdict \in Verdicts
  BY <1>1, TakePendingFacts DEF IndInv, RestOK
<1>5. VarOf(l) \in Var /\ Lv(l) \in Nat /\ NoReason \in 0..Len(clauses')
  BY <1>2, LitFacts DEF IndInv, TrailOK, Lv, NoReason
<1>6. ASSUME NextPending \/ StopAttaching, ok' \in BOOLEAN
      PROVE  LocalsOK' /\ RestOK'
  <2>1. pc' \in {"bcp", "attach"} /\ UNCHANGED <<verdict, todo, confl,
                                              analysisVars, theoryVars>>
    BY <1>6 DEF NextPending, StopAttaching
  <2>2. LocalsOK'
    BY <1>4, <2>1, LocalsQuiet DEF IndInv
  <2> QED BY <1>1, <1>4, <1>6, <2>1, <2>2, TakePendingFacts DEF Phases
<1>7. CASE /\ Holds(l)
           /\ level' = [level EXCEPT ![VarOf(l)] = 0]
           /\ reason' = [reason EXCEPT ![VarOf(l)] = NoReason]
           /\ UNCHANGED <<ok, trail, lims, heap, qhead, stable>>
           /\ NextPending
  <2>1. level' \in [Var -> Nat]
    BY <1>5, <1>7 DEF IndInv, TrailOK
  <2>2. TrailOK'
    BY <1>7, <2>1 DEF IndInv, TrailOK
  <2>3. ReasonOK'
    BY <1>2, <1>5, <1>7 DEF IndInv, ReasonOK
  <2> QED BY <1>2, <1>4, <1>6, <1>7, <2>2, <2>3 DEF IndInv
<1>8. CASE /\ Fails(l) /\ Lv(l) = 0 /\ ok' = FALSE
           /\ UNCHANGED trailVars /\ Return("unsat")
  <2>1. pc' = "idle" /\ verdict' = "unsat" /\ EndLocals
    BY <1>8 DEF Return
  <2>2. LocalsOK' /\ RestOK'
    BY <1>1, <1>8, <2>1, LocalsReset, TakePendingFacts DEF Phases, Verdicts
  <2>3. TrailOK' /\ ReasonOK'
    BY <1>2, <1>8, TrailSame, ReasonSame DEF IndInv, trailVars
  <2> QED BY <1>2, <2>2, <2>3 DEF IndInv
<1>9. CASE /\ Fails(l) /\ Lv(l) > 0
           /\ CancelAndAssign(Lv(l) - 1, l, NoReason, 0)
           /\ UNCHANGED ok /\ StopAttaching
  <2>1. Lv(l) - 1 \in Nat
    BY <1>5, <1>9
  <2>2. TrailOK' /\ ReasonOK'
    BY <1>2, <1>5, <1>9, <2>1, CancelAndAssignTrail, CancelAndAssignReason
       DEF IndInv
  <2> QED BY <1>2, <1>4, <1>6, <1>9, <2>2 DEF IndInv
<1>10. CASE Free(l) /\ Assign(l, NoReason, 0) /\ UNCHANGED ok /\ StopAttaching
  <2>1. DecisionLevel \in Nat
    BY LenProperties DEF DecisionLevel, IndInv, TrailOK
  <2>2. TrailOK' /\ ReasonOK'
    BY <1>2, <1>5, <1>10, <2>1, CancelAndAssignTrail, CancelAndAssignReason
       DEF IndInv, Assign
  <2> QED BY <1>2, <1>4, <1>6, <1>10, <2>2 DEF IndInv
<1> QED BY <1>3, <1>7, <1>8, <1>9, <1>10
\* The level of an implied literal is a level.
LEMMA ImpliedLevelType ==
  ASSUME TrailOK, NEW others \in SUBSET Lit, NEW dl \in Nat
  PROVE  ImpliedLevel(others, dl) \in Nat
<1>1. Max({0} \cup {level[VarOf(q)] : q \in others}) \in Nat
  BY MaxLevelType DEF TrailOK
<1> QED BY <1>1 DEF ImpliedLevel, Lv

\* PendingClause preserves the invariant.
LEMMA PendingClauseStep ==
  ASSUME IndInv, PendingClause PROVE IndInv'
<1> DEFINE c == Head(pending)
<1>1. TakePending /\ UNCHANGED ok
  BY DEF PendingClause
<1>2. /\ c \in SUBSET Lit /\ todo = {} /\ ok' \in BOOLEAN
      /\ verdict \in Verdicts
  BY <1>1, TakePendingFacts DEF IndInv, RestOK
<1>3. PICK w0 \in c, w1 \in c :
        /\ Attach(c, w0, w1, FALSE)
        /\ \/ /\ Holds(w0) \/ ~Fails(w1)
              /\ UNCHANGED trailVars
              /\ NextPending
           \/ /\ Free(w0) /\ Fails(w1)
              /\ Assign(w0, Len(clauses) + 1,
                        ImpliedLevel(c \ {w0}, DecisionLevel))
              /\ StopAttaching
           \/ /\ Fails(w0)
              /\ pc' = "conflict" /\ confl' = Len(clauses) + 1
              /\ UNCHANGED <<trailVars, verdict, todo, analysisVars,
                             theoryVars>>
  BY DEF PendingClause
<1>4. w0 \in Lit /\ w1 \in Lit
  BY <1>2
<1>5. /\ DbOK' /\ Len(clauses') = Len(clauses) + 1 /\ Len(clauses) \in Nat
      /\ Len(clauses') \in Nat
  BY <1>2, <1>3, <1>4, AttachDb DEF IndInv
<1> HIDE DEF c
<1>6. ASSUME NextPending \/ StopAttaching
      PROVE  LocalsOK' /\ RestOK'
  <2>1. pc' \in {"bcp", "attach"} /\ UNCHANGED <<verdict, todo, confl,
                                              analysisVars, theoryVars>>
    BY <1>6 DEF NextPending, StopAttaching
  <2>2. LocalsOK'
    BY <1>2, <2>1, LocalsQuiet DEF IndInv
  <2> QED BY <1>1, <1>2, <1>6, <2>1, <2>2, TakePendingFacts DEF Phases
<1>7. CASE UNCHANGED trailVars /\ NextPending
  <2>1. TrailOK' /\ ReasonOK'
    BY <1>5, <1>7, TrailSame, ReasonSame DEF IndInv, trailVars
  <2> QED BY <1>5, <1>6, <1>7, <2>1 DEF IndInv
<1>8. CASE /\ Assign(w0, Len(clauses) + 1,
                     ImpliedLevel(c \ {w0}, DecisionLevel))
           /\ StopAttaching
  <2>1. DecisionLevel \in Nat
    BY LenProperties DEF DecisionLevel, IndInv, TrailOK
  <2>2. ImpliedLevel(c \ {w0}, DecisionLevel) \in Nat
    BY <1>2, <2>1, ImpliedLevelType DEF IndInv
  <2>3. Len(clauses) + 1 \in 0..Len(clauses')
    BY <1>5
  <2>4. TrailOK'
    BY <1>4, <1>8, <2>1, <2>2, CancelAndAssignTrail DEF IndInv, Assign
  <2>5. ReasonOK'
    BY <1>4, <1>5, <1>8, <2>1, <2>3, CancelAndAssignReason DEF IndInv, Assign
  <2> QED BY <1>5, <1>6, <1>8, <2>4, <2>5 DEF IndInv
<1>9. CASE /\ pc' = "conflict" /\ confl' = Len(clauses) + 1
           /\ UNCHANGED <<trailVars, verdict, todo, analysisVars, theoryVars>>
  <2>1. TrailOK' /\ ReasonOK'
    BY <1>5, <1>9, TrailSame, ReasonSame DEF IndInv, trailVars
  <2>2. LocalsOK'
    BY <1>2, <1>5, <1>9 DEF IndInv, LocalsOK, analysisVars
  <2>3. RestOK'
    BY <1>1, <1>2, <1>9, TakePendingFacts DEF Phases
  <2> QED BY <1>5, <2>1, <2>2, <2>3 DEF IndInv
<1> QED BY <1>3, <1>7, <1>8, <1>9
-----------------------------------------------------------------------------
(* propagate.                                                              *)

\* Propagation touches nothing of the rest of the state but the place.
LEMMA PropagatingRest ==
  ASSUME IndInv, Propagating, pc' \in Phases
  PROVE  RestOK'
BY DEF IndInv, RestOK, Propagating, passVars, theoryVars, apiVars

\* PropagateNext preserves the invariant.
LEMMA PropagateNextStep ==
  ASSUME IndInv, PropagateNext PROVE IndInv'
<1>1. qhead' = qhead + 1 /\ todo' = watches[trail[qhead + 1]]
      /\ UNCHANGED <<dbVars, trail, lims, level, reason, heap, stable, pc,
                     confl>>
      /\ UNCHANGED analysisVars /\ pc = "bcp" /\ qhead < Len(trail)
  BY DEF PropagateNext, Propagating
<1>2. qhead + 1 \in 1..Len(trail)
  BY <1>1, LenProperties DEF IndInv, TrailOK
<1>3. TrailOK'
  BY <1>1, <1>2 DEF IndInv, TrailOK
<1>4. DbOK' /\ Len(clauses') = Len(clauses) /\ ReasonOK'
  BY <1>1, DbSame, ReasonSame DEF IndInv
<1>5. watches[trail[qhead + 1]] \subseteq WatchIn(Len(clauses))
  <2>1. trail[qhead + 1] \in Lit
    BY <1>2, ElementOfSeq DEF IndInv, TrailOK
  <2> QED BY <2>1 DEF IndInv, DbOK
<1>6. LocalsOK'
  BY <1>1, <1>2, <1>4, <1>5 DEF IndInv, LocalsOK, analysisVars
<1>7. RestOK'
  BY <1>1, PropagatingRest DEF PropagateNext, Phases
<1> QED BY <1>3, <1>4, <1>6, <1>7 DEF IndInv

\* The clause and the literals a visited watch concerns.
LEMMA ScanFacts ==
  ASSUME IndInv, NEW w \in todo
  PROVE  /\ w.cref \in 1..Len(clauses) /\ w.blocker \in Lit
         /\ w \in WatchIn(Len(clauses))
         /\ Propagated \in Lit /\ -Propagated \in Lit
         /\ OtherWatch(clauses[w.cref]) \in Lit
         /\ clauses[w.cref].lits \subseteq Lit
         /\ Reordered(w.cref) \in Seq(Clause)
         /\ Len(Reordered(w.cref)) = Len(clauses)
<1>1. w \in WatchIn(Len(clauses)) /\ qhead \in 1..Len(trail)
  BY DEF IndInv, LocalsOK
<1>2. w.cref \in 1..Len(clauses) /\ w.blocker \in Lit
  BY <1>1 DEF WatchIn
<1>3. Propagated \in Lit /\ -Propagated \in Lit
  BY <1>1, ElementOfSeq, LitFacts DEF IndInv, TrailOK, Propagated
<1>4. OtherWatch(clauses[w.cref]) \in Lit /\ clauses[w.cref].lits \subseteq Lit
  BY <1>2, ClauseFacts DEF IndInv, OtherWatch
<1>5. /\ Reordered(w.cref) \in Seq(Clause)
      /\ Len(Reordered(w.cref)) = Len(clauses)
  BY <1>2, <1>3, <1>4, RewatchSeq DEF IndInv, Reordered
<1> QED BY <1>1, <1>2, <1>3, <1>4, <1>5

\* Steps within the scan: one watch less to visit, whatever the step does to
\* watches and clauses, as long as the types are kept.
LEMMA ScanStep ==
  ASSUME IndInv, NEW w \in todo, Propagating, todo' = todo \ {w},
         UNCHANGED <<pc, confl>>, UNCHANGED trailVars,
         clauses' \in Seq(Clause), Len(clauses') = Len(clauses),
         watches' \in [Lit -> SUBSET WatchIn(Len(clauses))]
  PROVE  IndInv'
<1>1. Len(clauses) \in Nat
  BY LenProperties DEF IndInv, DbOK
<1>2. TrailOK' /\ ReasonOK'
  BY <1>1, TrailSame, ReasonSame DEF IndInv, trailVars
<1>3. DbOK'
  BY DEF DbOK
<1>4. LocalsOK'
  BY DEF IndInv, LocalsOK, Propagating, analysisVars, trailVars
<1>5. RestOK'
  BY PropagatingRest DEF Propagating, Phases
<1> QED BY <1>2, <1>3, <1>4, <1>5 DEF IndInv
\* DropStaleWatch preserves the invariant.
LEMMA DropStaleWatchStep ==
  ASSUME IndInv, NEW w \in todo, DropStaleWatch(w) PROVE IndInv'
<1>1. watches' = [watches EXCEPT ![Propagated] = @ \ {w}]
      /\ UNCHANGED <<clauses, trailVars, pc, confl>>
      /\ Propagating /\ todo' = todo \ {w}
  BY DEF DropStaleWatch
<1>2. watches' \in [Lit -> SUBSET WatchIn(Len(clauses))]
  BY <1>1, ScanFacts DEF IndInv, DbOK
<1> QED BY <1>1, <1>2, ScanStep DEF IndInv, DbOK

\* SkipBlocked preserves the invariant.
LEMMA SkipBlockedStep ==
  ASSUME IndInv, NEW w \in todo, SkipBlocked(w) PROVE IndInv'
<1>1. UNCHANGED <<dbVars, trailVars, pc, confl>>
      /\ Propagating /\ todo' = todo \ {w}
  BY DEF SkipBlocked
<1> QED BY <1>1, ScanStep DEF IndInv, DbOK, dbVars

\* KeepSatisfied preserves the invariant.
LEMMA KeepSatisfiedStep ==
  ASSUME IndInv, NEW w \in todo, KeepSatisfied(w) PROVE IndInv'
<1> DEFINE first == OtherWatch(clauses[w.cref])
<1>1. /\ clauses' = Reordered(w.cref)
      /\ watches' = [watches EXCEPT ![Propagated] =
                       (@ \ {w}) \cup {[w EXCEPT !.blocker = first]}]
      /\ todo' = todo \ {w} /\ UNCHANGED <<trailVars, pc, confl>>
      /\ Propagating
  BY DEF KeepSatisfied, Visit
<1>2. first \in Lit /\ w \in WatchIn(Len(clauses)) /\ Propagated \in Lit
  BY ScanFacts
<1>3. [w EXCEPT !.blocker = first] \in WatchIn(Len(clauses))
  BY <1>2 DEF WatchIn
<1>4. watches' \in [Lit -> SUBSET WatchIn(Len(clauses))]
  <2> HIDE DEF first
  <2> QED BY <1>1, <1>2, <1>3 DEF IndInv, DbOK
<1> QED BY <1>1, <1>4, ScanFacts, ScanStep

\* MoveWatch preserves the invariant.
LEMMA MoveWatchStep ==
  ASSUME IndInv, NEW w \in todo, MoveWatch(w) PROVE IndInv'
<1> DEFINE first == OtherWatch(clauses[w.cref])
<1>1. todo' = todo \ {w} /\ UNCHANGED <<trailVars, pc, confl>> /\ Propagating
  BY DEF MoveWatch, Visit
<1>2. PICK l \in Replacements(w.cref) :
          /\ clauses' = [clauses EXCEPT ![w.cref].w0 = first,
                                        ![w.cref].w1 = l]
          /\ watches' = [watches EXCEPT
               ![Propagated] = @ \ {w},
               ![-l] = @ \cup {[cref |-> w.cref, blocker |-> first]}]
  BY DEF MoveWatch
<1>3. /\ first \in Lit /\ w.cref \in 1..Len(clauses) /\ Propagated \in Lit
      /\ clauses[w.cref].lits \subseteq Lit
  BY ScanFacts
<1>4. l \in Lit /\ -l \in Lit
  BY <1>3, LitFacts DEF Replacements
<1> HIDE DEF first
<1>5. clauses' \in Seq(Clause) /\ Len(clauses') = Len(clauses)
  BY <1>2, <1>3, <1>4, RewatchSeq DEF IndInv
<1>6. [cref |-> w.cref, blocker |-> first] \in WatchIn(Len(clauses))
  BY <1>3 DEF WatchIn
<1>7. watches' \in [Lit -> SUBSET WatchIn(Len(clauses))]
  BY <1>2, <1>3, <1>4, <1>6 DEF IndInv, DbOK
<1> QED BY <1>1, <1>5, <1>7, ScanStep

\* ImplyUnit preserves the invariant.
LEMMA ImplyUnitStep ==
  ASSUME IndInv, NEW w \in todo, ImplyUnit(w) PROVE IndInv'
<1> DEFINE c == clauses[w.cref]
           first == OtherWatch(c)
           lv == ImpliedLevel(c.lits \ {first}, DecisionLevel)
<1>1. /\ Propagating /\ clauses' = Reordered(w.cref) /\ Assign(first, w.cref, lv)
      /\ todo' = todo \ {w} /\ UNCHANGED <<watches, pc, confl>>
  BY DEF ImplyUnit, Visit
<1>2. /\ first \in Lit /\ w.cref \in 1..Len(clauses) /\ c.lits \subseteq Lit
      /\ clauses' \in Seq(Clause) /\ Len(clauses') = Len(clauses)
  BY <1>1, ScanFacts
<1>3. DecisionLevel \in Nat
  BY LenProperties DEF DecisionLevel, IndInv, TrailOK
<1>4. lv \in Nat
  BY <1>2, <1>3, ImpliedLevelType DEF IndInv
<1> HIDE DEF c, first, lv
<1>5. Len(clauses) \in Nat /\ Len(clauses') \in Nat
  BY <1>2, LenProperties
<1>6. TrailOK'
  BY <1>1, <1>2, <1>3, <1>4, CancelAndAssignTrail DEF IndInv, Assign
<1>7. ReasonOK'
  <2>1. w.cref \in 0..Len(clauses')
    BY <1>2, <1>5
  <2> QED BY <1>1, <1>2, <1>3, <1>5, <2>1, CancelAndAssignReason
          DEF IndInv, Assign
<1>8. DbOK'
  BY <1>1, <1>2 DEF IndInv, DbOK
<1>9. qhead' = qhead /\ Len(trail') = Len(trail) + 1 /\ Len(trail) \in Nat
  <2>1. trail' = Append(trail, first) /\ qhead' = qhead
    BY <1>1, <1>3 DEF Assign, CancelAndAssign, Retract, TrailAfter, QheadAfter
  <2> QED BY <1>2, <2>1, AppendLit DEF IndInv, TrailOK
<1>10. LocalsOK'
  <2>1. /\ pc' = pc /\ confl' = confl /\ UNCHANGED analysisVars
        /\ todo' \subseteq todo /\ pc = "bcp"
    BY <1>1 DEF Propagating
  <2>2. qhead \in 1..Len(trail')
    BY <1>9 DEF IndInv, LocalsOK
  <2> QED BY <1>2, <1>9, <2>1, <2>2 DEF IndInv, LocalsOK, analysisVars
<1>11. RestOK'
  BY <1>1, PropagatingRest DEF Propagating, Phases
<1> QED BY <1>6, <1>7, <1>8, <1>10, <1>11 DEF IndInv

\* FindConflict preserves the invariant.
LEMMA FindConflictStep ==
  ASSUME IndInv, NEW w \in todo, FindConflict(w) PROVE IndInv'
<1>1. /\ Propagating /\ clauses' = Reordered(w.cref) /\ todo' = {}
      /\ qhead' = Len(trail) /\ confl' = w.cref /\ pc' = "conflict"
      /\ UNCHANGED <<watches, trail, lims, level, reason, heap, stable>>
  BY DEF FindConflict, Visit
<1>2. /\ w.cref \in 1..Len(clauses) /\ clauses' \in Seq(Clause)
      /\ Len(clauses') = Len(clauses)
  BY <1>1, ScanFacts
<1>3. TrailOK'
  BY <1>1, LenProperties DEF IndInv, TrailOK
<1>4. DbOK' /\ ReasonOK'
  BY <1>1, <1>2, LenProperties, ReasonSame DEF IndInv, DbOK
<1>5. LocalsOK'
  BY <1>1, <1>2 DEF IndInv, LocalsOK, Propagating, analysisVars
<1>6. RestOK'
  BY <1>1, PropagatingRest DEF Phases
<1> QED BY <1>3, <1>4, <1>5, <1>6 DEF IndInv

\* Every step of propagate preserves the invariant.
LEMMA PropagateStep ==
  ASSUME IndInv, Propagate PROVE IndInv'
BY PropagateNextStep, DropStaleWatchStep, SkipBlockedStep, KeepSatisfiedStep,
   MoveWatchStep, ImplyUnitStep, FindConflictStep DEF Propagate
-----------------------------------------------------------------------------
(* theory_pass.                                                            *)

\* A literal is enqueued where the trail stands.
LEMMA GrowTrail ==
  ASSUME TrailOK, NEW l \in Lit, NEW lv \in Nat, NEW X \in SUBSET Var,
         trail' = Append(trail, l), heap' = heap \cup X,
         level' = [level EXCEPT ![VarOf(l)] = lv],
         UNCHANGED <<lims, qhead, stable>>
  PROVE  TrailOK'
<1>1. /\ trail' \in Seq(Lit) /\ Len(trail') = Len(trail) + 1
      /\ Len(trail) \in Nat
  BY AppendLit DEF TrailOK
<1>2. level' \in [Var -> Nat]
  BY LitFacts DEF TrailOK
<1>3. \A d \in 1..Len(lims') : lims'[d] <= Len(trail')
  <2> TAKE d \in 1..Len(lims')
  <2>1. lims'[d] \in Nat /\ lims'[d] <= Len(trail)
    BY ElementOfSeq DEF TrailOK
  <2> QED BY <1>1, <2>1
<1> QED BY <1>1, <1>2, <1>3 DEF TrailOK

\* attach_conflict_clause keeps the types and yields a clause to analyze.
LEMMA AttachConflictFacts ==
  ASSUME IndInv, NEW c \in SUBSET Lit, NEW n \in Nat, AttachConflict(c, n)
  PROVE  /\ TrailOK' /\ ReasonOK' /\ DbOK'
         /\ confl' \in 1..Len(clauses') /\ pc' = "conflict"
<1>1. PICK top \in {Lv(l) : l \in c} :
        /\ trail' = TrailAfter(top)
        /\ reason' = ReasonsAfter(top)
        /\ lims' = LimsAfter(top)
        /\ heap' = heap \cup Undone(top)
        /\ qhead' = QheadAfter(top)
        /\ stable' = StableAfter(top, n)
        /\ UNCHANGED level
        /\ \E w0, w1 \in c : Attach(c, w0, w1, TRUE)
        /\ confl' = Len(clauses) + 1 /\ pc' = "conflict"
  BY DEF AttachConflict
<1>2. top \in Nat
  BY LitFacts DEF Lv, IndInv, TrailOK
<1>3. PICK w0 \in c, w1 \in c : Attach(c, w0, w1, TRUE)
  BY <1>1
<1>4. /\ DbOK' /\ Len(clauses') = Len(clauses) + 1 /\ Len(clauses) \in Nat
      /\ Len(clauses') \in Nat
  <2>1. w0 \in Lit /\ w1 \in Lit
    OBVIOUS
  <2> QED BY <1>3, <2>1, AttachDb DEF IndInv
<1>5. TrailOK'
  BY <1>1, <1>2, CancelTrail DEF IndInv
<1>6. ReasonOK'
  BY <1>1, <1>2, <1>4, CancelReason DEF IndInv
<1> QED BY <1>1, <1>4, <1>5, <1>6

\* Consulting the hook keeps the types of the rest of the state.
LEMMA ConsultRest ==
  ASSUME IndInv, Consult, pc' \in Phases, progress' \in BOOLEAN,
         answer' \subseteq [lit : Lit, why : SUBSET Lit]
  PROVE  RestOK'
BY LenProperties DEF IndInv, RestOK, TrailOK, Consult, apiVars

\* TheoryConflict preserves the invariant.
LEMMA TheoryConflictStep ==
  ASSUME IndInv, TheoryConflict PROVE IndInv'
<1>1. PICK C \in Conflicts : AttachConflict(Negation(C), Len(trail))
  BY DEF TheoryConflict
<1>2. Negation(C) \in SUBSET Lit /\ Len(trail) \in Nat
  BY TrailLits, LitFacts, LenProperties
     DEF Conflicts, Negation, IndInv, TrailOK
<1>3. /\ TrailOK' /\ ReasonOK' /\ DbOK'
      /\ confl' \in 1..Len(clauses') /\ pc' = "conflict"
  BY <1>1, <1>2, AttachConflictFacts
<1>4. Consult /\ todo' = {} /\ UNCHANGED analysisVars /\ UNCHANGED theoryVars
  BY DEF TheoryConflict, Consult, AtFixpoint
<1>5. LocalsOK'
  <2>1. confl' \in Nat
    BY <1>3, LenProperties DEF DbOK
  <2> QED BY <1>3, <1>4, <2>1 DEF IndInv, LocalsOK, analysisVars
<1>6. RestOK'
  BY <1>3, <1>4, ConsultRest DEF IndInv, RestOK, theoryVars, Phases
<1> QED BY <1>3, <1>5, <1>6 DEF IndInv

\* TheoryAnswer preserves the invariant.
LEMMA TheoryAnswerStep ==
  ASSUME IndInv, TheoryAnswer PROVE IndInv'
<1>1. /\ Consult /\ answer' \subseteq Answers /\ progress' = FALSE
      /\ stable' = Len(trail) /\ pc' = "theory"
      /\ UNCHANGED <<dbVars, trail, lims, level, reason, heap, qhead, confl>>
  BY DEF TheoryAnswer
<1>2. todo' = {} /\ UNCHANGED analysisVars
  BY <1>1 DEF Consult, AtFixpoint
<1>3. TrailOK'
  BY <1>1, LenProperties DEF IndInv, TrailOK
<1>4. DbOK' /\ ReasonOK'
  BY <1>1, DbSame, ReasonSame DEF IndInv
<1>5. LocalsOK'
  BY <1>1, <1>2, LocalsQuiet DEF IndInv
<1>6. Answers \subseteq [lit : Lit, why : SUBSET Lit]
  <2>1. Range(trail) \subseteq Lit /\ TheoryLits \subseteq Lit
    BY TrailLits, SatAssumption DEF IndInv, TrailOK
  <2> QED BY <2>1 DEF Answers, Implications
<1>7. RestOK'
  BY <1>1, <1>6, ConsultRest DEF Phases
<1> QED BY <1>3, <1>4, <1>5, <1>7 DEF IndInv

\* What is known while an answer of the hook is processed.
LEMMA AnsweringFacts ==
  ASSUME IndInv, Answering
  PROVE  /\ todo = {} /\ todo' = {} /\ UNCHANGED analysisVars
         /\ ok \in BOOLEAN /\ verdict \in Verdicts /\ nvars \in 0..NumVars
         /\ \A i \in answer : i.lit \in Lit /\ i.why \in SUBSET Lit
         /\ stable \in Nat /\ DecisionLevel \in Nat /\ Len(clauses) \in Nat
<1>1. pc = "theory" /\ todo' = todo /\ UNCHANGED analysisVars
  BY DEF Answering
<1>2. todo = {}
  BY <1>1 DEF IndInv, LocalsOK
<1>3. /\ ok \in BOOLEAN /\ verdict \in Verdicts /\ nvars \in 0..NumVars
      /\ \A i \in answer : i.lit \in Lit /\ i.why \in SUBSET Lit
  BY DEF IndInv, RestOK
<1>4. stable \in Nat /\ DecisionLevel \in Nat /\ Len(clauses) \in Nat
  BY LenProperties DEF IndInv, TrailOK, DbOK, DecisionLevel
<1> QED BY <1>1, <1>2, <1>3, <1>4

\* Processing an answer keeps the types of the rest of the state.
LEMMA AnsweringRest ==
  ASSUME IndInv, Answering, ok' \in BOOLEAN, nvars' \in 0..NumVars,
         pc' \in Phases, verdict' \in Verdicts, answer' \subseteq answer,
         progress' \in BOOLEAN
  PROVE  RestOK'
BY DEF IndInv, RestOK, Answering, passVars, apiVars

\* ImpliedHolds preserves the invariant.
LEMMA ImpliedHoldsStep ==
  ASSUME IndInv, NEW i \in answer, ImpliedHolds(i) PROVE IndInv'
<1>1. /\ Answering /\ answer' = answer \ {i}
      /\ UNCHANGED <<ok, nvars, dbVars, trailVars, pc, confl, progress, verdict>>
  BY DEF ImpliedHolds
<1>2. TrailOK' /\ DbOK' /\ ReasonOK'
  BY <1>1, TrailSame, DbSame, ReasonSame DEF IndInv, trailVars
<1>3. LocalsOK'
  BY <1>1, AnsweringFacts, LocalsQuiet DEF IndInv, Answering
<1>4. RestOK'
  BY <1>1, AnsweringRest DEF IndInv, RestOK
<1> QED BY <1>2, <1>3, <1>4 DEF IndInv

\* ValidFails preserves the invariant.
LEMMA ValidFailsStep ==
  ASSUME IndInv, NEW i \in answer, ValidFails(i) PROVE IndInv'
<1>1. Answering /\ UNCHANGED <<nvars, dbVars, confl>>
  BY DEF ValidFails
<1>2. DbOK' /\ Len(clauses) \in Nat /\ Len(clauses') = Len(clauses)
  BY <1>1, DbSame DEF IndInv
<1>3. /\ i.lit \in Lit /\ Lv(i.lit) \in Nat
      /\ NoReason \in 0..Len(clauses')
  BY <1>1, <1>2, AnsweringFacts, LitFacts DEF Lv, IndInv, TrailOK, NoReason
<1>4. /\ TrailOK' /\ ReasonOK' /\ ok' \in BOOLEAN /\ verdict' \in Verdicts
      /\ pc' \in {"idle", "bcp", "attach"}
      /\ answer' = {} /\ progress' = FALSE
  <2>1. CASE /\ Lv(i.lit) = 0 /\ ok' = FALSE
             /\ pc' = "idle" /\ verdict' = "unsat"
             /\ answer' = {} /\ progress' = FALSE /\ UNCHANGED trailVars
    <3>1. TrailOK' /\ ReasonOK'
      BY <1>2, <2>1, TrailSame, ReasonSame DEF IndInv, trailVars
    <3> QED BY <2>1, <3>1 DEF Verdicts
  <2>2. CASE /\ Lv(i.lit) > 0
             /\ CancelAndAssign(Lv(i.lit) - 1, i.lit, NoReason, 0)
             /\ LeavePass(IF pending = <<>> THEN "bcp" ELSE "attach")
             /\ UNCHANGED <<ok, verdict>>
    <3>1. Lv(i.lit) - 1 \in Nat
      BY <1>3, <2>2
    <3>2. TrailOK' /\ ReasonOK'
      BY <1>2, <1>3, <2>2, <3>1, CancelAndAssignTrail, CancelAndAssignReason
         DEF IndInv
    <3>3. ok' \in BOOLEAN /\ verdict' \in Verdicts
      BY <2>2 DEF IndInv, RestOK
    <3> QED BY <2>2, <3>2, <3>3 DEF LeavePass
  <2> QED BY <2>1, <2>2 DEF ValidFails
<1>5. LocalsOK'
  BY <1>1, <1>4, AnsweringFacts, LocalsQuiet DEF IndInv
<1>6. RestOK'
  BY <1>1, <1>4, AnsweringRest DEF IndInv, RestOK, Phases
<1> QED BY <1>2, <1>4, <1>5, <1>6 DEF IndInv

\* ImpliedFails preserves the invariant.
LEMMA ImpliedFailsStep ==
  ASSUME IndInv, NEW i \in answer, ImpliedFails(i) PROVE IndInv'
<1>1. /\ Answering /\ AttachConflict({i.lit} \cup Negation(i.why), stable)
      /\ answer' = {} /\ progress' = FALSE /\ UNCHANGED <<ok, nvars, verdict>>
  BY DEF ImpliedFails
<1>2. {i.lit} \cup Negation(i.why) \in SUBSET Lit /\ stable \in Nat
  BY <1>1, AnsweringFacts, LitFacts DEF Negation
<1>3. /\ TrailOK' /\ ReasonOK' /\ DbOK'
      /\ confl' \in 1..Len(clauses') /\ pc' = "conflict"
  BY <1>1, <1>2, AttachConflictFacts
<1>4. LocalsOK'
  <2>1. confl' \in Nat
    BY <1>3, LenProperties DEF DbOK
  <2> QED BY <1>1, <1>3, <2>1, AnsweringFacts DEF IndInv, LocalsOK, analysisVars
<1>5. RestOK'
  BY <1>1, <1>3, AnsweringRest DEF IndInv, RestOK, Phases
<1> QED BY <1>3, <1>4, <1>5 DEF IndInv

\* ValidAssigned preserves the invariant.
LEMMA ValidAssignedStep ==
  ASSUME IndInv, NEW i \in answer, ValidAssigned(i) PROVE IndInv'
<1>1. /\ Answering /\ nvars' = VarsAfter({i.lit})
      /\ trail' = Append(trail, i.lit)
      /\ level' = [level EXCEPT ![VarOf(i.lit)] = 0]
      /\ reason' = [reason EXCEPT ![VarOf(i.lit)] = NoReason]
      /\ heap' = heap \cup NewVars({i.lit})
      /\ answer' = answer \ {i} /\ progress' = TRUE
      /\ UNCHANGED <<ok, dbVars, lims, qhead, stable, pc, confl, verdict>>
  BY DEF ValidAssigned, Allocate
<1>2. i.lit \in Lit /\ {i.lit} \in SUBSET Lit
  BY <1>1, AnsweringFacts
<1>3. VarsAfter({i.lit}) \in 0..NumVars /\ NewVars({i.lit}) \in SUBSET Var
  BY <1>2, VarsAfterType DEF IndInv, RestOK
<1>4. TrailOK'
  BY <1>1, <1>2, <1>3, GrowTrail DEF IndInv
<1>5. DbOK' /\ Len(clauses) \in Nat /\ Len(clauses') = Len(clauses)
  BY <1>1, DbSame DEF IndInv
<1>6. ReasonOK'
  BY <1>1, <1>2, <1>5, LitFacts DEF IndInv, ReasonOK, NoReason
<1>7. LocalsOK'
  BY <1>1, AnsweringFacts, LocalsQuiet DEF IndInv, Answering
<1>8. RestOK'
  BY <1>1, <1>3, AnsweringRest DEF IndInv, RestOK
<1> QED BY <1>4, <1>5, <1>6, <1>7, <1>8 DEF IndInv

\* ImpliedAssigned preserves the invariant.
LEMMA ImpliedAssignedStep ==
  ASSUME IndInv, NEW i \in answer, ImpliedAssigned(i) PROVE IndInv'
<1> DEFINE others == Negation(i.why)
<1>1. /\ Answering /\ nvars' = VarsAfter({i.lit})
      /\ trail' = Append(trail, i.lit)
      /\ level' = [level EXCEPT ![VarOf(i.lit)] =
                     ImpliedLevel(others, DecisionLevel)]
      /\ reason' = [reason EXCEPT ![VarOf(i.lit)] = Len(clauses) + 1]
      /\ heap' = heap \cup NewVars({i.lit})
      /\ answer' = answer \ {i} /\ progress' = TRUE
      /\ UNCHANGED <<ok, lims, qhead, stable, pc, confl, verdict>>
  BY DEF ImpliedAssigned, Allocate
<1>2. PICK w \in others : Attach({i.lit} \cup others, i.lit, w, TRUE)
  BY DEF ImpliedAssigned
<1>3. i.lit \in Lit /\ {i.lit} \in SUBSET Lit /\ others \in SUBSET Lit
  BY <1>1, AnsweringFacts, LitFacts DEF Negation
<1>4. VarsAfter({i.lit}) \in 0..NumVars /\ NewVars({i.lit}) \in SUBSET Var
  BY <1>3, VarsAfterType DEF IndInv, RestOK
<1>5. ImpliedLevel(others, DecisionLevel) \in Nat
  BY <1>1, <1>3, AnsweringFacts, ImpliedLevelType DEF IndInv
<1> HIDE DEF others
<1>6. TrailOK'
  BY <1>1, <1>3, <1>4, <1>5, GrowTrail DEF IndInv
<1>7. /\ DbOK' /\ Len(clauses') = Len(clauses) + 1 /\ Len(clauses) \in Nat
      /\ Len(clauses') \in Nat
  <2>1. w \in Lit /\ {i.lit} \cup others \in SUBSET Lit
    BY <1>3
  <2> QED BY <1>2, <1>3, <2>1, AttachDb DEF IndInv
<1>8. ReasonOK'
  BY <1>1, <1>3, <1>7, LitFacts DEF IndInv, ReasonOK
<1>9. LocalsOK'
  BY <1>1, AnsweringFacts, LocalsQuiet DEF IndInv, Answering
<1>10. RestOK'
  BY <1>1, <1>4, AnsweringRest DEF IndInv, RestOK
<1> QED BY <1>6, <1>7, <1>8, <1>9, <1>10 DEF IndInv

\* EndPass preserves the invariant.
LEMMA EndPassStep ==
  ASSUME IndInv, EndPass PROVE IndInv'
<1>1. /\ Answering /\ answer' = {} /\ progress' = FALSE
      /\ pc' \in {"branch", "bcp", "attach"}
      /\ UNCHANGED <<ok, nvars, dbVars, trailVars, confl, verdict>>
  BY DEF EndPass, LeavePass
<1>2. TrailOK' /\ DbOK' /\ ReasonOK'
  BY <1>1, TrailSame, DbSame, ReasonSame DEF IndInv, trailVars
<1>3. LocalsOK'
  BY <1>1, AnsweringFacts, LocalsQuiet DEF IndInv
<1>4. RestOK'
  BY <1>1, AnsweringRest DEF IndInv, RestOK, Phases
<1> QED BY <1>2, <1>3, <1>4 DEF IndInv

\* Every step of theory_pass preserves the invariant.
LEMMA TheoryStep ==
  ASSUME IndInv, TheoryPass PROVE IndInv'
BY TheoryConflictStep, TheoryAnswerStep, ImpliedHoldsStep, ValidFailsStep,
   ImpliedFailsStep, ValidAssignedStep, ImpliedAssignedStep, EndPassStep
   DEF TheoryPass
-----------------------------------------------------------------------------
(* Conflicts.                                                              *)

\* The conflict clause and its level are well-typed.
LEMMA ConflictFacts ==
  ASSUME IndInv, Conflicting
  PROVE  /\ confl \in 1..Len(clauses) /\ Len(clauses) \in Nat
         /\ ConflictClause \in Clause /\ ConflictClause.lits \subseteq Lit
         /\ ConflictClause.w0 \in Lit /\ ConflictClause.w1 \in Lit
         /\ ConflictLevel \in Nat /\ todo = {} /\ pc = "conflict"
         /\ ok \in BOOLEAN /\ verdict \in Verdicts /\ DecisionLevel \in Nat
<1>1. confl \in 1..Len(clauses) /\ todo = {} /\ pc = "conflict"
  BY DEF IndInv, LocalsOK, Conflicting
<1>2. /\ ConflictClause \in Clause /\ ConflictClause.lits \subseteq Lit
      /\ ConflictClause.w0 \in Lit /\ ConflictClause.w1 \in Lit
  BY <1>1, ClauseFacts DEF IndInv, ConflictClause
<1>3. ConflictLevel \in Nat
  <2>1. level \in [Var -> Nat] /\ ConflictClause.lits \in SUBSET Lit
    BY <1>2 DEF IndInv, TrailOK
  <2> QED BY <2>1, MaxLevelType DEF ConflictLevel, Lv
<1>4. /\ ok \in BOOLEAN /\ verdict \in Verdicts /\ DecisionLevel \in Nat
      /\ Len(clauses) \in Nat
  BY LenProperties DEF IndInv, RestOK, TrailOK, DbOK, DecisionLevel
<1> QED BY <1>1, <1>2, <1>3, <1>4

\* Handling a conflict keeps the types of the rest of the state.
LEMMA ConflictingRest ==
  ASSUME IndInv, Conflicting, ok' \in BOOLEAN, pc' \in Phases,
         verdict' \in Verdicts
  PROVE  RestOK'
BY DEF IndInv, RestOK, Conflicting, passVars, theoryVars, apiVars

\* RootConflict preserves the invariant.
LEMMA RootConflictStep ==
  ASSUME IndInv, RootConflict PROVE IndInv'
<1>1. /\ Conflicting /\ ok' = FALSE /\ pc' = "idle" /\ verdict' = "unsat"
      /\ EndLocals /\ UNCHANGED <<dbVars, trailVars>>
  BY DEF RootConflict, Return
<1>2. TrailOK' /\ DbOK' /\ ReasonOK'
  BY <1>1, TrailSame, DbSame, ReasonSame DEF IndInv, trailVars
<1>3. LocalsOK' /\ RestOK'
  BY <1>1, LocalsReset, ConflictingRest DEF Phases, Verdicts
<1> QED BY <1>2, <1>3 DEF IndInv

\* UnitBelow preserves the invariant.
LEMMA UnitBelowStep ==
  ASSUME IndInv, UnitBelow PROVE IndInv'
<1> DEFINE c == ConflictClause
<1>1. /\ Conflicting /\ ConflictLevel > 0 /\ confl' = NoReason
      /\ pc' \in {"bcp", "attach"}
      /\ UNCHANGED <<ok, verdict, todo, analysisVars>>
  BY DEF UnitBelow, ToLoopHead
<1>2. PICK u \in TopLits :
        LET other == IF u = c.w0 THEN c.w1 ELSE c.w0
        IN /\ clauses' = [clauses EXCEPT ![confl].w0 = u, ![confl].w1 = other]
           /\ watches' =
                IF u \in {c.w0, c.w1} THEN watches
                ELSE [watches EXCEPT
                  ![-c.w1] = {w \in @ : w.cref # confl},
                  ![-u] = @ \cup {[cref |-> confl, blocker |-> c.w0]}]
           /\ CancelAndAssign(ConflictLevel - 1, u, confl,
                ImpliedLevel(c.lits \ {u}, ConflictLevel - 1))
  BY DEF UnitBelow
<1>3. /\ c.lits \subseteq Lit /\ c.w0 \in Lit /\ c.w1 \in Lit
      /\ ConflictLevel \in Nat /\ confl \in 1..Len(clauses)
      /\ Len(clauses) \in Nat /\ todo = {}
      /\ ok \in BOOLEAN /\ verdict \in Verdicts
  BY <1>1, ConflictFacts
<1>4. u \in Lit /\ -u \in Lit /\ -c.w1 \in Lit /\ ConflictLevel - 1 \in Nat
  BY <1>1, <1>3, LitFacts DEF TopLits
<1>5. ImpliedLevel(c.lits \ {u}, ConflictLevel - 1) \in Nat
  BY <1>3, <1>4, ImpliedLevelType DEF IndInv
<1> HIDE DEF c
<1>6. clauses' \in Seq(Clause) /\ Len(clauses') = Len(clauses)
  <2> DEFINE other == IF u = c.w0 THEN c.w1 ELSE c.w0
  <2>1. other \in Lit
    BY <1>3
  <2>2. clauses' = [clauses EXCEPT ![confl].w0 = u, ![confl].w1 = other]
    BY <1>2
  <2> HIDE DEF other
  <2> QED BY <1>3, <1>4, <2>1, <2>2, RewatchSeq DEF IndInv
<1>7. watches' \in [Lit -> SUBSET WatchIn(Len(clauses))]
  <2>1. [cref |-> confl, blocker |-> c.w0] \in WatchIn(Len(clauses))
    BY <1>3 DEF WatchIn
  <2>2. watches \in [Lit -> SUBSET WatchIn(Len(clauses))]
    BY DEF IndInv, DbOK
  <2> QED BY <1>2, <1>4, <2>1, <2>2
<1>8. DbOK'
  BY <1>6, <1>7 DEF DbOK
<1>9. TrailOK'
  BY <1>2, <1>4, <1>5, CancelAndAssignTrail DEF IndInv
<1>10. ReasonOK'
  <2>1. /\ confl \in 0..Len(clauses') /\ Len(clauses') \in Nat
        /\ Len(clauses) <= Len(clauses')
    BY <1>3, <1>6
  <2> QED BY <1>2, <1>4, <2>1, CancelAndAssignReason DEF IndInv
<1>11. LocalsOK' /\ RestOK'
  <2>1. LocalsOK'
    BY <1>1, <1>3, LocalsQuiet DEF IndInv
  <2> QED BY <1>1, <1>3, <2>1, ConflictingRest DEF Phases
<1> QED BY <1>8, <1>9, <1>10, <1>11 DEF IndInv

\* StartAnalysis preserves the invariant.
LEMMA StartAnalysisStep ==
  ASSUME IndInv, StartAnalysis PROVE IndInv'
<1>1. /\ Conflicting /\ UNCHANGED <<ok, dbVars, verdict, todo, uip>>
      /\ CancelUntil(ConflictLevel) \/ UNCHANGED trailVars
      /\ resolvent' \subseteq ConflictClause.lits
      /\ cursor' = Len(trail') + 1 /\ confl' = NoReason /\ pc' = "analyze"
  BY DEF StartAnalysis
<1>2. /\ ConflictLevel \in Nat /\ ConflictClause.lits \subseteq Lit
      /\ todo = {} /\ ok \in BOOLEAN /\ verdict \in Verdicts
  BY <1>1, ConflictFacts
<1>3. DbOK' /\ Len(clauses) \in Nat /\ Len(clauses') = Len(clauses)
  BY <1>1, DbSame DEF IndInv
<1>4. TrailOK' /\ ReasonOK'
  <2>1. CASE UNCHANGED trailVars
    BY <1>3, <2>1, TrailSame, ReasonSame DEF IndInv, trailVars
  <2>2. CASE CancelUntil(ConflictLevel)
    <3>1. stable \in Nat
      BY DEF IndInv, TrailOK
    <3>2. TrailOK'
      BY <1>2, <2>2, <3>1, CancelTrail DEF IndInv, CancelUntil, Retract
    <3>3. ReasonOK'
      BY <1>2, <1>3, <2>2, CancelReason DEF IndInv, CancelUntil
    <3> QED BY <3>2, <3>3
  <2> QED BY <1>1, <2>1, <2>2
<1>5. LocalsOK'
  <2>1. Len(trail') \in Nat
    BY <1>4, LenProperties DEF TrailOK
  <2> QED BY <1>1, <1>2, <2>1 DEF IndInv, LocalsOK, NoReason
<1>6. RestOK'
  BY <1>1, <1>2, ConflictingRest DEF Phases
<1> QED BY <1>3, <1>4, <1>5, <1>6 DEF IndInv

\* analyze walks the trail: its steps change only its locals.
LEMMA AnalyzingStep ==
  ASSUME IndInv, Analyzing, pc' \in Phases, LocalsOK' PROVE IndInv'
<1>1. TrailOK' /\ DbOK' /\ ReasonOK'
  BY TrailSame, DbSame, ReasonSame DEF IndInv, trailVars, Analyzing
<1>2. RestOK'
  BY DEF IndInv, RestOK, Analyzing, passVars, theoryVars, apiVars
<1> QED BY <1>1, <1>2 DEF IndInv

\* The literals analyze finds on the trail are those of the resolvent.
LEMMA AnalyzingFacts ==
  ASSUME IndInv, Analyzing, NEW i \in OpenBelow
  PROVE  /\ i \in 1..Len(trail) /\ trail[i] \in Lit
         /\ reason[VarOf(trail[i])] \in 0..Len(clauses)
<1>1. i \in 1..(cursor - 1) /\ cursor \in Nat /\ cursor <= Len(trail) + 1
  BY DEF OpenBelow, IndInv, LocalsOK, Analyzing
<1>2. i \in 1..Len(trail)
  BY <1>1, LenProperties DEF IndInv, TrailOK
<1>3. trail[i] \in Lit
  BY <1>2, ElementOfSeq DEF IndInv, TrailOK
<1> QED BY <1>2, <1>3, LitFacts DEF IndInv, ReasonOK

\* FindUIP preserves the invariant.
LEMMA FindUIPStep ==
  ASSUME IndInv, FindUIP PROVE IndInv'
<1>1. PICK i \in OpenBelow : uip' = -trail[i] /\ cursor' = 0
  BY DEF FindUIP
<1>2. Analyzing /\ pc' = "learn" /\ UNCHANGED resolvent
  BY DEF FindUIP
<1>3. uip' \in Lit
  BY <1>1, <1>2, AnalyzingFacts, LitFacts
<1>4. LocalsOK'
  <2>1. todo' = {} /\ confl' = confl
    BY <1>2 DEF Analyzing, IndInv, LocalsOK
  <2> QED BY <1>1, <1>2, <1>3, <2>1 DEF IndInv, LocalsOK
<1> QED BY <1>2, <1>4, AnalyzingStep DEF Phases

\* Resolve preserves the invariant.
LEMMA ResolveStep ==
  ASSUME IndInv, Resolve PROVE IndInv'
<1>1. PICK i \in OpenBelow :
        /\ reason[VarOf(trail[i])] # NoReason
        /\ resolvent' = (resolvent \ {-trail[i]})
                          \cup Antecedents(reason[VarOf(trail[i])])
        /\ cursor' = i
  BY DEF Resolve
<1>2. Analyzing /\ UNCHANGED <<pc, uip>> /\ pc = "analyze"
  BY DEF Resolve, Analyzing
<1>3. i \in 1..Len(trail) /\ reason[VarOf(trail[i])] \in 1..Len(clauses)
      /\ Len(trail) \in Nat
  <2>1. Len(clauses) \in Nat /\ Len(trail) \in Nat
    BY LenProperties DEF IndInv, DbOK, TrailOK
  <2> QED BY <1>1, <1>2, <2>1, AnalyzingFacts DEF NoReason
<1>4. Antecedents(reason[VarOf(trail[i])]) \subseteq Lit
  BY <1>3, ClauseFacts DEF IndInv, Antecedents
<1>5. LocalsOK'
  <2>1. todo' = {} /\ confl' = confl /\ trail' = trail
    BY <1>2 DEF Analyzing, IndInv, LocalsOK, trailVars
  <2>2. cursor' \in Nat /\ cursor' <= Len(trail) + 1
    BY <1>1, <1>3
  <2> QED BY <1>1, <1>2, <1>4, <2>1, <2>2 DEF IndInv, LocalsOK
<1> QED BY <1>2, <1>5, AnalyzingStep DEF Phases

\* AnalysisPanics preserves the invariant.
LEMMA AnalysisPanicsStep ==
  ASSUME IndInv, AnalysisPanics PROVE IndInv'
<1>1. /\ Analyzing /\ pc' = "panic"
      /\ resolvent' = {} /\ cursor' = 0 /\ uip' = 0
  BY DEF AnalysisPanics
<1>2. LocalsOK'
  <2>1. todo' = {} /\ confl' = confl
    BY <1>1 DEF Analyzing, IndInv, LocalsOK
  <2> QED BY <1>1, <2>1 DEF IndInv, LocalsOK
<1> QED BY <1>1, <1>2, AnalyzingStep DEF Phases
\* The asserting literal and the levels to return to are well-typed.
LEMMA LearningFacts ==
  ASSUME IndInv, Learning
  PROVE  /\ todo = {} /\ pc = "learn" /\ uip \in Lit /\ resolvent \subseteq Lit
         /\ BackjumpLevel \in Nat /\ BacktrackLevel \in Nat
         /\ ok \in BOOLEAN /\ verdict \in Verdicts
<1>1. /\ todo = {} /\ pc = "learn" /\ uip \in Lit /\ resolvent \subseteq Lit
      /\ ok \in BOOLEAN /\ verdict \in Verdicts
  BY DEF IndInv, LocalsOK, RestOK, Learning
<1>2. BackjumpLevel \in Nat
  <2>1. level \in [Var -> Nat] /\ resolvent \ {uip} \in SUBSET Lit
    BY <1>1 DEF IndInv, TrailOK
  <2> QED BY <2>1, MaxLevelType DEF BackjumpLevel, Lv
<1>3. BacktrackLevel \in Nat
  <2>1. DecisionLevel \in Nat /\ ChronoLevels \in Nat
    BY LenProperties, SatAssumption DEF IndInv, TrailOK, DecisionLevel
  <2> QED BY <1>2, <2>1 DEF BacktrackLevel
<1> QED BY <1>1, <1>2, <1>3

\* Learning keeps the types of the rest of the state.
LEMMA LearningRest ==
  ASSUME IndInv, Learning, ok' \in BOOLEAN, pc' \in Phases,
         verdict' \in Verdicts
  PROVE  RestOK'
BY DEF IndInv, RestOK, Learning, passVars, theoryVars, apiVars

\* cancel_until on its own.
LEMMA CancelUntilFacts ==
  ASSUME IndInv, NEW k \in Nat, CancelUntil(k), UNCHANGED dbVars
  PROVE  TrailOK' /\ ReasonOK' /\ DbOK'
<1>1. DbOK' /\ Len(clauses) \in Nat /\ Len(clauses') = Len(clauses)
  BY DbSame DEF IndInv
<1>2. TrailOK'
  BY CancelTrail DEF IndInv, TrailOK, CancelUntil, Retract
<1>3. ReasonOK'
  BY <1>1, CancelReason DEF IndInv, CancelUntil
<1> QED BY <1>1, <1>2, <1>3

\* AssumptionConflict preserves the invariant.
LEMMA AssumptionConflictStep ==
  ASSUME IndInv, AssumptionConflict PROVE IndInv'
<1>1. /\ Learning /\ CancelUntil(0) /\ UNCHANGED dbVars /\ EndLocals
      /\ pc' = "idle" /\ verdict' = "unsat" /\ ok' = ok
  BY DEF AssumptionConflict, Return, Learning
<1>2. TrailOK' /\ ReasonOK' /\ DbOK'
  BY <1>1, CancelUntilFacts
<1>3. LocalsOK' /\ RestOK'
  <2>1. LocalsOK'
    BY <1>1, LocalsReset
  <2>2. RestOK'
    BY <1>1, LearningFacts, LearningRest DEF Phases, Verdicts
  <2> QED BY <2>1, <2>2
<1> QED BY <1>2, <1>3 DEF IndInv

\* Learn preserves the invariant.
LEMMA LearnStep ==
  ASSUME IndInv, Learn PROVE IndInv'
<1> DEFINE others == resolvent \ {uip}
<1>1. /\ Learning /\ pc' = "account" /\ resolvent' = {} /\ uip' = 0
      /\ UNCHANGED <<verdict, todo, confl, cursor>> /\ ok' = ok
  BY DEF Learn, Learning
<1>2. /\ todo = {} /\ uip \in Lit /\ others \subseteq Lit
      /\ resolvent \in SUBSET Lit /\ BacktrackLevel \in Nat
      /\ ok \in BOOLEAN /\ verdict \in Verdicts
  BY <1>1, LearningFacts
<1>3. LocalsOK' /\ RestOK'
  <2>1. LocalsOK'
    BY <1>1, <1>2 DEF IndInv, LocalsOK
  <2> QED BY <1>1, <1>2, <2>1, LearningRest DEF Phases
<1>4. CASE /\ CancelAndAssign(BacktrackLevel, uip, NoReason, 0)
           /\ UNCHANGED dbVars
  <2>1. DbOK' /\ Len(clauses) \in Nat /\ Len(clauses') = Len(clauses)
    BY <1>4, DbSame DEF IndInv
  <2>2. NoReason \in 0..Len(clauses')
    BY <2>1 DEF NoReason
  <2>3. TrailOK' /\ ReasonOK'
    BY <1>2, <1>4, <2>1, <2>2, CancelAndAssignTrail, CancelAndAssignReason
       DEF IndInv
  <2> QED BY <2>1, <2>3, <1>3 DEF IndInv
<1>5. CASE \E w \in others :
             /\ Attach(resolvent, uip, w, TRUE)
             /\ CancelAndAssign(BacktrackLevel, uip, Len(clauses) + 1,
                  ImpliedLevel(others, BacktrackLevel))
  <2>1. PICK w \in others :
             /\ Attach(resolvent, uip, w, TRUE)
             /\ CancelAndAssign(BacktrackLevel, uip, Len(clauses) + 1,
                  ImpliedLevel(others, BacktrackLevel))
    BY <1>5
  <2>2. ImpliedLevel(others, BacktrackLevel) \in Nat
    BY <1>2, ImpliedLevelType DEF IndInv
  <2> HIDE DEF others
  <2>3. /\ DbOK' /\ Len(clauses') = Len(clauses) + 1 /\ Len(clauses) \in Nat
        /\ Len(clauses') \in Nat
    <3>1. w \in Lit
      BY <1>2
    <3> QED BY <1>2, <2>1, <3>1, AttachDb DEF IndInv
  <2>4. TrailOK'
    BY <1>2, <2>1, <2>2, CancelAndAssignTrail DEF IndInv
  <2>5. ReasonOK'
    <3>1. Len(clauses) + 1 \in 0..Len(clauses')
      BY <2>3
    <3> QED BY <1>2, <2>1, <2>3, <3>1, CancelAndAssignReason DEF IndInv
  <2> QED BY <1>3, <2>3, <2>4, <2>5 DEF IndInv
<1> QED BY <1>4, <1>5 DEF Learn

\* Account preserves the invariant.
LEMMA AccountStep ==
  ASSUME IndInv, Account PROVE IndInv'
<1>1. /\ UNCHANGED <<ok, nvars, dbVars, maxLearnt, passVars, pending,
                     theoryVars, analysisVars, todo, confl, apiVars>>
      /\ pc = "account" /\ pc' \in {"idle", "reduce", "bcp", "attach"}
      /\ verdict' \in {verdict, "unknown"}
      /\ \/ CancelUntil(0) \/ CancelUntil(Len(run.assume))
         \/ UNCHANGED trailVars
  BY DEF Account, ToLoopHead
<1>2. run \in Search /\ Len(run.assume) \in Nat
  BY LenProperties DEF IndInv, RestOK, Search
<1>3. TrailOK' /\ ReasonOK' /\ DbOK'
  <2>1. CASE UNCHANGED trailVars
    BY <1>1, <2>1, TrailSame, DbSame, ReasonSame DEF IndInv, trailVars
  <2>2. CASE CancelUntil(0)
    BY <1>1, <2>2, CancelUntilFacts
  <2>3. CASE CancelUntil(Len(run.assume))
    BY <1>1, <1>2, <2>3, CancelUntilFacts
  <2> QED BY <1>1, <2>1, <2>2, <2>3
<1>4. run' \in Search
  <2>1. \/ run' = [run EXCEPT !.spent = run.spent + 1]
        \/ run' = [run EXCEPT !.spent = run.spent + 1, !.since = 0,
                              !.luby = run.luby + 1]
        \/ run' = [run EXCEPT !.spent = run.spent + 1,
                              !.since = run.since + 1]
    BY DEF Account
  <2>2. /\ run.spent + 1 \in Nat /\ run.since + 1 \in Nat
        /\ run.luby + 1 \in Nat /\ 0 \in Nat
    BY <1>2 DEF Search
  <2>3. [run EXCEPT !.spent = run.spent + 1] \in Search
    BY <1>2, <2>2 DEF Search
  <2>4. [run EXCEPT !.spent = run.spent + 1, !.since = 0,
                    !.luby = run.luby + 1] \in Search
    BY <1>2, <2>2 DEF Search
  <2>5. [run EXCEPT !.spent = run.spent + 1, !.since = run.since + 1]
          \in Search
    BY <1>2, <2>2 DEF Search
  <2> QED BY <2>1, <2>3, <2>4, <2>5
<1>5. LocalsOK'
  <2>1. todo' = {}
    BY <1>1 DEF IndInv, LocalsOK
  <2> QED BY <1>1, <2>1, LocalsQuiet DEF IndInv
<1>6. RestOK'
  BY <1>1, <1>4 DEF IndInv, RestOK, Phases, Verdicts, passVars, theoryVars,
                    apiVars
<1> QED BY <1>3, <1>5, <1>6 DEF IndInv

\* reduce_db empties clauses and takes none out of the database.
LEMMA ReducedSeq ==
  ASSUME NEW cs \in Seq(Clause), NEW gone
  PROVE  LET left == [c \in DOMAIN cs |-> IF c \in gone THEN [cs[c] EXCEPT !.lits = {}]
                                         ELSE cs[c]]
         IN left \in Seq(Clause) /\ Len(left) = Len(cs)
<1> DEFINE left == [c \in DOMAIN cs |-> IF c \in gone THEN [cs[c] EXCEPT !.lits = {}]
                                       ELSE cs[c]]
           m == Len(left)
           n == Len(cs)
<1>1. n \in Nat /\ DOMAIN cs = 1..n /\ \A c \in 1..n : cs[c] \in Clause
  BY LenProperties, ElementOfSeq
<1>2. \A c \in 1..n : [cs[c] EXCEPT !.lits = {}] \in Clause
  BY <1>1 DEF Clause
<1>3. left \in [1..n -> Clause]
  BY <1>1, <1>2
<1>4. left \in Seq(Clause)
  BY <1>1, <1>3, SeqDef
<1>5. m \in Nat /\ 1..m = 1..n
  BY <1>3, <1>4, LenProperties
<1> HIDE DEF m, n
<1>6. (m < n => n \in 1..n /\ n \notin 1..m) /\ (n < m => m \in 1..m /\ m \notin 1..n)
  BY <1>1, <1>5
<1>7. m = n
  BY <1>1, <1>5, <1>6
<1> QED BY <1>4, <1>7 DEF m, n

\* Reduce preserves the invariant.
LEMMA ReduceStep ==
  ASSUME IndInv, Reduce PROVE IndInv'
<1>1. /\ UNCHANGED <<ok, nvars, watches, trailVars, passVars, pending, run,
                     todo, confl, analysisVars, theoryVars, verdict, apiVars>>
      /\ pc = "reduce" /\ pc' \in {"bcp", "attach"}
  BY DEF Reduce, ToLoopHead
<1>2. /\ clauses \in Seq(Clause) /\ Len(clauses) \in Nat
      /\ DOMAIN clauses = 1..Len(clauses)
      /\ \A c \in 1..Len(clauses) : clauses[c] \in Clause
  BY LenProperties, ElementOfSeq DEF IndInv, DbOK
<1>3. clauses' \in Seq(Clause) /\ Len(clauses') = Len(clauses)
  <2>1. CASE clauses' = clauses
    BY <1>2, <2>1
  <2>2. ASSUME NEW gone,
               clauses' = [c \in DOMAIN clauses |->
                      IF c \in gone THEN [clauses[c] EXCEPT !.lits = {}]
                      ELSE clauses[c]]
        PROVE  clauses' \in Seq(Clause) /\ Len(clauses') = Len(clauses)
    BY <1>2, <2>2, ReducedSeq
  <2> QED BY <2>1, <2>2 DEF Reduce
<1>4. DbOK' /\ TrailOK' /\ ReasonOK'
  BY <1>1, <1>2, <1>3, TrailSame, ReasonSame DEF IndInv, DbOK, trailVars
<1>5. LocalsOK'
  <2>1. todo' = {}
    BY <1>1 DEF IndInv, LocalsOK
  <2> QED BY <1>1, <2>1, LocalsQuiet DEF IndInv
<1>6. maxLearnt' \in Nat
  BY DEF Reduce, IndInv, RestOK
<1>7. RestOK'
  BY <1>1, <1>6 DEF IndInv, RestOK, Phases, passVars, theoryVars, apiVars
<1> QED BY <1>4, <1>5, <1>7 DEF IndInv

\* Every step of conflict handling preserves the invariant.
LEMMA ConflictStep ==
  ASSUME IndInv, HandleConflict PROVE IndInv'
BY RootConflictStep, UnitBelowStep, StartAnalysisStep, ResolveStep,
   FindUIPStep, AnalysisPanicsStep, AssumptionConflictStep, LearnStep,
   AccountStep, ReduceStep DEF HandleConflict
-----------------------------------------------------------------------------
(* Branching.                                                              *)

\* Branching leaves the database alone and propagation idle.
LEMMA BranchingFacts ==
  ASSUME IndInv, Branching
  PROVE  /\ todo = {} /\ UNCHANGED dbVars /\ DbOK'
         /\ Len(clauses) \in Nat /\ Len(clauses') = Len(clauses)
         /\ pc' \in Phases /\ verdict' \in Verdicts
              /\ UNCHANGED theoryVars => RestOK'
         /\ pc' \in Phases /\ verdict' \in Verdicts /\ EndLocals => RestOK'
<1>1. UNCHANGED <<ok, nvars, dbVars, maxLearnt, passVars, pending, run, apiVars>>
  BY DEF Branching
<1>2. todo = {}
  BY DEF Branching, AtFixpoint, IndInv, LocalsOK
<1>3. DbOK' /\ Len(clauses) \in Nat /\ Len(clauses') = Len(clauses)
  BY <1>1, DbSame DEF IndInv
<1> QED BY <1>1, <1>2, <1>3
        DEF IndInv, RestOK, passVars, apiVars, theoryVars, EndLocals

\* A new decision level begins at the end of the trail.
LEMMA AppendLevel ==
  ASSUME TrailOK
  PROVE  /\ Append(lims, Len(trail)) \in Seq(Nat)
         /\ \A d \in 1..Len(Append(lims, Len(trail))) :
              Append(lims, Len(trail))[d] <= Len(trail)
         /\ \A d, e \in 1..Len(Append(lims, Len(trail))) :
              d <= e => Append(lims, Len(trail))[d]
                          <= Append(lims, Len(trail))[e]
<1> DEFINE n == Len(trail)
           s == Append(lims, n)
<1>1. lims \in Seq(Nat) /\ n \in Nat /\ Len(lims) \in Nat
  BY LenProperties DEF TrailOK
<1>2. /\ s \in Seq(Nat) /\ Len(s) = Len(lims) + 1
      /\ \A d \in 1..Len(lims) : s[d] = lims[d]
      /\ s[Len(lims) + 1] = n
  BY <1>1, AppendProperties
<1>3. \A d \in 1..Len(lims) : lims[d] <= n
  BY DEF TrailOK
<1>4. \A d \in 1..Len(s) : d \in 1..Len(lims) \/ d = Len(lims) + 1
  BY <1>1, <1>2
<1>5. \A d \in 1..Len(s) : s[d] <= n
  BY <1>1, <1>2, <1>3, <1>4
<1>6. \A d, e \in 1..Len(s) : d <= e => s[d] <= s[e]
  <2> SUFFICES ASSUME NEW d \in 1..Len(s), NEW e \in 1..Len(s), d <= e
               PROVE  s[d] <= s[e]
    OBVIOUS
  <2>1. CASE e = Len(lims) + 1
    BY <1>2, <1>5, <2>1
  <2>2. CASE e \in 1..Len(lims)
    <3>1. d \in 1..Len(lims)
      BY <1>1, <1>2, <2>2
    <3> QED BY <1>2, <2>2, <3>1 DEF TrailOK
  <2> QED BY <1>4, <2>1, <2>2
<1> QED BY <1>2, <1>5, <1>6

\* Opening a decision level keeps the types of trail and antecedents.
LEMMA OpenLevelFacts ==
  ASSUME IndInv, NEW l \in Lit, OpenLevel(l), heap' \subseteq heap,
         UNCHANGED <<qhead, stable>>, UNCHANGED dbVars
  PROVE  TrailOK' /\ ReasonOK'
<1>1. /\ trail' \in Seq(Lit) /\ Len(trail') = Len(trail) + 1
      /\ Len(trail) \in Nat
  BY AppendLit DEF IndInv, TrailOK, OpenLevel
<1>2. level' \in [Var -> Nat]
  <2>1. DecisionLevel + 1 \in Nat
    BY LenProperties DEF IndInv, TrailOK, DecisionLevel
  <2> QED BY <2>1, LitFacts DEF IndInv, TrailOK, OpenLevel
<1>3. /\ lims' \in Seq(Nat)
      /\ \A d \in 1..Len(lims') : lims'[d] <= Len(trail)
      /\ \A d, e \in 1..Len(lims') : d <= e => lims'[d] <= lims'[e]
  BY AppendLevel DEF IndInv, OpenLevel
<1>4. \A d \in 1..Len(lims') : lims'[d] <= Len(trail')
  <2> TAKE d \in 1..Len(lims')
  <2>1. lims'[d] \in Nat
    BY <1>3, ElementOfSeq
  <2> QED BY <1>1, <1>3, <2>1
<1>5. TrailOK'
  BY <1>1, <1>2, <1>3, <1>4 DEF IndInv, TrailOK
<1>6. ReasonOK'
  <2>1. Len(clauses) \in Nat /\ clauses' = clauses
    BY LenProperties DEF IndInv, DbOK, dbVars
  <2> QED BY <2>1, LitFacts DEF IndInv, ReasonOK, OpenLevel, NoReason
<1> QED BY <1>5, <1>6

\* PlaceAssumption preserves the invariant.
LEMMA PlaceAssumptionStep ==
  ASSUME IndInv, PlaceAssumption PROVE IndInv'
<1> DEFINE a == run.assume[DecisionLevel + 1]
<1>1. Branching /\ DecisionLevel < Len(run.assume)
  BY DEF PlaceAssumption
<1>2. a \in Lit
  <2>1. DecisionLevel + 1 \in 1..Len(run.assume) /\ run.assume \in Seq(Lit)
    BY <1>1, LenProperties
       DEF IndInv, TrailOK, RestOK, Search, DecisionLevel
  <2> QED BY <2>1, ElementOfSeq
<1>3. /\ todo = {} /\ UNCHANGED dbVars /\ DbOK' /\ verdict \in Verdicts
      /\ Len(clauses) \in Nat /\ Len(clauses') = Len(clauses)
  BY <1>1, BranchingFacts DEF IndInv, RestOK
<1> HIDE DEF a
<1>4. ASSUME ToLoopHead,
             UNCHANGED <<verdict, todo, confl, analysisVars, theoryVars>>
      PROVE  LocalsOK' /\ RestOK'
  <2>1. pc' \in {"bcp", "attach"}
    BY <1>4 DEF ToLoopHead
  <2>2. LocalsOK'
    BY <1>3, <1>4, <2>1, LocalsQuiet DEF IndInv
  <2> QED BY <1>1, <1>3, <1>4, <2>1, <2>2, BranchingFacts DEF Phases
<1>5. CASE CancelUntil(0) /\ Return("unsat")
  <2>1. TrailOK' /\ ReasonOK' /\ DbOK'
    BY <1>3, <1>5, CancelUntilFacts
  <2>2. pc' = "idle" /\ verdict' = "unsat" /\ EndLocals
    BY <1>5 DEF Return
  <2>3. LocalsOK' /\ RestOK'
    BY <1>1, <2>2, LocalsReset, BranchingFacts DEF Phases, Verdicts
  <2> QED BY <2>1, <2>3 DEF IndInv
<1>6. CASE /\ lims' = Append(lims, Len(trail)) /\ ToLoopHead
           /\ UNCHANGED <<trail, level, reason, heap, qhead, stable, verdict,
                          todo, confl, analysisVars, theoryVars>>
  <2>1. TrailOK'
    BY <1>6, AppendLevel DEF IndInv, TrailOK
  <2>2. ReasonOK'
    BY <1>3, <1>6, ReasonSame DEF IndInv
  <2> QED BY <1>3, <1>4, <1>6, <2>1, <2>2 DEF IndInv
<1>7. CASE /\ OpenLevel(a) /\ ToLoopHead
           /\ UNCHANGED <<heap, qhead, stable, verdict, todo, confl,
                          analysisVars, theoryVars>>
  <2>1. TrailOK' /\ ReasonOK'
    BY <1>2, <1>3, <1>7, OpenLevelFacts
  <2> QED BY <1>3, <1>4, <1>7, <2>1 DEF IndInv
<1> QED BY <1>5, <1>6, <1>7 DEF PlaceAssumption, a

\* Decide preserves the invariant.
LEMMA DecideStep ==
  ASSUME IndInv, Decide PROVE IndInv'
<1>1. /\ Branching /\ ToLoopHead
      /\ UNCHANGED <<qhead, stable, verdict, todo, confl, analysisVars,
                     theoryVars>>
  BY DEF Decide
<1>2. PICK v \in heap : /\ heap' \subseteq heap
                        /\ \E s \in {v, -v} : OpenLevel(s)
  BY DEF Decide
<1>3. PICK l \in {v, -v} : OpenLevel(l)
  BY <1>2
<1>4. /\ todo = {} /\ UNCHANGED dbVars /\ DbOK' /\ verdict \in Verdicts
  BY <1>1, BranchingFacts DEF IndInv, RestOK
<1>5. TrailOK' /\ ReasonOK'
  <2>1. l \in Lit
    BY DEF IndInv, TrailOK, Lit
  <2> QED BY <1>1, <1>2, <1>3, <1>4, <2>1, OpenLevelFacts
<1>6. LocalsOK' /\ RestOK'
  <2>1. pc' \in {"bcp", "attach"}
    BY <1>1 DEF ToLoopHead
  <2>2. LocalsOK'
    BY <1>1, <1>4, <2>1, LocalsQuiet DEF IndInv
  <2> QED BY <1>1, <1>4, <2>1, <2>2, BranchingFacts DEF Phases
<1> QED BY <1>4, <1>5, <1>6 DEF IndInv

\* AnswerSat preserves the invariant.
LEMMA AnswerSatStep ==
  ASSUME IndInv, AnswerSat PROVE IndInv'
<1>1. /\ Branching /\ heap' = {} /\ pc' = "idle" /\ verdict' = "sat"
      /\ EndLocals
      /\ UNCHANGED <<trail, lims, level, reason, qhead, stable>>
  BY DEF AnswerSat, Return
<1>2. DbOK' /\ Len(clauses) \in Nat /\ Len(clauses') = Len(clauses)
  BY <1>1, BranchingFacts
<1>3. TrailOK' /\ ReasonOK'
  BY <1>1, <1>2, ReasonSame DEF IndInv, TrailOK
<1>4. LocalsOK' /\ RestOK'
  BY <1>1, LocalsReset, BranchingFacts DEF Phases, Verdicts
<1> QED BY <1>2, <1>3, <1>4 DEF IndInv
-----------------------------------------------------------------------------
(* The invariant is inductive.                                             *)

\* A new solver satisfies the invariant.
LEMMA InitInv == Init => IndInv
<1> SUFFICES ASSUME Init PROVE IndInv
  OBVIOUS
<1>1. trail = <<>> /\ lims = <<>> /\ clauses = <<>> /\ pending = <<>>
      /\ passTrail = <<>> /\ Len(<<>>) = 0
  BY EmptySeq DEF Init
<1>2. TrailOK
  BY <1>1, EmptySeq DEF Init, TrailOK
<1>3. ReasonOK /\ DbOK
  BY <1>1, EmptySeq DEF Init, ReasonOK, DbOK, NoReason
<1>4. LocalsOK
  BY DEF Init, LocalsOK, NoReason
<1>5. RestOK
  <2>1. /\ NumVars \in Nat /\ InitialMaxLearnt \in Nat /\ Len(Pool) \in Nat
    BY LenProperties, SatAssumption
  <2>2. /\ <<>> \in Seq(Lit) /\ <<>> \in Seq(SUBSET Lit)
    BY EmptySeq
  <2>3. run \in Search
    BY <2>2 DEF Init, Search
  <2>4. /\ nvars \in 0..NumVars /\ maxLearnt \in Nat
        /\ seenLen \in Nat /\ pending \in Seq(SUBSET Lit)
        /\ pc \in Phases /\ verdict \in Verdicts
    BY <2>1, <2>2 DEF Init, Phases, Verdicts
  <2>6. ok \in BOOLEAN /\ progress \in BOOLEAN
    BY Zenon DEF Init
  <2>5. /\ answer \subseteq [lit : Lit, why : SUBSET Lit]
        /\ inputs \subseteq SUBSET Lit /\ passTrail \in Seq(Lit)
        /\ offered \in 0..Len(Pool) /\ solves \in Nat
    BY <2>1, <2>2 DEF Init
  <2> QED BY <2>3, <2>4, <2>5, <2>6 DEF RestOK
<1> QED BY <1>2, <1>3, <1>4, <1>5 DEF IndInv

\* The invariant is a state predicate of the variables.
LEMMA StutterStep ==
  ASSUME IndInv, UNCHANGED vars PROVE IndInv'
<1>1. UNCHANGED <<ok, nvars, dbVars, maxLearnt, trailVars, passVars, pending,
                  pc, run, todo, confl, analysisVars, theoryVars, verdict,
                  apiVars>>
  BY DEF vars
<1>2. TrailOK' /\ DbOK' /\ ReasonOK'
  BY <1>1, TrailSame, DbSame, ReasonSame DEF IndInv, trailVars
<1>3. LocalsOK'
  BY <1>1 DEF IndInv, LocalsOK, dbVars, trailVars, analysisVars
<1>4. RestOK'
  BY <1>1 DEF IndInv, RestOK, passVars, theoryVars, apiVars
<1> QED BY <1>2, <1>3, <1>4 DEF IndInv

\* Every step preserves the invariant.
LEMMA NextInv == IndInv /\ [Next]_vars => IndInv'
<1> SUFFICES ASSUME IndInv, [Next]_vars PROVE IndInv'
  OBVIOUS
<1>1. CASE Call
  BY <1>1, CallStep
<1>2. CASE AttachPending
  BY <1>2, PendingUnitStep, PendingClauseStep DEF AttachPending
<1>3. CASE Propagate
  BY <1>3, PropagateStep
<1>4. CASE TheoryPass
  BY <1>4, TheoryStep
<1>5. CASE HandleConflict
  BY <1>5, ConflictStep
<1>6. CASE Branch
  BY <1>6, PlaceAssumptionStep, DecideStep, AnswerSatStep DEF Branch
<1>7. CASE UNCHANGED vars
  BY <1>7, StutterStep
<1> QED BY <1>1, <1>2, <1>3, <1>4, <1>5, <1>6, <1>7 DEF Next, SearchStep

\* The invariant implies the types.
LEMMA InvTypes == IndInv => TypeOK
<1> SUFFICES ASSUME IndInv PROVE TypeOK
  OBVIOUS
<1>1. Len(clauses) \in Nat
  BY LenProperties DEF IndInv, DbOK
<1>2. WatchIn(Len(clauses)) \subseteq Watch
  BY <1>1 DEF WatchIn, Watch
<1>3. reason \in [Var -> Nat]
  BY <1>1 DEF IndInv, ReasonOK
<1>4. watches \in [Lit -> SUBSET Watch] /\ todo \subseteq Watch
  BY <1>2 DEF IndInv, DbOK, LocalsOK
<1> QED BY <1>3, <1>4 DEF IndInv, TrailOK, DbOK, LocalsOK, RestOK, TypeOK

\* In every reachable state, for every pool of clauses, theory and limit, the books of
\* the solver refer to one another: levels begin at increasing positions of the trail
\* (cancel_until cuts it there), each antecedent and each watch names a clause of the
\* database, a conflict is one of its clauses, and analyze walks down the trail without
\* leaving it and learns from a literal it found there.
THEOREM BooksInStep == Spec => [](TypeOK /\ TrailOK /\ ReasonOK /\ DbOK /\ LocalsOK)
<1>1. Spec => []IndInv
  BY InitInv, NextInv, PTL DEF Spec
<1>2. IndInv => TypeOK /\ TrailOK /\ ReasonOK /\ DbOK /\ LocalsOK
  BY InvTypes DEF IndInv
<1> QED BY <1>1, <1>2, PTL
-----------------------------------------------------------------------------
(* The trail prefix reported to the theory.                                *)

\* StablePrefix, literal by literal.
StableOK ==
  /\ stable <= Len(trail) /\ stable <= Len(passTrail)
  /\ \A i \in 1..stable : trail[i] = passTrail[i]

\* A step that leaves trail, mark and history alone keeps the prefix.
LEMMA StableSame ==
  ASSUME StableOK, UNCHANGED <<trail, stable, passTrail>>
  PROVE  StableOK'
BY DEF StableOK

\* Literals appended to the trail do not disturb the prefix.
LEMMA StableGrow ==
  ASSUME TrailOK, StableOK, NEW l \in Lit, trail' = Append(trail, l),
         UNCHANGED <<stable, passTrail>>
  PROVE  StableOK'
<1>1. /\ Len(trail') = Len(trail) + 1 /\ Len(trail) \in Nat /\ stable \in Nat
      /\ \A i \in 1..Len(trail) : trail'[i] = trail[i]
  BY AppendProperties, LenProperties DEF TrailOK
<1>2. \A i \in 1..stable : i \in 1..Len(trail)
  BY <1>1 DEF StableOK
<1> QED BY <1>1, <1>2 DEF StableOK

\* Backtracking lowers the mark to what it keeps in place.
LEMMA StableCancel ==
  ASSUME TrailOK, StableOK, NEW k \in Nat, stable' = StableAfter(k, stable),
         \/ trail' = TrailAfter(k)
         \/ \E l \in Lit : trail' = Append(TrailAfter(k), l),
         passTrail' = passTrail
  PROVE  StableOK'
<1>1. /\ stable \in Nat /\ stable' \in Nat /\ stable' <= stable
      /\ stable' <= Len(TrailAfter(k))
      /\ \A i \in 1..stable' : TrailAfter(k)[i] = trail[i]
  BY StableAfterFacts DEF StableOK, TrailOK
<1>2. TrailAfter(k) \in Seq(Lit) /\ Len(TrailAfter(k)) \in Nat
  BY TrailAfterType
<1>3. /\ stable' <= Len(trail')
      /\ \A i \in 1..stable' : trail'[i] = TrailAfter(k)[i]
  <2>1. CASE trail' = TrailAfter(k)
    BY <1>1, <2>1
  <2>2. ASSUME NEW l \in Lit, trail' = Append(TrailAfter(k), l) PROVE <1>3
    <3>1. /\ Len(trail') = Len(TrailAfter(k)) + 1
          /\ \A i \in 1..Len(TrailAfter(k)) : trail'[i] = TrailAfter(k)[i]
      BY <1>2, <2>2, AppendProperties
    <3>2. \A i \in 1..stable' : i \in 1..Len(TrailAfter(k))
      BY <1>1, <1>2
    <3> QED BY <1>1, <1>2, <3>1, <3>2
  <2> QED BY <2>1, <2>2
<1>4. stable' <= Len(passTrail')
  <2>1. stable <= Len(passTrail)
    BY DEF StableOK
  <2>2. Len(passTrail) \in Nat \/ Len(passTrail) \notin Nat
    OBVIOUS
  <2> QED BY <1>1, <2>1
<1>5. \A i \in 1..stable' : i \in 1..stable
  BY <1>1
<1> QED BY <1>1, <1>3, <1>4, <1>5 DEF StableOK

\* No operation of the caller disturbs the reported prefix.
LEMMA StableCall ==
  ASSUME IndInv, StableOK, Call PROVE StableOK'
<1>1. CASE MkVar
  BY <1>1, StableSame DEF MkVar, passVars
<1>2. CASE \E c \in Range(Pool) : AddIgnored(c) \/ AddDeferred(c)
  BY <1>2, StableSame DEF AddIgnored, AddDeferred, CallAdd, passVars, trailVars
<1>3. CASE \E c \in Range(Pool) : AddAtRoot(c)
  <2>1. PICK c \in Range(Pool) : AddAtRoot(c)
    BY <1>3
  <2>2. /\ trail' = RootTrail \/ \E l \in Lit : trail' = Append(RootTrail, l)
        /\ stable' = StableAfter(0, stable) /\ passTrail' = passTrail
    BY <2>1 DEF AddAtRoot, CallAdd, passVars
  <2> QED BY <2>2, StableCancel DEF IndInv, RootTrail
<1>4. CASE ResetTheory
  <2>1. stable' = 0 /\ trail' = trail /\ passTrail' = <<>>
    BY <1>4 DEF ResetTheory
  <2>2. Len(trail) \in Nat /\ Len(<<>>) = 0
    BY LenProperties, EmptySeq DEF IndInv, TrailOK
  <2> QED BY <2>1, <2>2 DEF StableOK
<1>5. CASE \E assume \in AssumptionLists, limit \in ConflictLimits,
             theory \in TheoryCalls : Solve(assume, limit, theory)
  <2>1. PICK assume \in AssumptionLists, limit \in ConflictLimits,
             theory \in TheoryCalls : Solve(assume, limit, theory)
    BY <1>5
  <2>2. /\ passTrail' = passTrail
        /\ \/ UNCHANGED <<trail, stable>>
           \/ trail' = TrailAfter(0) /\ stable' = StableAfter(0, stable)
    BY <2>1 DEF Solve, passVars, trailVars
  <2> QED BY <2>2, StableSame, StableCancel DEF IndInv
<1> QED BY <1>1, <1>2, <1>3, <1>4, <1>5 DEF Call

\* Nor does attach_pending,
LEMMA StableAttach ==
  ASSUME IndInv, StableOK, AttachPending PROVE StableOK'
<1>1. DecisionLevel \in Nat /\ passTrail' = passTrail
  BY LenProperties DEF IndInv, TrailOK, DecisionLevel, AttachPending,
     PendingUnit, PendingClause, TakePending, passVars
<1>2. CASE PendingUnit
  <2>1. PICK l \in Lit : PendingUnit!3!(l)
    BY <1>2 DEF PendingUnit
  <2>2. \/ UNCHANGED <<trail, stable>>
        \/ Lv(l) > 0 /\ CancelAndAssign(Lv(l) - 1, l, NoReason, 0)
        \/ CancelAndAssign(DecisionLevel, l, NoReason, 0)
    BY <2>1 DEF trailVars, Assign
  <2>3. Lv(l) > 0 => Lv(l) - 1 \in Nat
    BY LitFacts DEF IndInv, TrailOK, Lv
  <2> QED BY <1>1, <2>2, <2>3, StableSame, StableCancel
          DEF IndInv, CancelAndAssign, Retract
<1>3. CASE PendingClause
  <2>1. PICK w0 \in Head(pending) :
          \/ UNCHANGED <<trail, stable>>
          \/ Assign(w0, Len(clauses) + 1,
               ImpliedLevel(Head(pending) \ {w0}, DecisionLevel))
    BY <1>3 DEF PendingClause, trailVars
  <2>2. w0 \in Lit
    BY <1>3, TakePendingFacts DEF PendingClause
  <2> QED BY <1>1, <2>1, <2>2, StableSame, StableCancel
          DEF IndInv, Assign, CancelAndAssign, Retract
<1> QED BY <1>2, <1>3 DEF AttachPending

\* nor propagate,
LEMMA StablePropagate ==
  ASSUME IndInv, StableOK, Propagate PROVE StableOK'
<1>1. DecisionLevel \in Nat
  BY LenProperties DEF IndInv, TrailOK, DecisionLevel
<1>2. CASE PropagateNext
  BY <1>2, StableSame DEF PropagateNext, Propagating, passVars
<1>3. ASSUME NEW w \in todo,
             \/ DropStaleWatch(w) \/ SkipBlocked(w) \/ KeepSatisfied(w)
             \/ MoveWatch(w) \/ FindConflict(w)
      PROVE  StableOK'
  BY <1>3, StableSame
     DEF DropStaleWatch, SkipBlocked, KeepSatisfied, MoveWatch, FindConflict,
         Visit, Propagating, passVars, trailVars
<1>4. ASSUME NEW w \in todo, ImplyUnit(w) PROVE StableOK'
  <2>1. /\ Assign(OtherWatch(clauses[w.cref]), w.cref,
             ImpliedLevel(clauses[w.cref].lits
                            \ {OtherWatch(clauses[w.cref])}, DecisionLevel))
        /\ passTrail' = passTrail
    BY <1>4 DEF ImplyUnit, Visit, Propagating, passVars
  <2>2. OtherWatch(clauses[w.cref]) \in Lit
    BY ScanFacts
  <2> QED BY <1>1, <2>1, <2>2, StableCancel
          DEF IndInv, Assign, CancelAndAssign, Retract
<1> QED BY <1>2, <1>3, <1>4 DEF Propagate

\* The pass has just seen the whole trail; a conflict it finds then cuts it.
LEMMA StableConsult ==
  ASSUME IndInv, NEW k \in Nat, passTrail' = trail, trail' = TrailAfter(k),
         stable' = StableAfter(k, Len(trail))
  PROVE  StableOK'
<1>1. Len(trail) \in Nat /\ Len(trail) <= Len(trail)
  BY LenProperties DEF IndInv, TrailOK
<1>2. /\ stable' \in Nat /\ stable' <= Len(trail)
      /\ stable' <= Len(TrailAfter(k))
      /\ \A i \in 1..stable' : TrailAfter(k)[i] = trail[i]
  BY <1>1, StableAfterFacts DEF IndInv
<1> QED BY <1>1, <1>2 DEF StableOK

\* attach_conflict_clause backtracks to the level of one of its literals.
LEMMA AttachConflictCut ==
  ASSUME IndInv, NEW c \in SUBSET Lit, NEW n, AttachConflict(c, n)
  PROVE  \E k \in Nat : trail' = TrailAfter(k) /\ stable' = StableAfter(k, n)
<1>1. \A l \in c : Lv(l) \in Nat
  BY LitFacts DEF IndInv, TrailOK, Lv
<1>2. PICK top \in {Lv(l) : l \in c} :
        trail' = TrailAfter(top) /\ stable' = StableAfter(top, n)
  BY DEF AttachConflict
<1> QED BY <1>1, <1>2

\* nor a theory pass,
LEMMA StableTheory ==
  ASSUME IndInv, StableOK, TheoryPass PROVE StableOK'
<1>1. CASE TheoryConflict
  <2>1. PICK C \in Conflicts : AttachConflict(Negation(C), Len(trail))
    BY <1>1 DEF TheoryConflict
  <2>2. Negation(C) \in SUBSET Lit
    BY TrailLits, LitFacts DEF Conflicts, Negation, IndInv, TrailOK
  <2>3. passTrail' = trail
    BY <1>1 DEF TheoryConflict, Consult
  <2> QED BY <2>1, <2>2, <2>3, AttachConflictCut, StableConsult
<1>2. CASE TheoryAnswer
  <2>1. passTrail' = trail /\ stable' = Len(trail) /\ trail' = trail
    BY <1>2 DEF TheoryAnswer, Consult
  <2> QED BY <2>1, LenProperties DEF StableOK, IndInv, TrailOK
<1>3. ASSUME NEW i \in answer, ImpliedHolds(i) PROVE StableOK'
  BY <1>3, StableSame DEF ImpliedHolds, Answering, passVars, trailVars
<1>4. ASSUME NEW i \in answer, ValidFails(i) PROVE StableOK'
  <2>1. /\ passTrail' = passTrail
        /\ \/ UNCHANGED <<trail, stable>>
           \/ /\ Lv(i.lit) > 0
              /\ CancelAndAssign(Lv(i.lit) - 1, i.lit, NoReason, 0)
    BY <1>4 DEF ValidFails, Answering, passVars, trailVars
  <2>2. i.lit \in Lit /\ (Lv(i.lit) > 0 => Lv(i.lit) - 1 \in Nat)
    <3>1. i.lit \in Lit
      BY <1>4, AnsweringFacts DEF ValidFails
    <3>2. Lv(i.lit) \in Nat
      BY <3>1, LitFacts DEF IndInv, TrailOK, Lv
    <3> QED BY <3>1, <3>2
  <2> QED BY <2>1, <2>2, StableSame, StableCancel
          DEF IndInv, CancelAndAssign, Retract
<1>5. ASSUME NEW i \in answer, ImpliedFails(i) PROVE StableOK'
  <2>1. /\ AttachConflict({i.lit} \cup Negation(i.why), stable)
        /\ passTrail' = passTrail
    BY <1>5 DEF ImpliedFails, Answering, passVars
  <2>2. {i.lit} \cup Negation(i.why) \in SUBSET Lit
    BY <1>5, AnsweringFacts, LitFacts DEF ImpliedFails, Negation
  <2> QED BY <2>1, <2>2, AttachConflictCut, StableCancel DEF IndInv
<1>6. ASSUME NEW i \in answer, ValidAssigned(i) \/ ImpliedAssigned(i)
      PROVE  StableOK'
  <2>1. /\ trail' = Append(trail, i.lit) /\ stable' = stable
        /\ passTrail' = passTrail
    BY <1>6 DEF ValidAssigned, ImpliedAssigned, Answering, passVars
  <2>2. i.lit \in Lit
    BY <1>6, AnsweringFacts DEF ValidAssigned, ImpliedAssigned
  <2> QED BY <2>1, <2>2, StableGrow DEF IndInv
<1>7. CASE EndPass
  BY <1>7, StableSame DEF EndPass, Answering, passVars, trailVars
<1> QED BY <1>1, <1>2, <1>3, <1>4, <1>5, <1>6, <1>7 DEF TheoryPass

\* nor conflict handling,
LEMMA StableConflict ==
  ASSUME IndInv, StableOK, HandleConflict PROVE StableOK'
<1>1. CASE RootConflict
  BY <1>1, StableSame DEF RootConflict, Conflicting, passVars, trailVars
<1>2. CASE UnitBelow
  <2>1. Conflicting /\ ConflictLevel > 0 /\ passTrail' = passTrail
    BY <1>2 DEF UnitBelow, Conflicting, passVars
  <2>2. PICK u \in TopLits : CancelAndAssign(ConflictLevel - 1, u, confl,
            ImpliedLevel(ConflictClause.lits \ {u}, ConflictLevel - 1))
    BY <1>2 DEF UnitBelow
  <2>3. u \in Lit /\ ConflictLevel - 1 \in Nat
    BY <2>1, ConflictFacts DEF TopLits
  <2> QED BY <2>1, <2>2, <2>3, StableCancel
          DEF IndInv, CancelAndAssign, Retract
<1>3. CASE StartAnalysis
  <2>1. /\ Conflicting /\ passTrail' = passTrail
        /\ CancelUntil(ConflictLevel) \/ UNCHANGED <<trail, stable>>
    BY <1>3 DEF StartAnalysis, Conflicting, passVars, trailVars
  <2>2. ConflictLevel \in Nat
    BY <2>1, ConflictFacts
  <2> QED BY <2>1, <2>2, StableSame, StableCancel
          DEF IndInv, CancelUntil, Retract
<1>4. CASE Resolve \/ FindUIP \/ AnalysisPanics
  BY <1>4, StableSame
     DEF Resolve, FindUIP, AnalysisPanics, Analyzing, passVars, trailVars
<1>5. CASE AssumptionConflict
  BY <1>5, StableCancel
     DEF IndInv, AssumptionConflict, Learning, CancelUntil, Retract, passVars
<1>6. CASE Learn
  <2>1. Learning /\ passTrail' = passTrail
    BY <1>6 DEF Learn, Learning, passVars
  <2>2. BacktrackLevel \in Nat /\ uip \in Lit
    BY <2>1, LearningFacts
  <2>3. /\ trail' = Append(TrailAfter(BacktrackLevel), uip)
        /\ stable' = StableAfter(BacktrackLevel, stable)
    BY <1>6 DEF Learn, CancelAndAssign, Retract
  <2> QED BY <2>1, <2>2, <2>3, StableCancel DEF IndInv
<1>7. CASE Account
  <2>1. /\ passTrail' = passTrail
        /\ \/ CancelUntil(0) \/ CancelUntil(Len(run.assume))
           \/ UNCHANGED <<trail, stable>>
    BY <1>7 DEF Account, passVars, trailVars
  <2>2. Len(run.assume) \in Nat
    BY LenProperties DEF IndInv, RestOK, Search
  <2> QED BY <2>1, <2>2, StableSame, StableCancel
          DEF IndInv, CancelUntil, Retract
<1>8. CASE Reduce
  BY <1>8, StableSame DEF Reduce, passVars, trailVars
<1> QED BY <1>1, <1>2, <1>3, <1>4, <1>5, <1>6, <1>7, <1>8
        DEF HandleConflict

\* nor branching,
LEMMA StableBranch ==
  ASSUME IndInv, StableOK, Branch PROVE StableOK'
<1>1. passTrail' = passTrail
  BY DEF Branch, PlaceAssumption, Decide, AnswerSat, Branching, passVars
<1>2. CASE PlaceAssumption
  <2> DEFINE a == run.assume[DecisionLevel + 1]
  <2>1. a \in Lit
    <3>1. DecisionLevel + 1 \in 1..Len(run.assume) /\ run.assume \in Seq(Lit)
      BY <1>2, LenProperties
         DEF IndInv, TrailOK, RestOK, Search, DecisionLevel, PlaceAssumption
    <3> QED BY <3>1, ElementOfSeq
  <2>2. \/ CancelUntil(0)
        \/ UNCHANGED <<trail, stable>>
        \/ trail' = Append(trail, a) /\ stable' = stable
    BY <1>2 DEF PlaceAssumption, OpenLevel
  <2> HIDE DEF a
  <2> QED BY <1>1, <2>1, <2>2, StableSame, StableGrow, StableCancel
          DEF IndInv, CancelUntil, Retract
<1>3. CASE Decide
  <2>1. PICK v \in heap : \E s \in {v, -v} : OpenLevel(s)
    BY <1>3 DEF Decide
  <2>2. PICK l \in {v, -v} : trail' = Append(trail, l)
    BY <2>1 DEF OpenLevel
  <2>3. l \in Lit /\ stable' = stable
    BY <1>3 DEF IndInv, TrailOK, Lit, Decide
  <2> QED BY <1>1, <2>2, <2>3, StableGrow DEF IndInv
<1>4. CASE AnswerSat
  BY <1>1, <1>4, StableSame DEF AnswerSat
<1> QED BY <1>2, <1>3, <1>4 DEF Branch

\* so no step does.
LEMMA StableNext == IndInv /\ StableOK /\ [Next]_vars => StableOK'
<1> SUFFICES ASSUME IndInv, StableOK, [Next]_vars PROVE StableOK'
  OBVIOUS
<1>1. CASE UNCHANGED vars
  BY <1>1, StableSame DEF vars, trailVars, passVars
<1> QED BY <1>1, StableCall, StableAttach, StablePropagate, StableTheory,
           StableConflict, StableBranch DEF Next, SearchStep

\* Literal by literal or as a prefix, it is the same.
LEMMA StableIsPrefix == IndInv /\ StableOK => StablePrefix
<1> SUFFICES ASSUME IndInv, StableOK PROVE StablePrefix
  OBVIOUS
<1>1. /\ trail \in Seq(Lit) /\ passTrail \in Seq(Lit) /\ stable \in Nat
      /\ Len(trail) \in Nat /\ Len(passTrail) \in Nat
      /\ stable <= Len(trail) /\ stable <= Len(passTrail)
  BY LenProperties DEF IndInv, TrailOK, RestOK, StableOK
<1>2. /\ \A i \in 1..stable : i \in 1..Len(trail)
      /\ \A i \in 1..stable : i \in 1..Len(passTrail)
  BY <1>1
<1>3. /\ \A i \in 1..stable : trail[i] \in Lit
      /\ \A i \in 1..stable : passTrail[i] \in Lit
  BY <1>1, <1>2, ElementOfSeq
<1>4. /\ SubSeq(trail, 1, stable) \in Seq(Lit)
      /\ Len(SubSeq(trail, 1, stable)) = stable
      /\ \A i \in 1..stable : SubSeq(trail, 1, stable)[i] = trail[i]
  BY <1>1, <1>3, SubSeqProperties
<1>5. /\ SubSeq(passTrail, 1, stable) \in Seq(Lit)
      /\ Len(SubSeq(passTrail, 1, stable)) = stable
      /\ \A i \in 1..stable : SubSeq(passTrail, 1, stable)[i] = passTrail[i]
  BY <1>1, <1>3, SubSeqProperties
<1>6. \A i \in 1..stable :
        SubSeq(trail, 1, stable)[i] = SubSeq(passTrail, 1, stable)[i]
  BY <1>4, <1>5 DEF StableOK
<1>7. SubSeq(trail, 1, stable) = SubSeq(passTrail, 1, stable)
  BY <1>4, <1>5, <1>6, SeqEqual
<1> QED BY <1>1, <1>7 DEF StablePrefix

\* The online theory may keep what it derived from the first `stable` trail
\* literals: cancel_until reports every backtrack, chronological or not, so
\* that prefix is always the one the theory saw in its last pass.
THEOREM TheoryPrefixStable == Spec => []StablePrefix
<1>1. Init => StableOK
  BY EmptySeq DEF Init, StableOK
<1>2. Spec => [](IndInv /\ StableOK)
  BY <1>1, InitInv, NextInv, StableNext, PTL DEF Spec
<1> QED BY <1>2, StableIsPrefix, PTL

-----------------------------------------------------------------------------
(* The invariant of the trail t with decision levels ls, literal levels    *)
(* lv, antecedents re in the database cs, and the models M.  It speaks of  *)
(* values, not of the state, because one step may cut the trail and then   *)
(* append to it.                                                           *)

Follows(M, c) == \A m \in M : c \cap m # {}

\* No variable is assigned twice.
Distinct(t) ==
  \A i, j \in 1..Len(t) : VarOf(t[i]) = VarOf(t[j]) => i = j

\* A literal's level is at most that of the segment it stands in.
Bounded(t, ls, lv) ==
  \A i \in 1..Len(t) :
    /\ lv[VarOf(t[i])] <= Len(ls)
    /\ \A d \in 1..Len(ls) : i <= ls[d] => lv[VarOf(t[i])] < d

\* Without chronological backtracking it is that level or 0.
Reached(t, ls, lv) ==
  ~Resumable =>
    \A i \in 1..Len(t), d \in 1..Len(ls) :
      ls[d] < i => lv[VarOf(t[i])] = 0 \/ d <= lv[VarOf(t[i])]

\* Literals of level 0 follow.
Rooted(t, lv, M) ==
  \A i \in 1..Len(t) : lv[VarOf(t[i])] = 0 => Follows(M, {t[i]})

\* Antecedents imply their literals from earlier ones.
Implied(t, re, cs) ==
  \A j \in 1..Len(t) : re[VarOf(t[j])] # NoReason =>
    /\ re[VarOf(t[j])] \in 1..Len(cs)
    /\ cs[re[VarOf(t[j])]].lits # {}
    /\ cs[re[VarOf(t[j])]].w0 = t[j]
    /\ \A q \in cs[re[VarOf(t[j])]].lits \ {t[j]} :
         \E i \in 1..Len(t) : i < j /\ t[i] = -q

\* An implied literal's level is at least that of what implies it.
Graded(t, lv, re, cs) ==
  \A j \in 1..Len(t) : re[VarOf(t[j])] # NoReason =>
    \A q \in cs[re[VarOf(t[j])]].lits : lv[VarOf(q)] <= lv[VarOf(t[j])]

TrailSound(t, ls, lv, re, cs, M) ==
  /\ Distinct(t) /\ Bounded(t, ls, lv) /\ Reached(t, ls, lv)
  /\ Rooted(t, lv, M) /\ Implied(t, re, cs) /\ Graded(t, lv, re, cs)

\* The types of its arguments.
TrailTyped(t, ls, lv, re, cs) ==
  /\ t \in Seq(Lit) /\ ls \in Seq(Nat)
  /\ lv \in [Var -> Nat] /\ re \in [Var -> 0..Len(cs)] /\ cs \in Seq(Clause)
  /\ \A d \in 1..Len(ls) : ls[d] <= Len(t)
  /\ \A d, e \in 1..Len(ls) : d <= e => ls[d] <= ls[e]

-----------------------------------------------------------------------------
(* Literals and trails.                                                    *)

\* A variable has two literals, each the negation of the other.
LEMMA LitPairs ==
  ASSUME NEW l \in Lit
  PROVE  /\ VarOf(-l) = VarOf(l) /\ -(-l) = l /\ -l # l
         /\ \A p \in Lit : VarOf(p) = VarOf(l) => p = l \/ p = -l
<1>0. NumVars \in Nat
  BY SatAssumption
<1>1. \A p \in Lit : p \in Int /\ p # 0
  BY <1>0 DEF Lit, Var
<1>2. l \in Int /\ l # 0
  BY <1>1
<1>3. /\ VarOf(-l) = VarOf(l) /\ -(-l) = l /\ -l # l
  BY <1>2 DEF VarOf
<1>4. \A p \in Lit : VarOf(p) = VarOf(l) => p = l \/ p = -l
  BY <1>1, <1>2 DEF VarOf
<1> QED BY <1>3, <1>4

\* The range of a trail is what stands at its positions.
LEMMA RangeIs ==
  ASSUME NEW t \in Seq(Lit)
  PROVE  /\ \A x : x \in Range(t) <=> \E i \in 1..Len(t) : t[i] = x
         /\ Range(t) \subseteq Lit
         /\ \A i \in 1..Len(t) : t[i] \in Lit /\ VarOf(t[i]) \in Var
<1>1. DOMAIN t = 1..Len(t) /\ \A i \in 1..Len(t) : t[i] \in Lit
  BY LenProperties, ElementOfSeq
<1>2. \A x : x \in Range(t) <=> \E i \in 1..Len(t) : t[i] = x
  BY <1>1 DEF Range
<1> QED BY <1>1, <1>2, LitFacts

\* Assigning a literal adds it to the trail.
LEMMA AppendRange ==
  ASSUME NEW t \in Seq(Lit), NEW l \in Lit
  PROVE  Range(t) \subseteq Range(Append(t, l)) /\ l \in Range(Append(t, l))
<1>1. /\ Append(t, l) \in Seq(Lit) /\ Len(Append(t, l)) = Len(t) + 1 /\ Len(t) \in Nat
      /\ \A i \in 1..Len(t) : Append(t, l)[i] = t[i]
      /\ Append(t, l)[Len(t) + 1] = l
  BY AppendProperties, LenProperties
<1>2. \A i \in 1..Len(t) + 1 : Append(t, l)[i] \in Range(Append(t, l))
  BY <1>1, RangeIs
<1>3. \A i \in 1..Len(t) : t[i] \in Range(Append(t, l))
  BY <1>1, <1>2
<1>4. l \in Range(Append(t, l))
  BY <1>1, <1>2
<1> QED BY <1>3, <1>4, RangeIs

\* A literal neither true nor false has a variable that is not on the trail.
LEMMA FreeVar ==
  ASSUME NEW t \in Seq(Lit), NEW l \in Lit
  PROVE  (l \notin Range(t) /\ -l \notin Range(t)) <=> \A i \in 1..Len(t) : VarOf(t[i]) # VarOf(l)
BY RangeIs, LitPairs

\* The elements of a set of naturals in their order.
LEMMA NthOrder ==
  ASSUME NEW S, S \subseteq Nat, NEW b \in Nat, \A s \in S : s <= b
  PROVE  /\ Cardinality(S) \in Nat
         /\ \A j \in 1..Cardinality(S) : Nth(S, j) \in S
         /\ \A i, j \in 1..Cardinality(S) : i < j => Nth(S, i) < Nth(S, j)
         /\ \A s \in S : \E j \in 1..Cardinality(S) : Nth(S, j) = s
<1> DEFINE Below(s) == {h \in S : h <= s}
<1>1. IsFiniteSet(S)
  BY FS_BoundedSetOfNaturals
<1>2. \A s \in S : IsFiniteSet(Below(s)) /\ Cardinality(Below(s)) \in Nat
  BY <1>1, FS_Subset, FS_CardinalityType
<1>3. \A j \in 1..Cardinality(S) : Nth(S, j) \in S /\ Cardinality(Below(Nth(S, j))) = j
  <2> TAKE j \in 1..Cardinality(S)
  <2>1. \E i \in S : Cardinality(Below(i)) = j
    BY RankExists
  <2> QED BY <2>1 DEF Nth
<1>4. \A s, u \in S : s <= u => Cardinality(Below(s)) <= Cardinality(Below(u))
  <2> TAKE s, u \in S
  <2> HAVE s <= u
  <2>1. \A h \in S : h <= s => h <= u
    OBVIOUS
  <2>2. Below(s) \subseteq Below(u)
    BY <2>1
  <2> QED BY <1>2, <2>2, FS_Subset
<1>5. \A s, u \in S : s < u => Cardinality(Below(s)) < Cardinality(Below(u))
  <2> TAKE s, u \in S
  <2> HAVE s < u
  <2>1. Below(s) \subseteq Below(u) /\ Below(s) # Below(u)
    <3>1. \A h \in S : h <= s => h <= u
      OBVIOUS
    <3>2. u \in Below(u) /\ u \notin Below(s)
      OBVIOUS
    <3> QED BY <3>1, <3>2
  <2>2. Cardinality(Below(s)) <= Cardinality(Below(u))
        /\ (Cardinality(Below(s)) = Cardinality(Below(u)) => Below(s) = Below(u))
    BY <1>2, <2>1, FS_Subset
  <2> QED BY <1>2, <2>1, <2>2
<1>6. Cardinality(S) \in Nat
  BY <1>1, FS_CardinalityType
<1>7. \A i, j \in 1..Cardinality(S) : i < j => Nth(S, i) < Nth(S, j)
  <2> TAKE i, j \in 1..Cardinality(S)
  <2> HAVE i < j
  <2>1. /\ Nth(S, i) \in S /\ Nth(S, j) \in S
        /\ Cardinality(Below(Nth(S, i))) = i /\ Cardinality(Below(Nth(S, j))) = j
    BY <1>3
  <2> HIDE DEF Below
  <2>2. ~(Nth(S, j) <= Nth(S, i))
    <3>1. ~(j <= i)
      BY <1>6
    <3> QED BY <1>4, <2>1, <3>1
  <2>3. Nth(S, i) \in Nat /\ Nth(S, j) \in Nat
    BY <2>1
  <2> QED BY <2>2, <2>3
<1>8. \A s \in S : \E j \in 1..Cardinality(S) : Nth(S, j) = s
  <2> TAKE s \in S
  <2> DEFINE j == Cardinality(Below(s))
  <2>1. j \in Nat /\ j <= Cardinality(S) /\ j # 0
    <3>1. s \in Below(s) /\ Below(s) \subseteq S
      OBVIOUS
    <3>2. Cardinality(Below(s)) <= Cardinality(S)
      BY <1>1, <3>1, FS_Subset
    <3>3. Cardinality(Below(s)) # 0
      BY <1>2, <3>1, FS_EmptySet
    <3> QED BY <1>2, <3>2, <3>3
  <2>2. j \in 1..Cardinality(S)
    BY <1>6, <2>1
  <2>3. Nth(S, j) \in S /\ Cardinality(Below(Nth(S, j))) = j
    BY <1>3, <2>2
  <2>4. Nth(S, j) = s
    <3> HIDE DEF Below
    <3>1. s \in Nat /\ Nth(S, j) \in Nat
      BY <2>3
    <3>2. ~(s < Nth(S, j)) /\ ~(Nth(S, j) < s)
      <4>1. \A n \in Nat : ~(n < n)
        OBVIOUS
      <4> QED BY <1>2, <1>5, <2>3, <4>1
    <3> QED BY <3>1, <3>2
  <2> QED BY <2>2, <2>4
<1> QED BY <1>3, <1>6, <1>7, <1>8

-----------------------------------------------------------------------------
(* cancel_until, position by position.                                     *)

\* The positions of the trail that cancel_until(k) keeps.
Stays(k, p) ==
  \/ DecisionLevel <= k \/ p <= Target(k)
  \/ Resumable /\ Lv(trail[p]) <= k

\* Where each literal of the shortened trail stood.
LEMMA CutContents ==
  ASSUME TrailOK, NEW k \in Nat, k < DecisionLevel
  PROVE  /\ Target(k) \in 0..Len(trail) /\ Len(trail) \in Nat
         /\ Kept(k) \subseteq (Target(k) + 1)..Len(trail)
         /\ Cardinality(Kept(k)) \in Nat
         /\ Len(TrailAfter(k)) = Target(k) + Cardinality(Kept(k))
         /\ \A i \in 1..Target(k) : TrailAfter(k)[i] = trail[i]
         /\ \A j \in 1..Cardinality(Kept(k)) :
              TrailAfter(k)[Target(k) + j] = trail[Nth(Kept(k), j)]
<1> DEFINE n == Cardinality(Kept(k))
           kept == [j \in 1..n |-> trail[Nth(Kept(k), j)]]
           head == SubSeq(trail, 1, Target(k))
<1>1. Target(k) \in 0..Len(trail) /\ kept \in Seq(Lit) /\ Len(trail) \in Nat
  BY KeptType, LenProperties DEF TrailOK
<1>2. Kept(k) \subseteq (Target(k) + 1)..Len(trail)
  BY DEF Kept
<1>3. n \in Nat
  <2>1. Kept(k) \subseteq Nat /\ \A i \in Kept(k) : i <= Len(trail)
    BY <1>1, <1>2
  <2> QED BY <1>1, <2>1, NthOrder
<1>4. /\ head \in Seq(Lit) /\ Len(head) = Target(k)
      /\ \A i \in 1..Target(k) : head[i] = trail[i]
  <2>1. \A i \in 1..Len(trail) : trail[i] \in Lit
    BY ElementOfSeq DEF TrailOK
  <2> QED BY <1>1, <2>1, SubSeqProperties
<1>5. Len(kept) = n /\ \A j \in 1..n : kept[j] = trail[Nth(Kept(k), j)]
  <2>1. DOMAIN kept = 1..n /\ DOMAIN kept = 1..Len(kept) /\ Len(kept) \in Nat
    <3>1. DOMAIN kept = 1..n
      OBVIOUS
    <3> HIDE DEF kept
    <3> QED BY <1>1, <3>1, LenProperties
  <2>2. Len(kept) = n
    <3> HIDE DEF kept, n
    <3> QED BY <1>3, <2>1
  <2> QED BY <2>2
<1>6. TrailAfter(k) = head \o kept
  <2>1. ~(DecisionLevel <= k)
    BY LenProperties DEF TrailOK, DecisionLevel
  <2> QED BY <2>1 DEF TrailAfter
<1> HIDE DEF head, kept
<1>7. /\ Len(head \o kept) = Len(head) + Len(kept)
      /\ \A i \in 1..Len(head) + Len(kept) : (head \o kept)[i] =
           IF i <= Len(head) THEN head[i] ELSE kept[i - Len(head)]
  BY <1>1, <1>4, ConcatProperties
<1> HIDE DEF n
<1>8. Len(TrailAfter(k)) = Target(k) + n
  BY <1>4, <1>5, <1>6, <1>7
<1>9. \A i \in 1..Target(k) : TrailAfter(k)[i] = trail[i]
  BY TrailAfterType
<1>10. \A j \in 1..n : TrailAfter(k)[Target(k) + j] = trail[Nth(Kept(k), j)]
  <2> TAKE j \in 1..n
  <2> DEFINE p == Target(k) + j
  <2>1. p \in 1..Len(head) + Len(kept) /\ ~(p <= Len(head)) /\ p - Len(head) = j
    BY <1>1, <1>3, <1>4, <1>5
  <2>2. (head \o kept)[p] = kept[j]
    <3> HIDE DEF p
    <3> QED BY <1>7, <2>1
  <2> QED BY <1>5, <1>6, <2>2
<1> USE DEF n
<1> QED BY <1>1, <1>2, <1>3, <1>8, <1>9, <1>10

\* cancel_until keeps literals in their order: the shortened trail is a
\* subsequence of the trail, the same up to the cut, with every kept position.
LEMMA CancelEmbeds ==
  ASSUME TrailOK, NEW k \in Nat
  PROVE  \E pos \in [1..Len(TrailAfter(k)) -> 1..Len(trail)] :
           /\ \A i \in 1..Len(TrailAfter(k)) :
                TrailAfter(k)[i] = trail[pos[i]] /\ Stays(k, pos[i])
           /\ \A i, j \in 1..Len(TrailAfter(k)) : i < j => pos[i] < pos[j]
           /\ \A p \in 1..Len(trail) :
                Stays(k, p) => \E i \in 1..Len(TrailAfter(k)) : pos[i] = p
           /\ \A i \in 1..Len(TrailAfter(k)) :
                DecisionLevel <= k \/ i <= Target(k) \/ pos[i] <= Target(k)
                  => pos[i] = i
<1>1. CASE DecisionLevel <= k
  <2> DEFINE pos == [i \in 1..Len(trail) |-> i]
  <2>1. TrailAfter(k) = trail
    BY <1>1 DEF TrailAfter
  <2>2. pos \in [1..Len(TrailAfter(k)) -> 1..Len(trail)]
    BY <2>1
  <2>3. \A i \in 1..Len(trail) : Stays(k, i)
    BY <1>1 DEF Stays
  <2> QED BY <2>1, <2>2, <2>3
<1>2. CASE ~(DecisionLevel <= k)
  <2> DEFINE T == Target(k)
             K == Kept(k)
             n == Cardinality(Kept(k))
             t == TrailAfter(k)
             pos == [i \in 1..Len(t) |-> IF i <= T THEN i ELSE Nth(K, i - T)]
  <2>0. k < DecisionLevel
    BY <1>2, LenProperties DEF TrailOK, DecisionLevel
  <2>1. /\ T \in 0..Len(trail) /\ Len(trail) \in Nat
        /\ K \subseteq (T + 1)..Len(trail) /\ n \in Nat /\ Len(t) = T + n
        /\ \A i \in 1..T : t[i] = trail[i]
        /\ \A j \in 1..n : t[T + j] = trail[Nth(K, j)]
    BY <2>0, CutContents
  <2>2. /\ \A j \in 1..n : Nth(K, j) \in K
        /\ \A i, j \in 1..n : i < j => Nth(K, i) < Nth(K, j)
        /\ \A s \in K : \E j \in 1..n : Nth(K, j) = s
    <3>1. K \subseteq Nat /\ \A i \in K : i <= Len(trail)
      BY <2>1
    <3> HIDE DEF K
    <3> QED BY <2>1, <3>1, NthOrder DEF K
  <2>3. \A p \in 1..Len(trail) : Stays(k, p) <=> p <= T \/ p \in K
    BY <1>2, <2>1 DEF Stays, Kept
  <2> HIDE DEF T, K, n, t
  <2>4. \A i \in 1..Len(t) : i <= T \/ i - T \in 1..n
    BY <2>1
  <2>5. \A i \in 1..Len(t) :
          /\ i <= T => pos[i] = i
          /\ ~(i <= T) => pos[i] = Nth(K, i - T) /\ pos[i] \in K /\ i - T \in 1..n
    BY <2>2, <2>4
  <2>a. \A x \in K : x \in (T + 1)..Len(trail)
    BY <2>1
  <2>b. DOMAIN pos = 1..Len(t) /\ pos = [i \in DOMAIN pos |-> pos[i]]
    OBVIOUS
  <2> HIDE DEF pos
  <2>6. \A i \in 1..Len(t) : pos[i] \in 1..Len(trail)
    <3> TAKE i \in 1..Len(t)
    <3>1. CASE i <= T
      BY <2>1, <2>5, <3>1
    <3>2. CASE ~(i <= T)
      <4>1. pos[i] \in (T + 1)..Len(trail)
        BY <2>5, <2>a, <3>2
      <4> QED BY <2>1, <4>1
    <3> QED BY <3>1, <3>2
  <2>7. \A i \in 1..Len(t) : t[i] = trail[pos[i]] /\ Stays(k, pos[i])
    <3> TAKE i \in 1..Len(t)
    <3>1. CASE i <= T
      BY <2>1, <2>3, <2>5, <2>6, <3>1
    <3>2. CASE ~(i <= T)
      <4>1. i - T \in 1..n /\ T + (i - T) = i
        BY <2>1, <2>5, <3>2
      <4>2. t[i] = trail[Nth(K, i - T)]
        BY <2>1, <4>1
      <4> QED BY <2>3, <2>5, <2>6, <3>2, <4>2
    <3> QED BY <3>1, <3>2
  <2>8. \A i, j \in 1..Len(t) : i < j => pos[i] < pos[j]
    <3> TAKE i, j \in 1..Len(t)
    <3> HAVE i < j
    <3>1. CASE j <= T
      BY <2>1, <2>5, <3>1
    <3>2. CASE ~(j <= T) /\ i <= T
      <4>1. pos[i] = i /\ pos[j] \in (T + 1)..Len(trail)
        BY <2>5, <2>a, <3>2
      <4> QED BY <2>1, <3>2, <4>1
    <3>3. CASE ~(i <= T)
      <4>1. ~(j <= T) /\ i - T < j - T
        BY <2>1, <3>3
      <4>2. /\ pos[i] = Nth(K, i - T) /\ pos[j] = Nth(K, j - T)
            /\ i - T \in 1..n /\ j - T \in 1..n
        BY <2>5, <3>3, <4>1
      <4> QED BY <2>2, <4>1, <4>2
    <3> QED BY <3>1, <3>2, <3>3
  <2>9. \A p \in 1..Len(trail) : Stays(k, p) => \E i \in 1..Len(t) : pos[i] = p
    <3> TAKE p \in 1..Len(trail)
    <3> HAVE Stays(k, p)
    <3>1. CASE p <= T
      <4>1. p \in 1..Len(t)
        BY <2>1, <3>1
      <4> QED BY <2>5, <3>1, <4>1
    <3>2. CASE p \in K
      <4>1. PICK j \in 1..n : Nth(K, j) = p
        BY <2>2, <3>2
      <4>2. T + j \in 1..Len(t) /\ ~(T + j <= T) /\ (T + j) - T = j
        BY <2>1
      <4> QED BY <2>5, <4>1, <4>2
    <3> QED BY <2>3, <3>1, <3>2
  <2>10. \A i \in 1..Len(t) : i <= T \/ pos[i] <= T => pos[i] = i
    <3> TAKE i \in 1..Len(t)
    <3>1. ~(i <= T) => pos[i] \in (T + 1)..Len(trail)
      BY <2>5, <2>a
    <3> QED BY <2>1, <2>5, <3>1
  <2>11. pos \in [1..Len(t) -> 1..Len(trail)]
    BY <2>6, <2>b
  <2> QED BY <1>2, <2>7, <2>8, <2>9, <2>10, <2>11 DEF t, T
<1> QED BY <1>1, <1>2

-----------------------------------------------------------------------------
(* What the invariant of the trail becomes.                                *)

\* Levels are naturals up to the decision level.
LEMMA LevelsAre ==
  ASSUME NEW t, NEW ls, NEW lv, NEW re, NEW cs, TrailTyped(t, ls, lv, re, cs)
  PROVE  /\ Len(t) \in Nat /\ Len(ls) \in Nat
         /\ \A i \in 1..Len(t) : t[i] \in Lit /\ VarOf(t[i]) \in Var
         /\ \A q \in Lit : VarOf(q) \in Var /\ lv[VarOf(q)] \in Nat
         /\ \A d \in 1..Len(ls) : ls[d] \in Nat
BY LenProperties, ElementOfSeq, RangeIs, LitFacts DEF TrailTyped

\* A literal of the trail has its complement nowhere on it.
LEMMA Consistent ==
  ASSUME NEW t \in Seq(Lit), Distinct(t), NEW l \in Range(t)
  PROVE  -l \notin Range(t)
BY RangeIs, LitPairs DEF Distinct

\* A retracted literal belongs to a level above the one returned to.
LEMMA StaysBelow ==
  ASSUME TrailOK, Bounded(trail, lims, level), Reached(trail, lims, level),
         NEW k \in Nat, NEW p \in 1..Len(trail), Lv(trail[p]) <= k,
         Resumable \/ Lv(trail[p]) > 0
  PROVE  Stays(k, p)
<1>1. /\ DecisionLevel = Len(lims) /\ DecisionLevel \in Nat /\ Lv(trail[p]) \in Nat
      /\ Lv(trail[p]) = level[VarOf(trail[p])] /\ Len(trail) \in Nat
  BY LenProperties, RangeIs DEF TrailOK, DecisionLevel, Lv
<1>2. CASE Resumable
  BY <1>2 DEF Stays
<1>3. CASE ~Resumable /\ k < DecisionLevel
  <2>1. k + 1 \in 1..Len(lims) /\ lims[k + 1] \in Nat
    BY <1>1, <1>3, ElementOfSeq DEF TrailOK
  <2>2. ~(lims[k + 1] < p)
    <3>1. Lv(trail[p]) # 0 /\ ~(k + 1 <= Lv(trail[p]))
      BY <1>1, <1>3
    <3> QED BY <1>1, <1>3, <2>1, <3>1 DEF Reached
  <2> QED BY <2>1, <2>2 DEF Stays, Target
<1>4. CASE DecisionLevel <= k
  BY <1>4 DEF Stays
<1> QED BY <1>1, <1>2, <1>3, <1>4

\* The decision levels left by cancel_until(k).
LEMMA LimsLeft ==
  ASSUME TrailOK, NEW k \in Nat
  PROVE  /\ LimsAfter(k) \in Seq(Nat) /\ Len(LimsAfter(k)) \in Nat
         /\ Len(LimsAfter(k)) = IF DecisionLevel <= k THEN DecisionLevel ELSE k
         /\ \A d \in 1..Len(LimsAfter(k)) :
              d \in 1..Len(lims) /\ LimsAfter(k)[d] = lims[d]
         /\ k < DecisionLevel =>
              /\ k + 1 \in 1..Len(lims) /\ Target(k) \in Nat
              /\ \A d \in 1..Len(LimsAfter(k)) : lims[d] <= Target(k)
<1>1. DecisionLevel = Len(lims) /\ Len(lims) \in Nat
      /\ \A d \in 1..Len(lims) : lims[d] \in Nat
  BY LenProperties, ElementOfSeq DEF TrailOK, DecisionLevel
<1>2. CASE DecisionLevel <= k
  BY <1>1, <1>2 DEF LimsAfter, TrailOK
<1>3. CASE ~(DecisionLevel <= k)
  <2>1. /\ SubSeq(lims, 1, k) \in Seq(Nat) /\ Len(SubSeq(lims, 1, k)) = k
        /\ \A d \in 1..k : SubSeq(lims, 1, k)[d] = lims[d]
    <3>1. \A d \in 1..k : lims[d] \in Nat
      BY <1>1, <1>3
    <3> QED BY <3>1, SubSeqProperties
  <2>2. LimsAfter(k) = SubSeq(lims, 1, k)
    BY <1>3 DEF LimsAfter
  <2>3. k + 1 \in 1..Len(lims) /\ \A d \in 1..k : d \in 1..Len(lims) /\ d <= k + 1
    BY <1>1, <1>3
  <2>4. \A d \in 1..k : lims[d] <= Target(k)
    BY <2>3 DEF TrailOK, Target
  <2>5. Target(k) \in Nat
    BY <1>1, <2>3 DEF Target
  <2> QED BY <1>1, <1>3, <2>1, <2>2, <2>3, <2>4, <2>5
<1> QED BY <1>2, <1>3

\* cancel_until keeps the invariant: in particular a kept literal keeps its
\* antecedent's literals, for their levels are no higher than its own.
LEMMA CutKeeps ==
  ASSUME TrailOK, NEW k \in Nat, NEW cs, NEW M,
         TrailTyped(trail, lims, level, reason, cs),
         TrailSound(trail, lims, level, reason, cs, M)
  PROVE  TrailSound(TrailAfter(k), LimsAfter(k), level, ReasonsAfter(k), cs, M)
<1> DEFINE t == TrailAfter(k)
           ls == LimsAfter(k)
           re == ReasonsAfter(k)
<1>1. PICK pos \in [1..Len(t) -> 1..Len(trail)] :
        /\ \A i \in 1..Len(t) : t[i] = trail[pos[i]] /\ Stays(k, pos[i])
        /\ \A i, j \in 1..Len(t) : i < j => pos[i] < pos[j]
        /\ \A p \in 1..Len(trail) : Stays(k, p) => \E i \in 1..Len(t) : pos[i] = p
        /\ \A i \in 1..Len(t) :
             DecisionLevel <= k \/ i <= Target(k) \/ pos[i] <= Target(k)
               => pos[i] = i
  BY CancelEmbeds
<1>2. /\ Len(trail) \in Nat /\ Len(lims) \in Nat /\ DecisionLevel = Len(lims)
      /\ \A i \in 1..Len(trail) : trail[i] \in Lit /\ VarOf(trail[i]) \in Var
      /\ \A q \in Lit : VarOf(q) \in Var /\ level[VarOf(q)] \in Nat
      /\ \A d \in 1..Len(lims) : lims[d] \in Nat
  BY LevelsAre DEF DecisionLevel
<1>3. /\ ls \in Seq(Nat) /\ Len(ls) \in Nat
      /\ Len(ls) = IF DecisionLevel <= k THEN DecisionLevel ELSE k
      /\ \A d \in 1..Len(ls) : d \in 1..Len(lims) /\ ls[d] = lims[d]
      /\ k < DecisionLevel =>
           /\ k + 1 \in 1..Len(lims) /\ Target(k) \in Nat
           /\ \A d \in 1..Len(ls) : lims[d] <= Target(k)
  BY LimsLeft
<1>4. /\ \A i \in 1..Len(t) : pos[i] \in 1..Len(trail) /\ t[i] = trail[pos[i]]
      /\ Len(t) \in Nat
  BY <1>1, TrailAfterType
<1>5. /\ Distinct(trail) /\ Bounded(trail, lims, level)
      /\ Reached(trail, lims, level) /\ Rooted(trail, level, M)
      /\ Implied(trail, reason, cs) /\ Graded(trail, level, reason, cs)
  BY DEF TrailSound
<1>6. \A v \in Var : re[v] # NoReason => re[v] = reason[v]
  BY DEF ReasonsAfter
<1> HIDE DEF t, ls, re
<1>7. \A i, j \in 1..Len(t) : pos[i] = pos[j] => i = j
  <2> TAKE i, j \in 1..Len(t)
  <2>1. (i < j => pos[i] < pos[j]) /\ (j < i => pos[j] < pos[i])
    BY <1>1
  <2> QED BY <1>4, <2>1
<1>8. Distinct(t)
  BY <1>4, <1>5, <1>7 DEF Distinct
<1>9. \A i \in 1..Len(t) : level[VarOf(t[i])] <= Len(ls)
  <2> TAKE i \in 1..Len(t)
  <2> DEFINE p == pos[i]
  <2>1. p \in 1..Len(trail) /\ t[i] = trail[p] /\ level[VarOf(t[i])] \in Nat
    BY <1>2, <1>4
  <2>2. Stays(k, p)
    BY <1>1
  <2>3. level[VarOf(trail[p])] <= Len(lims)
    BY <1>5, <2>1 DEF Bounded
  <2> HIDE DEF p
  <2>4. CASE DecisionLevel <= k
    BY <1>2, <1>3, <2>1, <2>3, <2>4
  <2>5. CASE ~(DecisionLevel <= k) /\ p <= Target(k)
    <3>1. k + 1 \in 1..Len(lims)
      BY <1>2, <1>3, <2>5
    <3>2. level[VarOf(trail[p])] < k + 1
      BY <1>5, <2>1, <2>5, <3>1 DEF Bounded, Target
    <3> QED BY <1>3, <2>1, <2>5, <3>2
  <2>6. CASE ~(DecisionLevel <= k) /\ ~(p <= Target(k))
    BY <1>3, <2>1, <2>2, <2>6 DEF Stays, Lv
  <2> QED BY <2>4, <2>5, <2>6
<1>10. Bounded(t, ls, level)
  <2> SUFFICES ASSUME NEW i \in 1..Len(t), NEW d \in 1..Len(ls), i <= ls[d]
               PROVE  level[VarOf(t[i])] < d
    BY <1>9 DEF Bounded
  <2>1. d \in 1..Len(lims) /\ i <= lims[d] /\ lims[d] \in Nat
    BY <1>2, <1>3
  <2>2. DecisionLevel <= k \/ i <= Target(k)
    <3>1. ~(DecisionLevel <= k) => Target(k) \in Nat /\ lims[d] <= Target(k)
      BY <1>2, <1>3
    <3> QED BY <1>2, <2>1, <3>1
  <2>3. pos[i] = i /\ i \in 1..Len(trail) /\ t[i] = trail[i]
    BY <1>1, <1>4, <2>2
  <2> QED BY <1>5, <2>1, <2>3 DEF Bounded
<1>11. Reached(t, ls, level)
  <2> SUFFICES ASSUME ~Resumable, NEW i \in 1..Len(t), NEW d \in 1..Len(ls), ls[d] < i
               PROVE  level[VarOf(t[i])] = 0 \/ d <= level[VarOf(t[i])]
    BY DEF Reached
  <2>1. DecisionLevel <= k \/ pos[i] <= Target(k)
    BY <1>1 DEF Stays
  <2>2. pos[i] = i /\ i \in 1..Len(trail) /\ t[i] = trail[i]
    BY <1>1, <1>4, <2>1
  <2> QED BY <1>3, <1>5, <2>2 DEF Reached
<1>12. Rooted(t, level, M)
  BY <1>4, <1>5 DEF Rooted
<1>13. Graded(t, level, re, cs)
  BY <1>2, <1>4, <1>5, <1>6 DEF Graded
<1>14. Implied(t, re, cs)
  <2> SUFFICES ASSUME NEW j \in 1..Len(t), re[VarOf(t[j])] # NoReason
               PROVE  /\ re[VarOf(t[j])] \in 1..Len(cs)
                      /\ cs[re[VarOf(t[j])]].lits # {}
                      /\ cs[re[VarOf(t[j])]].w0 = t[j]
                      /\ \A q \in cs[re[VarOf(t[j])]].lits \ {t[j]} :
                           \E i \in 1..Len(t) : i < j /\ t[i] = -q
    BY DEF Implied
  <2> DEFINE p == pos[j]
             r == reason[VarOf(trail[p])]
  <2>1. p \in 1..Len(trail) /\ t[j] = trail[p] /\ VarOf(trail[p]) \in Var
    BY <1>2, <1>4
  <2>2. re[VarOf(t[j])] = r /\ r # NoReason
    BY <1>6, <2>1
  <2>3. /\ r \in 1..Len(cs) /\ cs[r].lits # {} /\ cs[r].w0 = trail[p]
        /\ \A q \in cs[r].lits \ {trail[p]} : \E i \in 1..Len(trail) : i < p /\ trail[i] = -q
    BY <1>5, <2>1, <2>2 DEF Implied
  <2>4. \A q \in cs[r].lits : level[VarOf(q)] <= level[VarOf(trail[p])]
    BY <1>5, <2>1, <2>2 DEF Graded
  <2>5. cs[r].lits \subseteq Lit
    <3>1. cs[r] \in Clause
      BY <2>3, ElementOfSeq DEF TrailTyped
    <3> QED BY <3>1 DEF Clause
  <2>6. Stays(k, p)
    BY <1>1
  <2> HIDE DEF r
  <2>7. ASSUME NEW q \in cs[r].lits \ {trail[p]}
        PROVE  \E i \in 1..Len(t) : i < j /\ t[i] = -q
    <3>1. PICK i \in 1..Len(trail) : i < p /\ trail[i] = -q
      BY <2>3
    <3>2. /\ VarOf(trail[i]) = VarOf(q) /\ Lv(trail[i]) <= Lv(trail[p])
          /\ Lv(trail[i]) \in Nat /\ Lv(trail[p]) \in Nat
      BY <1>2, <2>1, <2>4, <2>5, <3>1, LitPairs DEF Lv
    <3>3. Stays(k, i)
      <4>1. CASE DecisionLevel <= k
        BY <4>1 DEF Stays
      <4>2. CASE ~(DecisionLevel <= k) /\ p <= Target(k)
        <5>1. Target(k) \in Nat
          BY <1>2, <1>3, <4>2
        <5>2. i <= Target(k)
          BY <1>2, <2>1, <3>1, <4>2, <5>1
        <5> QED BY <5>2 DEF Stays
      <4>3. CASE Resumable /\ Lv(trail[p]) <= k
        BY <3>2, <4>3 DEF Stays
      <4> QED BY <2>6, <4>1, <4>2, <4>3 DEF Stays
    <3>4. PICK h \in 1..Len(t) : pos[h] = i
      BY <1>1, <3>3
    <3>5. h < j
      <4>1. ~(h = j) /\ (j < h => pos[j] < pos[h])
        BY <1>1, <2>1, <3>1, <3>4
      <4> QED BY <1>4, <2>1, <3>1, <3>4, <4>1
    <3> QED BY <1>4, <3>1, <3>4, <3>5
  <2> QED BY <2>1, <2>2, <2>3, <2>7
<1> QED BY <1>8, <1>10, <1>11, <1>12, <1>13, <1>14 DEF TrailSound, t, ls, re

\* What cancel_until(k) retracts and what it keeps: no literal above level k
\* is left, and one of level k or below stays, if it has a level at all or
\* the solver backtracks chronologically.
LEMMA CutFacts ==
  ASSUME TrailOK, NEW k \in Nat, Distinct(trail), Bounded(trail, lims, level),
         Reached(trail, lims, level)
  PROVE  /\ Range(TrailAfter(k)) \subseteq Range(trail)
         /\ \A l \in Range(trail) : Lv(l) <= k /\ (Resumable \/ Lv(l) > 0)
              => l \in Range(TrailAfter(k))
         /\ \A l \in Range(trail) : Lv(l) > k
              => l \notin Range(TrailAfter(k)) /\ -l \notin Range(TrailAfter(k))
<1> DEFINE t == TrailAfter(k)
<1>1. PICK pos \in [1..Len(t) -> 1..Len(trail)] :
        /\ \A i \in 1..Len(t) : t[i] = trail[pos[i]] /\ Stays(k, pos[i])
        /\ \A p \in 1..Len(trail) : Stays(k, p) => \E i \in 1..Len(t) : pos[i] = p
  BY CancelEmbeds
<1>2. t \in Seq(Lit) /\ trail \in Seq(Lit)
  BY TrailAfterType DEF TrailOK
<1>3. /\ Len(trail) \in Nat /\ Len(lims) \in Nat /\ DecisionLevel = Len(lims)
      /\ \A i \in 1..Len(trail) : Lv(trail[i]) \in Nat
  BY RangeIs, LenProperties DEF TrailOK, DecisionLevel, Lv
<1>4. \A i \in 1..Len(t) : pos[i] \in 1..Len(trail) /\ t[i] = trail[pos[i]]
  BY <1>1
<1> HIDE DEF t
<1>5. Range(t) \subseteq Range(trail)
  BY <1>2, <1>4, RangeIs
<1>6. ASSUME NEW l \in Range(trail), Lv(l) <= k, Resumable \/ Lv(l) > 0
      PROVE  l \in Range(t)
  <2>1. PICK p \in 1..Len(trail) : trail[p] = l
    BY <1>2, RangeIs
  <2>2. Stays(k, p)
    BY <1>6, <2>1, StaysBelow
  <2>3. PICK i \in 1..Len(t) : pos[i] = p
    BY <1>1, <2>2
  <2> QED BY <1>2, <1>4, <2>1, <2>3, RangeIs
<1>7. \A i \in 1..Len(t) : Lv(t[i]) <= k
  <2> TAKE i \in 1..Len(t)
  <2> DEFINE p == pos[i]
  <2>1. /\ p \in 1..Len(trail) /\ t[i] = trail[p] /\ Lv(trail[p]) \in Nat
        /\ Stays(k, p)
    BY <1>1, <1>3, <1>4
  <2>2. /\ Lv(trail[p]) <= Len(lims)
        /\ \A d \in 1..Len(lims) : p <= lims[d] => Lv(trail[p]) < d
    BY <2>1 DEF Bounded, Lv
  <2> HIDE DEF p
  <2>3. CASE ~(DecisionLevel <= k) /\ p <= Target(k)
    <3>1. k + 1 \in 1..Len(lims)
      BY <1>3, <2>3
    <3>2. Lv(trail[p]) < k + 1
      BY <2>2, <2>3, <3>1 DEF Target
    <3> QED BY <2>1, <3>2
  <2>4. CASE DecisionLevel <= k
    BY <1>3, <2>1, <2>2, <2>4
  <2> QED BY <2>1, <2>3, <2>4 DEF Stays
<1>8. ASSUME NEW l \in Range(trail), Lv(l) > k
      PROVE  l \notin Range(t) /\ -l \notin Range(t)
  <2>1. l \in Lit /\ Lv(-l) = Lv(l) /\ Lv(l) \in Nat
    BY <1>2, <1>3, RangeIs, LitPairs DEF Lv
  <2>2. \A q \in Range(t) : Lv(q) <= k
    BY <1>2, <1>7, RangeIs
  <2> QED BY <1>8, <2>1, <2>2
<1> QED BY <1>5, <1>6, <1>8 DEF t

\* Assigning a literal whose variable is free, at a level n that exists.
LEMMA PushKeeps ==
  ASSUME NEW t, NEW ls, NEW lv, NEW re, NEW cs, NEW M,
         TrailTyped(t, ls, lv, re, cs), TrailSound(t, ls, lv, re, cs, M),
         NEW l \in Lit, l \notin Range(t), -l \notin Range(t),
         NEW n \in 0..Len(ls), Resumable \/ n \in {0, Len(ls)},
         n = 0 => Follows(M, {l}), NEW r,
         r # NoReason =>
           /\ r \in 1..Len(cs) /\ cs[r].lits # {} /\ cs[r].w0 = l
           /\ \A q \in cs[r].lits \ {l} : -q \in Range(t) /\ lv[VarOf(q)] <= n
  PROVE  TrailSound(Append(t, l), ls, [lv EXCEPT ![VarOf(l)] = n],
                    [re EXCEPT ![VarOf(l)] = r], cs, M)
<1> DEFINE t2 == Append(t, l)
           lv2 == [lv EXCEPT ![VarOf(l)] = n]
           re2 == [re EXCEPT ![VarOf(l)] = r]
           N == Len(t) + 1
<1>1. /\ Len(t) \in Nat /\ Len(ls) \in Nat
      /\ \A i \in 1..Len(t) : t[i] \in Lit /\ VarOf(t[i]) \in Var
      /\ \A q \in Lit : VarOf(q) \in Var /\ lv[VarOf(q)] \in Nat
      /\ \A d \in 1..Len(ls) : ls[d] \in Nat /\ ls[d] <= Len(t)
      /\ t \in Seq(Lit) /\ VarOf(l) \in Var
  BY LevelsAre, LitFacts DEF TrailTyped
<1>2. Len(t2) = N /\ t2[N] = l /\ \A i \in 1..Len(t) : t2[i] = t[i]
  BY <1>1, AppendProperties
<1>3. \A i \in 1..Len(t2) : i = N \/ i \in 1..Len(t)
  BY <1>1, <1>2
<1>4. \A i \in 1..Len(t) : VarOf(t[i]) # VarOf(l)
  BY <1>1, FreeVar
<1>5. /\ lv2[VarOf(l)] = n /\ re2[VarOf(l)] = r
      /\ \A v \in Var : v # VarOf(l) => lv2[v] = lv[v] /\ re2[v] = re[v]
  BY <1>1 DEF TrailTyped
<1>6. \A i \in 1..Len(t) : /\ t2[i] = t[i] /\ lv2[VarOf(t2[i])] = lv[VarOf(t[i])]
                           /\ re2[VarOf(t2[i])] = re[VarOf(t[i])]
  BY <1>1, <1>2, <1>4, <1>5
<1>7. /\ Distinct(t) /\ Bounded(t, ls, lv) /\ Reached(t, ls, lv)
      /\ Rooted(t, lv, M) /\ Implied(t, re, cs) /\ Graded(t, lv, re, cs)
  BY DEF TrailSound
<1>8. \A i \in 1..Len(t) : i \in 1..Len(t2) /\ i < N
  BY <1>1, <1>2
<1> HIDE DEF t2, lv2, re2, N
<1>9. Distinct(t2)
  BY <1>2, <1>3, <1>4, <1>6, <1>7 DEF Distinct
<1>10. Bounded(t2, ls, lv2)
  <2>1. n <= Len(ls) /\ \A d \in 1..Len(ls) : ~(N <= ls[d])
    BY <1>1 DEF N
  <2> QED BY <1>2, <1>3, <1>5, <1>6, <1>7, <2>1 DEF Bounded
<1>11. Reached(t2, ls, lv2)
  <2>1. ~Resumable => n = 0 \/ \A d \in 1..Len(ls) : d <= n
    BY <1>1
  <2> QED BY <1>2, <1>3, <1>5, <1>6, <1>7, <2>1 DEF Reached
<1>12. Rooted(t2, lv2, M)
  BY <1>2, <1>3, <1>5, <1>6, <1>7 DEF Rooted
<1>13. ASSUME NEW j \in 1..Len(t), re[VarOf(t[j])] # NoReason
       PROVE  /\ re[VarOf(t[j])] \in 1..Len(cs)
              /\ \A q \in cs[re[VarOf(t[j])]].lits :
                   q \in Lit /\ VarOf(q) # VarOf(l)
  <2> DEFINE s == re[VarOf(t[j])]
  <2>1. /\ s \in 1..Len(cs)
        /\ \A q \in cs[s].lits \ {t[j]} : \E i \in 1..Len(t) : i < j /\ t[i] = -q
    BY <1>7, <1>13 DEF Implied
  <2> HIDE DEF s
  <2>2. cs[s].lits \subseteq Lit
    <3>1. cs[s] \in Clause
      BY <2>1, ElementOfSeq DEF TrailTyped
    <3> QED BY <3>1 DEF Clause
  <2>3. \A q \in cs[s].lits : VarOf(q) # VarOf(l)
    <3> TAKE q \in cs[s].lits
    <3>1. CASE q = t[j]
      BY <1>4, <3>1
    <3>2. CASE q # t[j]
      <4>1. PICK i \in 1..Len(t) : t[i] = -q
        BY <2>1, <3>2
      <4> QED BY <1>4, <2>2, <4>1, LitPairs
    <3> QED BY <3>1, <3>2
  <2> QED BY <2>1, <2>2, <2>3 DEF s
<1>14. r # NoReason => \A q \in cs[r].lits : q \in Lit
  <2> SUFFICES ASSUME r # NoReason PROVE \A q \in cs[r].lits : q \in Lit
    OBVIOUS
  <2>1. cs[r] \in Clause
    BY ElementOfSeq DEF TrailTyped
  <2> QED BY <2>1 DEF Clause
<1>15. r # NoReason => \A q \in cs[r].lits : lv2[VarOf(q)] <= n
  <2> SUFFICES ASSUME r # NoReason, NEW q \in cs[r].lits PROVE lv2[VarOf(q)] <= n
    OBVIOUS
  <2>1. q = l \/ lv[VarOf(q)] <= n
    OBVIOUS
  <2>2. q \in Lit /\ n <= n
    BY <1>1, <1>14
  <2> QED BY <1>1, <1>5, <2>1, <2>2
<1>16. Graded(t2, lv2, re2, cs)
  <2> SUFFICES ASSUME NEW j \in 1..Len(t2), re2[VarOf(t2[j])] # NoReason,
                      NEW q \in cs[re2[VarOf(t2[j])]].lits
               PROVE  lv2[VarOf(q)] <= lv2[VarOf(t2[j])]
    BY DEF Graded
  <2>1. CASE j = N
    BY <1>2, <1>5, <1>15, <2>1
  <2>2. CASE j \in 1..Len(t)
    <3>1. re2[VarOf(t2[j])] = re[VarOf(t[j])] /\ lv2[VarOf(t2[j])] = lv[VarOf(t[j])]
      BY <1>6, <2>2
    <3>2. q \in Lit /\ VarOf(q) # VarOf(l)
      BY <1>13, <2>2, <3>1
    <3>3. lv2[VarOf(q)] = lv[VarOf(q)]
      BY <1>1, <1>5, <3>2
    <3> QED BY <1>7, <2>2, <3>1, <3>3 DEF Graded
  <2> QED BY <1>3, <2>1, <2>2
<1>17. Implied(t2, re2, cs)
  <2> SUFFICES ASSUME NEW j \in 1..Len(t2), re2[VarOf(t2[j])] # NoReason
               PROVE  /\ re2[VarOf(t2[j])] \in 1..Len(cs)
                      /\ cs[re2[VarOf(t2[j])]].lits # {}
                      /\ cs[re2[VarOf(t2[j])]].w0 = t2[j]
                      /\ \A q \in cs[re2[VarOf(t2[j])]].lits \ {t2[j]} :
                           \E i \in 1..Len(t2) : i < j /\ t2[i] = -q
    BY DEF Implied
  <2>1. CASE j = N
    <3>1. re2[VarOf(t2[j])] = r /\ t2[j] = l /\ r # NoReason
      BY <1>2, <1>5, <2>1
    <3>2. \A q \in cs[r].lits \ {l} : \E i \in 1..Len(t) : t[i] = -q
      BY <1>1, <3>1, RangeIs
    <3> QED BY <1>6, <1>8, <2>1, <3>1, <3>2
  <2>2. CASE j \in 1..Len(t)
    BY <1>6, <1>7, <1>8, <2>2 DEF Implied
  <2> QED BY <1>3, <2>1, <2>2
<1> QED BY <1>9, <1>10, <1>11, <1>12, <1>16, <1>17 DEF TrailSound, t2, lv2, re2

\* Opening a decision level.
LEMMA OpenKeeps ==
  ASSUME NEW t, NEW ls, NEW lv, NEW re, NEW cs, NEW M,
         TrailTyped(t, ls, lv, re, cs), TrailSound(t, ls, lv, re, cs, M)
  PROVE  /\ TrailTyped(t, Append(ls, Len(t)), lv, re, cs)
         /\ TrailSound(t, Append(ls, Len(t)), lv, re, cs, M)
         /\ Len(Append(ls, Len(t))) = Len(ls) + 1
<1> DEFINE l2 == Append(ls, Len(t))
           D == Len(ls) + 1
<1>1. /\ Len(t) \in Nat /\ Len(ls) \in Nat /\ ls \in Seq(Nat)
      /\ \A i \in 1..Len(t) : lv[VarOf(t[i])] \in Nat
      /\ \A d \in 1..Len(ls) : ls[d] \in Nat /\ ls[d] <= Len(t)
      /\ \A d, e \in 1..Len(ls) : d <= e => ls[d] <= ls[e]
  BY LevelsAre DEF TrailTyped
<1>2. /\ l2 \in Seq(Nat) /\ Len(l2) = D /\ l2[D] = Len(t)
      /\ \A d \in 1..Len(ls) : l2[d] = ls[d]
  BY <1>1, AppendProperties
<1>3. \A d \in 1..Len(l2) : d = D \/ d \in 1..Len(ls)
  BY <1>1, <1>2
<1> HIDE DEF l2
<1>4. TrailTyped(t, l2, lv, re, cs)
  <2>1. \A d \in 1..Len(l2) : l2[d] <= Len(t)
    <3> TAKE d \in 1..Len(l2)
    <3>1. Len(t) <= Len(t)
      BY <1>1
    <3> HIDE DEF D
    <3> QED BY <1>1, <1>2, <1>3, <3>1
  <2>2. \A d, e \in 1..Len(l2) : d <= e => l2[d] <= l2[e]
    <3> TAKE d, e \in 1..Len(l2)
    <3> HAVE d <= e
    <3>1. CASE e = D
      BY <1>2, <2>1, <3>1
    <3>2. CASE e \in 1..Len(ls)
      <4>1. d \in 1..Len(ls)
        BY <1>1, <1>3, <3>2
      <4> QED BY <1>1, <1>2, <3>2, <4>1
    <3> QED BY <1>3, <3>1, <3>2
  <2> QED BY <1>2, <2>1, <2>2 DEF TrailTyped
<1>5. Bounded(t, ls, lv) /\ Reached(t, ls, lv)
  BY DEF TrailSound
<1>6. Bounded(t, l2, lv)
  <2>1. \A i \in 1..Len(t) : lv[VarOf(t[i])] <= Len(ls) /\ lv[VarOf(t[i])] < D
        /\ lv[VarOf(t[i])] <= D
    BY <1>1, <1>5 DEF Bounded
  <2> HIDE DEF D
  <2> QED BY <1>2, <1>3, <1>5, <2>1 DEF Bounded
<1>7. Reached(t, l2, lv)
  <2>1. \A i \in 1..Len(t) : ~(Len(t) < i)
    BY <1>1
  <2> HIDE DEF D
  <2> QED BY <1>2, <1>3, <1>5, <2>1 DEF Reached
<1> QED BY <1>2, <1>4, <1>6, <1>7 DEF TrailSound, l2

\* A literal of the trail that follows becomes a fact of level 0.
LEMMA LowerKeeps ==
  ASSUME NEW t, NEW ls, NEW lv, NEW re, NEW cs, NEW M,
         TrailTyped(t, ls, lv, re, cs), TrailSound(t, ls, lv, re, cs, M),
         NEW l \in Range(t), Follows(M, {l})
  PROVE  TrailSound(t, ls, [lv EXCEPT ![VarOf(l)] = 0],
                    [re EXCEPT ![VarOf(l)] = NoReason], cs, M)
<1> DEFINE lv2 == [lv EXCEPT ![VarOf(l)] = 0]
           re2 == [re EXCEPT ![VarOf(l)] = NoReason]
<1>1. /\ Len(t) \in Nat /\ Len(ls) \in Nat /\ t \in Seq(Lit)
      /\ \A i \in 1..Len(t) : t[i] \in Lit /\ VarOf(t[i]) \in Var
      /\ \A q \in Lit : VarOf(q) \in Var /\ lv[VarOf(q)] \in Nat
  BY LevelsAre DEF TrailTyped
<1>2. PICK p \in 1..Len(t) : t[p] = l
  BY <1>1, RangeIs
<1>3. /\ Distinct(t) /\ Bounded(t, ls, lv) /\ Reached(t, ls, lv)
      /\ Rooted(t, lv, M) /\ Implied(t, re, cs) /\ Graded(t, lv, re, cs)
  BY DEF TrailSound
<1>4. \A v \in Var : /\ lv2[v] = (IF v = VarOf(l) THEN 0 ELSE lv[v])
                     /\ re2[v] = (IF v = VarOf(l) THEN NoReason ELSE re[v])
  BY DEF TrailTyped
<1>5. \A i \in 1..Len(t) : VarOf(t[i]) = VarOf(l) => t[i] = l
  BY <1>2, <1>3 DEF Distinct
<1> HIDE DEF lv2, re2
<1>6. Bounded(t, ls, lv2)
  <2>1. 0 <= Len(ls) /\ \A d \in 1..Len(ls) : 0 < d
    BY <1>1
  <2> QED BY <1>1, <1>3, <1>4, <2>1 DEF Bounded
<1>7. Reached(t, ls, lv2)
  BY <1>1, <1>3, <1>4 DEF Reached
<1>8. Rooted(t, lv2, M)
  BY <1>1, <1>3, <1>4, <1>5 DEF Rooted
<1>9. Implied(t, re2, cs)
  BY <1>1, <1>3, <1>4 DEF Implied
<1>10. Graded(t, lv2, re2, cs)
  <2> SUFFICES ASSUME NEW j \in 1..Len(t), re2[VarOf(t[j])] # NoReason,
                      NEW q \in cs[re2[VarOf(t[j])]].lits
               PROVE  lv2[VarOf(q)] <= lv2[VarOf(t[j])]
    BY DEF Graded
  <2>1. /\ re2[VarOf(t[j])] = re[VarOf(t[j])] /\ lv2[VarOf(t[j])] = lv[VarOf(t[j])]
        /\ re[VarOf(t[j])] # NoReason
    BY <1>1, <1>4
  <2>2. q \in Lit
    <3>1. cs[re[VarOf(t[j])]] \in Clause
      <4>1. re[VarOf(t[j])] \in 1..Len(cs)
        BY <1>3, <2>1 DEF Implied
      <4> QED BY <4>1, ElementOfSeq DEF TrailTyped
    <3> QED BY <2>1, <3>1 DEF Clause
  <2>3. lv[VarOf(q)] <= lv[VarOf(t[j])]
    BY <1>3, <2>1 DEF Graded
  <2>4. lv2[VarOf(q)] \in {0, lv[VarOf(q)]} /\ lv[VarOf(t[j])] \in Nat
    BY <1>1, <1>4, <2>2
  <2> QED BY <1>1, <2>1, <2>3, <2>4
<1> QED BY <1>3, <1>6, <1>7, <1>8, <1>9, <1>10 DEF TrailSound, lv2, re2

\* The database changes, but no antecedent does.
LEMMA ClausesKeep ==
  ASSUME NEW t, NEW ls, NEW lv, NEW re, NEW cs, NEW M, NEW c2,
         TrailSound(t, ls, lv, re, cs, M),
         \A j \in 1..Len(t) : re[VarOf(t[j])] # NoReason =>
           /\ re[VarOf(t[j])] \in 1..Len(c2)
           /\ c2[re[VarOf(t[j])]].lits = cs[re[VarOf(t[j])]].lits
           /\ c2[re[VarOf(t[j])]].w0 = cs[re[VarOf(t[j])]].w0
  PROVE  TrailSound(t, ls, lv, re, c2, M)
<1>1. Implied(t, re, c2)
  BY DEF TrailSound, Implied
<1>2. Graded(t, lv, re, c2)
  BY DEF TrailSound, Graded
<1> QED BY <1>1, <1>2 DEF TrailSound

\* Fewer models entail more.
LEMMA FewerModels ==
  ASSUME NEW t, NEW ls, NEW lv, NEW re, NEW cs, NEW M, NEW N,
         TrailSound(t, ls, lv, re, cs, M), N \subseteq M
  PROVE  TrailSound(t, ls, lv, re, cs, N)
BY DEF TrailSound, Rooted, Follows

-----------------------------------------------------------------------------
(* The invariant of the state.                                             *)

\* Live clauses follow.
DbSound(cs, M) ==
  \A i \in 1..Len(cs) : cs[i].lits # {} => Follows(M, cs[i].lits)

\* So do the clauses waiting to be attached.
QueueSound(q, M) == \A i \in 1..Len(q) : Follows(M, q[i])

\* A conflict is a live clause whose literals are all false; one that
\* attach_conflict_clause backtracked below is false at level 0 all the same.
ConflictSound ==
  pc = "conflict" =>
    /\ clauses[confl].lits # {}
    /\ Resumable => Fails(clauses[confl].w0)
    /\ \A q \in clauses[confl].lits :
         Fails(q) \/ (~Resumable /\ Lv(q) = 0 /\ Follows(Models, {-q}))

\* The resolvent follows and is false, no literal of it at level 0; once the
\* first UIP is found it is the only literal of the conflict level.
AnalysisSound ==
  pc \in {"analyze", "learn"} =>
    /\ Follows(Models, resolvent)
    /\ \A q \in resolvent : Fails(q) /\ Lv(q) > 0
    /\ pc = "learn" =>
         /\ uip \in resolvent /\ Lv(uip) >= DecisionLevel
         /\ \A z \in resolvent \ {uip} : Lv(z) < DecisionLevel

\* What is left of the hook's answer still holds in the theory.
AnswerSound ==
  pc = "theory" =>
    \A i \in answer : i.why \subseteq Range(trail) /\ Entails(i.why, i.lit)

Sound ==
  /\ TrailSound(trail, lims, level, reason, clauses, Models)
  /\ DbSound(clauses, Models) /\ QueueSound(pending, Models)
  /\ ConflictSound /\ AnalysisSound /\ AnswerSound /\ UnsatIsReal

-----------------------------------------------------------------------------
(* Entailment.                                                             *)

\* Models are total and consistent.
LEMMA ModelFacts ==
  ASSUME NEW m \in Models
  PROVE  /\ m \in TheoryModels /\ m \subseteq Lit
         /\ \A l \in Lit : l \in m \/ -l \in m
         /\ \A l \in Lit : ~(l \in m /\ -l \in m)
<1>1. m \in TheoryModels /\ m \in Assignments
  BY SatAssumption DEF Models
<1>2. /\ m \subseteq Lit
      /\ \A v \in Var : (v \in m \/ -v \in m) /\ ~(v \in m /\ -v \in m)
  BY <1>1 DEF Assignments
<1>3. ASSUME NEW l \in Lit
      PROVE  (l \in m \/ -l \in m) /\ ~(l \in m /\ -l \in m)
  <2>1. VarOf(l) \in Var /\ -(-l) = l
    BY LitFacts, LitPairs
  <2>2. l = VarOf(l) \/ l = -VarOf(l)
    <3>1. l \in Int /\ VarOf(l) \in Int
      BY SatAssumption DEF Lit, Var, VarOf
    <3> QED BY <3>1 DEF VarOf
  <2>3. CASE l = VarOf(l)
    BY <1>2, <2>1, <2>3
  <2>4. CASE l = -VarOf(l)
    <3>1. -l = VarOf(l)
      BY <2>1, <2>4, SatAssumption DEF Var
    <3> QED BY <1>2, <2>1, <2>4, <3>1
  <2> QED BY <2>2, <2>3, <2>4
<1> QED BY <1>1, <1>2, <1>3

\* Of a clause that follows, the literals whose negations follow may be left
\* out: conflicts at level 0, units, and the level-0 literals of a resolvent.
LEMMA Residue ==
  ASSUME NEW c \in SUBSET Lit, NEW d, Follows(Models, c),
         \A q \in c \ d : Follows(Models, {-q})
  PROVE  Follows(Models, d)
<1> SUFFICES ASSUME NEW m \in Models PROVE d \cap m # {}
  BY DEF Follows
<1>1. PICK q \in c : q \in m
  BY DEF Follows
<1>2. q \in d
  <2> SUFFICES ASSUME q \notin d PROVE FALSE
    OBVIOUS
  <2>1. -q \in m
    BY DEF Follows
  <2> QED BY <1>1, <2>1, ModelFacts
<1> QED BY <1>1, <1>2

\* The empty clause follows only where there is no model.
LEMMA NoModels == Follows(Models, {}) => Models = {}
BY DEF Follows

\* Resolution on p.
LEMMA Resolvents ==
  ASSUME NEW c, NEW d, NEW p \in Lit, Follows(Models, c), Follows(Models, d)
  PROVE  Follows(Models, (c \ {p}) \cup (d \ {-p}))
<1> SUFFICES ASSUME NEW m \in Models
             PROVE  ((c \ {p}) \cup (d \ {-p})) \cap m # {}
  BY DEF Follows
<1>1. ~(p \in m /\ -p \in m)
  BY ModelFacts
<1>2. c \cap m # {} /\ d \cap m # {}
  BY DEF Follows
<1> QED BY <1>1, <1>2

\* The clauses of the theory: of an implication, and of a conflict.
LEMMA TheoryClause ==
  ASSUME NEW R \in SUBSET Lit
  PROVE  /\ \A p : Entails(R, p) => Follows(Models, {p} \cup Negation(R))
         /\ (\A m \in TheoryModels : ~(R \subseteq m)) => Follows(Models, Negation(R))
<1>1. ASSUME NEW m \in Models, R \cap m # R
      PROVE  Negation(R) \cap m # {}
  <2>1. PICK l \in R : l \notin m
    BY <1>1
  <2>2. -l \in m
    BY <2>1, ModelFacts
  <2> QED BY <2>2 DEF Negation
<1>2. ASSUME NEW p, Entails(R, p), NEW m \in Models
      PROVE  ({p} \cup Negation(R)) \cap m # {}
  <2>1. R \subseteq m => p \in m
    BY <1>2, ModelFacts DEF Entails
  <2> QED BY <1>1, <2>1
<1>3. ASSUME \A m \in TheoryModels : ~(R \subseteq m), NEW m \in Models
      PROVE  Negation(R) \cap m # {}
  BY <1>1, <1>3, ModelFacts
<1> QED BY <1>2, <1>3 DEF Follows

-----------------------------------------------------------------------------
(* Reading the invariant.                                                  *)

\* The types its parts need.
LEMMA Typed ==
  ASSUME IndInv
  PROVE  /\ TrailTyped(trail, lims, level, reason, clauses)
         /\ trail \in Seq(Lit) /\ Range(trail) \subseteq Lit
         /\ DecisionLevel = Len(lims) /\ DecisionLevel \in Nat
         /\ Len(clauses) \in Nat
         /\ \A q \in Lit : VarOf(q) \in Var /\ -q \in Lit /\ -(-q) = q
                          /\ Lv(q) \in Nat /\ Lv(-q) = Lv(q)
         /\ \A i \in 1..Len(clauses) :
              /\ clauses[i].lits \subseteq Lit /\ clauses[i].w0 \in Lit
              /\ clauses[i].w1 \in Lit
<1>1. TrailTyped(trail, lims, level, reason, clauses)
  BY DEF IndInv, TrailOK, ReasonOK, DbOK, TrailTyped
<1>2. /\ trail \in Seq(Lit) /\ Range(trail) \subseteq Lit /\ Len(clauses) \in Nat
      /\ DecisionLevel = Len(lims) /\ DecisionLevel \in Nat
  BY RangeIs, LenProperties DEF IndInv, TrailOK, DbOK, DecisionLevel
<1>3. \A q \in Lit : VarOf(q) \in Var /\ -q \in Lit /\ -(-q) = q
                     /\ Lv(q) \in Nat /\ Lv(-q) = Lv(q)
  BY LitFacts, LitPairs DEF Lv, IndInv, TrailOK
<1>4. \A i \in 1..Len(clauses) :
        clauses[i].lits \subseteq Lit /\ clauses[i].w0 \in Lit /\ clauses[i].w1 \in Lit
  BY ClauseFacts DEF IndInv
<1> QED BY <1>1, <1>2, <1>3, <1>4

\* False literals: their levels, their negations, and level 0.
LEMMA FalseFacts ==
  ASSUME IndInv, NEW cs, TrailSound(trail, lims, level, reason, cs, Models),
         NEW q \in Lit, Fails(q)
  PROVE  /\ Lv(q) <= DecisionLevel /\ ~Holds(q)
         /\ Lv(q) = 0 => Follows(Models, {-q})
<1>1. /\ trail \in Seq(Lit) /\ DecisionLevel = Len(lims)
      /\ -q \in Lit /\ -(-q) = q /\ Lv(-q) = Lv(q)
  BY Typed
<1>2. PICK i \in 1..Len(trail) : trail[i] = -q
  BY <1>1, RangeIs DEF Fails
<1>3. /\ Bounded(trail, lims, level) /\ Rooted(trail, level, Models)
      /\ Distinct(trail)
  BY DEF TrailSound
<1>4. ~Holds(q)
  BY <1>1, <1>3, Consistent DEF Fails, Holds
<1> QED BY <1>1, <1>2, <1>3, <1>4 DEF Bounded, Rooted, Lv

\* The levels of the literals an assignment is implied by.
LEMMA ImpliedLevelFacts ==
  ASSUME level \in [Var -> Nat], NEW c \in SUBSET Lit, NEW dl \in Nat,
         \A q \in c : Lv(q) <= dl
  PROVE  /\ ImpliedLevel(c, dl) \in 0..dl
         /\ Resumable \/ ImpliedLevel(c, dl) = dl
         /\ \A q \in c : Lv(q) <= ImpliedLevel(c, dl)
<1> DEFINE S == {0} \cup {Lv(q) : q \in c}
<1>1. \A q \in c : Lv(q) \in Nat
  BY LitFacts DEF Lv
<1>2. S \subseteq Nat /\ S # {} /\ (\A s \in S : s <= dl)
  BY <1>1
<1>3. Max(S) \in S /\ \A s \in S : s <= Max(S)
  <2> HIDE DEF S
  <2> QED BY <1>2, MaxIn
<1>4. ImpliedLevel(c, dl) = IF Resumable THEN Max(S) ELSE dl
  BY DEF ImpliedLevel
<1>5. Max(S) \in 0..dl
  <2> HIDE DEF S
  <2>1. Max(S) \in Nat /\ Max(S) <= dl
    BY <1>2, <1>3
  <2> QED BY <2>1
<1>6. \A q \in c : Lv(q) \in S
  OBVIOUS
<1> HIDE DEF S
<1>7. dl \in 0..dl /\ (Resumable \/ ~Resumable)
  OBVIOUS
<1> QED BY <1>3, <1>4, <1>5, <1>6, <1>7

\* Assigning a literal after backtracking to level k.
LEMMA AssignSound ==
  ASSUME IndInv, NEW cs \in Seq(Clause), Len(clauses) <= Len(cs),
         TrailSound(trail, lims, level, reason, cs, Models),
         NEW k \in Nat, NEW l \in Lit,
         l \notin Range(TrailAfter(k)), -l \notin Range(TrailAfter(k)),
         NEW n \in 0..Len(LimsAfter(k)),
         Resumable \/ n \in {0, Len(LimsAfter(k))},
         n = 0 => Follows(Models, {l}), NEW r,
         r # NoReason =>
           /\ r \in 1..Len(cs) /\ cs[r].lits # {} /\ cs[r].w0 = l
           /\ \A q \in cs[r].lits \ {l} :
                -q \in Range(TrailAfter(k)) /\ Lv(q) <= n
  PROVE  TrailSound(Append(TrailAfter(k), l), LimsAfter(k),
                    [level EXCEPT ![VarOf(l)] = n],
                    [ReasonsAfter(k) EXCEPT ![VarOf(l)] = r], cs, Models)
<1>1. TrailTyped(trail, lims, level, reason, cs)
  <2>1. Len(clauses) \in Nat /\ Len(cs) \in Nat
    BY LenProperties DEF IndInv, DbOK
  <2>2. reason \in [Var -> 0..Len(cs)]
    BY <2>1 DEF IndInv, ReasonOK
  <2> QED BY <2>2 DEF TrailTyped, IndInv, TrailOK
<1>2. TrailTyped(TrailAfter(k), LimsAfter(k), level, ReasonsAfter(k), cs)
  <2>1. ReasonsAfter(k) \in [Var -> 0..Len(cs)]
    <3>1. 0 \in 0..Len(cs) /\ reason \in [Var -> 0..Len(cs)]
      BY <1>1, LenProperties DEF TrailTyped
    <3> QED BY <3>1 DEF ReasonsAfter, NoReason
  <2> QED BY <1>1, <2>1, TrailAfterType, CancelTypes DEF TrailTyped, IndInv
<1>3. TrailSound(TrailAfter(k), LimsAfter(k), level, ReasonsAfter(k), cs, Models)
  BY <1>1, CutKeeps DEF IndInv
<1> QED BY <1>2, <1>3, PushKeeps DEF Lv

\* attach_clause leaves every antecedent as it is.
LEMMA AttachKeeps ==
  ASSUME IndInv, Sound, NEW c \in SUBSET Lit, NEW w0 \in Lit, NEW w1 \in Lit,
         NEW b \in BOOLEAN, Attach(c, w0, w1, b)
  PROVE  /\ clauses' \in Seq(Clause) /\ Len(clauses') = Len(clauses) + 1
         /\ clauses'[Len(clauses) + 1].lits = c
         /\ clauses'[Len(clauses) + 1].w0 = w0
         /\ \A i \in 1..Len(clauses) : clauses'[i] = clauses[i]
         /\ TrailSound(trail, lims, level, reason, clauses', Models)
         /\ \A M \in SUBSET Models : Follows(M, c) => DbSound(clauses', M)
<1> DEFINE x == [lits |-> c, w0 |-> w0, w1 |-> w1, learnt |-> b]
<1>1. x \in Clause /\ clauses' = Append(clauses, x) /\ clauses \in Seq(Clause)
      /\ x.lits = c /\ x.w0 = w0
  BY DEF Attach, Clause, IndInv, DbOK
<1> HIDE DEF x
<1>2. /\ clauses' \in Seq(Clause) /\ Len(clauses') = Len(clauses) + 1
      /\ clauses'[Len(clauses) + 1] = x /\ Len(clauses) \in Nat
      /\ \A i \in 1..Len(clauses) : clauses'[i] = clauses[i]
  BY <1>1, AppendProperties, LenProperties
<1>3. \A i \in 1..Len(clauses') : i = Len(clauses) + 1 \/ i \in 1..Len(clauses)
  BY <1>2
<1>4. TrailSound(trail, lims, level, reason, clauses', Models)
  <2>1. \A i \in 1..Len(clauses) : i \in 1..Len(clauses')
    BY <1>2
  <2> QED BY <1>2, <2>1, ClausesKeep DEF Sound, TrailSound, Implied
<1>5. ASSUME NEW M \in SUBSET Models, Follows(M, c) PROVE DbSound(clauses', M)
  BY <1>1, <1>2, <1>3, <1>5 DEF Sound, DbSound, Follows
<1> QED BY <1>1, <1>2, <1>4, <1>5

\* The places of search() with nothing to remember.
Elsewhere == pc' \notin {"conflict", "analyze", "learn", "theory"}

\* Steps that end there leave nothing to show of a conflict or an answer.
LEMMA QuietSound ==
  ASSUME Elsewhere PROVE ConflictSound' /\ AnalysisSound' /\ AnswerSound'
BY DEF Elsewhere, ConflictSound, AnalysisSound, AnswerSound

\* Unsat stays real while clauses are only added.
LEMMA UnsatSame ==
  ASSUME UnsatIsReal, inputs \subseteq inputs', ok' = ok,
         verdict' # "unsat" \/ UNCHANGED <<verdict, run>>
  PROVE  UnsatIsReal'
BY DEF UnsatIsReal, Models

\* Unsat is real once nothing satisfies the inputs.
LEMMA UnsatFound ==
  ASSUME Models = {}, inputs \subseteq inputs' PROVE UnsatIsReal'
BY DEF UnsatIsReal, Models

-----------------------------------------------------------------------------
(* The caller's operations.                                                *)

\* Where nothing need be remembered, the invariant is that of the trail, of
\* the database and of the queue.
LEMMA Arrive ==
  ASSUME Elsewhere, inputs' = inputs,
         TrailSound(trail', lims', level', reason', clauses', Models),
         DbSound(clauses', Models), QueueSound(pending', Models), UnsatIsReal'
  PROVE  Sound'
<1>1. Models' = Models
  BY DEF Models
<1> QED BY <1>1, QuietSound DEF Sound

\* Steps that touch neither the trail nor the database.
LEMMA SameSound ==
  ASSUME Sound, Elsewhere, UNCHANGED <<trail, lims, level, reason, clauses>>,
         inputs' = inputs, QueueSound(pending', Models), UnsatIsReal'
  PROVE  Sound'
BY Arrive DEF Sound

\* Plain backtracking.
LEMMA CancelSound ==
  ASSUME IndInv, Sound, NEW k \in Nat
  PROVE  TrailSound(TrailAfter(k), LimsAfter(k), level, ReasonsAfter(k),
                    clauses, Models)
BY Typed, CutKeeps DEF IndInv, Sound

\* Backtracking to level 0 leaves no level.
LEMMA RootLims == ASSUME IndInv PROVE LimsAfter(0) = <<>>
<1>1. LimsAfter(0) \in Seq(Nat) /\ Len(LimsAfter(0)) = 0
  BY LimsLeft, Typed DEF IndInv
<1> QED BY <1>1, EmptySeq

\* What is left then follows.
LEMMA RootFollows ==
  ASSUME IndInv, Sound, NEW l \in Range(RootTrail)
  PROVE  Follows(Models, {l})
<1>1. TrailSound(RootTrail, <<>>, level, ReasonsAfter(0), clauses, Models)
  BY CancelSound, RootLims DEF RootTrail
<1>2. RootTrail \in Seq(Lit)
  BY TrailAfterType DEF IndInv, RootTrail
<1>3. PICK i \in 1..Len(RootTrail) : RootTrail[i] = l
  BY <1>2, RangeIs
<1>4. level[VarOf(l)] \in Nat /\ Len(<<>>) = 0
  BY <1>2, <1>3, RangeIs, EmptySeq DEF IndInv, TrailOK
<1>5. level[VarOf(l)] = 0
  <2>1. level[VarOf(RootTrail[i])] <= Len(<<>>)
    BY <1>1 DEF TrailSound, Bounded
  <2> QED BY <1>3, <1>4, <2>1
<1> QED BY <1>1, <1>3, <1>5 DEF TrailSound, Rooted

\* add_clause keeps the invariant: the clause joins those that are to follow.
LEMMA CallAddSound ==
  ASSUME NEW c, CallAdd(c)
  PROVE  /\ Models' \subseteq Models /\ Follows(Models', c) /\ Elsewhere
         /\ verdict' = "none" /\ inputs \subseteq inputs'
BY DEF CallAdd, Models, Follows, Elsewhere

\* add_clause of a tautology, or on an inconsistent instance, changes no book.
LEMMA AddIgnoredSound ==
  ASSUME IndInv, Sound, NEW c, AddIgnored(c) PROVE Sound'
<1>1. /\ CallAdd(c) /\ UNCHANGED <<ok, trail, lims, level, reason, clauses, pending>>
  BY DEF AddIgnored, dbVars, trailVars
<1>2. /\ Models' \subseteq Models /\ Elsewhere
      /\ verdict' = "none" /\ inputs \subseteq inputs'
  BY <1>1, CallAddSound
<1>3. TrailSound(trail', lims', level', reason', clauses', Models')
  BY <1>1, <1>2, FewerModels DEF Sound
<1>4. DbSound(clauses', Models') /\ QueueSound(pending', Models')
  BY <1>1, <1>2 DEF Sound, DbSound, QueueSound, Follows
<1>5. UnsatIsReal'
  BY <1>1, <1>2, UnsatSame DEF Sound
<1> QED BY <1>2, <1>3, <1>4, <1>5, QuietSound DEF Sound

\* add_clause above level 0 queues the clause it was given.
LEMMA AddDeferredSound ==
  ASSUME IndInv, Sound, NEW c, AddDeferred(c) PROVE Sound'
<1>1. /\ CallAdd(c) /\ UNCHANGED <<trail, lims, level, reason, clauses>>
      /\ pending' = pending \/ pending' = Append(pending, c)
      /\ c # {} => ok' /\ ok
  BY DEF AddDeferred, dbVars
<1>2. /\ Models' \subseteq Models /\ Follows(Models', c) /\ Elsewhere
      /\ verdict' = "none" /\ inputs \subseteq inputs' /\ c \in SUBSET Lit
  BY <1>1, CallAddSound, CallAddFacts
<1>3. TrailSound(trail', lims', level', reason', clauses', Models')
  BY <1>1, <1>2, FewerModels DEF Sound
<1>4. DbSound(clauses', Models')
  BY <1>1, <1>2 DEF Sound, DbSound, Follows
<1>5. QueueSound(pending', Models')
  <2>1. QueueSound(pending, Models')
    BY <1>2 DEF Sound, QueueSound, Follows
  <2>2. CASE pending' = Append(pending, c)
    <3>1. /\ Len(pending') = Len(pending) + 1 /\ Len(pending) \in Nat
          /\ pending'[Len(pending) + 1] = c
          /\ \A i \in 1..Len(pending) : pending'[i] = pending[i]
      BY <1>2, <2>2, AppendProperties, LenProperties DEF IndInv, RestOK
    <3>2. \A i \in 1..Len(pending') : i = Len(pending) + 1 \/ i \in 1..Len(pending)
      BY <3>1
    <3> QED BY <1>2, <2>1, <3>1, <3>2 DEF QueueSound
  <2> QED BY <1>1, <2>1, <2>2
<1>6. UnsatIsReal'
  <2>1. CASE c = {}
    <3>1. Models' = {}
      BY <1>2, <2>1 DEF Follows
    <3> QED BY <3>1 DEF UnsatIsReal
  <2>2. CASE c # {}
    BY <1>1, <1>2, <2>2 DEF UnsatIsReal
  <2> QED BY <2>1, <2>2
<1> QED BY <1>2, <1>3, <1>4, <1>5, <1>6, QuietSound DEF Sound

\* add_clause at level 0: the clause is stored, asserted, or found empty.
LEMMA AddAtRootSound ==
  ASSUME IndInv, Sound, NEW c, AddAtRoot(c) PROVE Sound'
<1>1. CallAdd(c) /\ lims' = <<>> /\ pending' = pending
  BY DEF AddAtRoot
<1>2. /\ Models' \subseteq Models /\ Follows(Models', c) /\ Elsewhere
      /\ verdict' = "none" /\ inputs \subseteq inputs' /\ c \in SUBSET Lit
  BY <1>1, CallAddSound, CallAddFacts
<1>3. QueueSound(pending', Models') /\ DbSound(clauses, Models')
  BY <1>1, <1>2 DEF Sound, QueueSound, DbSound, Follows
<1>4. LimsAfter(0) = <<>> /\ 0 \in Nat /\ Len(LimsAfter(0)) = 0
  BY RootLims, EmptySeq
<1>5. TrailSound(RootTrail, <<>>, level, ReasonsAfter(0), clauses, Models)
  BY <1>4, CancelSound DEF RootTrail
<1>6. ok' = ok => UnsatIsReal'
  BY <1>2, UnsatSame DEF Sound
<1> DEFINE Good ==
      /\ TrailSound(trail', lims', level', reason', clauses', Models')
      /\ DbSound(clauses', Models') /\ UnsatIsReal'
<1>7. ASSUME trail' = RootTrail, reason' = ReasonsAfter(0),
             UNCHANGED <<ok, dbVars, level>>
      PROVE  Good
  <2>1. TrailSound(trail', lims', level', reason', clauses', Models)
    BY <1>1, <1>5, <1>7 DEF dbVars
  <2> QED BY <1>2, <1>3, <1>6, <1>7, <2>1, FewerModels DEF dbVars
<1>8. ASSUME c = {} \/ \E l \in Range(RootTrail) : c = {-l},
             trail' = RootTrail, reason' = ReasonsAfter(0),
             UNCHANGED <<dbVars, level>>
      PROVE  Good
  <2>1. TrailSound(trail', lims', level', reason', clauses', Models)
    BY <1>1, <1>5, <1>8 DEF dbVars
  <2>2. Models' = {}
    <3>1. CASE c = {}
      BY <1>2, <3>1 DEF Follows
    <3>2. ASSUME NEW l \in Range(RootTrail), c = {-l} PROVE Models' = {}
      <4>1. Follows(Models, {l})
        BY RootFollows
      <4>2. l \in Lit
        BY TrailAfterType, RangeIs DEF IndInv, RootTrail
      <4> SUFFICES ASSUME NEW m \in Models' PROVE FALSE
        OBVIOUS
      <4>3. m \in Models /\ l \in m /\ -l \in m
        BY <1>2, <3>2, <4>1 DEF Follows
      <4> QED BY <4>2, <4>3, ModelFacts
    <3> QED BY <1>8, <3>1, <3>2
  <2>3. UnsatIsReal'
    BY <2>2 DEF UnsatIsReal
  <2> QED BY <1>2, <1>3, <1>8, <2>1, <2>3, FewerModels DEF dbVars
<1>9. ASSUME NEW l \in Lit, c = {l}, {l, -l} \cap Range(RootTrail) = {},
             trail' = Append(RootTrail, l),
             level' = [level EXCEPT ![VarOf(l)] = 0],
             reason' = [ReasonsAfter(0) EXCEPT ![VarOf(l)] = NoReason],
             UNCHANGED <<ok, dbVars>>
      PROVE  Good
  <2>1. TrailTyped(RootTrail, <<>>, level, ReasonsAfter(0), clauses)
    <3>1. /\ RootTrail \in Seq(Lit) /\ level \in [Var -> Nat]
          /\ ReasonsAfter(0) \in [Var -> 0..Len(clauses)] /\ clauses \in Seq(Clause)
      BY <1>4, TrailAfterType, CancelTypes DEF IndInv, RootTrail, TrailOK, DbOK
    <3>2. <<>> \in Seq(Nat) /\ Len(<<>>) = 0
      BY EmptySeq
    <3> QED BY <3>1, <3>2 DEF TrailTyped
  <2>2. TrailSound(RootTrail, <<>>, level, ReasonsAfter(0), clauses, Models')
    BY <1>2, <1>5, FewerModels
  <2>3. /\ l \notin Range(RootTrail) /\ -l \notin Range(RootTrail)
        /\ 0 \in 0..Len(<<>>) /\ Follows(Models', {l})
    BY <1>2, <1>9, EmptySeq
  <2>4. TrailSound(Append(RootTrail, l), <<>>, [level EXCEPT ![VarOf(l)] = 0],
                   [ReasonsAfter(0) EXCEPT ![VarOf(l)] = NoReason], clauses, Models')
    BY <2>1, <2>2, <2>3, PushKeeps
  <2> QED BY <1>1, <1>3, <1>6, <1>9, <2>4 DEF dbVars
<1>10. ASSUME NEW w0 \in c, NEW w1 \in c, Attach(c, w0, w1, FALSE),
              trail' = RootTrail, reason' = ReasonsAfter(0), UNCHANGED <<ok, level>>
       PROVE  Good
  <2>1. w0 \in Lit /\ w1 \in Lit /\ FALSE \in BOOLEAN
    BY <1>2
  <2>2. /\ clauses' \in Seq(Clause) /\ Len(clauses') = Len(clauses) + 1
        /\ TrailSound(trail, lims, level, reason, clauses', Models)
        /\ DbSound(clauses', Models')
    BY <1>2, <1>10, <2>1, AttachKeeps
  <2>3. TrailTyped(trail, lims, level, reason, clauses')
    <3>1. Len(clauses) \in Nat
      BY Typed
    <3>2. reason \in [Var -> 0..Len(clauses')]
      BY <2>2, <3>1 DEF IndInv, ReasonOK
    <3> QED BY <2>2, <3>2 DEF TrailTyped, IndInv, TrailOK
  <2>4. TrailSound(RootTrail, <<>>, level, ReasonsAfter(0), clauses', Models)
    BY <1>4, <2>2, <2>3, CutKeeps DEF RootTrail, IndInv
  <2> QED BY <1>1, <1>2, <1>6, <1>10, <2>2, <2>4, FewerModels
<1>11. Good
  <2> HIDE DEF Good
  <2> QED BY <1>7, <1>8, <1>9, <1>10 DEF AddAtRoot
<1> QED BY <1>2, <1>3, <1>11, QuietSound DEF Sound

\* A call of solve leaves the trail of the last one as it is.
LEMMA SolveSound ==
  ASSUME IndInv, Sound, NEW assume, NEW limit, NEW theory,
         Solve(assume, limit, theory)
  PROVE  Sound'
<1>1. clauses' = clauses /\ pending' = pending /\ inputs' = inputs
  BY DEF Solve, dbVars
<1>2. Elsewhere
  BY DEF Solve, ToLoopHead, Elsewhere
<1>3. UnsatIsReal'
  <2>1. CASE ~ok
    BY <1>1, <2>1, UnsatFound DEF Sound, UnsatIsReal
  <2>2. CASE ok' = ok /\ verdict' # "unsat"
    BY <1>1, <2>2, UnsatSame DEF Sound
  <2> QED BY <2>1, <2>2 DEF Solve
<1>4. TrailSound(trail', lims', level', reason', clauses', Models)
  <2>1. CASE UNCHANGED trailVars
    BY <1>1, <2>1 DEF Sound, trailVars
  <2>2. CASE /\ trail' = TrailAfter(0) /\ reason' = ReasonsAfter(0)
             /\ lims' = <<>> /\ UNCHANGED level
    BY <1>1, <2>2, CancelSound, RootLims
  <2> QED BY <2>1, <2>2 DEF Solve
<1> QED BY <1>1, <1>2, <1>3, <1>4, Arrive DEF Sound

\* Every call of the caller keeps the books sound.
LEMMA CallSound == ASSUME IndInv, Sound, Call PROVE Sound'
<1>1. CASE MkVar
  <2>1. /\ UNCHANGED <<trail, lims, level, reason, clauses, pending, inputs, ok>>
        /\ verdict' = "none" /\ pc' = "idle"
    BY <1>1 DEF MkVar, dbVars, apiVars
  <2>2. UnsatIsReal'
    BY <2>1, UnsatSame DEF Sound
  <2> QED BY <2>1, <2>2, SameSound DEF Sound, Elsewhere
<1>2. CASE ResetTheory
  <2>1. /\ UNCHANGED <<trail, lims, level, reason, clauses, pending, inputs, ok>>
        /\ verdict' = "none" /\ pc' = "idle"
    BY <1>2 DEF ResetTheory, dbVars, apiVars
  <2>2. UnsatIsReal'
    BY <2>1, UnsatSame DEF Sound
  <2> QED BY <2>1, <2>2, SameSound DEF Sound, Elsewhere
<1> QED BY <1>1, <1>2, AddIgnoredSound, AddDeferredSound, AddAtRootSound,
           SolveSound DEF Call

-----------------------------------------------------------------------------
(* Attaching what is pending.                                              *)

\* Assigning what clause r implies after backtracking to level k.
LEMMA ImplySound ==
  ASSUME IndInv, NEW cs \in Seq(Clause), Len(clauses) <= Len(cs),
         TrailSound(trail, lims, level, reason, cs, Models),
         NEW k \in Nat, k <= DecisionLevel, NEW l \in Lit,
         l \notin Range(TrailAfter(k)), -l \notin Range(TrailAfter(k)),
         NEW r \in 1..Len(cs), cs[r].lits # {}, cs[r].w0 = l,
         \A q \in cs[r].lits \ {l} : -q \in Range(TrailAfter(k)) /\ Lv(q) <= k,
         Follows(Models, cs[r].lits)
  PROVE  TrailSound(Append(TrailAfter(k), l), LimsAfter(k),
                    [level EXCEPT ![VarOf(l)] = ImpliedLevel(cs[r].lits \ {l}, k)],
                    [ReasonsAfter(k) EXCEPT ![VarOf(l)] = r], cs, Models)
<1> DEFINE c == cs[r].lits
           n == ImpliedLevel(c \ {l}, k)
<1>1. c \in SUBSET Lit
  <2>1. cs[r] \in Clause
    BY ElementOfSeq
  <2> QED BY <2>1 DEF Clause
<1>2. n \in 0..k /\ (Resumable \/ n = k) /\ \A q \in c \ {l} : Lv(q) <= n
  <2>1. level \in [Var -> Nat]
    BY DEF IndInv, TrailOK
  <2> HIDE DEF c
  <2> QED BY <1>1, <2>1, ImpliedLevelFacts DEF c
<1>3. Len(LimsAfter(k)) = k
  BY LimsLeft, Typed DEF IndInv
<1>4. Range(TrailAfter(k)) \subseteq Range(trail)
  BY CutFacts DEF TrailSound, IndInv
<1>5. n = 0 => Follows(Models, {l})
  <2> SUFFICES ASSUME n = 0 PROVE Follows(Models, {l})
    OBVIOUS
  <2>1. ASSUME NEW q \in c \ {l} PROVE Follows(Models, {-q})
    <3>1. q \in Lit /\ Fails(q) /\ Lv(q) <= 0 /\ Lv(q) \in Nat
      BY <1>1, <1>2, <1>4, Typed DEF Fails
    <3> QED BY <3>1, FalseFacts
  <2> QED BY <1>1, <2>1, Residue
<1>6. /\ n \in 0..Len(LimsAfter(k)) /\ (Resumable \/ n \in {0, Len(LimsAfter(k))})
      /\ \A q \in c \ {l} : -q \in Range(TrailAfter(k)) /\ Lv(q) <= n
  BY <1>2, <1>3
<1> HIDE DEF n
<1>7. TrailSound(Append(TrailAfter(k), l), LimsAfter(k),
                 [level EXCEPT ![VarOf(l)] = n],
                 [ReasonsAfter(k) EXCEPT ![VarOf(l)] = r], cs, Models)
  BY <1>5, <1>6, AssignSound
<1> QED BY <1>7 DEF n

\* Backtracking to the current level changes nothing.
LEMMA Uncut ==
  ASSUME IndInv
  PROVE  /\ TrailAfter(DecisionLevel) = trail /\ LimsAfter(DecisionLevel) = lims
         /\ ReasonsAfter(DecisionLevel) = reason
<1>1. DecisionLevel <= DecisionLevel
  BY Typed
<1>2. TrailAfter(DecisionLevel) = trail /\ LimsAfter(DecisionLevel) = lims
  BY <1>1 DEF TrailAfter, LimsAfter
<1>3. ReasonsAfter(DecisionLevel) = reason
  BY <1>2 DEF ReasonsAfter, Undone, IndInv, ReasonOK
<1> QED BY <1>2, <1>3

\* attach_pending takes a clause that follows.
LEMMA TakePendingSound ==
  ASSUME IndInv, Sound, TakePending
  PROVE  /\ Head(pending) \in SUBSET Lit /\ Follows(Models, Head(pending))
         /\ QueueSound(pending', Models) /\ inputs' = inputs
<1>1. /\ pending \in Seq(SUBSET Lit) /\ pending # <<>> /\ pending' = Tail(pending)
      /\ inputs' = inputs
  BY DEF IndInv, RestOK, TakePending, apiVars
<1>2. /\ Len(pending) \in Nat /\ Len(pending) # 0
      /\ Len(pending') = Len(pending) - 1
      /\ \A i \in 1..Len(pending') : pending'[i] = pending[i + 1]
      /\ Head(pending) = pending[1] /\ Head(pending) \in SUBSET Lit
  BY <1>1, HeadTailProperties, LenProperties, EmptySeq
<1>3. Follows(Models, Head(pending))
  BY <1>2 DEF Sound, QueueSound
<1>4. QueueSound(pending', Models)
  <2>1. \A i \in 1..Len(pending') : i + 1 \in 1..Len(pending)
    BY <1>2
  <2> QED BY <1>2, <2>1 DEF Sound, QueueSound
<1> QED BY <1>1, <1>2, <1>3, <1>4

\* A false literal above level 0 is free once its level is left.
LEMMA FalseFreed ==
  ASSUME IndInv, NEW cs, TrailSound(trail, lims, level, reason, cs, Models),
         NEW l \in Lit, Fails(l), NEW k \in Nat, k < Lv(l)
  PROVE  l \notin Range(TrailAfter(k)) /\ -l \notin Range(TrailAfter(k))
<1>1. -l \in Range(trail) /\ -(-l) = l /\ Lv(-l) = Lv(l) /\ Lv(l) \in Nat
  BY Typed DEF Fails
<1> QED BY <1>1, CutFacts DEF TrailSound, IndInv

\* Asserting a literal that follows, below the level at which it is false.
LEMMA FactSound ==
  ASSUME IndInv, Sound, NEW l \in Lit, Fails(l), Lv(l) > 0, Follows(Models, {l}),
         CancelAndAssign(Lv(l) - 1, l, NoReason, 0)
  PROVE  TrailSound(trail', lims', level', reason', clauses, Models)
<1> DEFINE k == Lv(l) - 1
<1>1. Lv(l) \in Nat /\ k \in Nat /\ k < Lv(l)
  BY Typed
<1> HIDE DEF k
<1>2. l \notin Range(TrailAfter(k)) /\ -l \notin Range(TrailAfter(k))
  BY <1>1, FalseFreed DEF Sound
<1>3. 0 \in 0..Len(LimsAfter(k))
  BY <1>1, LimsLeft DEF IndInv
<1>4. clauses \in Seq(Clause) /\ Len(clauses) <= Len(clauses)
  BY Typed DEF IndInv, DbOK
<1>5. TrailSound(Append(TrailAfter(k), l), LimsAfter(k),
                 [level EXCEPT ![VarOf(l)] = 0],
                 [ReasonsAfter(k) EXCEPT ![VarOf(l)] = NoReason], clauses, Models)
  BY <1>1, <1>2, <1>3, <1>4, AssignSound DEF Sound
<1> QED BY <1>5 DEF CancelAndAssign, Retract, k

\* Two literals that follow exclude each other.
LEMMA Contradiction ==
  ASSUME NEW l \in Lit, Follows(Models, {l}), Follows(Models, {-l})
  PROVE  Models = {}
BY Residue, NoModels

\* A queued clause with one literal left is entailed and is asserted at its level.
LEMMA PendingUnitSound ==
  ASSUME IndInv, Sound, PendingUnit PROVE Sound'
<1>1. TakePending /\ clauses' = clauses
  BY DEF PendingUnit, dbVars
<1>2. PICK l \in Lit : PendingUnit!3!(l)
  BY DEF PendingUnit
<1>3. /\ Follows(Models, {l}) /\ QueueSound(pending', Models) /\ inputs' = inputs
      /\ run' = run
  BY <1>1, <1>2, TakePendingSound DEF TakePending
<1>4. NextPending \/ StopAttaching => Elsewhere /\ verdict' = verdict
  BY DEF NextPending, StopAttaching, Elsewhere
<1>5. CASE /\ Holds(l)
           /\ level' = [level EXCEPT ![VarOf(l)] = 0]
           /\ reason' = [reason EXCEPT ![VarOf(l)] = NoReason]
           /\ UNCHANGED <<ok, trail, lims, heap, qhead, stable>>
           /\ NextPending
  <2>1. TrailSound(trail', lims', level', reason', clauses', Models)
    BY <1>1, <1>3, <1>5, Typed, LowerKeeps DEF Sound, Holds
  <2>2. UnsatIsReal'
    BY <1>3, <1>4, <1>5, UnsatSame DEF Sound
  <2> QED BY <1>1, <1>3, <1>4, <1>5, <2>1, <2>2, Arrive DEF Sound
<1>6. CASE /\ Fails(l) /\ Lv(l) = 0 /\ ok' = FALSE
           /\ UNCHANGED trailVars /\ Return("unsat")
  <2>1. Models = {}
    BY <1>3, <1>6, FalseFacts, Contradiction DEF Sound
  <2>2. UnsatIsReal'
    BY <1>3, <2>1, UnsatFound
  <2> QED BY <1>1, <1>3, <1>6, <2>2, SameSound DEF trailVars, Return, Elsewhere
<1>7. CASE /\ Fails(l) /\ Lv(l) > 0
           /\ CancelAndAssign(Lv(l) - 1, l, NoReason, 0)
           /\ UNCHANGED ok /\ StopAttaching
  <2>1. TrailSound(trail', lims', level', reason', clauses', Models)
    BY <1>1, <1>3, <1>7, FactSound
  <2>2. UnsatIsReal'
    BY <1>3, <1>4, <1>7, UnsatSame DEF Sound
  <2> QED BY <1>1, <1>3, <1>4, <1>7, <2>1, <2>2, Arrive DEF Sound
<1>8. CASE Free(l) /\ Assign(l, NoReason, 0) /\ UNCHANGED ok /\ StopAttaching
  <2> DEFINE k == DecisionLevel
  <2>1. /\ k \in Nat /\ l \notin Range(TrailAfter(k)) /\ -l \notin Range(TrailAfter(k))
        /\ 0 \in 0..Len(LimsAfter(k)) /\ clauses \in Seq(Clause)
        /\ Len(clauses) <= Len(clauses)
    BY <1>8, Uncut, Typed DEF Free, Holds, Fails, IndInv, DbOK
  <2> HIDE DEF k
  <2>2. TrailSound(Append(TrailAfter(k), l), LimsAfter(k),
                   [level EXCEPT ![VarOf(l)] = 0],
                   [ReasonsAfter(k) EXCEPT ![VarOf(l)] = NoReason], clauses, Models)
    BY <1>3, <2>1, AssignSound DEF Sound
  <2>3. TrailSound(trail', lims', level', reason', clauses', Models)
    BY <1>1, <1>8, <2>2 DEF Assign, CancelAndAssign, Retract, k
  <2>4. UnsatIsReal'
    BY <1>3, <1>4, <1>8, UnsatSame DEF Sound
  <2> QED BY <1>1, <1>3, <1>4, <1>8, <2>3, <2>4, Arrive DEF Sound
<1> QED BY <1>2, <1>5, <1>6, <1>7, <1>8

\* BetterWatch puts no literal before a worse one: behind a false literal all
\* are false.
LEMMA AllFalse ==
  ASSUME IndInv, NEW cs, TrailSound(trail, lims, level, reason, cs, Models),
         NEW c \in SUBSET Lit, NEW x \in c, NEW y \in c, Fails(x),
         <<x, y>> \in {p \in c \X c : BetterWatch(p[1], p[2])}
  PROVE  Fails(y)
<1>1. BetterWatch(x, y)
  OBVIOUS
<1>2. ~Holds(x) /\ ~Free(x)
  BY FalseFacts DEF Free
<1> QED BY <1>1, <1>2 DEF BetterWatch

\* A queued clause with two literals left is stored with its two best watches.
LEMMA PendingClauseSound ==
  ASSUME IndInv, Sound, PendingClause PROVE Sound'
<1> DEFINE c == Head(pending)
           B == {p \in c \X c : BetterWatch(p[1], p[2])}
<1>1. /\ TakePending /\ ok' = ok
      /\ \E w0, w1 \in c :
           /\ FirstTwo(c, B, w0, w1)
           /\ Attach(c, w0, w1, FALSE)
           /\ \/ /\ Holds(w0) \/ ~Fails(w1)
                 /\ UNCHANGED trailVars
                 /\ NextPending
              \/ /\ Free(w0) /\ Fails(w1)
                 /\ Assign(w0, Len(clauses) + 1, ImpliedLevel(c \ {w0}, DecisionLevel))
                 /\ StopAttaching
              \/ /\ Fails(w0)
                 /\ pc' = "conflict" /\ confl' = Len(clauses) + 1
                 /\ UNCHANGED <<trailVars, verdict, todo, analysisVars, theoryVars>>
  BY DEF PendingClause
<1>2. /\ c \in SUBSET Lit /\ Follows(Models, c)
      /\ QueueSound(pending', Models) /\ inputs' = inputs /\ run' = run
  BY <1>1, TakePendingSound DEF TakePending
<1>3. Models' = Models
  BY <1>2 DEF Models
<1> HIDE DEF c, B
<1>4. PICK w0 \in c, w1 \in c :
           /\ FirstTwo(c, B, w0, w1)
           /\ Attach(c, w0, w1, FALSE)
           /\ \/ /\ Holds(w0) \/ ~Fails(w1)
                 /\ UNCHANGED trailVars
                 /\ NextPending
              \/ /\ Free(w0) /\ Fails(w1)
                 /\ Assign(w0, Len(clauses) + 1, ImpliedLevel(c \ {w0}, DecisionLevel))
                 /\ StopAttaching
              \/ /\ Fails(w0)
                 /\ pc' = "conflict" /\ confl' = Len(clauses) + 1
                 /\ UNCHANGED <<trailVars, verdict, todo, analysisVars, theoryVars>>
  BY <1>1
<1>5. w0 \in Lit /\ w1 \in Lit /\ FALSE \in BOOLEAN /\ Models \in SUBSET Models
  BY <1>2
<1>6. /\ clauses' \in Seq(Clause) /\ Len(clauses') = Len(clauses) + 1
      /\ clauses'[Len(clauses) + 1].lits = c
      /\ clauses'[Len(clauses) + 1].w0 = w0
      /\ TrailSound(trail, lims, level, reason, clauses', Models)
      /\ DbSound(clauses', Models)
  BY <1>2, <1>4, <1>5, AttachKeeps
<1>7. Len(clauses) \in Nat /\ Len(clauses) + 1 \in 1..Len(clauses')
      /\ Len(clauses) <= Len(clauses')
  BY <1>6, Typed
<1>8. verdict' = verdict => UnsatIsReal'
  BY <1>1, <1>2, UnsatSame DEF Sound
<1>9. /\ \A x \in c \ {w0, w1} : <<w1, x>> \in B
      /\ \A x \in c \ {w0} : <<w0, x>> \in B
  BY <1>4 DEF FirstTwo
<1>10. CASE UNCHANGED trailVars /\ NextPending
  BY <1>2, <1>6, <1>8, <1>10, Arrive DEF trailVars, NextPending, Elsewhere
<1>11. CASE /\ Free(w0) /\ Fails(w1)
            /\ Assign(w0, Len(clauses) + 1, ImpliedLevel(c \ {w0}, DecisionLevel))
            /\ StopAttaching
  <2> DEFINE k == DecisionLevel
             r == Len(clauses) + 1
  <2>1. \A q \in c \ {w0} : Fails(q)
    <3> TAKE q \in c \ {w0}
    <3>1. q = w1 \/ <<w1, q>> \in B
      BY <1>9
    <3> QED BY <1>2, <1>11, <3>1, AllFalse DEF B, Sound
  <2>2. \A q \in c \ {w0} : -q \in Range(TrailAfter(k)) /\ Lv(q) <= k
    BY <1>2, <2>1, Uncut, FalseFacts DEF Fails, Sound
  <2>3. /\ k \in Nat /\ k <= DecisionLevel
        /\ w0 \notin Range(TrailAfter(k)) /\ -w0 \notin Range(TrailAfter(k))
    BY <1>11, Uncut, Typed DEF Free, Holds, Fails
  <2>4. r \in 1..Len(clauses') /\ clauses'[r].lits = c /\ clauses'[r].w0 = w0 /\ c # {}
    BY <1>6, <1>7
  <2> HIDE DEF k, r
  <2>5. TrailSound(Append(TrailAfter(k), w0), LimsAfter(k),
                   [level EXCEPT ![VarOf(w0)] = ImpliedLevel(c \ {w0}, k)],
                   [ReasonsAfter(k) EXCEPT ![VarOf(w0)] = r], clauses', Models)
    BY <1>2, <1>5, <1>6, <1>7, <2>2, <2>3, <2>4, ImplySound
  <2>6. TrailSound(trail', lims', level', reason', clauses', Models)
    BY <1>11, <2>5 DEF Assign, CancelAndAssign, Retract, k, r
  <2> QED BY <1>2, <1>6, <1>8, <1>11, <2>6, Arrive DEF StopAttaching, Elsewhere
<1>12. CASE /\ Fails(w0)
            /\ pc' = "conflict" /\ confl' = Len(clauses) + 1
            /\ UNCHANGED <<trailVars, verdict, todo, analysisVars, theoryVars>>
  <2>1. \A q \in c : Fails(q)
    <3> TAKE q \in c
    <3>1. q = w0 \/ <<w0, q>> \in B
      BY <1>9
    <3> QED BY <1>2, <1>12, <3>1, AllFalse DEF B, Sound
  <2>2. trail' = trail /\ UNCHANGED <<lims, level, reason, verdict>>
    BY <1>12 DEF trailVars
  <2>3. ConflictSound'
    <3>1. clauses'[confl'].lits = c /\ clauses'[confl'].w0 = w0 /\ c # {}
      BY <1>6, <1>12
    <3>2. \A q \in c : Fails(q)'
      BY <2>1, <2>2 DEF Fails
    <3> QED BY <3>1, <3>2 DEF ConflictSound
  <2>4. AnalysisSound' /\ AnswerSound'
    BY <1>12 DEF AnalysisSound, AnswerSound
  <2> QED BY <1>2, <1>3, <1>6, <1>8, <2>2, <2>3, <2>4 DEF Sound
<1> QED BY <1>4, <1>10, <1>11, <1>12

-----------------------------------------------------------------------------
(* propagate.                                                              *)

\* Other watches for clause i, and its literals in another order, disturb no
\* antecedent as long as one stays in front of the literal it implies.
LEMMA RewatchKeeps ==
  ASSUME IndInv, Sound, NEW i \in 1..Len(clauses), NEW a \in Lit, NEW b \in Lit,
         clauses' = [clauses EXCEPT ![i].w0 = a, ![i].w1 = b],
         a = clauses[i].w0
           \/ \A j \in 1..Len(trail) : reason[VarOf(trail[j])] # i
  PROVE  /\ clauses' \in Seq(Clause) /\ Len(clauses') = Len(clauses)
         /\ \A n \in 1..Len(clauses) : clauses'[n].lits = clauses[n].lits
         /\ clauses'[i].w0 = a
         /\ TrailSound(trail, lims, level, reason, clauses', Models)
         /\ DbSound(clauses', Models)
<1>1. clauses' \in Seq(Clause) /\ Len(clauses') = Len(clauses)
  BY RewatchSeq DEF IndInv
<1>2. DOMAIN clauses = 1..Len(clauses) /\ clauses[i] \in Clause
  BY LenProperties, ElementOfSeq DEF IndInv, DbOK
<1>3. clauses'[i] = [clauses[i] EXCEPT !.w0 = a, !.w1 = b]
      /\ \A n \in 1..Len(clauses) \ {i} : clauses'[n] = clauses[n]
  BY <1>2
<1>4. clauses'[i].lits = clauses[i].lits /\ clauses'[i].w0 = a
  BY <1>2, <1>3 DEF Clause
<1>5. \A n \in 1..Len(clauses) : clauses'[n].lits = clauses[n].lits
  BY <1>3, <1>4
<1>6. TrailSound(trail, lims, level, reason, clauses', Models)
  <2>1. ASSUME NEW j \in 1..Len(trail), reason[VarOf(trail[j])] # NoReason
        PROVE  /\ reason[VarOf(trail[j])] \in 1..Len(clauses')
               /\ clauses'[reason[VarOf(trail[j])]].lits
                    = clauses[reason[VarOf(trail[j])]].lits
               /\ clauses'[reason[VarOf(trail[j])]].w0
                    = clauses[reason[VarOf(trail[j])]].w0
    <3> DEFINE r == reason[VarOf(trail[j])]
    <3>1. r \in 1..Len(clauses)
      BY <2>1 DEF Sound, TrailSound, Implied
    <3> HIDE DEF r
    <3>2. r = i => a = clauses[i].w0
      BY DEF r
    <3>3. clauses'[r].w0 = clauses[r].w0
      BY <1>3, <1>4, <3>1, <3>2
    <3> QED BY <1>1, <1>5, <3>1, <3>3 DEF r
  <2>2. TrailSound(trail, lims, level, reason, clauses, Models)
    BY DEF Sound
  <2> HIDE DEF Sound
  <2> QED BY ONLY <2>1, <2>2, ClausesKeep
<1>7. DbSound(clauses', Models)
  BY <1>1, <1>5 DEF Sound, DbSound
<1> QED BY <1>1, <1>4, <1>5, <1>6, <1>7

\* A clause visited by propagate keeps what it implies in front: the literal
\* implied holds, and the one being propagated is false.
LEMMA VisitKeeps ==
  ASSUME IndInv, Sound, NEW w \in todo, NEW b \in Lit,
         clauses' = [clauses EXCEPT ![w.cref].w0 = OtherWatch(clauses[w.cref]),
                                    ![w.cref].w1 = b]
  PROVE  /\ clauses' \in Seq(Clause) /\ Len(clauses') = Len(clauses)
         /\ \A n \in 1..Len(clauses) : clauses'[n].lits = clauses[n].lits
         /\ clauses'[w.cref].w0 = OtherWatch(clauses[w.cref])
         /\ TrailSound(trail, lims, level, reason, clauses', Models)
         /\ DbSound(clauses', Models)
<1> DEFINE i == w.cref
           a == OtherWatch(clauses[i])
<1>1. i \in 1..Len(clauses) /\ a \in Lit
  BY ScanFacts
<1>2. a = clauses[i].w0 \/ \A j \in 1..Len(trail) : reason[VarOf(trail[j])] # i
  <2> SUFFICES ASSUME NEW j \in 1..Len(trail), reason[VarOf(trail[j])] = i
               PROVE  a = clauses[i].w0
    OBVIOUS
  <2>1. clauses[i].w0 = trail[j]
    <3>1. i # NoReason
      BY <1>1, Typed DEF NoReason
    <3> HIDE DEF i
    <3> QED BY <3>1 DEF Sound, TrailSound, Implied
  <2>2. /\ trail \in Seq(Lit) /\ Distinct(trail) /\ trail[j] \in Range(trail)
        /\ Propagated \in Range(trail)
    <3>1. qhead \in 1..Len(trail)
      BY DEF IndInv, LocalsOK
    <3>2. trail \in Seq(Lit) /\ Distinct(trail)
      BY Typed DEF Sound, TrailSound
    <3> QED BY <3>1, <3>2, RangeIs DEF Propagated
  <2>3. -Propagated # trail[j]
    BY <2>2, Consistent
  <2> QED BY <2>1, <2>3 DEF OtherWatch
<1> HIDE DEF a
<1> QED BY <1>1, <1>2, RewatchKeeps DEF a

\* A step of propagate goes on propagating, or has found a conflict.
LEMMA PropagatingSound ==
  ASSUME Sound, Propagating
  PROVE  /\ pc = "bcp" /\ Models' = Models /\ QueueSound(pending', Models)
         /\ UnsatIsReal' /\ inputs' = inputs
BY UnsatSame DEF Sound, Propagating, apiVars, Models

\* While the trail stands, propagate changes nothing but the clauses' order.
LEMMA ScanSound ==
  ASSUME Sound, Propagating, pc' = pc, UNCHANGED <<trail, lims, level, reason>>,
         TrailSound(trail, lims, level, reason, clauses', Models),
         DbSound(clauses', Models)
  PROVE  Sound'
BY PropagatingSound, Arrive DEF Elsewhere

\* All other literals of a clause without replacement are false.
LEMMA NoReplacement ==
  ASSUME IndInv, Sound, NEW w \in todo, Replacements(w.cref) = {}
  PROVE  \A q \in clauses[w.cref].lits \ {OtherWatch(clauses[w.cref])} : Fails(q)
<1>1. Fails(-Propagated)
  <2>1. qhead \in 1..Len(trail) /\ trail \in Seq(Lit)
    BY Typed DEF IndInv, LocalsOK
  <2>2. trail[qhead] \in Range(trail) /\ trail[qhead] \in Lit
    BY <2>1, RangeIs
  <2> QED BY <2>2, LitPairs DEF Fails, Propagated
<1> QED BY <1>1 DEF Replacements

\* A step that implies a literal keeps the invariant: its antecedent's other
\* literals are all false.
LEMMA ImplyUnitSound ==
  ASSUME IndInv, Sound, NEW w \in todo, ImplyUnit(w) PROVE Sound'
<1> DEFINE c == clauses[w.cref].lits
           first == OtherWatch(clauses[w.cref])
           k == DecisionLevel
<1>1. /\ Propagating /\ pc' = pc /\ ~Deleted(w.cref) /\ Free(first)
      /\ Replacements(w.cref) = {} /\ clauses' = Reordered(w.cref)
      /\ Assign(first, w.cref, ImpliedLevel(c \ {first}, k))
  BY DEF ImplyUnit, Visit
<1>2. /\ first \in Lit /\ w.cref \in 1..Len(clauses) /\ c \subseteq Lit
      /\ -Propagated \in Lit
  BY ScanFacts
<1>3. /\ clauses' \in Seq(Clause) /\ Len(clauses') = Len(clauses)
      /\ clauses'[w.cref].lits = c /\ clauses'[w.cref].w0 = first
      /\ TrailSound(trail, lims, level, reason, clauses', Models)
      /\ DbSound(clauses', Models)
  BY <1>1, <1>2, VisitKeeps DEF Reordered
<1>4. Follows(Models, c) /\ c # {}
  BY <1>1, <1>2 DEF Deleted, Sound, DbSound
<1>5. \A q \in c \ {first} : -q \in Range(TrailAfter(k)) /\ Lv(q) <= k
  <2> TAKE q \in c \ {first}
  <2>1. Fails(q) /\ q \in Lit
    BY <1>1, <1>2, NoReplacement
  <2> QED BY <2>1, Uncut, FalseFacts DEF Fails, Sound
<1>6. /\ k \in Nat /\ k <= DecisionLevel /\ Len(clauses) <= Len(clauses')
      /\ w.cref \in 1..Len(clauses')
      /\ first \notin Range(TrailAfter(k)) /\ -first \notin Range(TrailAfter(k))
  BY <1>1, <1>2, <1>3, Uncut, Typed DEF Free, Holds, Fails
<1> HIDE DEF c, first, k
<1>7. TrailSound(Append(TrailAfter(k), first), LimsAfter(k),
                 [level EXCEPT ![VarOf(first)] = ImpliedLevel(c \ {first}, k)],
                 [ReasonsAfter(k) EXCEPT ![VarOf(first)] = w.cref],
                 clauses', Models)
  BY <1>2, <1>3, <1>4, <1>5, <1>6, ImplySound
<1>8. TrailSound(trail', lims', level', reason', clauses', Models)
  BY <1>1, <1>7 DEF Assign, CancelAndAssign, Retract, k
<1> QED BY <1>1, <1>3, <1>8, PropagatingSound, Arrive DEF Elsewhere

\* A conflict found by propagate is a clause whose literals are all false.
LEMMA FindConflictSound ==
  ASSUME IndInv, Sound, NEW w \in todo, FindConflict(w) PROVE Sound'
<1> DEFINE c == clauses[w.cref].lits
           first == OtherWatch(clauses[w.cref])
<1>1. /\ Propagating /\ pc' = "conflict" /\ confl' = w.cref
      /\ ~Deleted(w.cref) /\ Fails(first)
      /\ Replacements(w.cref) = {} /\ clauses' = Reordered(w.cref)
      /\ UNCHANGED <<trail, lims, level, reason>>
  BY DEF FindConflict, Visit
<1>2. w.cref \in 1..Len(clauses) /\ -Propagated \in Lit
  BY ScanFacts
<1>3. /\ clauses'[w.cref].lits = c /\ clauses'[w.cref].w0 = first
      /\ TrailSound(trail, lims, level, reason, clauses', Models)
      /\ DbSound(clauses', Models)
  BY <1>1, <1>2, VisitKeeps DEF Reordered
<1>4. \A q \in c : Fails(q)
  BY <1>1, NoReplacement
<1>5. ConflictSound'
  <2>1. \A q \in c : -q \in Range(trail')
    BY <1>1, <1>4 DEF Fails
  <2>2. c # {} /\ -first \in Range(trail')
    BY <1>1 DEF Deleted, Fails
  <2> HIDE DEF c, first
  <2> QED BY <1>1, <1>3, <2>1, <2>2 DEF ConflictSound, Fails
<1>6. AnalysisSound' /\ AnswerSound'
  BY <1>1 DEF AnalysisSound, AnswerSound
<1> QED BY <1>1, <1>3, <1>5, <1>6, PropagatingSound DEF Sound

\* Every step of propagate keeps the invariant.
LEMMA PropagateSound == ASSUME IndInv, Sound, Propagate PROVE Sound'
<1>1. CASE PropagateNext
  <2>1. Propagating /\ pc' = pc /\ UNCHANGED <<trail, lims, level, reason, clauses>>
    BY <1>1 DEF PropagateNext, dbVars
  <2> QED BY <2>1, ScanSound DEF Sound
<1>2. ASSUME NEW w \in todo, DropStaleWatch(w) \/ SkipBlocked(w) PROVE Sound'
  <2>1. Propagating /\ pc' = pc /\ UNCHANGED <<trail, lims, level, reason, clauses>>
    BY <1>2 DEF DropStaleWatch, SkipBlocked, dbVars, trailVars
  <2> QED BY <2>1, ScanSound DEF Sound
<1>3. ASSUME NEW w \in todo, KeepSatisfied(w) PROVE Sound'
  <2>1. /\ Propagating /\ pc' = pc /\ UNCHANGED <<trail, lims, level, reason>>
        /\ clauses' = Reordered(w.cref) /\ -Propagated \in Lit
    BY <1>3, ScanFacts DEF KeepSatisfied, Visit, trailVars
  <2> QED BY <2>1, VisitKeeps, ScanSound DEF Reordered
<1>4. ASSUME NEW w \in todo, MoveWatch(w) PROVE Sound'
  <2>1. /\ Propagating /\ pc' = pc /\ UNCHANGED <<trail, lims, level, reason>>
        /\ \E l \in Replacements(w.cref) :
             clauses' = [clauses EXCEPT ![w.cref].w0 = OtherWatch(clauses[w.cref]),
                                        ![w.cref].w1 = l]
    BY <1>4 DEF MoveWatch, Visit, trailVars
  <2>2. Replacements(w.cref) \subseteq Lit
    BY ScanFacts DEF Replacements
  <2> QED BY <2>1, <2>2, VisitKeeps, ScanSound
<1> QED BY <1>1, <1>2, <1>3, <1>4, ImplyUnitSound, FindConflictSound DEF Propagate

-----------------------------------------------------------------------------
(* theory_pass.                                                            *)

\* A database that has grown is typed as before.
LEMMA GrownTyped ==
  ASSUME IndInv, clauses' \in Seq(Clause), Len(clauses) <= Len(clauses')
  PROVE  TrailTyped(trail, lims, level, reason, clauses')
<1>1. Len(clauses) \in Nat /\ Len(clauses') \in Nat
  BY Typed, LenProperties
<1>2. reason \in [Var -> 0..Len(clauses')]
  BY <1>1 DEF IndInv, ReasonOK
<1> QED BY <1>2 DEF TrailTyped, IndInv, TrailOK

\* attach_conflict_clause yields a conflict: the backjump leaves the clause
\* false, but for literals false at level 0.
LEMMA AttachConflictSound ==
  ASSUME IndInv, Sound, NEW c \in SUBSET Lit, NEW n \in Nat, AttachConflict(c, n),
         Follows(Models, c), \A q \in c : Fails(q), inputs' = inputs
  PROVE  /\ TrailSound(trail', lims', level', reason', clauses', Models)
         /\ DbSound(clauses', Models) /\ ConflictSound' /\ pc' = "conflict"
<1>1. PICK top \in {Lv(l) : l \in c} :
        /\ \A l \in c : Lv(l) <= top
        /\ trail' = TrailAfter(top)
        /\ reason' = ReasonsAfter(top)
        /\ lims' = LimsAfter(top)
        /\ level' = level
        /\ \E w0, w1 \in c : Attach(c, w0, w1, TRUE)
        /\ confl' = Len(clauses) + 1 /\ pc' = "conflict"
  BY DEF AttachConflict
<1>2. PICK w0 \in c, w1 \in c : Attach(c, w0, w1, TRUE)
  BY <1>1
<1>3. top \in Nat /\ TRUE \in BOOLEAN /\ w0 \in Lit /\ w1 \in Lit
      /\ Models \in SUBSET Models
  BY Typed
<1>4. /\ clauses' \in Seq(Clause) /\ Len(clauses') = Len(clauses) + 1
      /\ clauses'[confl'].lits = c /\ clauses'[confl'].w0 = w0
      /\ TrailSound(trail, lims, level, reason, clauses', Models)
      /\ DbSound(clauses', Models)
  <2>1. Attach(c, w0, w1, TRUE)
    BY <1>2
  <2> QED BY <1>1, <1>3, <2>1, AttachKeeps
<1>5. TrailSound(trail', lims', level', reason', clauses', Models)
  <2>1. Len(clauses) <= Len(clauses')
    BY <1>4, Typed
  <2> QED BY <1>1, <1>3, <1>4, <2>1, GrownTyped, CutKeeps DEF IndInv
<1>6. ASSUME NEW q \in c
      PROVE  \/ -q \in Range(trail')
             \/ ~Resumable /\ Lv(q) = 0 /\ Follows(Models, {-q})
  <2>1. /\ -q \in Range(trail) /\ Lv(-q) = Lv(q) /\ Lv(q) <= top /\ Lv(q) \in Nat
        /\ q \in Lit /\ Fails(q)
    BY <1>1, Typed DEF Fails
  <2>2. Resumable \/ Lv(q) > 0 => -q \in Range(TrailAfter(top))
    BY <1>3, <2>1, CutFacts DEF IndInv, Sound, TrailSound
  <2>3. Lv(q) = 0 => Follows(Models, {-q})
    BY <2>1, FalseFacts DEF Sound
  <2> QED BY <1>1, <2>1, <2>2, <2>3
<1>7. ConflictSound'
  <2>1. Models' = Models
    BY DEF Models
  <2>2. \A q \in c : Fails(q)'
          \/ (~Resumable /\ Lv(q)' = 0 /\ Follows(Models', {-q}))
    BY <1>1, <1>6, <2>1 DEF Fails, Lv
  <2>3. Resumable => -w0 \in Range(trail')
    BY <1>6
  <2> QED BY <1>4, <2>2, <2>3 DEF ConflictSound, Fails
<1> QED BY <1>1, <1>4, <1>5, <1>7

\* The clause of a theory conflict is false and follows.
LEMMA TheoryConflictSound ==
  ASSUME IndInv, Sound, TheoryConflict PROVE Sound'
<1>1. /\ inputs' = inputs /\ pending' = pending /\ ok' = ok /\ verdict' = verdict
      /\ run' = run
  BY DEF TheoryConflict, Consult, apiVars
<1>2. PICK C \in Conflicts : AttachConflict(Negation(C), Len(trail))
  BY DEF TheoryConflict
<1>3. C \subseteq Range(trail) /\ C \in SUBSET Lit /\ Len(trail) \in Nat
      /\ \A m \in TheoryModels : ~(C \subseteq m)
  BY Typed, LenProperties DEF Conflicts
<1>4. Negation(C) \in SUBSET Lit /\ \A q \in Negation(C) : Fails(q)
  BY <1>3, Typed DEF Negation, Fails
<1>5. Follows(Models, Negation(C))
  BY <1>3, TheoryClause
<1>6. /\ TrailSound(trail', lims', level', reason', clauses', Models)
      /\ DbSound(clauses', Models) /\ ConflictSound' /\ pc' = "conflict"
  BY <1>1, <1>2, <1>3, <1>4, <1>5, AttachConflictSound
<1>7. UnsatIsReal' /\ Models' = Models
  BY <1>1, UnsatSame DEF Sound, Models
<1> QED BY <1>1, <1>6, <1>7 DEF Sound, AnalysisSound, AnswerSound

\* The reasons of an implication hold and entail it: the hook's contract.
LEMMA TheoryAnswerSound ==
  ASSUME IndInv, Sound, TheoryAnswer PROVE Sound'
<1>1. /\ inputs' = inputs /\ pending' = pending /\ ok' = ok /\ verdict' = verdict
      /\ run' = run /\ pc' = "theory"
      /\ UNCHANGED <<trail, lims, level, reason, clauses>>
      /\ answer' \subseteq Answers
  BY DEF TheoryAnswer, Consult, apiVars, dbVars
<1>2. AnswerSound'
  <2>1. \A i \in answer' : i.why \subseteq Range(trail) /\ Entails(i.why, i.lit)
    BY <1>1 DEF Answers, Implications
  <2>2. Range(trail') = Range(trail)
    BY <1>1
  <2> QED BY <2>1, <2>2 DEF AnswerSound, Entails
<1>3. UnsatIsReal' /\ Models' = Models
  BY <1>1, UnsatSame DEF Sound, Models
<1> QED BY <1>1, <1>2, <1>3 DEF Sound, ConflictSound, AnalysisSound

\* What processing an answer leaves alone.
LEMMA AnsweringSound ==
  ASSUME Sound, Answering
  PROVE  /\ pc = "theory" /\ pending' = pending /\ run' = run
         /\ inputs' = inputs /\ Models' = Models /\ QueueSound(pending', Models)
         /\ UNCHANGED <<ok, verdict>> => UnsatIsReal'
BY UnsatSame DEF Answering, apiVars, Models, Sound

\* The rest of the answer stays good while the trail only grows.
LEMMA AnswerGoesOn ==
  ASSUME Sound, Answering, answer' \subseteq answer, pc' = pc,
         UNCHANGED <<ok, verdict>>, Range(trail) \subseteq Range(trail'),
         TrailSound(trail', lims', level', reason', clauses', Models),
         DbSound(clauses', Models)
  PROVE  Sound'
<1>1. AnswerSound'
  <2>1. \A i \in answer' : i.why \subseteq Range(trail) /\ Entails(i.why, i.lit)
    BY AnsweringSound DEF Sound, AnswerSound
  <2>2. \A i \in answer' : i.why \subseteq Range(trail')
    BY <2>1
  <2> QED BY <2>1, <2>2 DEF AnswerSound, Entails
<1>2. pc' = "theory"
  BY AnsweringSound
<1> QED BY <1>1, <1>2, AnsweringSound DEF Sound, ConflictSound, AnalysisSound

\* An implication still to process.
LEMMA AnswerFacts ==
  ASSUME IndInv, Sound, Answering, NEW i \in answer
  PROVE  /\ i.lit \in Lit /\ i.why \in SUBSET Lit /\ i.why \subseteq Range(trail)
         /\ Follows(Models, {i.lit} \cup Negation(i.why))
         /\ i.why = {} => Follows(Models, {i.lit})
         /\ Negation(i.why) \subseteq Lit /\ \A q \in Negation(i.why) : Fails(q)
<1>1. i.lit \in Lit /\ i.why \in SUBSET Lit
  BY DEF IndInv, RestOK
<1>2. i.why \subseteq Range(trail) /\ Entails(i.why, i.lit)
  BY DEF Answering, Sound, AnswerSound
<1>3. Follows(Models, {i.lit} \cup Negation(i.why))
  BY <1>1, <1>2, TheoryClause
<1>4. Negation(i.why) \subseteq Lit /\ \A q \in Negation(i.why) : Fails(q)
  BY <1>1, <1>2, Typed DEF Negation, Fails
<1>5. i.why = {} => {i.lit} \cup Negation(i.why) = {i.lit}
  BY DEF Negation
<1> QED BY <1>1, <1>2, <1>3, <1>4, <1>5

\* A valid literal that is false at level 0 leaves no model; above, it is
\* asserted below its level.
LEMMA ValidFailsSound ==
  ASSUME IndInv, Sound, NEW i, ValidFails(i) PROVE Sound'
<1>1. /\ Answering /\ i \in answer /\ i.why = {} /\ Fails(i.lit)
      /\ clauses' = clauses
  BY DEF ValidFails, dbVars
<1>2. i.lit \in Lit /\ Follows(Models, {i.lit})
  BY <1>1, AnswerFacts
<1>3. CASE Lv(i.lit) = 0 /\ UNCHANGED trailVars /\ pc' = "idle"
  <2>1. Models = {}
    BY <1>1, <1>2, <1>3, FalseFacts, Contradiction DEF Sound
  <2>2. UnsatIsReal'
    BY <1>1, <2>1, AnsweringSound, UnsatFound
  <2> QED BY <1>1, <1>3, <2>2, AnsweringSound, SameSound DEF trailVars, Elsewhere
<1>4. CASE /\ Lv(i.lit) > 0
           /\ CancelAndAssign(Lv(i.lit) - 1, i.lit, NoReason, 0)
           /\ LeavePass(IF pending = <<>> THEN "bcp" ELSE "attach")
           /\ UNCHANGED <<ok, verdict>>
  <2>1. TrailSound(trail', lims', level', reason', clauses', Models)
    BY <1>1, <1>2, <1>4, FactSound
  <2>2. Elsewhere
    BY <1>4 DEF LeavePass, Elsewhere
  <2> QED BY <1>1, <1>4, <2>1, <2>2, AnsweringSound, Arrive DEF Sound
<1> QED BY <1>3, <1>4 DEF ValidFails

\* The clause of an implication that fails is false and follows.
LEMMA ImpliedFailsSound ==
  ASSUME IndInv, Sound, NEW i, ImpliedFails(i) PROVE Sound'
<1> DEFINE c == {i.lit} \cup Negation(i.why)
<1>1. /\ Answering /\ i \in answer /\ Fails(i.lit)
      /\ AttachConflict(c, stable) /\ UNCHANGED <<ok, verdict>>
  BY DEF ImpliedFails
<1>2. c \in SUBSET Lit /\ Follows(Models, c) /\ \A q \in c : Fails(q)
  BY <1>1, AnswerFacts
<1>3. stable \in Nat
  BY DEF IndInv, TrailOK
<1> HIDE DEF c
<1>4. /\ TrailSound(trail', lims', level', reason', clauses', Models)
      /\ DbSound(clauses', Models) /\ ConflictSound' /\ pc' = "conflict"
  BY <1>1, <1>2, <1>3, AnsweringSound, AttachConflictSound
<1> QED BY <1>1, <1>4, AnsweringSound DEF Sound, AnalysisSound, AnswerSound

\* A valid literal joins the trail at level 0.
LEMMA ValidAssignedSound ==
  ASSUME IndInv, Sound, NEW i, ValidAssigned(i) PROVE Sound'
<1> DEFINE l == i.lit
<1>1. /\ Answering /\ i \in answer /\ i.why = {} /\ Free(l)
      /\ trail' = Append(trail, l)
      /\ level' = [level EXCEPT ![VarOf(l)] = 0]
      /\ reason' = [reason EXCEPT ![VarOf(l)] = NoReason]
      /\ answer' \subseteq answer
      /\ clauses' = clauses /\ lims' = lims /\ pc' = pc /\ UNCHANGED <<ok, verdict>>
  BY DEF ValidAssigned, dbVars
<1>2. l \in Lit /\ Follows(Models, {l})
  BY <1>1, AnswerFacts
<1>3. 0 \in 0..Len(lims) /\ trail \in Seq(Lit)
  BY Typed
<1> HIDE DEF l
<1>4. TrailSound(trail', lims', level', reason', clauses', Models)
  BY <1>1, <1>2, <1>3, Typed, PushKeeps DEF Sound, Free, Holds, Fails
<1>5. Range(trail) \subseteq Range(trail')
  BY <1>1, <1>2, <1>3, AppendRange
<1> QED BY <1>1, <1>4, <1>5, AnswerGoesOn DEF Sound

\* An implied literal joins the trail with its clause as antecedent.
LEMMA ImpliedAssignedSound ==
  ASSUME IndInv, Sound, NEW i, ImpliedAssigned(i) PROVE Sound'
<1> DEFINE l == i.lit
           others == Negation(i.why)
           k == DecisionLevel
           r == Len(clauses) + 1
<1>1. /\ Answering /\ i \in answer /\ Free(l)
      /\ \E w \in others : Attach({l} \cup others, l, w, TRUE)
      /\ trail' = Append(trail, l)
      /\ level' = [level EXCEPT ![VarOf(l)] = ImpliedLevel(others, k)]
      /\ reason' = [reason EXCEPT ![VarOf(l)] = r]
      /\ answer' \subseteq answer
      /\ lims' = lims /\ pc' = pc /\ UNCHANGED <<ok, verdict>>
  BY DEF ImpliedAssigned
<1>2. /\ l \in Lit /\ others \subseteq Lit /\ \A q \in others : Fails(q)
      /\ Follows(Models, {l} \cup others)
  BY <1>1, AnswerFacts
<1>3. l \notin others
  BY <1>1, <1>2 DEF Free
<1> HIDE DEF l, others
<1>4. PICK w \in others : Attach({l} \cup others, l, w, TRUE)
  BY <1>1
<1>5. /\ clauses' \in Seq(Clause) /\ Len(clauses') = Len(clauses) + 1
      /\ clauses'[r].lits = {l} \cup others /\ clauses'[r].w0 = l
      /\ TrailSound(trail, lims, level, reason, clauses', Models)
      /\ DbSound(clauses', Models)
  <2>1. /\ {l} \cup others \in SUBSET Lit /\ w \in Lit /\ TRUE \in BOOLEAN
        /\ Models \in SUBSET Models
    BY <1>2
  <2> QED BY <1>2, <1>4, <2>1, AttachKeeps
<1>6. /\ k \in Nat /\ k <= DecisionLevel /\ r \in 1..Len(clauses')
      /\ Len(clauses) <= Len(clauses')
      /\ l \notin Range(TrailAfter(k)) /\ -l \notin Range(TrailAfter(k))
  BY <1>1, <1>5, Uncut, Typed DEF Free, Holds, Fails
<1>7. /\ clauses'[r].lits \ {l} = others /\ clauses'[r].lits # {}
      /\ \A q \in others : -q \in Range(TrailAfter(k)) /\ Lv(q) <= k
  BY <1>2, <1>3, <1>5, Uncut, FalseFacts DEF Fails, Sound
<1> HIDE DEF k, r
<1>8. TrailSound(Append(TrailAfter(k), l), LimsAfter(k),
                 [level EXCEPT ![VarOf(l)] = ImpliedLevel(others, k)],
                 [ReasonsAfter(k) EXCEPT ![VarOf(l)] = r], clauses', Models)
  BY <1>2, <1>5, <1>6, <1>7, ImplySound
<1>9. TrailSound(trail', lims', level', reason', clauses', Models)
  BY <1>1, <1>8, Uncut DEF k
<1>10. Range(trail) \subseteq Range(trail')
  BY <1>1, <1>2, Typed, AppendRange
<1> QED BY <1>1, <1>5, <1>9, <1>10, AnswerGoesOn

\* Every step of theory_pass keeps the invariant.
LEMMA TheorySound == ASSUME IndInv, Sound, TheoryPass PROVE Sound'
<1>1. ASSUME NEW i \in answer, ImpliedHolds(i) PROVE Sound'
  <2>1. /\ Answering /\ answer' \subseteq answer /\ pc' = pc
        /\ UNCHANGED <<ok, verdict, trail, lims, level, reason, clauses>>
    BY <1>1 DEF ImpliedHolds, dbVars, trailVars
  <2> QED BY <2>1, AnswerGoesOn DEF Sound
<1>2. CASE EndPass
  <2>1. /\ Answering /\ Elsewhere
        /\ UNCHANGED <<ok, verdict, trail, lims, level, reason, clauses>>
    BY <1>2 DEF EndPass, dbVars, trailVars, LeavePass, Elsewhere
  <2> QED BY <2>1, AnsweringSound, SameSound
<1> QED BY <1>1, <1>2, TheoryConflictSound, TheoryAnswerSound, ValidFailsSound,
           ImpliedFailsSound, ValidAssignedSound, ImpliedAssignedSound DEF TheoryPass

-----------------------------------------------------------------------------
(* Conflicts.                                                              *)

\* A conflict clause follows, and its literals of level 0 are refuted.
LEMMA ConflictIs ==
  ASSUME IndInv, Sound, Conflicting
  PROVE  /\ confl \in 1..Len(clauses) /\ ConflictClause.lits \in SUBSET Lit
         /\ ConflictClause.lits # {} /\ Follows(Models, ConflictClause.lits)
         /\ \A q \in ConflictClause.lits :
              /\ Lv(q) = 0 => Follows(Models, {-q})
              /\ Resumable \/ Lv(q) > 0 => Fails(q)
              /\ Lv(q) <= DecisionLevel /\ Lv(q) <= ConflictLevel
         /\ ConflictLevel \in 0..DecisionLevel
<1> DEFINE c == ConflictClause.lits
           S == {0} \cup {Lv(q) : q \in c}
<1>1. /\ confl \in 1..Len(clauses) /\ c \in SUBSET Lit /\ DecisionLevel \in Nat
      /\ pc = "conflict"
  BY ConflictFacts
<1>2. c # {} /\ \A q \in c :
        Fails(q) \/ (~Resumable /\ Lv(q) = 0 /\ Follows(Models, {-q}))
  BY <1>1 DEF Sound, ConflictSound, ConflictClause
<1>3. Follows(Models, c)
  BY <1>1, <1>2 DEF Sound, DbSound, ConflictClause
<1>4. ASSUME NEW q \in c
      PROVE  /\ Lv(q) = 0 => Follows(Models, {-q})
             /\ Resumable \/ Lv(q) > 0 => Fails(q)
             /\ Lv(q) \in Nat /\ Lv(q) <= DecisionLevel
  <2>1. q \in Lit /\ Lv(q) \in Nat
    BY <1>1, Typed
  <2>2. CASE Fails(q)
    BY <2>1, <2>2, FalseFacts DEF Sound
  <2>3. CASE ~Fails(q)
    <3>1. ~Resumable /\ Lv(q) = 0 /\ Follows(Models, {-q})
      BY <1>2, <2>3
    <3>2. ~(Lv(q) > 0) /\ Lv(q) <= DecisionLevel
      BY <1>1, <3>1
    <3> QED BY <2>1, <3>1, <3>2
  <2> QED BY <2>2, <2>3
<1>5. S \subseteq Nat /\ S # {} /\ \A s \in S : s <= DecisionLevel
  <2>1. \A q \in c : Lv(q) \in Nat /\ Lv(q) <= DecisionLevel
    BY <1>4
  <2>2. 0 \in Nat /\ 0 <= DecisionLevel
    BY <1>1
  <2> HIDE DEF c
  <2> QED BY <2>1, <2>2
<1>6. ConflictLevel = Max(S) /\ \A q \in c : Lv(q) \in S
  BY DEF ConflictLevel
<1> HIDE DEF S
<1>7. Max(S) \in S /\ \A s \in S : s <= Max(S)
  BY <1>1, <1>5, MaxIn
<1>8. ConflictLevel \in Nat /\ ConflictLevel <= DecisionLevel
      /\ \A q \in c : Lv(q) <= ConflictLevel
  BY <1>5, <1>6, <1>7
<1>9. ConflictLevel \in 0..DecisionLevel
  BY <1>1, <1>8
<1>10. c # {}
  BY <1>2
<1> HIDE DEF c
<1> QED BY <1>1, <1>3, <1>4, <1>8, <1>9, <1>10 DEF c

\* What handling a conflict leaves alone.
LEMMA ConflictingSound ==
  ASSUME Sound, Conflicting
  PROVE  /\ inputs' = inputs /\ Models' = Models /\ QueueSound(pending', Models)
         /\ run' = run
         /\ UNCHANGED <<ok, verdict>> => UnsatIsReal'
BY UnsatSame DEF Conflicting, apiVars, Models, Sound

\* A conflict at level 0 leaves no model.
LEMMA RootConflictSound ==
  ASSUME IndInv, Sound, RootConflict PROVE Sound'
<1>1. /\ Conflicting /\ pc' = "idle"
      /\ UNCHANGED <<trail, lims, level, reason, clauses>>
      /\ ConflictLevel = 0 \/ DecisionLevel = 0
  BY DEF RootConflict, Return, dbVars, trailVars
<1>2. \A q \in ConflictClause.lits : Follows(Models, {-q})
  <2> TAKE q \in ConflictClause.lits
  <2>1. Lv(q) \in Nat /\ Lv(q) <= DecisionLevel /\ Lv(q) <= ConflictLevel
    BY <1>1, ConflictIs, Typed
  <2> QED BY <1>1, <2>1, ConflictIs
<1>3. Models = {}
  BY <1>1, <1>2, ConflictIs, Residue, NoModels
<1>4. UnsatIsReal'
  BY <1>1, <1>3, ConflictingSound, UnsatFound
<1> QED BY <1>1, <1>4, ConflictingSound, SameSound DEF Elsewhere

\* The conflict clause with one literal on its level implies the complement
\* just below: it is no antecedent yet, for its first literal is false.
LEMMA UnitBelowSound ==
  ASSUME IndInv, Sound, UnitBelow PROVE Sound'
<1> DEFINE c == ConflictClause.lits
           k == ConflictLevel - 1
<1>1. /\ Conflicting /\ Resumable /\ ConflictLevel > 0 /\ pc' \in {"bcp", "attach"}
      /\ UNCHANGED <<ok, verdict>>
  BY DEF UnitBelow, ToLoopHead, Chronological
<1>2. PICK u \in TopLits :
        /\ TopLits = {u}
        /\ \E b \in {ConflictClause.w0, ConflictClause.w1} :
             clauses' = [clauses EXCEPT ![confl].w0 = u, ![confl].w1 = b]
        /\ CancelAndAssign(k, u, confl, ImpliedLevel(c \ {u}, k))
  BY DEF UnitBelow
<1>3. /\ confl \in 1..Len(clauses) /\ c \in SUBSET Lit /\ c # {}
      /\ Follows(Models, c) /\ ConflictLevel \in 0..DecisionLevel
      /\ \A q \in c : Fails(q) /\ Lv(q) <= ConflictLevel /\ Lv(q) \in Nat
  BY <1>1, ConflictIs, Typed
<1>4. /\ u \in c /\ u \in Lit /\ Lv(u) = ConflictLevel
      /\ \A q \in c \ {u} : Lv(q) # ConflictLevel
      /\ {ConflictClause.w0, ConflictClause.w1} \subseteq Lit
  BY <1>1, <1>2, <1>3, ConflictFacts DEF TopLits
<1>5. /\ k \in Nat /\ k < Lv(u) /\ k <= DecisionLevel
      /\ \A q \in c \ {u} : Lv(q) <= k
  BY <1>1, <1>3, <1>4, Typed
<1>6. PICK b \in {ConflictClause.w0, ConflictClause.w1} :
        clauses' = [clauses EXCEPT ![confl].w0 = u, ![confl].w1 = b]
  BY <1>2
<1>7. \A j \in 1..Len(trail) : reason[VarOf(trail[j])] # confl
  <2> SUFFICES ASSUME NEW j \in 1..Len(trail), reason[VarOf(trail[j])] = confl
               PROVE  FALSE
    OBVIOUS
  <2>1. clauses[confl].w0 = trail[j]
    <3>1. confl # NoReason
      BY <1>3, Typed DEF NoReason
    <3> QED BY <3>1 DEF Sound, TrailSound, Implied
  <2>2. Fails(clauses[confl].w0)
    BY <1>1, ConflictFacts DEF Sound, ConflictSound
  <2>3. trail \in Seq(Lit) /\ Distinct(trail) /\ trail[j] \in Range(trail)
    BY Typed, RangeIs DEF Sound, TrailSound
  <2> QED BY <2>1, <2>2, <2>3, Consistent DEF Fails
<1>8. /\ clauses' \in Seq(Clause) /\ Len(clauses') = Len(clauses)
      /\ clauses'[confl].lits = c /\ clauses'[confl].w0 = u
      /\ TrailSound(trail, lims, level, reason, clauses', Models)
      /\ DbSound(clauses', Models)
  <2>1. b \in Lit
    BY <1>4
  <2> QED BY <1>3, <1>4, <1>6, <1>7, <2>1, RewatchKeeps DEF ConflictClause
<1> HIDE DEF k
<1>9. u \notin Range(TrailAfter(k)) /\ -u \notin Range(TrailAfter(k))
  BY <1>3, <1>4, <1>5, FalseFreed DEF Sound
<1>10. \A q \in c \ {u} : -q \in Range(TrailAfter(k)) /\ Lv(q) <= k
  <2> TAKE q \in c \ {u}
  <2>1. -q \in Range(trail) /\ Lv(-q) = Lv(q) /\ Lv(q) <= k
    BY <1>3, <1>5, Typed DEF Fails
  <2> QED BY <1>1, <1>5, <2>1, CutFacts DEF IndInv, Sound, TrailSound
<1> HIDE DEF c
<1>11. TrailSound(Append(TrailAfter(k), u), LimsAfter(k),
                  [level EXCEPT ![VarOf(u)] = ImpliedLevel(c \ {u}, k)],
                  [ReasonsAfter(k) EXCEPT ![VarOf(u)] = confl], clauses', Models)
  <2>1. confl \in 1..Len(clauses') /\ Len(clauses) <= Len(clauses')
    BY <1>3, <1>8, Typed
  <2> QED BY <1>3, <1>4, <1>5, <1>8, <1>9, <1>10, <2>1, ImplySound
<1>12. TrailSound(trail', lims', level', reason', clauses', Models)
  BY <1>2, <1>11 DEF CancelAndAssign, Retract
<1> QED BY <1>1, <1>8, <1>12, ConflictingSound, Arrive DEF Elsewhere

\* analyze starts from the conflict without its literals of level 0.
LEMMA StartAnalysisSound ==
  ASSUME IndInv, Sound, StartAnalysis PROVE Sound'
<1> DEFINE c == ConflictClause.lits
<1>1. /\ Conflicting /\ pc' = "analyze" /\ clauses' = clauses
      /\ UNCHANGED <<ok, verdict>> /\ resolvent' = {l \in c : Lv(l) > 0}
      /\ (Resumable /\ CancelUntil(ConflictLevel)) \/ UNCHANGED trailVars
  BY DEF StartAnalysis, dbVars, Chronological
<1>2. /\ c \in SUBSET Lit /\ Follows(Models, c)
      /\ \A q \in c : /\ Lv(q) = 0 => Follows(Models, {-q})
                      /\ Lv(q) > 0 => Fails(q)
                      /\ Lv(q) <= ConflictLevel /\ Lv(q) \in Nat
      /\ ConflictLevel \in Nat
  <2>1. c \in SUBSET Lit /\ Follows(Models, c) /\ ConflictLevel \in Nat
    BY <1>1, ConflictIs
  <2>2. \A q \in c : /\ Lv(q) = 0 => Follows(Models, {-q})
                     /\ Lv(q) > 0 => Fails(q)
                     /\ Lv(q) <= ConflictLevel
    BY <1>1, ConflictIs
  <2>3. \A q \in c : Lv(q) \in Nat
    BY <2>1, Typed
  <2> HIDE DEF c
  <2> QED BY <2>1, <2>2, <2>3
<1>3. Follows(Models, resolvent')
  <2>1. \A q \in c \ resolvent' : Follows(Models, {-q})
    BY <1>1, <1>2
  <2> HIDE DEF c
  <2> QED BY <1>2, <2>1, Residue
<1>4. TrailSound(trail', lims', level', reason', clauses', Models)
  <2>1. CASE UNCHANGED trailVars
    BY <1>1, <2>1 DEF Sound, trailVars
  <2>2. CASE CancelUntil(ConflictLevel)
    BY <1>1, <1>2, <2>2, CancelSound DEF CancelUntil, Retract
  <2> QED BY <1>1, <2>1, <2>2
<1>5. \A q \in resolvent' : -q \in Range(trail') /\ Lv(q) > 0
  <2> TAKE q \in resolvent'
  <2>1. /\ q \in c /\ Lv(q) > 0 /\ -q \in Range(trail) /\ Lv(-q) = Lv(q)
        /\ Lv(q) <= ConflictLevel
    BY <1>1, <1>2, Typed DEF Fails
  <2>2. CASE UNCHANGED trailVars
    BY <2>1, <2>2 DEF trailVars
  <2>3. CASE Resumable /\ CancelUntil(ConflictLevel)
    <3>1. -q \in Range(TrailAfter(ConflictLevel))
      BY <1>2, <2>1, <2>3, CutFacts DEF IndInv, Sound, TrailSound
    <3> QED BY <2>1, <2>3, <3>1 DEF CancelUntil
  <2> QED BY <1>1, <2>2, <2>3
<1>6. AnalysisSound'
  <2>1. level' = level /\ Models' = Models
    BY <1>1, ConflictingSound DEF CancelUntil, trailVars
  <2> QED BY <1>1, <1>3, <1>5, <2>1 DEF AnalysisSound, Fails, Lv
<1>7. DbSound(clauses', Models)
  BY <1>1 DEF Sound
<1> QED BY <1>1, <1>4, <1>6, <1>7, ConflictingSound
        DEF Sound, ConflictSound, AnswerSound

\* What analyze leaves alone.
LEMMA AnalyzingSound ==
  ASSUME Sound, Analyzing
  PROVE  /\ UNCHANGED <<trail, lims, level, reason, clauses, inputs>>
         /\ pc = "analyze" /\ Models' = Models /\ QueueSound(pending', Models)
         /\ UnsatIsReal' /\ DecisionLevel' = DecisionLevel
BY UnsatSame DEF Analyzing, dbVars, trailVars, apiVars, Models, Sound, DecisionLevel

\* The invariant after a step of analyze.
LEMMA AnalyzedSound ==
  ASSUME Sound, Analyzing, AnalysisSound', pc' \notin {"conflict", "theory"}
  PROVE  Sound'
BY AnalyzingSound DEF Sound, ConflictSound, AnswerSound

\* The first UIP is the resolvent's only literal of the conflict level.
LEMMA FindUIPSound ==
  ASSUME IndInv, Sound, FindUIP PROVE Sound'
<1>1. /\ Analyzing /\ pc' = "learn" /\ resolvent' = resolvent
      /\ uip' \in Open /\ Open = {uip'}
  BY DEF FindUIP, OpenBelow
<1>2. /\ Follows(Models, resolvent)
      /\ \A q \in resolvent : Fails(q) /\ Lv(q) > 0
  BY <1>1, AnalyzingSound DEF Sound, AnalysisSound
<1>3. uip' \in resolvent /\ Lv(uip') >= DecisionLevel
  BY <1>1 DEF Open
<1>4. \A z \in resolvent \ {uip'} : Lv(z) < DecisionLevel
  <2> TAKE z \in resolvent \ {uip'}
  <2>1. z \in Lit
    BY DEF IndInv, LocalsOK
  <2>2. ~(Lv(z) >= DecisionLevel)
    BY <1>1 DEF Open
  <2> QED BY <2>1, <2>2, Typed
<1>5. AnalysisSound'
  <2>1. \A q : Lv(q)' = level[VarOf(q)] /\ Lv(q) = level[VarOf(q)]
               /\ Fails(q)' = Fails(q)
    BY <1>1, AnalyzingSound DEF Lv, Fails
  <2> QED BY <1>1, <1>2, <1>3, <1>4, <2>1, AnalyzingSound DEF AnalysisSound, Lv, Fails
<1> QED BY <1>1, <1>5, AnalyzedSound

\* A resolution step: the resolvent follows, and its new literals are false.
LEMMA ResolveSound ==
  ASSUME IndInv, Sound, Resolve PROVE Sound'
<1>1. Analyzing /\ pc' = "analyze"
  BY DEF Resolve, Analyzing
<1>2. PICK i \in OpenBelow :
        /\ reason[VarOf(trail[i])] # NoReason
        /\ resolvent' = (resolvent \ {-trail[i]})
                          \cup Antecedents(reason[VarOf(trail[i])])
  BY DEF Resolve
<1> DEFINE p == trail[i]
           r == reason[VarOf(trail[i])]
           c == clauses[r].lits
<1>3. i \in 1..Len(trail) /\ p \in Lit
  BY <1>1, AnalyzingFacts
<1>4. /\ r \in 1..Len(clauses) /\ c # {} /\ clauses[r].w0 = p
      /\ \A q \in c \ {p} : \E j \in 1..Len(trail) : trail[j] = -q
  BY <1>2, <1>3 DEF Sound, TrailSound, Implied
<1>5. /\ c \subseteq Lit /\ trail \in Seq(Lit) /\ Follows(Models, c)
      /\ resolvent \subseteq Lit
  BY <1>4, Typed DEF Sound, DbSound, IndInv, LocalsOK
<1>6. resolvent' = (resolvent \ {-p}) \cup {l \in c \ {p} : Lv(l) > 0}
  BY <1>2, <1>4 DEF Antecedents
<1> HIDE DEF c, r, p
<1>7. \A q \in c \ {p} : Fails(q)
  BY <1>4, <1>5, RangeIs DEF Fails
<1>8. /\ Follows(Models, resolvent)
      /\ \A q \in resolvent : Fails(q) /\ Lv(q) > 0
  BY <1>1, AnalyzingSound DEF Sound, AnalysisSound
<1>9. Follows(Models, resolvent')
  <2>1. Follows(Models, (c \ {p}) \cup (resolvent \ {-p}))
    BY <1>3, <1>5, <1>8, Resolvents
  <2>2. \A q \in ((c \ {p}) \cup (resolvent \ {-p})) \ resolvent' :
          Follows(Models, {-q})
    <3> TAKE q \in ((c \ {p}) \cup (resolvent \ {-p})) \ resolvent'
    <3>1. q \in Lit /\ Fails(q) /\ ~(Lv(q) > 0)
      BY <1>5, <1>6, <1>7
    <3>2. Lv(q) = 0
      BY <3>1, Typed
    <3> QED BY <3>1, <3>2, FalseFacts DEF Sound
  <2>3. (c \ {p}) \cup (resolvent \ {-p}) \in SUBSET Lit
    BY <1>5
  <2> QED BY <2>1, <2>2, <2>3, Residue
<1>10. \A q \in resolvent' : Fails(q) /\ Lv(q) > 0
  BY <1>6, <1>7, <1>8
<1>11. AnalysisSound'
  BY <1>1, <1>9, <1>10, AnalyzingSound DEF AnalysisSound, Fails, Lv
<1> QED BY <1>1, <1>11, AnalyzedSound

-----------------------------------------------------------------------------
(* Learning.                                                               *)

\* The learnt clause is false, with one literal on the conflict level, so
\* that backjumping frees that one and keeps the others false.
LEMMA LearntIs ==
  ASSUME IndInv, Sound, Learning
  PROVE  /\ pc = "learn" /\ uip \in resolvent /\ uip \in Lit
         /\ resolvent \in SUBSET Lit /\ Follows(Models, resolvent)
         /\ \A q \in resolvent : Fails(q) /\ Lv(q) > 0
         /\ BacktrackLevel \in Nat /\ BackjumpLevel \in Nat
         /\ BacktrackLevel < Lv(uip) /\ BacktrackLevel <= DecisionLevel
         /\ \A q \in resolvent \ {uip} : Lv(q) <= BacktrackLevel
<1> DEFINE others == resolvent \ {uip}
           S == {0} \cup {Lv(q) : q \in others}
           B == BackjumpLevel
           D == DecisionLevel
           k == BacktrackLevel
<1>1. /\ pc = "learn" /\ uip \in Lit /\ resolvent \in SUBSET Lit
      /\ B \in Nat /\ k \in Nat
  BY LearningFacts
<1>2. /\ Follows(Models, resolvent) /\ uip \in resolvent
      /\ \A q \in resolvent : Fails(q) /\ Lv(q) > 0
      /\ Lv(uip) >= D /\ \A q \in others : Lv(q) < D
  BY <1>1 DEF Sound, AnalysisSound
<1>3. D \in Nat /\ Lv(uip) \in Nat /\ \A q \in others : Lv(q) \in Nat
  BY <1>1, Typed
<1>4. Lv(uip) <= D
  BY <1>1, <1>2, FalseFacts DEF Sound
<1>5. Lv(uip) = D /\ 0 < D
  <2>1. Lv(uip) > 0
    BY <1>2
  <2> HIDE DEF D
  <2> QED BY <1>2, <1>3, <1>4, <2>1
<1>6. S \subseteq Nat /\ S # {} /\ \A s \in S : s < D
  <2> HIDE DEF others, D
  <2> QED BY <1>2, <1>3, <1>5
<1>7. B = Max(S) /\ \A q \in others : Lv(q) \in S
  BY DEF BackjumpLevel
<1> HIDE DEF S, D
<1>8. Max(S) \in S /\ \A s \in S : s <= Max(S)
  <2>1. \A s \in S : s <= D
    BY <1>3, <1>6
  <2> QED BY <1>3, <1>6, <2>1, MaxIn
<1>9. B < D /\ \A q \in others : Lv(q) <= B
  BY <1>6, <1>7, <1>8
<1>10. k = D - 1 \/ k = B
  BY DEF BacktrackLevel, D
<1>11. B <= k /\ k < D
  <2> HIDE DEF B, k
  <2> QED BY <1>1, <1>3, <1>9, <1>10
<1>12. \A q \in others : Lv(q) <= k
  <2> HIDE DEF B, k, others
  <2> QED BY <1>1, <1>3, <1>9, <1>11
<1>13. k < Lv(uip) /\ k <= D
  <2> HIDE DEF k
  <2> QED BY <1>1, <1>3, <1>5, <1>11
<1> HIDE DEF k
<1> QED BY <1>1, <1>2, <1>12, <1>13 DEF k, D

\* The learnt clause joins the database and asserts its literal.
LEMMA LearnSound == ASSUME IndInv, Sound, Learn PROVE Sound'
<1> DEFINE others == resolvent \ {uip}
           k == BacktrackLevel
           r == Len(clauses) + 1
<1>1. /\ Learning /\ pc' = "account" /\ verdict' = verdict
      /\ UNCHANGED <<ok, run, inputs, pending>>
  BY DEF Learn, Learning, apiVars
<1>2. /\ uip \in resolvent /\ uip \in Lit /\ resolvent \in SUBSET Lit
      /\ Follows(Models, resolvent) /\ k \in Nat /\ k <= DecisionLevel
      /\ k < Lv(uip) /\ Fails(uip)
      /\ \A q \in others : Fails(q) /\ Lv(q) > 0 /\ Lv(q) <= k
  BY <1>1, LearntIs
<1> HIDE DEF k
<1>3. UnsatIsReal' /\ QueueSound(pending', Models) /\ Elsewhere
  BY <1>1, UnsatSame DEF Sound, Elsewhere
<1>4. uip \notin Range(TrailAfter(k)) /\ -uip \notin Range(TrailAfter(k))
  BY <1>2, FalseFreed DEF Sound
<1>5. CASE others = {} /\ CancelAndAssign(k, uip, NoReason, 0) /\ UNCHANGED dbVars
  <2>1. Follows(Models, {uip})
    <3>1. resolvent = {uip}
      BY <1>2, <1>5
    <3> QED BY <1>2, <3>1
  <2>2. 0 \in 0..Len(LimsAfter(k)) /\ clauses \in Seq(Clause)
        /\ Len(clauses) <= Len(clauses)
    BY <1>2, LimsLeft, Typed DEF IndInv, DbOK
  <2>3. TrailSound(Append(TrailAfter(k), uip), LimsAfter(k),
                   [level EXCEPT ![VarOf(uip)] = 0],
                   [ReasonsAfter(k) EXCEPT ![VarOf(uip)] = NoReason],
                   clauses, Models)
    BY <1>2, <1>4, <2>1, <2>2, AssignSound DEF Sound
  <2>4. TrailSound(trail', lims', level', reason', clauses', Models)
    BY <1>5, <2>3 DEF CancelAndAssign, Retract, dbVars
  <2>5. DbSound(clauses', Models)
    BY <1>5 DEF Sound, dbVars
  <2> QED BY <1>1, <1>3, <2>4, <2>5, Arrive
<1>6. ASSUME NEW w \in others, Attach(resolvent, uip, w, TRUE),
             CancelAndAssign(k, uip, r, ImpliedLevel(others, k))
      PROVE  Sound'
  <2>1. /\ clauses' \in Seq(Clause) /\ Len(clauses') = Len(clauses) + 1
        /\ clauses'[r].lits = resolvent /\ clauses'[r].w0 = uip
        /\ TrailSound(trail, lims, level, reason, clauses', Models)
        /\ DbSound(clauses', Models)
    <3>1. w \in Lit /\ TRUE \in BOOLEAN /\ Models \in SUBSET Models
      BY <1>2
    <3> QED BY <1>2, <1>6, <3>1, AttachKeeps
  <2>2. \A q \in others : -q \in Range(TrailAfter(k)) /\ Lv(q) <= k
    <3> TAKE q \in others
    <3>1. -q \in Range(trail) /\ Lv(-q) = Lv(q) /\ Lv(q) <= k /\ Lv(q) > 0
      BY <1>2, Typed DEF Fails
    <3> QED BY <1>2, <3>1, CutFacts DEF IndInv, Sound, TrailSound
  <2>3. /\ r \in 1..Len(clauses') /\ Len(clauses) <= Len(clauses')
        /\ clauses'[r].lits # {} /\ clauses'[r].lits \ {uip} = others
    BY <1>2, <2>1, Typed
  <2> HIDE DEF others, r
  <2>4. TrailSound(Append(TrailAfter(k), uip), LimsAfter(k),
                   [level EXCEPT ![VarOf(uip)] = ImpliedLevel(others, k)],
                   [ReasonsAfter(k) EXCEPT ![VarOf(uip)] = r], clauses', Models)
    BY <1>2, <1>4, <2>1, <2>2, <2>3, ImplySound
  <2>5. TrailSound(trail', lims', level', reason', clauses', Models)
    BY <1>6, <2>4 DEF CancelAndAssign, Retract
  <2> QED BY <1>1, <1>3, <2>1, <2>5, Arrive
<1> QED BY <1>5, <1>6 DEF Learn, k

\* Unsat for want of an assumption says nothing of the models.
LEMMA AssumptionConflictSound ==
  ASSUME IndInv, Sound, AssumptionConflict PROVE Sound'
<1>1. /\ Learning /\ CancelUntil(0) /\ pc' = "idle" /\ clauses' = clauses
      /\ BackjumpLevel < Len(run.assume)
      /\ UNCHANGED <<ok, run, inputs, pending>>
  BY DEF AssumptionConflict, Return, Learning, dbVars, apiVars
<1>2. run'.assume # <<>>
  BY <1>1, LearntIs, EmptySeq
<1>3. UnsatIsReal'
  BY <1>1, <1>2 DEF Sound, UnsatIsReal, Models
<1>4. TrailSound(trail', lims', level', reason', clauses', Models)
  BY <1>1, CancelSound DEF CancelUntil, Retract
<1> QED BY <1>1, <1>3, <1>4, Arrive DEF Sound, Elsewhere

\* Restarting and giving up only backtrack.
LEMMA AccountSound == ASSUME IndInv, Sound, Account PROVE Sound'
<1>1. /\ UNCHANGED <<ok, clauses, inputs, pending>>
      /\ pc' \in {"idle", "reduce", "bcp", "attach"}
      /\ verdict' \in {verdict, "unknown"}
      /\ CancelUntil(0) \/ CancelUntil(Len(run.assume)) \/ UNCHANGED trailVars
  BY DEF Account, ToLoopHead, dbVars, apiVars
<1>2. run \in Search /\ Len(run.assume) \in Nat
  BY LenProperties DEF IndInv, RestOK, Search
<1>3. run'.assume = run.assume
  BY <1>2 DEF Account, Search
<1>4. UnsatIsReal'
  BY <1>1, <1>3 DEF Sound, UnsatIsReal, Models
<1>5. TrailSound(trail', lims', level', reason', clauses', Models)
  <2>1. ASSUME NEW k \in Nat, CancelUntil(k)
        PROVE  TrailSound(trail', lims', level', reason', clauses', Models)
    BY <1>1, <2>1, CancelSound DEF CancelUntil, Retract
  <2>2. CASE UNCHANGED trailVars
    BY <1>1, <2>2 DEF Sound, trailVars
  <2> QED BY <1>1, <1>2, <2>1, <2>2
<1> QED BY <1>1, <1>4, <1>5, Arrive DEF Sound, Elsewhere

\* reduce_db keeps every antecedent: it is locked.
LEMMA ReduceSound == ASSUME IndInv, Sound, Reduce PROVE Sound'
<1>1. /\ UNCHANGED <<ok, verdict, run, inputs, pending, trail, lims, level, reason>>
      /\ pc' \in {"bcp", "attach"}
      /\ \/ clauses' = clauses
         \/ \E gone \in SUBSET {c \in LiveLearnt : ~Locked(c)} :
              clauses' = [c \in DOMAIN clauses |->
                            IF c \in gone THEN [clauses[c] EXCEPT !.lits = {}]
                            ELSE clauses[c]]
  BY DEF Reduce, ToLoopHead, trailVars, apiVars
<1>2. UnsatIsReal' /\ QueueSound(pending', Models) /\ Elsewhere
  BY <1>1, UnsatSame DEF Sound, Elsewhere
<1>3. CASE clauses' = clauses
  BY <1>1, <1>2, <1>3, SameSound
<1>4. ASSUME NEW gone \in SUBSET {c \in LiveLearnt : ~Locked(c)},
             clauses' = [c \in DOMAIN clauses |->
                           IF c \in gone THEN [clauses[c] EXCEPT !.lits = {}]
                           ELSE clauses[c]]
      PROVE  Sound'
  <2>1. DOMAIN clauses = 1..Len(clauses) /\ Len(clauses) \in Nat
        /\ \A c \in 1..Len(clauses) : clauses[c] \in Clause
    BY LenProperties, ElementOfSeq DEF IndInv, DbOK
  <2>2. Len(clauses') = Len(clauses)
    BY <1>4, ReducedSeq DEF IndInv, DbOK
  <2>3. ASSUME NEW j \in 1..Len(trail), reason[VarOf(trail[j])] # NoReason
        PROVE  /\ reason[VarOf(trail[j])] \in 1..Len(clauses')
               /\ clauses'[reason[VarOf(trail[j])]]
                    = clauses[reason[VarOf(trail[j])]]
    <3> DEFINE r == reason[VarOf(trail[j])]
    <3>1. r \in 1..Len(clauses) /\ clauses[r].w0 = trail[j]
      BY <2>3 DEF Sound, TrailSound, Implied
    <3>2. trail[j] \in Range(trail)
      BY Typed, RangeIs
    <3>3. Locked(r)
      BY <3>1, <3>2 DEF Locked, Holds
    <3> HIDE DEF r
    <3>4. r \notin gone
      BY <3>3
    <3> QED BY <1>4, <2>1, <2>2, <3>1, <3>4 DEF r
  <2>4. TrailSound(trail, lims, level, reason, clauses', Models)
    <3>1. TrailSound(trail, lims, level, reason, clauses, Models)
      BY DEF Sound
    <3> HIDE DEF Sound
    <3> QED BY ONLY <2>3, <3>1, ClausesKeep
  <2>5. DbSound(clauses', Models)
    <3> SUFFICES ASSUME NEW i \in 1..Len(clauses), clauses'[i].lits # {}
                 PROVE  Follows(Models, clauses'[i].lits)
      BY <2>2 DEF DbSound
    <3>1. i \notin gone
      <4>1. i \in gone => clauses'[i].lits = {}
        BY <1>4, <2>1 DEF Clause
      <4> QED BY <4>1
    <3>2. clauses'[i] = clauses[i]
      BY <1>4, <2>1, <3>1
    <3> QED BY <3>2 DEF Sound, DbSound
  <2> QED BY <1>1, <1>2, <2>4, <2>5, Arrive
<1> QED BY <1>1, <1>3, <1>4

\* Every step of conflict handling keeps the invariant.
LEMMA HandleSound == ASSUME IndInv, Sound, HandleConflict PROVE Sound'
<1>1. CASE AnalysisPanics
  <2>1. Analyzing /\ pc' = "panic"
    BY <1>1 DEF AnalysisPanics
  <2> QED BY <2>1, AnalyzedSound DEF AnalysisSound
<1> QED BY <1>1, RootConflictSound, UnitBelowSound, StartAnalysisSound,
           ResolveSound, FindUIPSound, AssumptionConflictSound, LearnSound,
           AccountSound, ReduceSound DEF HandleConflict

-----------------------------------------------------------------------------
(* Branching.                                                              *)

\* What branching leaves alone.
LEMMA BranchingSound ==
  ASSUME Sound, Branching
  PROVE  /\ UNCHANGED <<ok, run, clauses, inputs, pending>> /\ Models' = Models
         /\ QueueSound(pending', Models) /\ DbSound(clauses', Models)
         /\ verdict' \in {verdict, "sat"} => UnsatIsReal'
BY DEF Branching, dbVars, apiVars, Models, Sound, UnsatIsReal

\* A decision opens a level of its own.
LEMMA OpenLevelSound ==
  ASSUME IndInv, Sound, NEW l \in Lit, Free(l), OpenLevel(l), clauses' = clauses
  PROVE  TrailSound(trail', lims', level', reason', clauses', Models)
<1> DEFINE ls == Append(lims, Len(trail))
           n == DecisionLevel + 1
<1>1. /\ trail' = Append(trail, l) /\ lims' = ls
      /\ level' = [level EXCEPT ![VarOf(l)] = n]
      /\ reason' = [reason EXCEPT ![VarOf(l)] = NoReason]
  BY DEF OpenLevel
<1>2. TrailTyped(trail, lims, level, reason, clauses)
      /\ DecisionLevel = Len(lims) /\ DecisionLevel \in Nat
  BY Typed
<1>3. /\ TrailTyped(trail, ls, level, reason, clauses)
      /\ TrailSound(trail, ls, level, reason, clauses, Models)
      /\ Len(ls) = Len(lims) + 1
  BY <1>2, OpenKeeps DEF Sound
<1> HIDE DEF ls
<1>4. n \in 0..Len(ls) /\ n = Len(ls) /\ n # 0
  BY <1>2, <1>3
<1> HIDE DEF n
<1>5. l \notin Range(trail) /\ -l \notin Range(trail)
  BY DEF Free, Holds, Fails
<1>6. TrailSound(Append(trail, l), ls, [level EXCEPT ![VarOf(l)] = n],
                 [reason EXCEPT ![VarOf(l)] = NoReason], clauses, Models)
  BY <1>3, <1>4, <1>5, PushKeeps
<1> QED BY <1>1, <1>6

\* An assumption is placed, or fails: then Unsat is said of the assumptions.
LEMMA PlaceAssumptionSound ==
  ASSUME IndInv, Sound, PlaceAssumption PROVE Sound'
<1> DEFINE a == run.assume[DecisionLevel + 1]
<1>1. Branching /\ DecisionLevel < Len(run.assume)
  BY DEF PlaceAssumption
<1>2. /\ UNCHANGED <<ok, run, clauses, inputs, pending>> /\ Models' = Models
      /\ QueueSound(pending', Models) /\ DbSound(clauses', Models)
  BY <1>1, BranchingSound
<1>3. a \in Lit /\ run.assume # <<>>
  <2>1. /\ run.assume \in Seq(Lit) /\ DecisionLevel \in Nat
        /\ Len(run.assume) \in Nat
    BY Typed, LenProperties DEF IndInv, RestOK, Search
  <2>2. DecisionLevel + 1 \in 1..Len(run.assume) /\ Len(run.assume) # 0
    BY <1>1, <2>1
  <2> QED BY <2>1, <2>2, ElementOfSeq, EmptySeq
<1> HIDE DEF a
<1>4. CASE CancelUntil(0) /\ Return("unsat")
  <2>1. TrailSound(trail', lims', level', reason', clauses', Models)
    BY <1>2, <1>4, CancelSound DEF CancelUntil, Retract
  <2>2. UnsatIsReal'
    BY <1>2, <1>3 DEF Sound, UnsatIsReal
  <2> QED BY <1>2, <1>4, <2>1, <2>2, Arrive DEF Return, Elsewhere
<1>5. CASE /\ lims' = Append(lims, Len(trail)) /\ ToLoopHead
           /\ UNCHANGED <<trail, level, reason, verdict>>
  <2>1. TrailSound(trail, Append(lims, Len(trail)), level, reason, clauses, Models)
    BY Typed, OpenKeeps DEF Sound
  <2>2. UnsatIsReal' /\ Elsewhere
    BY <1>1, <1>5, BranchingSound DEF ToLoopHead, Elsewhere
  <2> QED BY <1>2, <1>5, <2>1, <2>2, Arrive
<1>6. CASE Free(a) /\ OpenLevel(a) /\ ToLoopHead /\ UNCHANGED verdict
  <2>1. TrailSound(trail', lims', level', reason', clauses', Models)
    BY <1>2, <1>3, <1>6, OpenLevelSound
  <2>2. UnsatIsReal' /\ Elsewhere
    BY <1>1, <1>6, BranchingSound DEF ToLoopHead, Elsewhere
  <2> QED BY <1>2, <2>1, <2>2, Arrive
<1> QED BY <1>4, <1>5, <1>6 DEF PlaceAssumption, a

\* A decision is free.
LEMMA DecideSound == ASSUME IndInv, Sound, Decide PROVE Sound'
<1>1. Branching /\ ToLoopHead /\ UNCHANGED verdict
  BY DEF Decide
<1>2. PICK v \in heap \ Assigned : \E l \in {v, -v} : OpenLevel(l)
  BY DEF Decide
<1>3. PICK l \in {v, -v} : OpenLevel(l)
  BY <1>2
<1>4. l \in Lit /\ VarOf(l) = v
  <2>1. v \in Var /\ v \in Int /\ v > 0
    BY SatAssumption DEF IndInv, TrailOK, Var
  <2> QED BY <2>1 DEF Lit, VarOf
<1>5. Free(l)
  <2>1. VarOf(-l) = v
    BY <1>4, LitPairs
  <2> QED BY <1>2, <1>4, <2>1 DEF Free, Holds, Fails, Assigned
<1>6. UnsatIsReal' /\ Elsewhere
  BY <1>1, BranchingSound DEF ToLoopHead, Elsewhere
<1> QED BY <1>1, <1>3, <1>4, <1>5, <1>6, BranchingSound, OpenLevelSound, Arrive

\* Branching keeps the invariant.
LEMMA BranchSound == ASSUME IndInv, Sound, Branch PROVE Sound'
<1>1. CASE AnswerSat
  <2>1. /\ Branching /\ Elsewhere /\ verdict' = "sat"
        /\ UNCHANGED <<trail, lims, level, reason>>
    BY <1>1 DEF AnswerSat, Return, Elsewhere
  <2> QED BY <2>1, BranchingSound, SameSound
<1> QED BY <1>1, PlaceAssumptionSound, DecideSound DEF Branch

-----------------------------------------------------------------------------
(* The invariant is inductive.                                             *)

\* A new solver has concluded nothing.
LEMMA InitSound == Init => Sound
<1> SUFFICES ASSUME Init PROVE Sound
  OBVIOUS
<1>1. /\ trail = <<>> /\ lims = <<>> /\ clauses = <<>> /\ pending = <<>>
      /\ ok = TRUE /\ verdict = "none" /\ pc = "idle" /\ Len(<<>>) = 0
  BY EmptySeq DEF Init
<1>2. \A x : x \notin 1..0
  OBVIOUS
<1>3. TrailSound(trail, lims, level, reason, clauses, Models)
  BY <1>1, <1>2 DEF TrailSound, Distinct, Bounded, Reached, Rooted, Implied, Graded
<1>4. DbSound(clauses, Models) /\ QueueSound(pending, Models)
  BY <1>1, <1>2 DEF DbSound, QueueSound
<1> QED BY <1>1, <1>3, <1>4
        DEF Sound, ConflictSound, AnalysisSound, AnswerSound, UnsatIsReal

\* Every step keeps the invariant.
LEMMA NextSound == IndInv /\ Sound /\ [Next]_vars => Sound'
<1> SUFFICES ASSUME IndInv, Sound, [Next]_vars PROVE Sound'
  OBVIOUS
<1>1. CASE UNCHANGED vars
  BY <1>1 DEF vars, dbVars, trailVars, passVars, theoryVars, analysisVars, apiVars,
     Sound, ConflictSound, AnalysisSound, AnswerSound, UnsatIsReal, Models,
     DecisionLevel, Fails, Lv
<1> QED BY <1>1, CallSound, PendingUnitSound, PendingClauseSound, PropagateSound,
           TheorySound, HandleSound, BranchSound
        DEF Next, SearchStep, AttachPending

\* The invariant at the positions of the trail: what the property says of
\* antecedents.
LEMMA SoundReasons == IndInv /\ Sound => ReasonsImply
<1> SUFFICES ASSUME IndInv, Sound PROVE ReasonsImply
  OBVIOUS
<1>1. /\ DOMAIN trail = 1..Len(trail) /\ DOMAIN clauses = 1..Len(clauses)
      /\ Len(trail) \in Nat
  BY LenProperties DEF IndInv, TrailOK, DbOK
<1>2. Implied(trail, reason, clauses)
  BY DEF Sound, TrailSound
<1>3. \A i, j \in 1..Len(trail) : i < j => i \in 1..(j - 1)
  BY <1>1
<1> QED BY <1>1, <1>2, <1>3 DEF ReasonsImply, Implied, Deleted

\* Counting the levels that begin before a position.
LEMMA SoundLevels == IndInv /\ Sound => LevelsFit
<1> SUFFICES ASSUME IndInv, Sound PROVE LevelsFit
  OBVIOUS
<1>1. /\ DOMAIN trail = 1..Len(trail) /\ DOMAIN lims = 1..Len(lims)
      /\ Len(lims) \in Nat /\ \A d \in 1..Len(lims) : lims[d] \in Nat
  BY LenProperties, ElementOfSeq DEF IndInv, TrailOK
<1>2. Bounded(trail, lims, level) /\ Graded(trail, level, reason, clauses)
  BY DEF Sound, TrailSound
<1>3. ASSUME NEW i \in 1..Len(trail)
      PROVE  Lv(trail[i]) <= Cardinality({d \in 1..Len(lims) : lims[d] < i})
  <2> DEFINE n == Lv(trail[i])
             E == {d \in 1..Len(lims) : lims[d] < i}
  <2>1. n \in Nat /\ n <= Len(lims) /\ i \in Int
        /\ \A d \in 1..Len(lims) : i <= lims[d] => n < d
    <3>1. trail[i] \in Lit /\ n \in Nat
      BY Typed, ElementOfSeq
    <3> QED BY <1>2, <3>1 DEF Bounded, Lv
  <2> HIDE DEF n
  <2>2. \A d \in 1..n : d \in E
    <3> TAKE d \in 1..n
    <3>1. d \in 1..Len(lims) /\ ~(n < d)
      BY <1>1, <2>1
    <3>2. lims[d] \in Nat /\ ~(i <= lims[d])
      BY <1>1, <2>1, <3>1
    <3> QED BY <2>1, <3>1, <3>2
  <2>3. IsFiniteSet(1..Len(lims)) /\ IsFiniteSet(1..n) /\ Cardinality(1..n) = n
    BY <1>1, <2>1, FS_Interval
  <2>4. IsFiniteSet(E)
    BY <2>3, FS_Subset
  <2> HIDE DEF E
  <2>5. Cardinality(1..n) <= Cardinality(E)
    <3>1. 1..n \subseteq E
      BY <2>2
    <3> QED BY <2>4, <3>1, FS_Subset
  <2>6. n <= Cardinality(E)
    BY <2>3, <2>5
  <2> QED BY <2>6 DEF n, E
<1> QED BY <1>1, <1>2, <1>3 DEF LevelsFit, Graded, Lv

\* What follows is entailed.
LEMMA SoundLemmas == IndInv /\ Sound => LemmasEntailed
<1> SUFFICES ASSUME IndInv, Sound PROVE LemmasEntailed
  OBVIOUS
<1>1. DOMAIN clauses = 1..Len(clauses) /\ trail \in Seq(Lit)
  BY LenProperties, Typed DEF IndInv, DbOK
<1>2. \A i \in DOMAIN clauses : ~Deleted(i) => Entailed(clauses[i].lits)
  BY <1>1 DEF Sound, DbSound, Follows, Entailed, Deleted
<1>3. \A l \in Range(trail) : Lv(l) = 0 => Entailed({l})
  BY <1>1, RangeIs DEF Sound, TrailSound, Rooted, Follows, Entailed, Lv
<1> QED BY <1>2, <1>3 DEF LemmasEntailed

\* Both invariants hold in every reachable state.
LEMMA AlwaysSound == Spec => [](IndInv /\ Sound)
<1>1. Init => IndInv /\ Sound
  BY InitInv, InitSound
<1>2. IndInv /\ Sound /\ [Next]_vars => (IndInv /\ Sound)'
  BY NextInv, NextSound
<1> QED BY <1>1, <1>2, PTL DEF Spec

\* What a search concludes is sound, for every pool of clauses, theory, list
\* of assumptions and limit: the antecedent of a literal implies it from
\* earlier ones, its level is no higher than the segment it stands in and no
\* lower than that of what implies it, every clause learnt or given and every
\* literal of level 0 is entailed, and Unsat without assumptions (or a solver
\* that turned itself off) means that there is no model.
THEOREM SearchIsSound == Spec => []SearchSound
<1>1. IndInv /\ Sound => SearchSound
  BY SoundReasons, SoundLevels, SoundLemmas DEF Sound, SearchSound
<1> QED BY <1>1, AlwaysSound, PTL

\* In particular the answer Unsat of a search without assumptions is real.
COROLLARY UnsatIsCertain == Spec => []UnsatIsReal
<1>1. IndInv /\ Sound => UnsatIsReal
  BY DEF Sound
<1> QED BY <1>1, AlwaysSound, PTL
-----------------------------------------------------------------------------
(* The watch lists.                                                        *)

\* The entries of clause i in the list of l.
Filed(ws, i, l) == {w \in ws[l] : w.cref = i}

\* Clause c, number i, has one entry in the lists of the complements of its
\* two watches, with a literal of its own as blocker, and none elsewhere.
Filing(c, i, ws) ==
  \A l \in Lit :
    /\ -l \in {c.w0, c.w1} => \E e : Filed(ws, i, l) = {e} /\ e.blocker \in c.lits
    /\ -l \notin {c.w0, c.w1} => Filed(ws, i, l) = {}

TwoWatches(c) == c.w0 \in c.lits /\ c.w1 \in c.lits /\ c.w0 # c.w1

\* Every live clause watches two of its literals and is filed under them.
FilesOK ==
  \A i \in 1..Len(clauses) : clauses[i].lits # {} =>
    TwoWatches(clauses[i]) /\ Filing(clauses[i], i, watches)

\* What propagate has still to visit is in the list it visits.
VisitsOK == \A w \in todo : w \in watches[Propagated]

WatchesOK == FilesOK /\ VisitsOK

\* The lists change where their literals say.
LEMMA FiledSame ==
  ASSUME NEW ws, NEW vs, NEW i, NEW c,
         \A l \in Lit : Filed(vs, i, l) = Filed(ws, i, l), Filing(c, i, ws)
  PROVE  Filing(c, i, vs)
BY DEF Filing

\* attach_clause files the new clause and no other.
LEMMA AttachFiles ==
  ASSUME IndInv, FilesOK,
         NEW c \in SUBSET Lit, NEW w0 \in c, NEW w1 \in c, w0 # w1, NEW b \in BOOLEAN,
         Attach(c, w0, w1, b)
  PROVE  FilesOK'
<1> DEFINE n == Len(clauses) + 1
           x == [lits |-> c, w0 |-> w0, w1 |-> w1, learnt |-> b]
           e0 == [cref |-> n, blocker |-> w1]
           e1 == [cref |-> n, blocker |-> w0]
<1>1. /\ clauses' = Append(clauses, x)
      /\ watches' = [watches EXCEPT ![-w0] = @ \cup {e0}, ![-w1] = @ \cup {e1}]
  BY DEF Attach
<1>2. /\ w0 \in Lit /\ w1 \in Lit /\ -w0 \in Lit /\ -w1 \in Lit /\ -w0 # -w1
      /\ x \in Clause /\ clauses \in Seq(Clause) /\ Len(clauses) \in Nat
      /\ watches \in [Lit -> SUBSET WatchIn(Len(clauses))]
  BY LitFacts, LitPairs, LenProperties DEF IndInv, DbOK, Clause
<1>3. /\ Len(clauses') = n /\ clauses'[n] = x
      /\ \A i \in 1..Len(clauses) : clauses'[i] = clauses[i]
  <2> HIDE DEF x
  <2> QED BY <1>1, <1>2, AppendProperties
<1>4. \A l \in Lit : \A w \in watches[l] : w.cref \in 1..Len(clauses)
  BY <1>2 DEF WatchIn
<1>5. \A l \in Lit : watches'[l] = watches[l] \cup
        (IF l = -w0 THEN {e0} ELSE {}) \cup (IF l = -w1 THEN {e1} ELSE {})
  <2> HIDE DEF e0, e1
  <2> QED BY <1>1, <1>2
<1>6. e0.cref = n /\ e1.cref = n /\ e0.blocker \in c /\ e1.blocker \in c
  OBVIOUS
<1>7. ASSUME NEW i \in 1..Len(clauses), NEW l \in Lit
      PROVE  Filed(watches', i, l) = Filed(watches, i, l)
  <2>1. i # n
    BY <1>2
  <2> HIDE DEF n, e0, e1
  <2> QED BY <1>5, <1>6, <2>1 DEF Filed
<1>8. Filing(x, n, watches')
  <2> SUFFICES ASSUME NEW l \in Lit
               PROVE  /\ -l \in {w0, w1} =>
                           \E e : Filed(watches', n, l) = {e} /\ e.blocker \in c
                      /\ -l \notin {w0, w1} => Filed(watches', n, l) = {}
    BY DEF Filing
  <2>1. (l = -w0 <=> -l = w0) /\ (l = -w1 <=> -l = w1)
    BY <1>2, LitPairs
  <2>2. n \notin 1..Len(clauses)
    BY <1>2
  <2> HIDE DEF n, e0, e1
  <2>3. Filed(watches', n, l) =
          (IF l = -w0 THEN {e0} ELSE {}) \cup (IF l = -w1 THEN {e1} ELSE {})
    BY <1>4, <1>5, <1>6, <2>2 DEF Filed
  <2> QED BY <1>2, <1>6, <2>1, <2>3
<1>9. ASSUME NEW i \in 1..Len(clauses'), clauses'[i].lits # {}
      PROVE  TwoWatches(clauses'[i]) /\ Filing(clauses'[i], i, watches')
  <2>1. CASE i = n
    BY <1>3, <1>8, <2>1 DEF TwoWatches
  <2>2. CASE i # n
    <3>1. i \in 1..Len(clauses)
      BY <1>2, <1>3, <2>2
    <3>2. clauses'[i] = clauses[i]
      BY <1>3, <3>1
    <3>3. TwoWatches(clauses[i]) /\ Filing(clauses[i], i, watches)
      BY <1>9, <3>1, <3>2 DEF FilesOK
    <3> QED BY <1>7, <3>1, <3>2, <3>3, FiledSame
  <2> QED BY <2>1, <2>2
<1> QED BY <1>9 DEF FilesOK

\* Steps that leave the database alone.
LEMMA FilesSame == ASSUME FilesOK, UNCHANGED dbVars PROVE FilesOK'
BY DEF FilesOK, dbVars, Filing, Filed, TwoWatches

\* A clause in the list visited watches the literal that became false, and has
\* the visited entry there and no other.
LEMMA VisitedIs ==
  ASSUME IndInv, WatchesOK, NEW w \in todo, ~Deleted(w.cref)
  PROVE  /\ w.cref \in 1..Len(clauses) /\ clauses[w.cref] \in Clause
         /\ clauses[w.cref].lits # {} /\ TwoWatches(clauses[w.cref])
         /\ Filing(clauses[w.cref], w.cref, watches)
         /\ Filed(watches, w.cref, Propagated) = {w}
         /\ {OtherWatch(clauses[w.cref]), -Propagated}
              = {clauses[w.cref].w0, clauses[w.cref].w1}
         /\ OtherWatch(clauses[w.cref]) # -Propagated
         /\ OtherWatch(clauses[w.cref]) \in clauses[w.cref].lits
         /\ -Propagated \in clauses[w.cref].lits
<1> DEFINE i == w.cref
           c == clauses[i]
<1>1. i \in 1..Len(clauses) /\ Propagated \in Lit /\ c \in Clause
  BY ScanFacts, ClauseFacts DEF IndInv
<1>2. w \in watches[Propagated] /\ c.lits # {}
  BY DEF WatchesOK, VisitsOK, Deleted
<1>3. TwoWatches(c) /\ Filing(c, i, watches)
  BY <1>1, <1>2 DEF WatchesOK, FilesOK
<1>4. w \in Filed(watches, i, Propagated)
  BY <1>2 DEF Filed
<1>5. -Propagated \in {c.w0, c.w1}
  <2> HIDE DEF c, i
  <2> QED BY <1>1, <1>3, <1>4 DEF Filing
<1>6. Filed(watches, i, Propagated) = {w}
  <2> HIDE DEF c, i
  <2> QED BY <1>1, <1>3, <1>4, <1>5 DEF Filing
<1> HIDE DEF c
<1>7. /\ {OtherWatch(c), -Propagated} = {c.w0, c.w1} /\ OtherWatch(c) # -Propagated
      /\ OtherWatch(c) \in c.lits /\ -Propagated \in c.lits
  BY <1>3, <1>5 DEF OtherWatch, TwoWatches
<1> USE DEF c
<1> QED BY <1>1, <1>2, <1>3, <1>6, <1>7

\* Clause i takes the watches a and b, and the lists follow.
LEMMA RewatchFiles ==
  ASSUME IndInv, FilesOK, NEW i \in 1..Len(clauses), NEW a \in Lit, NEW b \in Lit,
         clauses' = [clauses EXCEPT ![i].w0 = a, ![i].w1 = b],
         a \in clauses[i].lits, b \in clauses[i].lits, a # b,
         \A n \in 1..Len(clauses) \ {i}, l \in Lit :
           Filed(watches', n, l) = Filed(watches, n, l),
         \A l \in Lit :
           /\ -l \in {a, b} => \E e : /\ Filed(watches', i, l) = {e}
                                      /\ e.blocker \in clauses[i].lits
           /\ -l \notin {a, b} => Filed(watches', i, l) = {}
  PROVE  FilesOK'
<1>1. Len(clauses') = Len(clauses) /\ clauses[i] \in Clause
      /\ DOMAIN clauses = 1..Len(clauses)
  BY RewatchSeq, ClauseFacts, LenProperties DEF IndInv, DbOK
<1>2. /\ clauses'[i] = [clauses[i] EXCEPT !.w0 = a, !.w1 = b]
      /\ \A n \in 1..Len(clauses) \ {i} : clauses'[n] = clauses[n]
  BY <1>1
<1>3. clauses'[i].w0 = a /\ clauses'[i].w1 = b /\ clauses'[i].lits = clauses[i].lits
  BY <1>1, <1>2 DEF Clause
<1>4. TwoWatches(clauses'[i]) /\ Filing(clauses'[i], i, watches')
  BY <1>3 DEF TwoWatches, Filing
<1>5. ASSUME NEW n \in 1..Len(clauses) \ {i}, clauses'[n].lits # {}
      PROVE  TwoWatches(clauses'[n]) /\ Filing(clauses'[n], n, watches')
  <2>1. TwoWatches(clauses[n]) /\ Filing(clauses[n], n, watches)
    BY <1>2, <1>5 DEF FilesOK
  <2>2. Filing(clauses[n], n, watches')
    BY <2>1, FiledSame
  <2> QED BY <1>2, <2>1, <2>2
<1> QED BY <1>1, <1>4, <1>5 DEF FilesOK

\* Clause i may change the order of its watches while the lists stay.
LEMMA ReorderFiles ==
  ASSUME IndInv, WatchesOK, NEW w \in todo, ~Deleted(w.cref),
         clauses' = Reordered(w.cref),
         \A n \in 1..Len(clauses) \ {w.cref}, l \in Lit :
           Filed(watches', n, l) = Filed(watches, n, l),
         \A l \in Lit \ {Propagated} :
           Filed(watches', w.cref, l) = Filed(watches, w.cref, l),
         \E e : Filed(watches', w.cref, Propagated) = {e}
                  /\ e.blocker \in clauses[w.cref].lits
  PROVE  FilesOK'
<1> DEFINE i == w.cref
           a == OtherWatch(clauses[i])
           b == -Propagated
           c == clauses[i]
<1>1. /\ i \in 1..Len(clauses) /\ a \in Lit /\ b \in Lit /\ Propagated \in Lit
      /\ Filing(c, i, watches) /\ a # b /\ a \in c.lits /\ b \in c.lits
      /\ {a, b} = {c.w0, c.w1}
  BY VisitedIs, ScanFacts
<1>2. clauses' = [clauses EXCEPT ![i].w0 = a, ![i].w1 = b]
  BY DEF Reordered
<1>3. ASSUME NEW l \in Lit
      PROVE  /\ -l \in {a, b} => \E e : /\ Filed(watches', i, l) = {e}
                                        /\ e.blocker \in clauses[i].lits
             /\ -l \notin {a, b} => Filed(watches', i, l) = {}
  <2>1. CASE l = Propagated
    BY <2>1
  <2>2. CASE l # Propagated
    <3>1. Filed(watches', i, l) = Filed(watches, i, l)
      BY <2>2
    <3> HIDE DEF a, b, i
    <3> QED BY <1>1, <3>1 DEF Filing
  <2> QED BY <2>1, <2>2
<1>4. FilesOK /\ \A n \in 1..Len(clauses) \ {i}, l \in Lit :
                   Filed(watches', n, l) = Filed(watches, n, l)
  BY DEF WatchesOK
<1> HIDE DEF a, b, i
<1> QED BY <1>1, <1>2, <1>3, <1>4, RewatchFiles DEF c

\* propagate keeps the lists exact.
LEMMA PropagateWatches == ASSUME IndInv, WatchesOK, Propagate PROVE WatchesOK'
<1>0. /\ watches \in [Lit -> SUBSET WatchIn(Len(clauses))] /\ trail \in Seq(Lit)
      /\ \A l \in Lit : \A v \in watches[l] : v.cref \in 1..Len(clauses)
  BY DEF IndInv, DbOK, TrailOK, WatchIn
<1>1. CASE PropagateNext
  <2>1. /\ UNCHANGED dbVars /\ todo' = watches[trail[qhead + 1]]
        /\ qhead' = qhead + 1 /\ trail' = trail /\ watches' = watches
    BY <1>1 DEF PropagateNext, dbVars
  <2>2. VisitsOK'
    BY <2>1 DEF VisitsOK, Propagated
  <2> QED BY <2>1, <2>2, FilesSame DEF WatchesOK
<1>2. ASSUME NEW w \in todo, DropStaleWatch(w) PROVE WatchesOK'
  <2>1. /\ watches' = [watches EXCEPT ![Propagated] = @ \ {w}]
        /\ clauses' = clauses /\ UNCHANGED trailVars
        /\ todo' = todo \ {w} /\ clauses[w.cref].lits = {} /\ Propagated \in Lit
    BY <1>2, ScanFacts DEF DropStaleWatch, Deleted
  <2>2. Propagated' = Propagated
    BY <2>1 DEF Propagated, trailVars
  <2>3. VisitsOK'
    BY <1>0, <2>1, <2>2 DEF VisitsOK, WatchesOK
  <2>4. ASSUME NEW i \in 1..Len(clauses), i # w.cref, NEW l \in Lit
        PROVE  Filed(watches', i, l) = Filed(watches, i, l)
    BY <1>0, <2>1, <2>4 DEF Filed
  <2>5. FilesOK'
    <3> SUFFICES ASSUME NEW i \in 1..Len(clauses'), clauses'[i].lits # {}
                 PROVE  TwoWatches(clauses'[i]) /\ Filing(clauses'[i], i, watches')
      BY DEF FilesOK
    <3>1. i \in 1..Len(clauses) /\ i # w.cref /\ clauses'[i] = clauses[i]
      BY <2>1
    <3>2. TwoWatches(clauses[i]) /\ Filing(clauses[i], i, watches)
      BY <3>1 DEF WatchesOK, FilesOK
    <3> QED BY <2>4, <3>1, <3>2, FiledSame
  <2> QED BY <2>3, <2>5 DEF WatchesOK
<1>3. ASSUME NEW w \in todo, SkipBlocked(w) PROVE WatchesOK'
  <2>1. UNCHANGED dbVars /\ UNCHANGED trailVars /\ todo' = todo \ {w}
    BY <1>3 DEF SkipBlocked
  <2>2. VisitsOK'
    BY <2>1 DEF VisitsOK, WatchesOK, Propagated, trailVars, dbVars
  <2> QED BY <2>1, <2>2, FilesSame DEF WatchesOK
<1>4. ASSUME NEW w \in todo, KeepSatisfied(w) PROVE WatchesOK'
  <2> DEFINE first == OtherWatch(clauses[w.cref])
             e == [w EXCEPT !.blocker = first]
  <2>1. /\ watches' = [watches EXCEPT ![Propagated] = (@ \ {w}) \cup {e}]
        /\ clauses' = Reordered(w.cref) /\ UNCHANGED trailVars
        /\ todo' = todo \ {w} /\ ~Deleted(w.cref)
    BY <1>4 DEF KeepSatisfied, Visit
  <2>2. /\ Propagated' = Propagated /\ Propagated \in Lit
        /\ w \in WatchIn(Len(clauses)) /\ first \in clauses[w.cref].lits
        /\ Filed(watches, w.cref, Propagated) = {w}
    BY <2>1, ScanFacts, VisitedIs DEF Propagated, trailVars
  <2>3. e.cref = w.cref /\ e.blocker = first
    BY <2>2 DEF WatchIn
  <2> HIDE DEF e, first
  <2>4. /\ watches'[Propagated] = (watches[Propagated] \ {w}) \cup {e}
        /\ \A l \in Lit \ {Propagated} : watches'[l] = watches[l]
    BY <1>0, <2>1, <2>2
  <2>5. VisitsOK'
    BY <2>1, <2>2, <2>4 DEF VisitsOK, WatchesOK
  <2>6. ASSUME NEW i \in 1..Len(clauses) \ {w.cref}, NEW l \in Lit
        PROVE  Filed(watches', i, l) = Filed(watches, i, l)
    BY <2>3, <2>4 DEF Filed
  <2>7. \A l \in Lit \ {Propagated} :
          Filed(watches', w.cref, l) = Filed(watches, w.cref, l)
    BY <2>4 DEF Filed
  <2>8. Filed(watches', w.cref, Propagated) = {e}
    BY <2>2, <2>3, <2>4 DEF Filed
  <2>9. FilesOK'
    BY <2>1, <2>2, <2>3, <2>6, <2>7, <2>8, ReorderFiles
  <2> QED BY <2>5, <2>9 DEF WatchesOK
<1>5. ASSUME NEW w \in todo, MoveWatch(w) PROVE WatchesOK'
  <2> DEFINE first == OtherWatch(clauses[w.cref])
             e == [cref |-> w.cref, blocker |-> first]
             i == w.cref
  <2>1. UNCHANGED trailVars /\ todo' = todo \ {w} /\ ~Deleted(i)
    BY <1>5 DEF MoveWatch, Visit
  <2>2. PICK l \in Replacements(i) :
          /\ clauses' = [clauses EXCEPT ![i].w0 = first, ![i].w1 = l]
          /\ watches' = [watches EXCEPT ![Propagated] = @ \ {w},
                                        ![-l] = @ \cup {e}]
    BY <1>5 DEF MoveWatch
  <2>3. /\ Propagated' = Propagated /\ Propagated \in Lit /\ i \in 1..Len(clauses)
        /\ clauses[i].lits \subseteq Lit /\ first \in Lit
        /\ first \in clauses[i].lits
        /\ Filed(watches, i, Propagated) = {w} /\ Filing(clauses[i], i, watches)
        /\ {first, -Propagated} = {clauses[i].w0, clauses[i].w1}
        /\ first # -Propagated
    BY <2>1, ScanFacts, VisitedIs DEF Propagated, trailVars
  <2>4. l \in clauses[i].lits /\ l # first /\ l # -Propagated /\ l \in Lit
    BY <2>3 DEF Replacements
  <2>5. /\ -l \in Lit /\ -l # Propagated /\ -(-l) = l /\ -(-Propagated) = Propagated
        /\ -first \in Lit /\ -(-first) = first
    BY <2>3, <2>4, LitFacts, LitPairs
  <2>6. e.cref = i /\ e.blocker = first
    OBVIOUS
  <2> HIDE DEF e, first, i
  <2>7. /\ watches'[Propagated] = watches[Propagated] \ {w}
        /\ watches'[-l] = watches[-l] \cup {e}
        /\ \A p \in Lit \ {Propagated, -l} : watches'[p] = watches[p]
    BY <1>0, <2>2, <2>3, <2>5
  <2>8. VisitsOK'
    BY <2>1, <2>3, <2>7 DEF VisitsOK, WatchesOK
  <2>9. w.cref = i
    BY DEF i
  <2>10. ASSUME NEW n \in 1..Len(clauses) \ {i}, NEW p \in Lit
         PROVE  Filed(watches', n, p) = Filed(watches, n, p)
    BY <2>6, <2>7, <2>9 DEF Filed
  <2>11. Filed(watches', i, Propagated) = {}
    BY <2>3, <2>7 DEF Filed
  <2>12. Filed(watches, i, -l) = {}
    <3>1. l \notin {clauses[i].w0, clauses[i].w1}
      BY <2>3, <2>4
    <3> QED BY <2>3, <2>5, <3>1 DEF Filing
  <2>13. Filed(watches', i, -l) = {e}
    BY <2>6, <2>7, <2>12 DEF Filed
  <2>14. \A p \in Lit \ {Propagated, -l} : Filed(watches', i, p) = Filed(watches, i, p)
    BY <2>7 DEF Filed
  <2>15. ASSUME NEW p \in Lit
         PROVE  /\ -p \in {first, l} => \E x : /\ Filed(watches', i, p) = {x}
                                               /\ x.blocker \in clauses[i].lits
                /\ -p \notin {first, l} => Filed(watches', i, p) = {}
    <3>1. -(-p) = p
      BY <2>15, LitPairs
    <3>2. CASE p = -l
      BY <2>3, <2>5, <2>6, <2>13, <3>2
    <3>3. CASE p = Propagated
      BY <2>3, <2>4, <2>11, <3>3
    <3>4. CASE p # -l /\ p # Propagated
      <4>1. Filed(watches', i, p) = Filed(watches, i, p)
        BY <2>14, <3>4
      <4>2. -p # l /\ -p # -Propagated
        BY <2>5, <3>1, <3>4
      <4>3. -p \in {first, l} <=> -p \in {clauses[i].w0, clauses[i].w1}
        BY <2>3, <4>2
      <4> QED BY <2>3, <4>1, <4>3 DEF Filing
    <3> QED BY <3>2, <3>3, <3>4
  <2>16. FilesOK'
    <3>1. FilesOK
      BY DEF WatchesOK
    <3> QED BY <2>2, <2>3, <2>4, <2>10, <2>15, <3>1, RewatchFiles
  <2> QED BY <2>8, <2>16 DEF WatchesOK
<1>6. ASSUME NEW w \in todo, ImplyUnit(w) \/ FindConflict(w) PROVE WatchesOK'
  <2>1. /\ clauses' = Reordered(w.cref) /\ watches' = watches /\ ~Deleted(w.cref)
    BY <1>6 DEF ImplyUnit, FindConflict, Visit
  <2>2. /\ Filed(watches, w.cref, Propagated) = {w} /\ Propagated \in Lit
        /\ Filing(clauses[w.cref], w.cref, watches)
        /\ -Propagated \in {clauses[w.cref].w0, clauses[w.cref].w1}
    BY <2>1, VisitedIs, ScanFacts
  <2>3. \E e : Filed(watches', w.cref, Propagated) = {e}
                 /\ e.blocker \in clauses[w.cref].lits
    BY <2>1, <2>2 DEF Filing
  <2>4. FilesOK'
    BY <2>1, <2>3, ReorderFiles
  <2>5. VisitsOK'
    <3>1. CASE FindConflict(w)
      BY <3>1 DEF FindConflict, VisitsOK
    <3>2. CASE ImplyUnit(w)
      <4> DEFINE first == OtherWatch(clauses[w.cref])
      <4>0. DecisionLevel \in Nat
        BY LenProperties DEF DecisionLevel, IndInv, TrailOK
      <4>1. /\ todo' = todo \ {w} /\ qhead' = qhead /\ trail' = Append(trail, first)
            /\ first \in Lit
        BY <3>2, <4>0, ScanFacts DEF ImplyUnit, Assign, CancelAndAssign, Retract, TrailAfter, QheadAfter
      <4>2. qhead \in 1..Len(trail)
        BY DEF IndInv, LocalsOK
      <4> HIDE DEF first
      <4>3. trail'[qhead'] = trail[qhead]
        BY <1>0, <4>1, <4>2, AppendProperties
      <4> QED BY <2>1, <4>1, <4>3 DEF VisitsOK, WatchesOK, Propagated
    <3> QED BY <1>6, <3>1, <3>2
  <2> QED BY <2>4, <2>5 DEF WatchesOK
<1> QED BY <1>1, <1>2, <1>3, <1>4, <1>5, <1>6 DEF Propagate

\* All other steps are taken while nothing is being visited.
LEMMA Visited == ASSUME todo' = {} PROVE VisitsOK'
BY DEF VisitsOK

\* No operation of the caller disturbs the lists,
LEMMA CallWatches == ASSUME IndInv, WatchesOK, Call PROVE WatchesOK'
<1>1. todo' = todo
  BY DEF Call, MkVar, AddIgnored, AddDeferred, AddAtRoot, CallAdd, ResetTheory, Solve
<1>2. pc = "idle" /\ todo = {}
  BY DEF Call, MkVar, AddIgnored, AddDeferred, AddAtRoot, CallAdd, ResetTheory,
         Solve, IndInv, LocalsOK
<1>3. CASE UNCHANGED dbVars
  BY <1>1, <1>2, <1>3, Visited, FilesSame DEF WatchesOK
<1>4. ASSUME NEW c \in Range(Pool), AddAtRoot(c), ~UNCHANGED dbVars PROVE WatchesOK'
  <2>1. c \in SUBSET Lit
    BY <1>4, CallAddFacts DEF AddAtRoot
  <2>2. PICK w0 \in c, w1 \in c : w0 # w1 /\ Attach(c, w0, w1, FALSE)
    BY <1>4 DEF AddAtRoot, FirstTwo
  <2> QED BY <1>1, <1>2, <2>1, <2>2, AttachFiles, Visited DEF WatchesOK
<1>5. UNCHANGED dbVars \/ \E c \in Range(Pool) : AddAtRoot(c)
  BY DEF Call, MkVar, AddIgnored, AddDeferred, ResetTheory, Solve
<1> QED BY <1>3, <1>4, <1>5

\* nor does attach_pending,
LEMMA PendingWatches == ASSUME IndInv, WatchesOK, AttachPending PROVE WatchesOK'
<1>1. pc = "attach" /\ todo = {} /\ todo' = {}
  BY DEF AttachPending, PendingUnit, PendingClause, TakePending, NextPending,
         StopAttaching, Return, EndLocals, IndInv, LocalsOK
<1>2. CASE PendingUnit
  BY <1>1, <1>2, Visited, FilesSame DEF PendingUnit, WatchesOK
<1>3. CASE PendingClause
  <2> DEFINE c == Head(pending)
  <2>1. c \in SUBSET Lit
    BY <1>3, HeadTailProperties DEF PendingClause, TakePending, IndInv, RestOK
  <2>2. PICK w0 \in c, w1 \in c : w0 # w1 /\ Attach(c, w0, w1, FALSE)
    BY <1>3 DEF PendingClause, FirstTwo
  <2> HIDE DEF c
  <2> QED BY <1>1, <2>1, <2>2, AttachFiles, Visited DEF WatchesOK
<1> QED BY <1>2, <1>3 DEF AttachPending

\* nor the clause of a theory conflict,
LEMMA ConflictFiles ==
  ASSUME IndInv, FilesOK, NEW c \in SUBSET Lit, NEW n, AttachConflict(c, n)
  PROVE  FilesOK'
<1>1. PICK w0 \in c, w1 \in c : w0 # w1 /\ Attach(c, w0, w1, TRUE)
  BY DEF AttachConflict, FirstTwo
<1> QED BY <1>1, AttachFiles

\* nor a theory pass,
LEMMA TheoryWatches == ASSUME IndInv, Sound, WatchesOK, TheoryPass PROVE WatchesOK'
<1>1. todo' = {}
  BY DEF TheoryPass, TheoryConflict, TheoryAnswer, Consult, AtFixpoint, ImpliedHolds,
         ValidFails, ImpliedFails, ValidAssigned, ImpliedAssigned, EndPass, Answering,
         IndInv, LocalsOK
<1>2. CASE UNCHANGED dbVars
  BY <1>1, <1>2, Visited, FilesSame DEF WatchesOK
<1>3. CASE TheoryConflict
  <2>1. PICK C \in Conflicts : AttachConflict(Negation(C), Len(trail))
    BY <1>3 DEF TheoryConflict
  <2>2. Negation(C) \in SUBSET Lit
    BY <2>1, Typed, LitFacts DEF Conflicts, Negation
  <2> QED BY <1>1, <2>1, <2>2, ConflictFiles, Visited DEF WatchesOK
<1>4. ASSUME NEW i \in answer, ImpliedFails(i) PROVE WatchesOK'
  <2>1. AttachConflict({i.lit} \cup Negation(i.why), stable) /\ Answering
    BY <1>4 DEF ImpliedFails
  <2>2. {i.lit} \cup Negation(i.why) \in SUBSET Lit
    BY <2>1, AnswerFacts
  <2> QED BY <1>1, <2>1, <2>2, ConflictFiles, Visited DEF WatchesOK
<1>5. ASSUME NEW i \in answer, ImpliedAssigned(i) PROVE WatchesOK'
  <2>1. Answering /\ Free(i.lit)
    BY <1>5 DEF ImpliedAssigned
  <2>2. PICK w \in Negation(i.why) :
          Attach({i.lit} \cup Negation(i.why), i.lit, w, TRUE)
    BY <1>5 DEF ImpliedAssigned
  <2>3. /\ {i.lit} \cup Negation(i.why) \in SUBSET Lit /\ i.lit # w
        /\ i.lit \in {i.lit} \cup Negation(i.why) /\ w \in {i.lit} \cup Negation(i.why)
    BY <2>1, AnswerFacts DEF Free
  <2> QED BY <1>1, <2>2, <2>3, AttachFiles, Visited DEF WatchesOK
<1> QED BY <1>2, <1>3, <1>4, <1>5 DEF TheoryPass, TheoryAnswer, ImpliedHolds, ValidFails,
                                      ValidAssigned, EndPass

\* nor branching,
LEMMA BranchWatches == ASSUME IndInv, WatchesOK, Branch PROVE WatchesOK'
<1>1. UNCHANGED dbVars /\ todo' = {}
  BY DEF Branch, PlaceAssumption, Decide, AnswerSat, Branching, Return, EndLocals,
         AtFixpoint, IndInv, LocalsOK
<1> QED BY <1>1, Visited, FilesSame DEF WatchesOK

\* conflict_level moves a literal of the top level to the front and files the
\* clause under it instead of the second watch.
LEMMA UnitBelowWatches == ASSUME IndInv, Sound, WatchesOK, UnitBelow PROVE WatchesOK'
<1> DEFINE c == ConflictClause
<1>1. /\ confl \in 1..Len(clauses) /\ c \in Clause /\ c = clauses[confl]
      /\ c.lits # {} /\ c.lits \subseteq Lit /\ todo' = {}
  BY ClauseFacts DEF UnitBelow, Conflicting, ConflictClause, Sound, ConflictSound,
                     IndInv, LocalsOK
<1>2. TwoWatches(c) /\ Filing(c, confl, watches) /\ FilesOK
  BY <1>1 DEF WatchesOK, FilesOK
<1> HIDE DEF c
<1>3. PICK u \in c.lits :
        LET other == IF u = c.w0 THEN c.w1 ELSE c.w0
        IN /\ clauses' = [clauses EXCEPT ![confl].w0 = u, ![confl].w1 = other]
           /\ watches' =
                IF u \in {c.w0, c.w1} THEN watches
                ELSE [watches EXCEPT
                  ![-c.w1] = {w \in @ : w.cref # confl},
                  ![-u] = @ \cup {[cref |-> confl, blocker |-> c.w0]}]
  BY DEF UnitBelow, TopLits, c
<1> DEFINE other == IF u = c.w0 THEN c.w1 ELSE c.w0
<1>4. /\ clauses' = [clauses EXCEPT ![confl].w0 = u, ![confl].w1 = other]
      /\ u \in Lit /\ other \in c.lits /\ other \in Lit /\ u # other
      /\ c.w0 \in Lit /\ c.w1 \in Lit /\ c.w0 \in c.lits
  BY <1>1, <1>2, <1>3 DEF TwoWatches
<1>5. /\ \A n \in 1..Len(clauses) \ {confl}, l \in Lit :
           Filed(watches', n, l) = Filed(watches, n, l)
      /\ \A l \in Lit :
           /\ -l \in {u, other} => \E e : /\ Filed(watches', confl, l) = {e}
                                          /\ e.blocker \in c.lits
           /\ -l \notin {u, other} => Filed(watches', confl, l) = {}
  <2>1. CASE u \in {c.w0, c.w1}
    <3>1. watches' = watches /\ {u, other} = {c.w0, c.w1}
      BY <1>3, <2>1
    <3> HIDE DEF other
    <3> QED BY <1>2, <3>1 DEF Filing
  <2>2. CASE u \notin {c.w0, c.w1}
    <3> DEFINE e == [cref |-> confl, blocker |-> c.w0]
    <3>1. watches' = [watches EXCEPT ![-c.w1] = {w \in @ : w.cref # confl},
                                     ![-u] = @ \cup {e}]
      BY <1>3, <2>2
    <3>2. other = c.w0 /\ u # c.w0 /\ u # c.w1 /\ c.w0 # c.w1
      BY <1>2, <2>2 DEF TwoWatches
    <3>3. e.cref = confl /\ e.blocker \in c.lits
      BY <1>4
    <3>4. /\ -u \in Lit /\ -c.w1 \in Lit /\ -(-u) = u /\ -(-c.w1) = c.w1
          /\ \A l \in Lit : -(-l) = l
      BY <1>4, LitFacts, LitPairs
    <3> HIDE DEF e, other
    <3>5. /\ watches'[-c.w1] = {w \in watches[-c.w1] : w.cref # confl}
          /\ watches'[-u] = watches[-u] \cup {e}
          /\ \A l \in Lit \ {-u, -c.w1} : watches'[l] = watches[l]
      <4>1. -u # -c.w1
        BY <3>2, <3>4
      <4> QED BY <3>1, <3>4, <4>1 DEF IndInv, DbOK
    <3>6. ASSUME NEW n \in 1..Len(clauses) \ {confl}, NEW l \in Lit
          PROVE  Filed(watches', n, l) = Filed(watches, n, l)
      BY <3>3, <3>5 DEF Filed
    <3>7. ASSUME NEW l \in Lit
          PROVE  /\ -l \in {u, other} => \E x : /\ Filed(watches', confl, l) = {x}
                                                /\ x.blocker \in c.lits
                 /\ -l \notin {u, other} => Filed(watches', confl, l) = {}
      <4>1. CASE l = -u
        <5>1. Filed(watches, confl, -u) = {}
          BY <1>2, <3>2, <3>4 DEF Filing
        <5>2. Filed(watches', confl, -u) = {e}
          BY <3>3, <3>5, <5>1 DEF Filed
        <5> QED BY <3>3, <3>4, <4>1, <5>2
      <4>2. CASE l = -c.w1
        <5>1. Filed(watches', confl, -c.w1) = {}
          BY <3>5 DEF Filed
        <5> QED BY <3>2, <3>4, <4>2, <5>1
      <4>3. CASE l # -u /\ l # -c.w1
        <5>1. Filed(watches', confl, l) = Filed(watches, confl, l)
          BY <3>5, <4>3 DEF Filed
        <5>2. -l # u /\ -l # c.w1
          BY <3>4, <4>3
        <5>3. -l \in {u, other} <=> -l \in {c.w0, c.w1}
          BY <3>2, <5>2
        <5> QED BY <1>2, <5>1, <5>3 DEF Filing
      <4> QED BY <4>1, <4>2, <4>3
    <3> QED BY <3>6, <3>7
  <2> QED BY <2>1, <2>2
<1> HIDE DEF other
<1>6. FilesOK'
  BY <1>1, <1>2, <1>4, <1>5, RewatchFiles
<1> QED BY <1>1, <1>6, Visited DEF WatchesOK

\* nor conflict handling.
LEMMA HandleWatches == ASSUME IndInv, Sound, WatchesOK, HandleConflict PROVE WatchesOK'
<1>1. CASE UnitBelow
  BY <1>1, UnitBelowWatches
<1>2. CASE Learn
  <2>1. CASE UNCHANGED dbVars
    BY <1>2, <2>1, FilesSame, Visited DEF WatchesOK, Learn, Learning, IndInv, LocalsOK
  <2>2. ASSUME NEW w \in resolvent \ {uip}, Attach(resolvent, uip, w, TRUE)
        PROVE  WatchesOK'
    <3>1. resolvent \in SUBSET Lit /\ uip \in resolvent /\ todo' = {}
      BY <1>2 DEF Learn, Learning, IndInv, LocalsOK, Sound, AnalysisSound
    <3> QED BY <2>2, <3>1, AttachFiles, Visited DEF WatchesOK
  <2> QED BY <1>2, <2>1, <2>2 DEF Learn
<1>3. CASE Reduce
  <2>1. watches' = watches /\ todo' = {}
    BY <1>3 DEF Reduce, IndInv, LocalsOK
  <2>2. CASE clauses' = clauses
    BY <2>1, <2>2, FilesSame, Visited DEF WatchesOK, dbVars
  <2>3. ASSUME NEW gone,
               clauses' = [c \in DOMAIN clauses |->
                             IF c \in gone THEN [clauses[c] EXCEPT !.lits = {}]
                             ELSE clauses[c]]
        PROVE  WatchesOK'
    <3>1. DOMAIN clauses = 1..Len(clauses) /\ Len(clauses') = Len(clauses)
      BY <2>3, ReducedSeq, LenProperties DEF IndInv, DbOK
    <3>2. FilesOK'
      <4> SUFFICES ASSUME NEW i \in 1..Len(clauses'), clauses'[i].lits # {}
                   PROVE  TwoWatches(clauses'[i]) /\ Filing(clauses'[i], i, watches')
        BY DEF FilesOK
      <4>1. i \in DOMAIN clauses /\ clauses[i] \in Clause
        BY <3>1, ClauseFacts DEF IndInv
      <4>2. clauses'[i] = clauses[i]
        BY <2>3, <4>1 DEF Clause
      <4> QED BY <2>1, <3>1, <4>2 DEF WatchesOK, FilesOK
    <3> QED BY <2>1, <3>2, Visited DEF WatchesOK
  <2> QED BY <1>3, <2>2, <2>3 DEF Reduce
<1>4. CASE \/ RootConflict \/ StartAnalysis \/ Resolve \/ FindUIP
           \/ AnalysisPanics \/ AssumptionConflict \/ Account
  <2>1. UNCHANGED dbVars
    BY <1>4 DEF RootConflict, StartAnalysis, Resolve, FindUIP, AnalysisPanics, Analyzing,
                AssumptionConflict, Account
  <2>2. todo' = {}
    BY <1>4 DEF RootConflict, StartAnalysis, Resolve, FindUIP, AnalysisPanics, Analyzing,
                AssumptionConflict, Account, Conflicting, Learning, Return, EndLocals,
                IndInv, LocalsOK
  <2> QED BY <2>1, <2>2, FilesSame, Visited DEF WatchesOK
<1> QED BY <1>1, <1>2, <1>3, <1>4 DEF HandleConflict

\* Whatever is attached, reordered, moved and deleted, the lists are exact.
LEMMA NextWatches == IndInv /\ Sound /\ WatchesOK /\ [Next]_vars => WatchesOK'
<1>1. CASE UNCHANGED vars
  BY <1>1, FilesSame DEF vars, WatchesOK, VisitsOK, Propagated, dbVars, trailVars
<1> QED BY <1>1, CallWatches, PendingWatches, PropagateWatches, TheoryWatches,
           HandleWatches, BranchWatches DEF Next, SearchStep

\* A new solver has no clause to file.
LEMMA InitWatches == Init => WatchesOK
<1>1. Init => Len(clauses) = 0 /\ todo = {}
  BY EmptySeq DEF Init
<1> QED BY <1>1 DEF WatchesOK, FilesOK, VisitsOK

\* Filed once under each of its two watches: what the property counts.
LEMMA ExactWatches == IndInv /\ WatchesOK => WatchesExact
<1> SUFFICES ASSUME IndInv, WatchesOK, NEW i \in DOMAIN clauses, ~Deleted(i), NEW l \in Lit
             PROVE  LET entries == {w \in watches[l] : w.cref = i} IN
                    IF -l \in {clauses[i].w0, clauses[i].w1}
                      THEN /\ Cardinality(entries) = 1
                           /\ \A w \in entries : w.blocker \in clauses[i].lits
                      ELSE entries = {}
  BY DEF WatchesExact
<1>1. Filing(clauses[i], i, watches)
  BY LenProperties DEF IndInv, DbOK, WatchesOK, FilesOK, Deleted
<1>2. -l \in {clauses[i].w0, clauses[i].w1} =>
        \E e : Filed(watches, i, l) = {e} /\ e.blocker \in clauses[i].lits
  BY <1>1 DEF Filing
<1>3. -l \notin {clauses[i].w0, clauses[i].w1} => Filed(watches, i, l) = {}
  BY <1>1 DEF Filing
<1> QED BY <1>2, <1>3, FS_Singleton DEF Filed

-----------------------------------------------------------------------------
(* The decision heap.                                                      *)

\* Each of the first n variables is in the heap h or assigned in the trail t.
Offered(n, t, h) == \A v \in 1..n : v \in h \/ \E l \in Range(t) : VarOf(l) = v

HeapOK == Offered(nvars, trail, heap)

\* cancel_until returns to the heap what it retracts.
LEMMA CutOffers ==
  ASSUME HeapOK, NEW k \in Nat
  PROVE  Offered(nvars, TrailAfter(k), heap \cup Undone(k))
BY DEF HeapOK, Offered, Undone

\* An assigned variable is accounted for.
LEMMA PushOffers ==
  ASSUME NEW n, NEW t \in Seq(Lit), NEW h, Offered(n, t, h), NEW l \in Lit
  PROVE  Offered(n, Append(t, l), h)
<1>1. \A x \in Range(t) : x \in Range(Append(t, l))
  BY AppendRange
<1> QED BY <1>1 DEF Offered

\* ensure_var puts the variables it allocates in the heap.
LEMMA GrowOffers ==
  ASSUME nvars \in Nat, NEW c \in SUBSET Lit, VarsAfter(c) \in Nat,
         NEW t, NEW h, Offered(nvars, t, h)
  PROVE  Offered(VarsAfter(c), t, h \cup NewVars(c))
BY DEF Offered, NewVars

\* A literal is asserted after a backtrack.
LEMMA AssignOffers ==
  ASSUME IndInv, HeapOK, NEW k \in Nat, NEW l \in Lit, NEW r, NEW lv,
         CancelAndAssign(k, l, r, lv), nvars' = nvars
  PROVE  HeapOK'
<1>1. TrailAfter(k) \in Seq(Lit)
  BY TrailAfterType DEF IndInv
<1>2. /\ trail' = Append(TrailAfter(k), l) /\ heap' = heap \cup Undone(k)
  BY DEF CancelAndAssign, Retract
<1> QED BY <1>1, <1>2, CutOffers, PushOffers DEF HeapOK

\* A literal is assigned where the trail stands.
LEMMA StandOffers ==
  ASSUME IndInv, HeapOK, NEW l \in Lit, trail' = Append(trail, l),
         nvars' = VarsAfter({l}), heap' = heap \cup NewVars({l})
  PROVE  HeapOK'
<1>1. trail \in Seq(Lit) /\ nvars \in Nat /\ {l} \in SUBSET Lit /\ VarsAfter({l}) \in Nat
  BY VarsAfterType DEF IndInv, TrailOK, RestOK
<1>2. Offered(nvars, trail', heap)
  BY <1>1, PushOffers DEF HeapOK
<1> QED BY <1>1, <1>2, GrowOffers DEF HeapOK

\* The solver only backtracks.
LEMMA RetractOffers ==
  ASSUME HeapOK, NEW k \in Nat, trail' = TrailAfter(k), heap' = heap \cup Undone(k),
         nvars' = nvars
  PROVE  HeapOK'
BY CutOffers DEF HeapOK

\* No operation of the caller loses a variable,
LEMMA CallOffers == ASSUME IndInv, HeapOK, Call PROVE HeapOK'
<1>0. nvars \in Nat /\ trail \in Seq(Lit) /\ 0 \in Nat
  BY DEF IndInv, RestOK, TrailOK
<1>1. CASE MkVar
  BY <1>0, <1>1 DEF MkVar, HeapOK, Offered
<1>2. ASSUME NEW c \in Range(Pool), AddIgnored(c) PROVE HeapOK'
  BY <1>2 DEF AddIgnored, trailVars, HeapOK
<1>3. ASSUME NEW c \in Range(Pool), AddDeferred(c) PROVE HeapOK'
  <2>1. c \in SUBSET Lit /\ VarsAfter(c) \in Nat
    BY <1>3, CallAddFacts DEF AddDeferred
  <2>2. nvars' = VarsAfter(c) /\ heap' = heap \cup NewVars(c) /\ trail' = trail
    BY <1>3 DEF AddDeferred
  <2> QED BY <1>0, <2>1, <2>2, GrowOffers DEF HeapOK
<1>4. ASSUME NEW c \in Range(Pool), AddAtRoot(c) PROVE HeapOK'
  <2>1. c \in SUBSET Lit /\ VarsAfter(c) \in Nat
    BY <1>4, CallAddFacts DEF AddAtRoot
  <2>2. /\ nvars' = VarsAfter(c) /\ heap' = (heap \cup Undone(0)) \cup NewVars(c)
        /\ trail' = RootTrail \/ \E l \in Lit : trail' = Append(RootTrail, l)
    BY <1>4 DEF AddAtRoot
  <2>3. RootTrail \in Seq(Lit)
    BY <1>0, TrailAfterType DEF IndInv, RootTrail
  <2>4. Offered(nvars, RootTrail, heap \cup Undone(0))
    BY <1>0, CutOffers DEF RootTrail
  <2>5. Offered(nvars, trail', heap \cup Undone(0))
    BY <2>2, <2>3, <2>4, PushOffers
  <2> QED BY <1>0, <2>1, <2>2, <2>5, GrowOffers DEF HeapOK
<1>5. CASE ResetTheory
  BY <1>5 DEF ResetTheory, HeapOK
<1>6. ASSUME NEW assume \in AssumptionLists, NEW limit, NEW theory,
             Solve(assume, limit, theory)
      PROVE  HeapOK'
  <2>1. CASE nvars' = nvars /\ UNCHANGED trailVars
    BY <2>1 DEF trailVars, HeapOK
  <2>2. assume \in Seq(Lit)
    BY SatAssumption
  <2>3. Range(assume) \in SUBSET Lit
    BY <2>2, RangeIs
  <2>4. CASE /\ nvars' = VarsAfter(Range(assume)) /\ trail' = TrailAfter(0)
             /\ heap' = (heap \cup Undone(0)) \cup NewVars(Range(assume))
    <3>1. VarsAfter(Range(assume)) \in Nat
      BY <2>3, VarsAfterType DEF IndInv, RestOK
    <3> QED BY <1>0, <2>3, <2>4, <3>1, CutOffers, GrowOffers DEF HeapOK
  <2>5. CASE nvars' = VarsAfter(Range(assume)) /\ assume = <<>> /\ UNCHANGED trailVars
    <3>1. VarsAfter({}) \in Nat /\ {} \in SUBSET Lit
      BY VarsAfterType DEF IndInv, RestOK
    <3>2. Range(assume) = {}
      BY <2>5, EmptySeq DEF Range
    <3>3. nvars' = nvars
      <4>1. Max({nvars} \cup {VarOf(l) : l \in {}}) = Max({nvars})
        BY Zenon
      <4>2. Max({nvars}) = nvars
        <5> DEFINE S == {nvars}
        <5>1. S \subseteq Nat /\ S # {} /\ \A s \in S : s <= nvars
          BY <1>0
        <5> HIDE DEF S
        <5>2. Max(S) \in S
          BY <1>0, <5>1, MaxIn
        <5> QED BY <5>2 DEF S
      <4> QED BY <2>5, <3>2, <4>1, <4>2 DEF VarsAfter
    <3> QED BY <2>5, <3>3 DEF trailVars, HeapOK
  <2> QED BY <1>6, <2>1, <2>4, <2>5 DEF Solve
<1> QED BY <1>1, <1>2, <1>3, <1>4, <1>5, <1>6 DEF Call

\* An assumption is a literal.
LEMMA AssumedLit ==
  ASSUME IndInv, DecisionLevel < Len(run.assume)
  PROVE  run.assume[DecisionLevel + 1] \in Lit
<1>1. run.assume \in Seq(Lit) /\ DecisionLevel \in Nat
  BY Typed DEF IndInv, RestOK, Search
<1>2. DecisionLevel + 1 \in 1..Len(run.assume)
  BY <1>1, LenProperties
<1> QED BY <1>1, <1>2, ElementOfSeq

\* nor does the search: what it pops from the heap is assigned.
LEMMA SearchOffers == ASSUME IndInv, Sound, HeapOK, SearchStep PROVE HeapOK'
<1>0. /\ nvars \in Nat /\ trail \in Seq(Lit) /\ 0 \in Nat /\ DecisionLevel \in Nat
      /\ \A q \in Lit : Lv(q) \in Nat /\ (Lv(q) > 0 => Lv(q) - 1 \in Nat)
  BY Typed DEF IndInv, RestOK, TrailOK
<1>1. CASE UNCHANGED <<nvars, trail, heap>>
  BY <1>1 DEF HeapOK
<1>2. ASSUME NEW k \in Nat, trail' = TrailAfter(k), heap' = heap \cup Undone(k),
             nvars' = nvars
      PROVE  HeapOK'
  BY <1>2, RetractOffers
<1>3. ASSUME NEW k \in Nat, NEW l \in Lit, NEW r, NEW lv,
             CancelAndAssign(k, l, r, lv), nvars' = nvars
      PROVE  HeapOK'
  BY <1>3, AssignOffers
<1>4. CASE AttachPending
  <2>1. CASE PendingUnit
    <3>1. nvars' = nvars
      BY <2>1 DEF PendingUnit, TakePending
    <3>2. \/ UNCHANGED <<trail, heap>>
          \/ \E l \in Lit, k \in Nat : CancelAndAssign(k, l, NoReason, 0)
      BY <1>0, <2>1 DEF PendingUnit, trailVars, Assign
    <3> QED BY <1>1, <1>3, <3>1, <3>2
  <2>2. CASE PendingClause
    <3>1. nvars' = nvars /\ Head(pending) \in SUBSET Lit
      BY <2>2, TakePendingFacts DEF PendingClause, TakePending
    <3>2. \/ UNCHANGED <<trail, heap>>
          \/ \E l \in Lit : \E r, lv : CancelAndAssign(DecisionLevel, l, r, lv)
      BY <2>2, <3>1 DEF PendingClause, trailVars, Assign
    <3> QED BY <1>0, <1>1, <1>3, <3>1, <3>2
  <2> QED BY <1>4, <2>1, <2>2 DEF AttachPending
<1>5. CASE Propagate
  <2>1. nvars' = nvars
    BY <1>5 DEF Propagate, PropagateNext, DropStaleWatch, SkipBlocked, Visit,
                KeepSatisfied, MoveWatch, ImplyUnit, FindConflict, Propagating
  <2>2. CASE \E w \in todo : ImplyUnit(w)
    <3>1. PICK w \in todo : ImplyUnit(w)
      BY <2>2
    <3>2. OtherWatch(clauses[w.cref]) \in Lit
      BY ScanFacts
    <3>3. \E l \in Lit : \E r, lv : CancelAndAssign(DecisionLevel, l, r, lv)
      BY <3>1, <3>2 DEF ImplyUnit, Assign
    <3> QED BY <1>0, <1>3, <2>1, <3>3
  <2>3. CASE ~\E w \in todo : ImplyUnit(w)
    <3>1. UNCHANGED <<trail, heap>>
      BY <1>5, <2>3 DEF Propagate, PropagateNext, DropStaleWatch, SkipBlocked,
                        KeepSatisfied, MoveWatch, FindConflict, trailVars
    <3> QED BY <1>1, <2>1, <3>1
  <2> QED BY <2>2, <2>3
<1>6. ASSUME NEW c \in SUBSET Lit, NEW n, AttachConflict(c, n), nvars' = nvars
      PROVE  HeapOK'
  <2>1. PICK k \in Nat : trail' = TrailAfter(k) /\ heap' = heap \cup Undone(k)
    BY <1>0, <1>6 DEF AttachConflict
  <2> QED BY <1>2, <1>6, <2>1
<1>7. CASE TheoryPass
  <2>1. CASE TheoryConflict
    <3>1. PICK C \in Conflicts : AttachConflict(Negation(C), Len(trail))
      BY <2>1 DEF TheoryConflict
    <3>2. Negation(C) \in SUBSET Lit /\ nvars' = nvars
      BY <2>1, <3>1, Typed DEF Conflicts, Negation, TheoryConflict, Consult
    <3> QED BY <1>6, <3>1, <3>2
  <2>2. ASSUME NEW i \in answer, ValidFails(i) PROVE HeapOK'
    <3>1. i.lit \in Lit /\ nvars' = nvars
      BY <2>2, AnswerFacts DEF ValidFails
    <3>2. \/ UNCHANGED trailVars
          \/ Lv(i.lit) > 0 /\ CancelAndAssign(Lv(i.lit) - 1, i.lit, NoReason, 0)
      BY <2>2 DEF ValidFails
    <3> QED BY <1>0, <1>1, <1>3, <3>1, <3>2 DEF trailVars
  <2>3. ASSUME NEW i \in answer, ImpliedFails(i) PROVE HeapOK'
    <3>1. {i.lit} \cup Negation(i.why) \in SUBSET Lit /\ nvars' = nvars
      BY <2>3, AnswerFacts DEF ImpliedFails
    <3> QED BY <1>6, <2>3, <3>1 DEF ImpliedFails
  <2>4. ASSUME NEW i \in answer, ValidAssigned(i) \/ ImpliedAssigned(i) PROVE HeapOK'
    <3>1. i.lit \in Lit
      BY <2>4, AnswerFacts DEF ValidAssigned, ImpliedAssigned
    <3> QED BY <2>4, <3>1, StandOffers DEF ValidAssigned, ImpliedAssigned, Allocate
  <2>5. CASE TheoryAnswer \/ EndPass \/ \E i \in answer : ImpliedHolds(i)
    BY <1>1, <2>5 DEF TheoryAnswer, Consult, EndPass, ImpliedHolds, trailVars
  <2> QED BY <1>7, <2>1, <2>2, <2>3, <2>4, <2>5 DEF TheoryPass
<1>8. CASE HandleConflict
  <2>1. CASE RootConflict \/ Resolve \/ FindUIP \/ AnalysisPanics \/ Reduce
    BY <1>1, <2>1 DEF RootConflict, Conflicting, Resolve, FindUIP, AnalysisPanics,
                      Analyzing, Reduce, trailVars
  <2>2. CASE UnitBelow
    <3>1. /\ nvars' = nvars /\ ConflictLevel \in Nat /\ ConflictLevel > 0
          /\ ConflictClause.lits \subseteq Lit
      BY <2>2, ConflictFacts DEF UnitBelow, Conflicting
    <3>2. \E l \in Lit : \E r, lv : CancelAndAssign(ConflictLevel - 1, l, r, lv)
      BY <2>2, <3>1 DEF UnitBelow, TopLits
    <3> QED BY <1>3, <3>1, <3>2
  <2>3. CASE StartAnalysis
    <3>1. nvars' = nvars /\ ConflictLevel \in Nat
      BY <2>3, ConflictFacts DEF StartAnalysis, Conflicting
    <3> QED BY <1>1, <1>2, <2>3, <3>1 DEF StartAnalysis, CancelUntil, Retract, trailVars
  <2>4. CASE AssumptionConflict
    BY <1>0, <1>2, <2>4 DEF AssumptionConflict, Learning, CancelUntil, Retract
  <2>5. CASE Learn
    <3>1. nvars' = nvars /\ BacktrackLevel \in Nat /\ uip \in Lit
      BY <2>5, LearningFacts DEF Learn, Learning
    <3>2. \E r, lv : CancelAndAssign(BacktrackLevel, uip, r, lv)
      BY <2>5 DEF Learn
    <3> QED BY <1>3, <3>1, <3>2
  <2>6. CASE Account
    <3>1. nvars' = nvars /\ Len(run.assume) \in Nat
      BY <2>6, LenProperties DEF Account, IndInv, RestOK, Search
    <3>2. UNCHANGED trailVars \/ CancelUntil(0) \/ CancelUntil(Len(run.assume))
      BY <2>6 DEF Account
    <3> QED BY <1>0, <1>1, <1>2, <3>1, <3>2 DEF CancelUntil, Retract, trailVars
  <2> QED BY <1>8, <2>1, <2>2, <2>3, <2>4, <2>5, <2>6 DEF HandleConflict
<1>9. CASE Branch
  <2>1. CASE PlaceAssumption
    <3> DEFINE a == run.assume[DecisionLevel + 1]
    <3>1. nvars' = nvars /\ a \in Lit
      BY <2>1, AssumedLit DEF PlaceAssumption, Branching
    <3>2. \/ CancelUntil(0)
          \/ UNCHANGED <<trail, heap>>
          \/ OpenLevel(a) /\ heap' = heap
      BY <2>1 DEF PlaceAssumption
    <3> HIDE DEF a
    <3>3. CASE OpenLevel(a) /\ heap' = heap
      BY <1>0, <3>1, <3>3, PushOffers DEF OpenLevel, HeapOK
    <3> QED BY <1>0, <1>1, <1>2, <3>1, <3>2, <3>3 DEF CancelUntil, Retract
  <2>2. CASE Decide
    <3>0. PICK v \in heap \ Assigned : /\ heap' = heap \ ({v} \cup Assigned)
                                       /\ \E l \in {v, -v} : OpenLevel(l)
      BY <2>2 DEF Decide
    <3>1. PICK l \in {v, -v} : trail' = Append(trail, l)
      BY <3>0 DEF OpenLevel
    <3>2. v \in Var /\ l \in Lit /\ VarOf(l) = v /\ nvars' = nvars
      BY <2>2, <3>1 DEF IndInv, TrailOK, Lit, Var, VarOf, Decide, Branching
    <3>3. Offered(nvars, trail', heap)
      BY <1>0, <3>1, <3>2, PushOffers DEF HeapOK
    <3>4. \A x \in Range(trail) \cup {l} : x \in Range(trail')
      BY <1>0, <3>1, <3>2, AppendRange
    <3> QED BY <3>0, <3>1, <3>2, <3>3, <3>4 DEF HeapOK, Offered, Assigned
  <2>3. CASE AnswerSat
    BY <2>3 DEF AnswerSat, Branching, HeapOK, Offered, Assigned
  <2> QED BY <1>9, <2>1, <2>2, <2>3 DEF Branch
<1> QED BY <1>4, <1>5, <1>7, <1>8, <1>9 DEF SearchStep

\* An unassigned variable is always in the heap.
LEMMA NextOffers == IndInv /\ Sound /\ HeapOK /\ [Next]_vars => HeapOK'
<1>1. CASE UNCHANGED vars
  BY <1>1 DEF vars, trailVars, HeapOK
<1> QED BY <1>1, CallOffers, SearchOffers DEF Next

\* A new solver has no variable.
LEMMA InitOffers == Init => HeapOK
BY DEF Init, HeapOK, Offered

\* It is what the property says.
LEMMA HeapIsComplete == HeapOK => HeapComplete
BY DEF HeapOK, HeapComplete, Offered, Known, Assigned

-----------------------------------------------------------------------------
(* The queue of propagate, when the solver backtracks to a prefix.         *)

\* Nothing is queued, each decision level begins with propagated literals, and
\* a pass that assigned nothing leaves none to propagate.
QueueOK ==
  /\ pending = <<>> /\ qhead <= Len(trail)
  /\ \A d \in 1..Len(lims) : lims[d] <= qhead /\ (todo # {} => lims[d] < qhead)
  /\ pc = "branch" \/ (pc = "theory" /\ ~progress) => qhead = Len(trail)
  /\ pc \in {"analyze", "learn"} => DecisionLevel > 0

Elsewhere2 == pc' \notin {"branch", "theory", "analyze", "learn"}

\* Without kept literals cancel_until leaves a prefix of the trail.
LEMMA PrefixLeft ==
  ASSUME IndInv, ~Resumable, NEW k \in Nat
  PROVE  /\ TrailAfter(k) \in Seq(Lit)
         /\ Len(TrailAfter(k)) = IF DecisionLevel <= k THEN Len(trail) ELSE Target(k)
         /\ Len(TrailAfter(k)) \in Nat /\ Len(TrailAfter(k)) <= Len(trail)
         /\ \A p \in 1..Len(TrailAfter(k)) : TrailAfter(k)[p] = trail[p]
<1>1. trail \in Seq(Lit) /\ Len(trail) \in Nat /\ DecisionLevel \in Nat /\ TrailOK
  BY LenProperties DEF IndInv, TrailOK, DecisionLevel
<1>2. TrailAfter(k) \in Seq(Lit)
  BY <1>1, TrailAfterType
<1>3. CASE DecisionLevel <= k
  BY <1>1, <1>2, <1>3 DEF TrailAfter
<1>4. CASE ~(DecisionLevel <= k)
  <2>1. k < DecisionLevel
    BY <1>1, <1>4
  <2>2. Kept(k) = {}
    BY DEF Kept
  <2>3. Cardinality(Kept(k)) = 0
    BY <2>2, FS_EmptySet
  <2>4. Target(k) \in 0..Len(trail) /\ Len(TrailAfter(k)) = Target(k) + 0
        /\ \A i \in 1..Target(k) : TrailAfter(k)[i] = trail[i]
    BY <1>1, <2>1, <2>3, CutContents
  <2> QED BY <1>1, <1>2, <1>4, <2>4
<1> QED BY <1>3, <1>4

\* Backtracking leaves the queue in order.
LEMMA CutQueue ==
  ASSUME IndInv, ~Resumable, QueueOK, NEW k \in Nat,
         lims' = LimsAfter(k), qhead' = QheadAfter(k), pending' = pending,
         trail' = TrailAfter(k) \/ \E l \in Lit : trail' = Append(TrailAfter(k), l),
         todo' = {} \/ (DecisionLevel <= k /\ todo' \subseteq todo), Elsewhere2
  PROVE  QueueOK'
<1>1. /\ TrailAfter(k) \in Seq(Lit) /\ Len(TrailAfter(k)) \in Nat
      /\ Len(TrailAfter(k)) = IF DecisionLevel <= k THEN Len(trail) ELSE Target(k)
  BY PrefixLeft
<1>2. Len(trail') = Len(TrailAfter(k)) \/ Len(trail') = Len(TrailAfter(k)) + 1
  BY <1>1, AppendProperties
<1>3. qhead' = IF DecisionLevel <= k THEN qhead ELSE Target(k)
  BY DEF QheadAfter
<1>4. qhead' <= Len(trail')
  BY <1>1, <1>2, <1>3 DEF QueueOK, IndInv, TrailOK
<1>5. ASSUME NEW d \in 1..Len(lims')
      PROVE  lims'[d] <= qhead' /\ (todo' # {} => lims'[d] < qhead')
  <2>1. d \in 1..Len(lims) /\ lims'[d] = lims[d]
    BY LimsLeft DEF IndInv
  <2>2. CASE DecisionLevel <= k
    BY <1>3, <2>1, <2>2 DEF QueueOK
  <2>3. CASE ~(DecisionLevel <= k)
    <3>1. k < DecisionLevel
      BY <2>3, Typed
    <3> QED BY <1>3, <1>5, <2>1, <2>3, <3>1, LimsLeft DEF IndInv
  <2> QED BY <2>2, <2>3
<1> QED BY <1>4, <1>5 DEF QueueOK, Elsewhere2

\* Assigning after a backtrack.
LEMMA AssignQueue ==
  ASSUME IndInv, ~Resumable, QueueOK, NEW k \in Nat, NEW l \in Lit, NEW r, NEW lv,
         CancelAndAssign(k, l, r, lv), pending' = pending, todo' = {}, Elsewhere2
  PROVE  QueueOK'
BY CutQueue DEF CancelAndAssign, Retract

\* Steps that leave the queue alone.
LEMMA SameQueue ==
  ASSUME QueueOK, UNCHANGED <<pending, qhead, trail, lims>>, todo' \subseteq todo,
         Elsewhere2 \/ (pc' \in {"analyze", "learn"} /\ DecisionLevel > 0)
  PROVE  QueueOK'
BY DEF QueueOK, Elsewhere2, DecisionLevel

\* A decision level begins where everything is propagated.
LEMMA OpenQueue ==
  ASSUME IndInv, QueueOK, todo = {}, todo' = {}, qhead = Len(trail), qhead' = qhead,
         lims' = Append(lims, Len(trail)), pending' = pending,
         trail' = trail \/ \E l \in Lit : trail' = Append(trail, l), Elsewhere2
  PROVE  QueueOK'
<1>1. trail \in Seq(Lit) /\ lims \in Seq(Nat) /\ Len(trail) \in Nat /\ Len(lims) \in Nat
  BY LenProperties DEF IndInv, TrailOK
<1>2. Len(trail') = Len(trail) \/ Len(trail') = Len(trail) + 1
  BY <1>1, AppendProperties
<1>3. \A d \in 1..Len(lims') : lims'[d] <= qhead
  <2>1. /\ Len(lims') = Len(lims) + 1 /\ lims'[Len(lims) + 1] = Len(trail)
        /\ \A d \in 1..Len(lims) : lims'[d] = lims[d]
    BY <1>1, AppendProperties
  <2> QED BY <1>1, <2>1 DEF QueueOK
<1> QED BY <1>1, <1>2, <1>3 DEF QueueOK, Elsewhere2

\* The caller finds and leaves the queue in order,
LEMMA CallQueue == ASSUME IndInv, ~Resumable, QueueOK, Call PROVE QueueOK'
<1>0. pc = "idle" /\ todo' = {} /\ todo = {}
  BY DEF Call, MkVar, AddIgnored, AddDeferred, AddAtRoot, CallAdd, ResetTheory, Solve,
         IndInv, LocalsOK
<1>1. CASE MkVar \/ ResetTheory \/ \E c \in Range(Pool) : AddIgnored(c)
  <2>1. UNCHANGED <<pending, qhead, trail, lims, pc>>
    BY <1>1 DEF MkVar, ResetTheory, AddIgnored, CallAdd, trailVars
  <2> QED BY <1>0, <2>1, SameQueue DEF Elsewhere2
<1>2. ASSUME NEW c \in Range(Pool), AddDeferred(c) PROVE QueueOK'
  BY <1>2 DEF AddDeferred, Deferred
<1>3. ASSUME NEW c \in Range(Pool), AddAtRoot(c) PROVE QueueOK'
  <2>1. /\ lims' = <<>> /\ qhead' = QheadAfter(0) /\ pending' = pending /\ pc' = pc
        /\ trail' = RootTrail \/ \E l \in Lit : trail' = Append(RootTrail, l)
    BY <1>3 DEF AddAtRoot, CallAdd
  <2>2. /\ RootTrail \in Seq(Lit) /\ Len(RootTrail) \in Nat
        /\ Len(RootTrail) = IF DecisionLevel <= 0 THEN Len(trail) ELSE Target(0)
    BY PrefixLeft DEF RootTrail
  <2>3. Len(trail') = Len(RootTrail) \/ Len(trail') = Len(RootTrail) + 1
    BY <2>1, <2>2, AppendProperties
  <2>4. qhead' <= Len(trail')
    BY <2>1, <2>2, <2>3 DEF QheadAfter, QueueOK, IndInv, TrailOK
  <2> QED BY <1>0, <2>1, <2>4, EmptySeq DEF QueueOK
<1>4. ASSUME NEW assume, NEW limit, NEW theory, Solve(assume, limit, theory)
      PROVE  QueueOK'
  <2>1. pending' = pending /\ (UNCHANGED <<trailVars, pc>> \/ (lims' = <<>> /\ qhead' = 0
          /\ trail' = TrailAfter(0) /\ pc' \in {"bcp", "attach"}))
    BY <1>4 DEF Solve, Deferred, ToLoopHead
  <2>2. CASE UNCHANGED <<trailVars, pc>>
    BY <1>0, <2>1, <2>2, SameQueue DEF Elsewhere2, trailVars
  <2>3. CASE /\ lims' = <<>> /\ qhead' = 0 /\ trail' = TrailAfter(0)
             /\ pc' \in {"bcp", "attach"}
    <3>1. Len(trail') \in Nat
      BY <2>3, PrefixLeft
    <3> QED BY <1>0, <2>1, <2>3, <3>1, EmptySeq DEF QueueOK
  <2> QED BY <2>1, <2>2, <2>3
<1> QED BY <1>1, <1>2, <1>3, <1>4 DEF Call

\* and so do propagate,
LEMMA PropagateQueue == ASSUME IndInv, ~Resumable, QueueOK, Propagate PROVE QueueOK'
<1>0. /\ pc = "bcp" /\ pending' = pending /\ Len(trail) \in Nat /\ qhead \in Nat
      /\ \A d \in 1..Len(lims) : lims[d] \in Nat
  BY Typed, LevelsAre DEF Propagate, PropagateNext, DropStaleWatch, SkipBlocked, Visit,
         KeepSatisfied, MoveWatch, ImplyUnit, FindConflict, Propagating, IndInv, TrailOK
<1>1. CASE PropagateNext
  BY <1>0, <1>1 DEF PropagateNext, QueueOK
<1>2. ASSUME NEW w \in todo, ImplyUnit(w) PROVE QueueOK'
  <2>1. OtherWatch(clauses[w.cref]) \in Lit /\ DecisionLevel \in Nat
    BY ScanFacts, Typed
  <2>2. \E l \in Lit : \E r, lv : CancelAndAssign(DecisionLevel, l, r, lv)
    BY <1>2, <2>1 DEF ImplyUnit, Assign
  <2>3. /\ lims' = LimsAfter(DecisionLevel) /\ qhead' = QheadAfter(DecisionLevel)
        /\ \E l \in Lit : trail' = Append(TrailAfter(DecisionLevel), l)
        /\ todo' \subseteq todo /\ pc' = pc
    BY <1>2, <2>2 DEF CancelAndAssign, Retract, ImplyUnit
  <2> QED BY <1>0, <2>1, <2>3, CutQueue DEF Elsewhere2
<1>3. ASSUME NEW w \in todo, FindConflict(w) PROVE QueueOK'
  <2>1. /\ qhead' = Len(trail) /\ trail' = trail /\ lims' = lims /\ todo' = {}
        /\ pc' = "conflict"
    BY <1>3 DEF FindConflict
  <2> QED BY <1>0, <2>1 DEF QueueOK, IndInv, TrailOK
<1>4. ASSUME NEW w \in todo,
             DropStaleWatch(w) \/ SkipBlocked(w) \/ KeepSatisfied(w) \/ MoveWatch(w)
      PROVE  QueueOK'
  <2>1. UNCHANGED <<qhead, trail, lims, pc>> /\ todo' \subseteq todo
    BY <1>4 DEF DropStaleWatch, SkipBlocked, KeepSatisfied, MoveWatch, trailVars
  <2> QED BY <1>0, <2>1, SameQueue DEF Elsewhere2
<1> QED BY <1>1, <1>2, <1>3, <1>4 DEF Propagate

\* a theory pass,
LEMMA TheoryQueue ==
  ASSUME IndInv, Sound, ~Resumable, QueueOK, TheoryPass PROVE QueueOK'
<1>0. todo' = {} /\ todo = {} /\ pending' = pending
  BY DEF TheoryPass, TheoryConflict, TheoryAnswer, Consult, AtFixpoint, ImpliedHolds,
         ValidFails, ImpliedFails, ValidAssigned, ImpliedAssigned, EndPass, Answering,
         IndInv, LocalsOK
<1>9. \A q \in Lit : Lv(q) \in Nat /\ (Lv(q) > 0 => Lv(q) - 1 \in Nat)
  BY Typed
<1>1. ASSUME NEW c \in SUBSET Lit, NEW n, AttachConflict(c, n) PROVE QueueOK'
  <2>1. PICK k \in Nat : /\ trail' = TrailAfter(k) /\ lims' = LimsAfter(k)
                         /\ qhead' = QheadAfter(k) /\ pc' = "conflict"
    BY <1>1, <1>9 DEF AttachConflict
  <2> QED BY <1>0, <2>1, CutQueue DEF Elsewhere2
<1>2. CASE TheoryConflict
  <2>1. PICK C \in Conflicts : AttachConflict(Negation(C), Len(trail))
    BY <1>2 DEF TheoryConflict
  <2>2. Negation(C) \in SUBSET Lit
    BY <2>1, Typed DEF Conflicts, Negation
  <2> QED BY <1>1, <2>1, <2>2
<1>3. CASE TheoryAnswer
  <2>1. UNCHANGED <<trail, lims, qhead>> /\ qhead = Len(trail) /\ pc' = "theory"
    BY <1>3 DEF TheoryAnswer, Consult, AtFixpoint
  <2> QED BY <1>0, <2>1 DEF QueueOK
<1>4. ASSUME NEW i \in answer, ImpliedHolds(i) PROVE QueueOK'
  <2>1. UNCHANGED <<trail, lims, qhead, pc, progress>>
    BY <1>4 DEF ImpliedHolds, trailVars
  <2> QED BY <1>0, <2>1 DEF QueueOK, DecisionLevel
<1>5. ASSUME NEW i \in answer, ValidFails(i) PROVE QueueOK'
  <2>1. i.lit \in Lit
    BY <1>5, AnswerFacts DEF ValidFails
  <2>2. CASE UNCHANGED trailVars /\ pc' = "idle"
    BY <1>0, <2>2, SameQueue DEF Elsewhere2, trailVars
  <2>3. CASE /\ Lv(i.lit) > 0 /\ CancelAndAssign(Lv(i.lit) - 1, i.lit, NoReason, 0)
             /\ pc' \in {"bcp", "attach"}
    BY <1>0, <1>9, <2>1, <2>3, AssignQueue DEF Elsewhere2
  <2> QED BY <1>5, <2>2, <2>3 DEF ValidFails, LeavePass
<1>6. ASSUME NEW i \in answer, ImpliedFails(i) PROVE QueueOK'
  <2>1. {i.lit} \cup Negation(i.why) \in SUBSET Lit
    BY <1>6, AnswerFacts DEF ImpliedFails
  <2> QED BY <1>1, <1>6, <2>1 DEF ImpliedFails
<1>7. ASSUME NEW i \in answer, ValidAssigned(i) \/ ImpliedAssigned(i) PROVE QueueOK'
  <2>1. i.lit \in Lit /\ trail \in Seq(Lit)
    BY <1>7, AnswerFacts, Typed DEF ValidAssigned, ImpliedAssigned
  <2>2. /\ trail' = Append(trail, i.lit) /\ lims' = lims /\ qhead' = qhead
        /\ pc' = "theory" /\ progress' = TRUE
    BY <1>7 DEF ValidAssigned, ImpliedAssigned, Answering
  <2>3. Len(trail') = Len(trail) + 1 /\ Len(trail) \in Nat /\ qhead \in Nat
    BY <2>1, <2>2, AppendProperties DEF IndInv, TrailOK
  <2> QED BY <1>0, <2>2, <2>3 DEF QueueOK
<1>8. CASE EndPass
  <2>1. /\ UNCHANGED <<trail, lims, qhead>> /\ pc = "theory"
        /\ pc' = IF ~progress THEN "branch" ELSE IF pending = <<>> THEN "bcp" ELSE "attach"
    BY <1>8 DEF EndPass, LeavePass, Answering, trailVars
  <2> QED BY <1>0, <2>1 DEF QueueOK
<1> QED BY <1>2, <1>3, <1>4, <1>5, <1>6, <1>7, <1>8 DEF TheoryPass

\* conflict handling,
LEMMA HandleQueue ==
  ASSUME IndInv, Sound, ~Resumable, QueueOK, HandleConflict PROVE QueueOK'
<1>0. DecisionLevel \in Nat /\ 0 \in Nat /\ ~Chronological
  BY Typed DEF Chronological
<1>1. pending' = pending /\ todo' = {} /\ todo = {}
  BY <1>0 DEF HandleConflict, RootConflict, UnitBelow, StartAnalysis, Resolve, FindUIP,
         AnalysisPanics, Analyzing, AssumptionConflict, Learn, Learning, Account, Reduce,
         Conflicting, Return, EndLocals, IndInv, LocalsOK
<1>2. CASE RootConflict \/ AnalysisPanics \/ Reduce
  <2>1. UNCHANGED trailVars /\ pc' \in {"idle", "panic", "bcp", "attach"}
    BY <1>2 DEF RootConflict, AnalysisPanics, Analyzing, Reduce, Return, ToLoopHead
  <2> QED BY <1>1, <2>1, SameQueue DEF Elsewhere2, trailVars
<1>3. CASE StartAnalysis \/ Resolve \/ FindUIP
  <2>1. /\ UNCHANGED trailVars /\ pc' \in {"analyze", "learn"} /\ DecisionLevel > 0
    BY <1>0, <1>3 DEF StartAnalysis, Resolve, FindUIP, Analyzing, QueueOK
  <2> QED BY <1>1, <2>1, SameQueue DEF trailVars
<1>4. CASE UnitBelow
  BY <1>0, <1>4 DEF UnitBelow
<1>5. ASSUME NEW k \in Nat, CancelUntil(k), Elsewhere2 PROVE QueueOK'
  BY <1>1, <1>5, CutQueue DEF CancelUntil, Retract
<1>6. CASE AssumptionConflict
  BY <1>0, <1>5, <1>6 DEF AssumptionConflict, Return, Elsewhere2
<1>7. CASE Learn
  <2>1. BacktrackLevel \in Nat /\ uip \in Lit /\ pc' = "account"
    BY <1>7, LearningFacts DEF Learn
  <2>2. \E r, lv : CancelAndAssign(BacktrackLevel, uip, r, lv)
    BY <1>7 DEF Learn
  <2> QED BY <1>1, <2>1, <2>2, AssignQueue DEF Elsewhere2
<1>8. CASE Account
  <2>1. /\ UNCHANGED trailVars \/ CancelUntil(0) \/ CancelUntil(Len(run.assume))
        /\ pc' \in {"idle", "reduce", "bcp", "attach"} /\ Len(run.assume) \in Nat
    BY <1>8, LenProperties DEF Account, ToLoopHead, IndInv, RestOK, Search
  <2>2. UNCHANGED trailVars => QueueOK'
    BY <1>1, <2>1, SameQueue DEF Elsewhere2, trailVars
  <2> QED BY <1>0, <1>5, <2>1, <2>2 DEF Elsewhere2
<1> QED BY <1>2, <1>3, <1>4, <1>6, <1>7, <1>8 DEF HandleConflict

\* and branching.
LEMMA BranchQueue ==
  ASSUME IndInv, ~Resumable, QueueOK, Branch PROVE QueueOK'
<1>0. /\ pending' = pending /\ todo' = {} /\ todo = {} /\ qhead = Len(trail) /\ 0 \in Nat
      /\ Branching /\ pc' \in {"idle", "bcp", "attach"}
  BY DEF Branch, PlaceAssumption, Decide, AnswerSat, Branching, Return, EndLocals,
         ToLoopHead, AtFixpoint, QueueOK, IndInv, LocalsOK
<1>1. CASE CancelUntil(0)
  BY <1>0, <1>1, CutQueue DEF CancelUntil, Retract, Elsewhere2
<1>2. CASE UNCHANGED <<trail, lims, qhead>>
  BY <1>0, <1>2, SameQueue DEF Elsewhere2
<1>3. CASE /\ lims' = Append(lims, Len(trail)) /\ qhead' = qhead
           /\ trail' = trail \/ \E l \in Lit : trail' = Append(trail, l)
  BY <1>0, <1>3, OpenQueue DEF Elsewhere2
<1>4. CASE PlaceAssumption
  <2>1. run.assume[DecisionLevel + 1] \in Lit
    BY <1>4, AssumedLit DEF PlaceAssumption
  <2> QED BY <1>1, <1>3, <1>4, <2>1 DEF PlaceAssumption, OpenLevel
<1>5. CASE Decide
  <2>1. PICK v \in heap \ Assigned : \E l \in {v, -v} : OpenLevel(l)
    BY <1>5 DEF Decide
  <2>2. v \in Lit /\ -v \in Lit
    BY <2>1 DEF IndInv, TrailOK, Lit, Var
  <2> QED BY <1>3, <1>5, <2>1, <2>2 DEF Decide, OpenLevel
<1>6. CASE AnswerSat
  BY <1>2, <1>6 DEF AnswerSat
<1> QED BY <1>4, <1>5, <1>6 DEF Branch

\* The queue of propagate is in order, where the solver backtracks to a prefix.
LEMMA NextQueue ==
  ASSUME ~Resumable
  PROVE  IndInv /\ Sound /\ QueueOK /\ [Next]_vars => QueueOK'
<1>1. ASSUME ~Resumable, QueueOK, AttachPending PROVE FALSE
  BY <1>1 DEF AttachPending, PendingUnit, PendingClause, TakePending, QueueOK
<1>2. CASE UNCHANGED vars
  BY <1>2 DEF vars, trailVars, theoryVars, QueueOK, DecisionLevel
<1> QED BY <1>1, <1>2, CallQueue, PropagateQueue, TheoryQueue, HandleQueue, BranchQueue
        DEF Next, SearchStep

\* A new solver has nothing to propagate.
LEMMA InitQueue == Init => QueueOK
BY EmptySeq DEF Init, QueueOK

-----------------------------------------------------------------------------
(* What propagate has seen, when the solver backtracks to a prefix.        *)

\* While a conflict is handled only the positions below its decision level
\* count: the rest is about to be retracted.
Analysing == pc \in {"conflict", "analyze", "learn"}
InScope(p) == Analysing => DecisionLevel > 0 /\ p <= lims[DecisionLevel]

\* Clause i was visited after its literal x became false at position p.
Seen(i, x, p) ==
  /\ p \in 1..Len(trail) /\ p <= qhead /\ trail[p] = -x /\ InScope(p)
  /\ ~(p = qhead /\ \E w \in todo : w.cref = i)

\* No backtrack retracts position q and keeps position p.
Outlasts(q, p) == \A d \in 1..Len(lims) : p <= lims[d] => q <= lims[d]

\* The visit found a true literal, and it will be there as long as x is false.
Justified(i, p) ==
  \E q \in 1..Len(trail) : trail[q] \in clauses[i].lits /\ Outlasts(q, p)

\* The literal x of clause i is false at p, and nothing makes up for it.
Missed(i, x, p) == Seen(i, x, p) /\ ~Justified(i, p)

\* Of the two watches of a live clause, at most one is false for nothing.
NeverBoth ==
  \A i \in 1..Len(clauses) : clauses[i].lits # {} =>
    \A p, r \in 1..Len(trail) :
      ~(Missed(i, clauses[i].w0, p) /\ Missed(i, clauses[i].w1, r))

\* Neither is.
NeverOne ==
  \A i \in 1..Len(clauses) : clauses[i].lits # {} =>
    \A p \in 1..Len(trail) :
      ~Missed(i, clauses[i].w0, p) /\ ~Missed(i, clauses[i].w1, p)

\* Clause i is deleted, or its literals stay and their order may change.
Rewatched(i) ==
  clauses'[i].lits # {} =>
    /\ clauses'[i].lits = clauses[i].lits
    /\ {clauses'[i].w0, clauses'[i].w1} = {clauses[i].w0, clauses[i].w1}

\* A step misses nothing it did not miss before.
Carried ==
  \A i \in 1..Len(clauses) : clauses'[i].lits # {} =>
    /\ clauses[i].lits # {}
    /\ \A x \in {clauses'[i].w0, clauses'[i].w1}, p \in 1..Len(trail') :
         Missed(i, x, p)' => /\ x \in {clauses[i].w0, clauses[i].w1}
                             /\ p \in 1..Len(trail) /\ Missed(i, x, p)

\* A step that keeps the first n literals of the trail, of which all that it
\* leaves propagated were propagated before.
LEMMA Carry ==
  ASSUME NEW n \in Nat, n <= Len(trail), n <= Len(trail'),
         Len(trail) \in Nat, Len(trail') \in Nat,
         \A p \in 1..n : trail'[p] = trail[p],
         \A i \in 1..Len(clauses) : Rewatched(i),
         \A p \in 1..Len(trail') : p <= qhead' /\ InScope(p)' =>
           p <= n /\ p <= qhead /\ InScope(p) /\ (todo = {} \/ p # qhead),
         \A p \in 1..n, q \in 1..Len(trail) : p <= qhead' /\ Outlasts(q, p) =>
           q <= n /\ Outlasts(q, p)'
  PROVE  Carried
<1> SUFFICES ASSUME NEW i \in 1..Len(clauses), clauses'[i].lits # {},
                    NEW x \in {clauses'[i].w0, clauses'[i].w1},
                    NEW p \in 1..Len(trail'), Missed(i, x, p)'
             PROVE  /\ x \in {clauses[i].w0, clauses[i].w1}
                    /\ p \in 1..Len(trail) /\ Missed(i, x, p)
  BY DEF Carried, Rewatched
<1>1. /\ clauses'[i].lits = clauses[i].lits /\ x \in {clauses[i].w0, clauses[i].w1}
  BY DEF Rewatched
<1>2. p <= qhead' /\ trail'[p] = -x /\ InScope(p)' /\ ~Justified(i, p)'
  BY DEF Missed, Seen
<1>3. p \in 1..n /\ p <= qhead /\ InScope(p) /\ (todo = {} \/ p # qhead)
  BY <1>2
<1>4. Seen(i, x, p)
  BY <1>2, <1>3 DEF Seen
<1>5. ASSUME NEW q \in 1..Len(trail), trail[q] \in clauses[i].lits, Outlasts(q, p)
      PROVE  FALSE
  <2>1. q \in 1..n /\ Outlasts(q, p)'
    BY <1>2, <1>3, <1>5
  <2>2. q \in 1..Len(trail') /\ trail'[q] \in clauses'[i].lits
    BY <1>1, <1>5, <2>1
  <2> QED BY <1>2, <2>1, <2>2 DEF Justified
<1> QED BY <1>1, <1>3, <1>4, <1>5 DEF Missed, Justified

\* Backtracking, assigning and standing still.
LEMMA CutCarry ==
  ASSUME IndInv, ~Resumable, QueueOK, todo = {}, NEW k \in Nat,
         trail' = TrailAfter(k) \/ \E l \in Lit : trail' = Append(TrailAfter(k), l),
         lims' = LimsAfter(k), qhead' = QheadAfter(k),
         \A i \in 1..Len(clauses) : Rewatched(i),
         ~Analysing \/ k < DecisionLevel \/ Analysing'
  PROVE  Carried
<1> DEFINE n == Len(TrailAfter(k))
<1>1. /\ TrailAfter(k) \in Seq(Lit) /\ n \in Nat /\ n <= Len(trail) /\ Len(trail) \in Nat
      /\ n = IF DecisionLevel <= k THEN Len(trail) ELSE Target(k)
      /\ \A p \in 1..n : TrailAfter(k)[p] = trail[p]
  BY PrefixLeft, Typed, LenProperties
<1>2. /\ Len(trail') \in Nat /\ n <= Len(trail') /\ \A p \in 1..n : trail'[p] = trail[p]
  BY <1>1, AppendProperties
<1>3. /\ DecisionLevel = Len(lims) /\ DecisionLevel \in Nat /\ qhead <= Len(trail)
      /\ qhead \in Nat /\ \A d \in 1..Len(lims) : lims[d] \in Nat /\ lims[d] <= qhead
      /\ \A d, e \in 1..Len(lims) : d <= e => lims[d] <= lims[e]
  BY Typed, LevelsAre DEF QueueOK, IndInv, TrailOK
<1>4. CASE DecisionLevel <= k
  <2>1. lims' = lims /\ qhead' = qhead /\ n = Len(trail)
    BY <1>1, <1>4 DEF LimsAfter, QheadAfter
  <2>2. ~(k < DecisionLevel)
    BY <1>3, <1>4
  <2>3. \A p \in 1..Len(trail') : InScope(p)' => InScope(p)
    BY <2>1, <2>2 DEF InScope, DecisionLevel
  <2>4. \A p, q : Outlasts(q, p) => Outlasts(q, p)'
    BY <2>1 DEF Outlasts
  <2> HIDE DEF n
  <2>5. \A p \in 1..Len(trail') : p <= qhead' /\ InScope(p)' =>
           p <= n /\ p <= qhead /\ InScope(p) /\ (todo = {} \/ p # qhead)
    BY <1>1, <1>2, <1>3, <2>1, <2>3
  <2> QED BY <1>1, <1>2, <2>1, <2>4, <2>5, Carry
<1>5. CASE k < DecisionLevel
  <2>1. /\ qhead' = Target(k) /\ n = Target(k) /\ Target(k) = lims[k + 1]
        /\ k + 1 \in 1..Len(lims)
    BY <1>1, <1>3, <1>5 DEF QheadAfter, Target
  <2>2. \A d \in 1..Len(lims') : d \in 1..Len(lims) /\ lims'[d] = lims[d]
    BY LimsLeft DEF IndInv
  <2> HIDE DEF n
  <2>3. n <= qhead /\ n <= lims[DecisionLevel] /\ DecisionLevel > 0
    BY <1>3, <1>5, <2>1
  <2>4. \A p \in 1..Len(trail') : p <= qhead' =>
           p <= n /\ p <= qhead /\ InScope(p) /\ (todo = {} \/ p # qhead)
    <3> SUFFICES ASSUME NEW p \in 1..Len(trail'), p <= qhead'
                 PROVE  p <= n /\ p <= qhead /\ p <= lims[DecisionLevel]
      BY <2>3 DEF InScope
    <3>1. DecisionLevel \in 1..Len(lims)
      BY <1>3, <2>3
    <3> QED BY <1>1, <1>2, <1>3, <2>1, <2>3, <3>1
  <2>5. ASSUME NEW p \in 1..n, NEW q \in 1..Len(trail), Outlasts(q, p)
        PROVE  q <= n /\ Outlasts(q, p)'
    <3>1. q <= n
      BY <2>1, <2>5 DEF Outlasts
    <3>2. Outlasts(q, p)'
      BY <2>2, <2>5 DEF Outlasts
    <3> QED BY <3>1, <3>2
  <2> QED BY <1>1, <1>2, <2>4, <2>5, Carry
<1> QED BY <1>3, <1>4, <1>5

\* Opening a decision level retracts nothing.
LEMMA OpenCarry ==
  ASSUME IndInv, QueueOK, todo = {}, ~Analysing, clauses' = clauses,
         trail' = trail \/ \E l \in Lit : trail' = Append(trail, l),
         lims' = Append(lims, Len(trail)), qhead' = qhead
  PROVE  Carried
<1>1. /\ trail \in Seq(Lit) /\ lims \in Seq(Nat) /\ Len(trail) \in Nat /\ Len(lims) \in Nat
      /\ qhead <= Len(trail) /\ qhead \in Nat
  BY LenProperties DEF IndInv, TrailOK, QueueOK
<1>2. /\ Len(trail') \in Nat /\ Len(trail) <= Len(trail')
      /\ \A p \in 1..Len(trail) : trail'[p] = trail[p]
  BY <1>1, AppendProperties
<1>3. /\ Len(lims') = Len(lims) + 1 /\ lims'[Len(lims) + 1] = Len(trail)
      /\ \A d \in 1..Len(lims) : lims'[d] = lims[d]
  BY <1>1, AppendProperties
<1>4. ASSUME NEW p \in 1..Len(trail), NEW q \in 1..Len(trail), Outlasts(q, p)
      PROVE  q <= Len(trail) /\ Outlasts(q, p)'
  BY <1>1, <1>3, <1>4 DEF Outlasts
<1>5. \A i \in 1..Len(clauses) : Rewatched(i)
  BY DEF Rewatched
<1>6. \A p \in 1..Len(trail') : p <= qhead' =>
           p <= Len(trail) /\ p <= qhead /\ InScope(p) /\ (todo = {} \/ p # qhead)
  BY <1>1, <1>2 DEF InScope
<1>7. \A p \in 1..Len(trail), q \in 1..Len(trail) : p <= qhead' /\ Outlasts(q, p) =>
           q <= Len(trail) /\ Outlasts(q, p)'
  BY <1>4
<1> DEFINE n == Len(trail)
<1>8. /\ n \in Nat /\ n <= Len(trail) /\ n <= Len(trail')
      /\ \A p \in 1..n : trail'[p] = trail[p]
      /\ \A p \in 1..Len(trail') : p <= qhead' /\ InScope(p)' =>
           p <= n /\ p <= qhead /\ InScope(p) /\ (todo = {} \/ p # qhead)
      /\ \A p \in 1..n, q \in 1..Len(trail) : p <= qhead' /\ Outlasts(q, p) =>
           q <= n /\ Outlasts(q, p)'
  BY <1>1, <1>2, <1>6, <1>7
<1> HIDE DEF n
<1> QED BY ONLY <1>1, <1>2, <1>5, <1>8, Carry

\* The next literal is propagated: its clauses are all to be visited.
LEMMA DequeueCarry == ASSUME IndInv, WatchesOK, QueueOK, PropagateNext PROVE Carried
<1>1. /\ UNCHANGED <<clauses, trail, lims, pc>> /\ todo = {} /\ qhead' = qhead + 1
      /\ todo' = watches[trail[qhead + 1]] /\ pc = "bcp" /\ qhead \in Nat
      /\ trail \in Seq(Lit)
  BY DEF PropagateNext, Propagating, dbVars, IndInv, TrailOK
<1> SUFFICES ASSUME NEW i \in 1..Len(clauses), clauses[i].lits # {},
                    NEW x \in {clauses[i].w0, clauses[i].w1},
                    NEW p \in 1..Len(trail), Missed(i, x, p)'
             PROVE  Missed(i, x, p)
  BY <1>1 DEF Carried
<1>2. /\ p <= qhead + 1 /\ trail[p] = -x
      /\ ~(p = qhead + 1 /\ \E w \in watches[trail[qhead + 1]] : w.cref = i)
      /\ ~Justified(i, p)
  BY <1>1 DEF Missed, Seen, Justified, Outlasts
<1>3. p # qhead + 1
  <2> SUFFICES ASSUME p = qhead + 1 PROVE FALSE
    OBVIOUS
  <2>1. trail[p] \in Lit /\ -trail[p] = x
    <3>1. x \in Lit
      BY ClauseFacts DEF IndInv
    <3> QED BY <1>1, <1>2, <3>1, RangeIs, LitPairs
  <2>2. Filing(clauses[i], i, watches)
    BY DEF WatchesOK, FilesOK
  <2>3. \E e : Filed(watches, i, trail[p]) = {e}
    BY <2>1, <2>2 DEF Filing
  <2> QED BY <1>2, <2>3 DEF Filed
<1>4. p <= qhead
  BY <1>1, <1>2, <1>3
<1> QED BY <1>1, <1>2, <1>4 DEF Missed, Seen, InScope, Analysing

\* One clause is visited: its other watches were seen before, and what it
\* watches now is not false, or a literal of it is true.
LEMMA ScanCarry ==
  ASSUME IndInv, QueueOK, NEW w \in todo, pc = "bcp",
         todo' = todo \ {w}, qhead' = qhead, lims' = lims,
         trail' = trail \/ \E l \in Lit : trail' = Append(trail, l),
         \A i \in 1..Len(clauses) \ {w.cref} : clauses'[i] = clauses[i],
         clauses'[w.cref].lits # {} =>
           /\ clauses'[w.cref].lits = clauses[w.cref].lits
           /\ \A x \in {clauses'[w.cref].w0, clauses'[w.cref].w1} :
                \/ x \in {clauses[w.cref].w0, clauses[w.cref].w1}
                \/ -x \notin Range(trail)
           /\ \/ \E q \in 1..Len(trail') : trail'[q] \in clauses[w.cref].lits
              \/ -Propagated \notin {clauses'[w.cref].w0, clauses'[w.cref].w1}
  PROVE  Carried
<1>1. /\ trail \in Seq(Lit) /\ Len(trail) \in Nat /\ qhead \in Nat /\ qhead <= Len(trail)
      /\ \A d \in 1..Len(lims) : lims[d] \in Nat /\ lims[d] < qhead
      /\ Propagated \in Lit /\ Len(clauses) \in Nat
  BY Typed, LevelsAre, ScanFacts DEF QueueOK, IndInv, TrailOK
<1>2. /\ Len(trail') \in Nat /\ Len(trail) <= Len(trail')
      /\ \A p \in 1..Len(trail) : trail'[p] = trail[p]
  BY <1>1, AppendProperties
<1> SUFFICES ASSUME NEW i \in 1..Len(clauses), clauses'[i].lits # {},
                    NEW x \in {clauses'[i].w0, clauses'[i].w1},
                    NEW p \in 1..Len(trail'), Missed(i, x, p)'
             PROVE  /\ clauses[i].lits # {} /\ x \in {clauses[i].w0, clauses[i].w1}
                    /\ p \in 1..Len(trail) /\ Missed(i, x, p)
  <2>1. \A i \in 1..Len(clauses) : clauses'[i].lits # {} => clauses[i].lits # {}
    OBVIOUS
  <2> QED BY <2>1 DEF Carried
<1>3. /\ p <= qhead /\ trail'[p] = -x /\ ~Justified(i, p)'
      /\ ~(p = qhead /\ \E v \in todo' : v.cref = i)
  BY DEF Missed, Seen
<1>4. p \in 1..Len(trail) /\ trail[p] = -x /\ InScope(p)
  BY <1>1, <1>2, <1>3 DEF InScope, Analysing
<1>5. clauses[i].lits = clauses'[i].lits
  OBVIOUS
<1>6. ~Justified(i, p)
  <2> SUFFICES ASSUME NEW q \in 1..Len(trail), trail[q] \in clauses[i].lits, Outlasts(q, p)
               PROVE  FALSE
    BY DEF Justified
  <2>1. q \in 1..Len(trail') /\ trail'[q] \in clauses'[i].lits
    BY <1>1, <1>2, <1>5
  <2>2. Outlasts(q, p)'
    BY DEF Outlasts
  <2> QED BY <1>3, <2>1, <2>2 DEF Justified
<1>7. CASE i # w.cref
  <2>1. ~(p = qhead /\ \E v \in todo : v.cref = i)
    BY <1>3, <1>7
  <2> QED BY <1>3, <1>4, <1>5, <1>6, <1>7, <2>1 DEF Missed, Seen
<1>8. CASE i = w.cref
  <2>1. x \in {clauses[i].w0, clauses[i].w1}
    BY <1>1, <1>4, <1>8, RangeIs
  <2>2. p # qhead
    <3> SUFFICES ASSUME p = qhead PROVE FALSE
      OBVIOUS
    <3>1. -Propagated = x
      <4>1. x \in Lit
        BY <2>1, ClauseFacts DEF IndInv
      <4> QED BY <1>4, <4>1, LitPairs DEF Propagated
    <3>2. PICK q \in 1..Len(trail') : trail'[q] \in clauses'[i].lits
      BY <1>5, <1>8, <3>1
    <3>3. Outlasts(q, p)'
      BY <1>1 DEF Outlasts
    <3> QED BY <1>3, <3>2, <3>3 DEF Justified
  <2> QED BY <1>3, <1>4, <1>5, <1>6, <2>1, <2>2 DEF Missed, Seen
<1> QED BY <1>7, <1>8

\* Clause i takes other watches, and no other clause changes.
LEMMA RewatchIs ==
  ASSUME IndInv, NEW i \in 1..Len(clauses), NEW a \in Lit, NEW b \in Lit,
         clauses' = [clauses EXCEPT ![i].w0 = a, ![i].w1 = b]
  PROVE  /\ clauses'[i].w0 = a /\ clauses'[i].w1 = b
         /\ clauses'[i].lits = clauses[i].lits
         /\ \A n \in 1..Len(clauses) \ {i} : clauses'[n] = clauses[n]
<1>1. clauses[i] \in Clause /\ DOMAIN clauses = 1..Len(clauses)
  BY ClauseFacts, LenProperties DEF IndInv, DbOK
<1>2. clauses'[i] = [clauses[i] EXCEPT !.w0 = a, !.w1 = b]
  BY <1>1
<1> QED BY <1>1, <1>2 DEF Clause

\* propagate passes over a clause only for a true literal of it.
LEMMA PropagateCarry == ASSUME IndInv, WatchesOK, QueueOK, Propagate PROVE Carried
<1>0. /\ clauses \in Seq(Clause) /\ DOMAIN clauses = 1..Len(clauses)
      /\ trail \in Seq(Lit) /\ DecisionLevel \in Nat
      /\ \A q \in Range(trail) : \E j \in 1..Len(trail) : trail[j] = q
  BY Typed, RangeIs, LenProperties DEF IndInv, DbOK
<1>1. CASE PropagateNext
  BY <1>1, DequeueCarry
<1>2. ASSUME NEW w \in todo, DropStaleWatch(w) PROVE Carried
  <2>1. /\ clauses' = clauses /\ clauses[w.cref].lits = {} /\ todo' = todo \ {w}
        /\ UNCHANGED <<qhead, lims, trail>> /\ pc = "bcp"
    BY <1>2 DEF DropStaleWatch, Deleted, Propagating, trailVars
  <2> QED BY <2>1, ScanCarry
<1>3. ASSUME NEW w \in todo, SkipBlocked(w) PROVE Carried
  <2>1. /\ clauses' = clauses /\ todo' = todo \ {w} /\ ~Deleted(w.cref)
        /\ UNCHANGED <<qhead, lims, trail>> /\ pc = "bcp" /\ Holds(w.blocker)
    BY <1>3 DEF SkipBlocked, Propagating, trailVars, dbVars
  <2>2. w.blocker \in clauses[w.cref].lits
    <3>1. /\ Filing(clauses[w.cref], w.cref, watches) /\ Propagated \in Lit
          /\ Filed(watches, w.cref, Propagated) = {w}
      BY <2>1, VisitedIs, ScanFacts
    <3> QED BY <3>1 DEF Filing
  <2>3. \E q \in 1..Len(trail') : trail'[q] \in clauses[w.cref].lits
    BY <1>0, <2>1, <2>2 DEF Holds
  <2> QED BY <2>1, <2>3, ScanCarry
<1>5. ASSUME NEW w \in todo, KeepSatisfied(w) \/ ImplyUnit(w) PROVE Carried
  <2> DEFINE first == OtherWatch(clauses[w.cref])
             b == -Propagated
  <2>1. /\ clauses' = Reordered(w.cref) /\ todo' = todo \ {w} /\ ~Deleted(w.cref)
        /\ pc = "bcp"
    BY <1>5 DEF KeepSatisfied, ImplyUnit, Visit, Propagating
  <2>2. /\ first \in clauses[w.cref].lits /\ b \in Lit /\ first \in Lit
        /\ w.cref \in 1..Len(clauses)
        /\ {first, b} = {clauses[w.cref].w0, clauses[w.cref].w1}
    BY <2>1, VisitedIs, ScanFacts
  <2>3. clauses' = [clauses EXCEPT ![w.cref].w0 = first, ![w.cref].w1 = b]
    BY <2>1 DEF Reordered
  <2>4. /\ UNCHANGED <<qhead, lims>> /\ \E q \in 1..Len(trail') : trail'[q] = first
        /\ trail' = trail \/ \E l \in Lit : trail' = Append(trail, l)
    <3>1. CASE KeepSatisfied(w)
      BY <1>0, <3>1 DEF KeepSatisfied, trailVars, Holds
    <3>2. CASE ImplyUnit(w)
      <4>1. UNCHANGED <<qhead, lims>> /\ trail' = Append(trail, first)
        BY <1>0, <3>2 DEF ImplyUnit, Assign, CancelAndAssign, Retract, TrailAfter,
                          QheadAfter, LimsAfter
      <4> HIDE DEF first
      <4>2. Len(trail) + 1 \in 1..Len(trail') /\ trail'[Len(trail) + 1] = first
        BY <1>0, <2>2, <4>1, AppendProperties, LenProperties
      <4> QED BY <2>2, <4>1, <4>2
    <3> QED BY <1>5, <3>1, <3>2
  <2> HIDE DEF first, b
  <2>5. /\ clauses'[w.cref].w0 = first /\ clauses'[w.cref].w1 = b
        /\ clauses'[w.cref].lits = clauses[w.cref].lits
        /\ \A i \in 1..Len(clauses) \ {w.cref} : clauses'[i] = clauses[i]
    BY <2>2, <2>3, RewatchIs
  <2>6. \E q \in 1..Len(trail') : trail'[q] \in clauses[w.cref].lits
    BY <2>2, <2>4
  <2> QED BY <2>1, <2>2, <2>4, <2>5, <2>6, ScanCarry
<1>6. ASSUME NEW w \in todo, MoveWatch(w) PROVE Carried
  <2> DEFINE first == OtherWatch(clauses[w.cref])
  <2>1. /\ todo' = todo \ {w} /\ ~Deleted(w.cref) /\ pc = "bcp"
        /\ UNCHANGED <<qhead, lims, trail>>
    BY <1>6 DEF MoveWatch, Visit, Propagating, trailVars
  <2>2. PICK l \in Replacements(w.cref) :
          clauses' = [clauses EXCEPT ![w.cref].w0 = first, ![w.cref].w1 = l]
    BY <1>6 DEF MoveWatch
  <2>3. /\ first \in Lit /\ clauses[w.cref].lits \subseteq Lit
        /\ w.cref \in 1..Len(clauses)
        /\ {first, -Propagated} = {clauses[w.cref].w0, clauses[w.cref].w1}
        /\ first # -Propagated
    BY <2>1, VisitedIs, ScanFacts
  <2>4. l \in Lit /\ -l \notin Range(trail) /\ l # -Propagated
    BY <2>3 DEF Replacements, Fails
  <2> HIDE DEF first
  <2>5. /\ clauses'[w.cref].w0 = first /\ clauses'[w.cref].w1 = l
        /\ clauses'[w.cref].lits = clauses[w.cref].lits
        /\ \A i \in 1..Len(clauses) \ {w.cref} : clauses'[i] = clauses[i]
    BY <2>2, <2>3, <2>4, RewatchIs
  <2> QED BY <2>1, <2>3, <2>4, <2>5, ScanCarry
<1>7. ASSUME NEW w \in todo, FindConflict(w) PROVE Carried
  <2> DEFINE first == OtherWatch(clauses[w.cref])
             b == -Propagated
             n == Len(trail)
  <2>1. /\ clauses' = Reordered(w.cref) /\ ~Deleted(w.cref) /\ pc = "bcp"
        /\ pc' = "conflict" /\ UNCHANGED <<lims, trail>> /\ qhead' = Len(trail)
    BY <1>7 DEF FindConflict, Visit, Propagating
  <2>2. /\ first \in Lit /\ b \in Lit /\ w.cref \in 1..Len(clauses)
        /\ {first, b} = {clauses[w.cref].w0, clauses[w.cref].w1}
    BY <2>1, VisitedIs, ScanFacts
  <2>3. clauses' = [clauses EXCEPT ![w.cref].w0 = first, ![w.cref].w1 = b]
    BY <2>1 DEF Reordered
  <2>4. \A p \in 1..Len(trail') : p <= qhead' /\ InScope(p)' =>
           p <= qhead /\ InScope(p) /\ (todo = {} \/ p # qhead)
    <3> SUFFICES ASSUME NEW p \in 1..Len(trail'), InScope(p)'
                 PROVE  p < qhead
      BY <2>1 DEF InScope, Analysing, IndInv, TrailOK
    <3>1. DecisionLevel \in 1..Len(lims) /\ p <= lims[DecisionLevel]
      BY <2>1, Typed DEF InScope, Analysing, DecisionLevel
    <3>2. lims[DecisionLevel] < qhead /\ lims[DecisionLevel] \in Nat /\ qhead \in Nat
      BY <1>7, <3>1, Typed, LevelsAre DEF QueueOK, IndInv, TrailOK
    <3> QED BY <3>1, <3>2
  <2> HIDE DEF first, b
  <2>5. \A i \in 1..Len(clauses) : Rewatched(i)
    <3>1. /\ clauses'[w.cref].w0 = first /\ clauses'[w.cref].w1 = b
          /\ clauses'[w.cref].lits = clauses[w.cref].lits
          /\ \A i \in 1..Len(clauses) \ {w.cref} : clauses'[i] = clauses[i]
      BY <2>2, <2>3, RewatchIs
    <3> QED BY <2>2, <3>1 DEF Rewatched
  <2>6. \A p, q : Outlasts(q, p) => Outlasts(q, p)'
    BY <2>1 DEF Outlasts
  <2>7. n \in Nat /\ trail' = trail /\ n = Len(trail)
    BY <1>0, <2>1, LenProperties
  <2> HIDE DEF n
  <2> QED BY <2>4, <2>5, <2>6, <2>7, Carry
<1> QED BY <1>1, <1>2, <1>3, <1>5, <1>6, <1>7 DEF Propagate

\* Standing still, but for a literal assigned and clauses attached or deleted.
LEMMA StillCarry ==
  ASSUME IndInv, ~Resumable, QueueOK, todo = {}, UNCHANGED <<lims, qhead>>,
         trail' = trail \/ \E l \in Lit : trail' = Append(trail, l),
         \A i \in 1..Len(clauses) : Rewatched(i), ~Analysing \/ Analysing'
  PROVE  Carried
<1>1. /\ DecisionLevel \in Nat /\ TrailAfter(DecisionLevel) = trail
      /\ LimsAfter(DecisionLevel) = lims /\ QheadAfter(DecisionLevel) = qhead
  BY Typed, Uncut DEF QheadAfter
<1> DEFINE k == DecisionLevel
<1>2. /\ k \in Nat /\ lims' = LimsAfter(k) /\ qhead' = QheadAfter(k)
      /\ trail' = TrailAfter(k) \/ \E l \in Lit : trail' = Append(TrailAfter(k), l)
      /\ ~Analysing \/ k < DecisionLevel \/ Analysing'
  BY <1>1
<1> HIDE DEF k
<1> QED BY <1>2, CutCarry

\* attach_clause changes no other clause.
LEMMA AttachRewatched ==
  ASSUME IndInv, NEW c \in SUBSET Lit, NEW w0 \in Lit, NEW w1 \in Lit,
         NEW b \in BOOLEAN, Attach(c, w0, w1, b)
  PROVE  /\ \A i \in 1..Len(clauses) : Rewatched(i)
         /\ Len(clauses') = Len(clauses) + 1 /\ Len(clauses) \in Nat
         /\ clauses'[Len(clauses) + 1].lits = c
         /\ clauses'[Len(clauses) + 1].w0 = w0 /\ clauses'[Len(clauses) + 1].w1 = w1
<1> DEFINE x == [lits |-> c, w0 |-> w0, w1 |-> w1, learnt |-> b]
<1>1. x \in Clause /\ clauses' = Append(clauses, x) /\ clauses \in Seq(Clause)
  BY DEF Attach, Clause, IndInv, DbOK
<1> HIDE DEF x
<1>2. /\ Len(clauses') = Len(clauses) + 1 /\ Len(clauses) \in Nat
      /\ clauses'[Len(clauses) + 1] = x
      /\ \A i \in 1..Len(clauses) : clauses'[i] = clauses[i]
  BY <1>1, AppendProperties, LenProperties
<1> QED BY <1>2 DEF Rewatched, x

\* attach_conflict_clause backtracks and attaches.
LEMMA AttachConflictCarry ==
  ASSUME IndInv, ~Resumable, QueueOK, todo = {}, ~Analysing,
         NEW c \in SUBSET Lit, NEW n, AttachConflict(c, n)
  PROVE  Carried
<1>1. PICK top \in {Lv(l) : l \in c} :
        /\ trail' = TrailAfter(top) /\ lims' = LimsAfter(top)
        /\ qhead' = QheadAfter(top) /\ \E w0, w1 \in c : Attach(c, w0, w1, TRUE)
  BY DEF AttachConflict
<1>2. PICK w0 \in c, w1 \in c : Attach(c, w0, w1, TRUE)
  BY <1>1
<1>3. top \in Nat /\ TRUE \in BOOLEAN /\ w0 \in Lit /\ w1 \in Lit
  BY Typed
<1>4. \A i \in 1..Len(clauses) : Rewatched(i)
  BY <1>2, <1>3, AttachRewatched
<1> QED BY <1>1, <1>3, <1>4, CutCarry

\* Nor does a theory pass miss anything,
LEMMA TheoryCarry ==
  ASSUME IndInv, Sound, ~Resumable, QueueOK, TheoryPass PROVE Carried
<1>0. todo = {} /\ ~Analysing
  BY DEF TheoryPass, TheoryConflict, TheoryAnswer, Consult, AtFixpoint, ImpliedHolds,
         ValidFails, ImpliedFails, ValidAssigned, ImpliedAssigned, EndPass, Answering,
         IndInv, LocalsOK, Analysing
<1>1. clauses' = clauses => \A i \in 1..Len(clauses) : Rewatched(i)
  BY DEF Rewatched
<1>2. CASE TheoryConflict
  <2>1. PICK C \in Conflicts : AttachConflict(Negation(C), Len(trail))
    BY <1>2 DEF TheoryConflict
  <2>2. Negation(C) \in SUBSET Lit
    BY <2>1, Typed DEF Conflicts, Negation
  <2> QED BY <1>0, <2>1, <2>2, AttachConflictCarry
<1>3. CASE TheoryAnswer \/ (\E i \in answer : ImpliedHolds(i)) \/ EndPass
  <2>1. UNCHANGED <<trail, lims, qhead, clauses>>
    BY <1>3 DEF TheoryAnswer, ImpliedHolds, EndPass, trailVars, dbVars
  <2> QED BY <1>0, <1>1, <2>1, StillCarry
<1>5. ASSUME NEW i \in answer, ValidFails(i) PROVE Carried
  <2>1. i.lit \in Lit /\ clauses' = clauses
    BY <1>5, AnswerFacts DEF ValidFails, dbVars
  <2>2. CASE UNCHANGED trailVars
    BY <1>0, <1>1, <2>1, <2>2, StillCarry DEF trailVars
  <2>3. CASE Lv(i.lit) > 0 /\ CancelAndAssign(Lv(i.lit) - 1, i.lit, NoReason, 0)
    <3>1. Lv(i.lit) - 1 \in Nat
      BY <2>1, <2>3, Typed
    <3> QED BY <1>0, <1>1, <2>1, <2>3, <3>1, CutCarry DEF CancelAndAssign, Retract
  <2> QED BY <1>5, <2>2, <2>3 DEF ValidFails
<1>6. ASSUME NEW i \in answer, ImpliedFails(i) PROVE Carried
  <2>1. {i.lit} \cup Negation(i.why) \in SUBSET Lit
    BY <1>6, AnswerFacts DEF ImpliedFails
  <2> QED BY <1>0, <1>6, <2>1, AttachConflictCarry DEF ImpliedFails
<1>7. ASSUME NEW i \in answer, ValidAssigned(i) PROVE Carried
  <2>1. i.lit \in Lit
    BY <1>7, AnswerFacts DEF ValidAssigned
  <2>2. trail' = Append(trail, i.lit) /\ UNCHANGED <<lims, qhead, clauses>>
    BY <1>7 DEF ValidAssigned, dbVars
  <2> QED BY <1>0, <1>1, <2>1, <2>2, StillCarry
<1>8. ASSUME NEW i \in answer, ImpliedAssigned(i) PROVE Carried
  <2> DEFINE others == Negation(i.why)
  <2>1. i.lit \in Lit /\ others \subseteq Lit
    BY <1>8, AnswerFacts DEF ImpliedAssigned
  <2>2. PICK w \in others : Attach({i.lit} \cup others, i.lit, w, TRUE)
    BY <1>8 DEF ImpliedAssigned
  <2>3. trail' = Append(trail, i.lit) /\ UNCHANGED <<lims, qhead>>
    BY <1>8 DEF ImpliedAssigned
  <2> HIDE DEF others
  <2>4. \A j \in 1..Len(clauses) : Rewatched(j)
    <3>1. {i.lit} \cup others \in SUBSET Lit /\ w \in Lit /\ TRUE \in BOOLEAN
      BY <2>1
    <3> QED BY <2>1, <2>2, <3>1, AttachRewatched
  <2> QED BY <1>0, <2>1, <2>3, <2>4, StillCarry
<1> QED BY <1>2, <1>3, <1>5, <1>6, <1>7, <1>8 DEF TheoryPass

\* conflict handling,
LEMMA HandleCarry ==
  ASSUME IndInv, Sound, ~Resumable, QueueOK, HandleConflict
  PROVE  Carried \/ pc' \in {"idle", "panic"}
<1>0. DecisionLevel \in Nat /\ 0 \in Nat /\ ~Chronological
  BY Typed DEF Chronological
<1>1. todo = {}
  BY <1>0 DEF HandleConflict, RootConflict, UnitBelow, StartAnalysis, Resolve, FindUIP,
         AnalysisPanics, Analyzing, AssumptionConflict, Learn, Learning, Account, Reduce,
         Conflicting, IndInv, LocalsOK
<1>2. CASE RootConflict \/ AnalysisPanics \/ AssumptionConflict
  BY <1>2 DEF RootConflict, AnalysisPanics, AssumptionConflict, Return
<1>3. CASE StartAnalysis \/ Resolve \/ FindUIP
  <2>1. UNCHANGED trailVars /\ clauses' = clauses /\ pc' \in {"analyze", "learn"}
    BY <1>0, <1>3 DEF StartAnalysis, Resolve, FindUIP, Analyzing, dbVars
  <2>2. \A i \in 1..Len(clauses) : Rewatched(i)
    BY <2>1 DEF Rewatched
  <2>3. Analysing' /\ UNCHANGED <<trail, lims, qhead>>
    BY <2>1 DEF Analysing, trailVars
  <2> QED BY <1>1, <2>2, <2>3, StillCarry
<1>4. CASE UnitBelow
  BY <1>0, <1>4 DEF UnitBelow
<1>5. CASE Learn
  <2>1. /\ BacktrackLevel \in Nat /\ uip \in Lit /\ resolvent \in SUBSET Lit
        /\ BacktrackLevel < DecisionLevel
    <3>1. /\ BacktrackLevel \in Nat /\ uip \in Lit /\ resolvent \in SUBSET Lit
          /\ BacktrackLevel < Lv(uip) /\ Fails(uip)
      BY <1>5, LearntIs DEF Learn
    <3>2. Lv(uip) <= DecisionLevel /\ Lv(uip) \in Nat
      BY <3>1, FalseFacts, Typed DEF Sound
    <3> QED BY <1>0, <3>1, <3>2
  <2>2. \E r, lv : CancelAndAssign(BacktrackLevel, uip, r, lv)
    BY <1>5 DEF Learn
  <2>3. \A i \in 1..Len(clauses) : Rewatched(i)
    <3>1. CASE clauses' = clauses
      BY <3>1 DEF Rewatched
    <3>2. CASE \E w \in resolvent : Attach(resolvent, uip, w, TRUE)
      <4>1. PICK w \in resolvent : Attach(resolvent, uip, w, TRUE)
        BY <3>2
      <4>2. w \in Lit /\ TRUE \in BOOLEAN
        BY <2>1
      <4> QED BY <2>1, <4>1, <4>2, AttachRewatched
    <3> QED BY <1>5, <3>1, <3>2 DEF Learn, dbVars
  <2>4. /\ lims' = LimsAfter(BacktrackLevel) /\ qhead' = QheadAfter(BacktrackLevel)
        /\ trail' = Append(TrailAfter(BacktrackLevel), uip)
    BY <2>2 DEF CancelAndAssign, Retract
  <2> QED BY <1>1, <2>1, <2>3, <2>4, CutCarry
<1>6. CASE Account
  <2>1. /\ UNCHANGED trailVars \/ CancelUntil(0) \/ CancelUntil(Len(run.assume))
        /\ ~Analysing /\ Len(run.assume) \in Nat /\ clauses' = clauses
    BY <1>6, LenProperties DEF Account, Analysing, dbVars, IndInv, RestOK, Search
  <2>2. \A i \in 1..Len(clauses) : Rewatched(i)
    BY <2>1 DEF Rewatched
  <2>3. CASE UNCHANGED trailVars
    BY <1>1, <2>1, <2>2, <2>3, StillCarry DEF trailVars
  <2>4. ASSUME NEW k \in Nat, CancelUntil(k) PROVE Carried
    BY <1>1, <2>1, <2>2, <2>4, CutCarry DEF CancelUntil, Retract
  <2> QED BY <1>0, <2>1, <2>3, <2>4
<1>7. CASE Reduce
  <2>1. UNCHANGED trailVars /\ ~Analysing
    BY <1>7 DEF Reduce, Analysing
  <2>2. \A i \in 1..Len(clauses) : Rewatched(i)
    <3>1. clauses \in Seq(Clause) /\ DOMAIN clauses = 1..Len(clauses)
      BY LenProperties DEF IndInv, DbOK
    <3>2. CASE clauses' = clauses
      BY <3>2 DEF Rewatched
    <3>3. ASSUME NEW gone,
                 clauses' = [c \in DOMAIN clauses |->
                               IF c \in gone THEN [clauses[c] EXCEPT !.lits = {}]
                               ELSE clauses[c]]
          PROVE  \A i \in 1..Len(clauses) : Rewatched(i)
      <4> TAKE i \in 1..Len(clauses)
      <4>1. clauses[i] \in Clause
        BY <3>1
      <4>2. clauses'[i] = IF i \in gone THEN [clauses[i] EXCEPT !.lits = {}]
                          ELSE clauses[i]
        BY <3>1, <3>3
      <4>3. i \in gone => clauses'[i].lits = {}
        BY <4>1, <4>2 DEF Clause
      <4> QED BY <4>2, <4>3 DEF Rewatched
    <3> QED BY <1>7, <3>2, <3>3 DEF Reduce
  <2> QED BY <1>1, <2>1, <2>2, StillCarry DEF trailVars
<1> QED BY <1>2, <1>3, <1>4, <1>5, <1>6, <1>7 DEF HandleConflict

\* and branching.
LEMMA BranchCarry ==
  ASSUME IndInv, ~Resumable, QueueOK, Branch PROVE Carried
<1>0. /\ todo = {} /\ qhead = Len(trail) /\ 0 \in Nat /\ clauses' = clauses /\ ~Analysing
  BY DEF Branch, PlaceAssumption, Decide, AnswerSat, Branching, AtFixpoint, QueueOK,
         IndInv, LocalsOK, Analysing, dbVars
<1>9. \A i \in 1..Len(clauses) : Rewatched(i)
  BY <1>0 DEF Rewatched
<1>1. CASE CancelUntil(0)
  BY <1>0, <1>1, <1>9, CutCarry DEF CancelUntil, Retract
<1>2. CASE UNCHANGED <<trail, lims, qhead>>
  BY <1>0, <1>2, <1>9, StillCarry
<1>3. CASE /\ lims' = Append(lims, Len(trail)) /\ qhead' = qhead
           /\ trail' = trail \/ \E l \in Lit : trail' = Append(trail, l)
  BY <1>0, <1>3, OpenCarry
<1>4. CASE PlaceAssumption
  <2>1. run.assume[DecisionLevel + 1] \in Lit
    BY <1>4, AssumedLit DEF PlaceAssumption
  <2> QED BY <1>1, <1>3, <1>4, <2>1 DEF PlaceAssumption, OpenLevel
<1>5. CASE Decide
  <2>1. PICK v \in heap \ Assigned : \E l \in {v, -v} : OpenLevel(l)
    BY <1>5 DEF Decide
  <2>2. v \in Lit /\ -v \in Lit
    BY <2>1 DEF IndInv, TrailOK, Lit, Var
  <2> QED BY <1>3, <1>5, <2>1, <2>2 DEF Decide, OpenLevel
<1>6. CASE AnswerSat
  BY <1>2, <1>6 DEF AnswerSat
<1> QED BY <1>4, <1>5, <1>6 DEF Branch

\* What a clause watches first, or second, is not false for nothing when a step
\* attaches it.
Fresh0 == \A i \in 1..Len(clauses') \ 1..Len(clauses), p \in 1..Len(trail') :
            (~Missed(i, clauses[i].w0, p))'
Fresh1 == \A i \in 1..Len(clauses') \ 1..Len(clauses), p \in 1..Len(trail') :
            (~Missed(i, clauses[i].w1, p))'

\* No clause is new.
LEMMA NoneFresh == Len(clauses') = Len(clauses) => Fresh0 /\ Fresh1
BY DEF Fresh0, Fresh1

\* The clause attached is the only new one.
LEMMA OneFresh ==
  ASSUME Len(clauses) \in Nat, Len(clauses') = Len(clauses) + 1
  PROVE  \A i \in 1..Len(clauses') \ 1..Len(clauses) : i = Len(clauses) + 1
OBVIOUS

\* A clause attached to assert its first literal.
LEMMA AssertFresh ==
  ASSUME IndInv, IndInv', Sound', NEW c \in SUBSET Lit, NEW l \in c, NEW w \in Lit,
         Attach(c, l, w, TRUE), NEW t \in Seq(Lit), trail' = Append(t, l)
  PROVE  Fresh0
<1>1. /\ Len(clauses') = Len(clauses) + 1 /\ Len(clauses) \in Nat
      /\ clauses'[Len(clauses) + 1].w0 = l
  <2>1. l \in Lit /\ TRUE \in BOOLEAN
    OBVIOUS
  <2> QED BY <2>1, AttachRewatched
<1>2. trail' \in Seq(Lit) /\ l \in Range(trail') /\ Distinct(trail')
  BY AppendRange, AppendProperties DEF Sound, TrailSound
<1>3. -l \notin Range(trail')
  BY <1>2, Consistent
<1>4. \A p \in 1..Len(trail') : trail'[p] # -l
  BY <1>2, <1>3, RangeIs
<1> QED BY <1>1, <1>4, OneFresh DEF Fresh0, Missed, Seen

\* A conflict clause of the theory watches a literal of the level returned to,
\* which is about to be retracted.
LEMMA ConflictFresh ==
  ASSUME IndInv, IndInv', Sound', NEW c \in SUBSET Lit, NEW n, AttachConflict(c, n)
  PROVE  Fresh0
<1>1. PICK top \in {Lv(l) : l \in c} :
        /\ \A l \in c : Lv(l) <= top
        /\ lims' = LimsAfter(top) /\ level' = level /\ pc' = "conflict"
        /\ \E w0, w1 \in c :
             /\ FirstTwo(c, {p \in c \X c : Lv(p[1]) >= Lv(p[2])}, w0, w1)
             /\ Attach(c, w0, w1, TRUE)
  BY DEF AttachConflict
<1>2. PICK w0 \in c, w1 \in c :
             /\ FirstTwo(c, {p \in c \X c : Lv(p[1]) >= Lv(p[2])}, w0, w1)
             /\ Attach(c, w0, w1, TRUE)
  BY <1>1
<1>3. top \in Nat /\ TRUE \in BOOLEAN /\ w0 \in Lit /\ w1 \in Lit
  BY Typed
<1>4. /\ Len(clauses') = Len(clauses) + 1 /\ Len(clauses) \in Nat
      /\ clauses'[Len(clauses) + 1].w0 = w0
  BY <1>2, <1>3, AttachRewatched
<1>5. Lv(w0) = top
  <2>1. PICK l \in c : top = Lv(l)
    BY <1>1
  <2>2. l # w0 => <<w0, l>> \in {p \in c \X c : Lv(p[1]) >= Lv(p[2])}
    BY <1>2, <2>1 DEF FirstTwo
  <2>3. Lv(w0) >= Lv(l) /\ Lv(w0) <= top /\ Lv(w0) \in Nat
    BY <1>1, <1>3, <2>2, Typed
  <2> QED BY <1>3, <2>1, <2>3
<1>6. Len(lims') \in Nat /\ Len(lims') <= top
  BY <1>1, <1>3, LimsLeft, Typed DEF IndInv
<1>7. ASSUME NEW p \in 1..Len(trail'), trail'[p] = -w0, Len(lims') > 0,
             p <= lims'[Len(lims')]
      PROVE  FALSE
  <2>1. level'[VarOf(trail'[p])] < Len(lims')
    <3>1. Len(lims') \in 1..Len(lims')
      BY <1>6, <1>7
    <3> QED BY <1>7, <3>1 DEF Sound, TrailSound, Bounded
  <2>2. VarOf(-w0) = VarOf(w0)
    BY <1>3, LitPairs
  <2>3. level[VarOf(w0)] < Len(lims') /\ level[VarOf(w0)] = top
    BY <1>1, <1>5, <1>7, <2>1, <2>2 DEF Lv
  <2> QED BY <1>3, <1>6, <2>3
<1>8. \A p \in 1..Len(trail') : InScope(p)' => trail'[p] # -w0
  BY <1>1, <1>7 DEF InScope, Analysing, DecisionLevel
<1> QED BY <1>4, <1>8, OneFresh DEF Fresh0, Missed, Seen

\* The clause learnt watches a literal of the level returned to.
LEMMA LearnFresh ==
  ASSUME IndInv, Sound, IndInv', Sound', ~Resumable, Learn PROVE Fresh0 /\ Fresh1
<1> DEFINE k == BacktrackLevel
<1> PICK i : i = Len(clauses) + 1
  OBVIOUS
<1>1. /\ uip \in resolvent /\ uip \in Lit /\ resolvent \in SUBSET Lit /\ k \in Nat
      /\ k < Lv(uip) /\ k <= DecisionLevel
      /\ \A q \in resolvent : q \in Lit /\ Lv(q) \in Nat
      /\ k = BackjumpLevel
  BY LearntIs, Typed DEF Learn, BacktrackLevel, Chronological
<1>2. CASE clauses' = clauses
  BY <1>2, NoneFresh
<1>3. ASSUME NEW w \in resolvent \ {uip}, Lv(w) = k, Attach(resolvent, uip, w, TRUE),
             NEW r, NEW lv, CancelAndAssign(k, uip, r, lv)
      PROVE  Fresh0 /\ Fresh1
  <2> HIDE DEF k
  <2>1. TrailAfter(k) \in Seq(Lit) /\ trail' = Append(TrailAfter(k), uip)
        /\ lims' = LimsAfter(k) /\ level' = [level EXCEPT ![VarOf(uip)] = lv]
    BY <1>1, <1>3, TrailAfterType DEF CancelAndAssign, Retract, IndInv
  <2>2. Fresh0
    BY <1>1, <1>3, <2>1, AssertFresh
  <2>3. /\ Len(clauses') = Len(clauses) + 1 /\ Len(clauses) \in Nat
        /\ clauses'[i].lits = resolvent /\ clauses'[i].w1 = w
    <3>1. w \in Lit /\ TRUE \in BOOLEAN
      BY <1>1
    <3> QED BY <1>1, <1>3, <3>1, AttachRewatched
  <2>4. Len(trail') \in 1..Len(trail') /\ trail'[Len(trail')] = uip
    BY <1>1, <2>1, AppendProperties, LenProperties
  <2>5. Len(lims') = k /\ Len(lims') \in Nat
    <3>1. TrailOK /\ DecisionLevel \in Nat
      BY Typed DEF IndInv
    <3> QED BY <1>1, <2>1, <3>1, LimsLeft
  <2>6. VarOf(w) # VarOf(uip) /\ VarOf(-w) = VarOf(w) /\ level'[VarOf(w)] = k
    <3>1. VarOf(w) # VarOf(uip)
      BY <1>1, <1>3 DEF Lv
    <3>2. VarOf(w) \in Var /\ VarOf(-w) = VarOf(w) /\ DOMAIN level = Var
      BY <1>1, LitFacts, LitPairs DEF IndInv, TrailOK
    <3> QED BY <1>3, <2>1, <3>1, <3>2 DEF Lv
  <2>7. ASSUME NEW p \in 1..Len(trail'), trail'[p] = -w PROVE Justified(i, p)'
    <3>1. ASSUME NEW d \in 1..Len(lims'), p <= lims'[d] PROVE FALSE
      <4>1. level'[VarOf(trail'[p])] < d
        BY <3>1 DEF Sound, TrailSound, Bounded
      <4> QED BY <2>5, <2>6, <2>7, <4>1
    <3>2. Outlasts(Len(trail), p)'
      BY <3>1 DEF Outlasts
    <3>3. (trail[Len(trail)] \in clauses[i].lits /\ Outlasts(Len(trail), p))'
      BY <1>1, <2>3, <2>4, <3>2
    <3> QED BY <2>4, <3>3 DEF Justified
  <2>8. \A p \in 1..Len(trail') : (~Missed(i, clauses[i].w1, p))'
    BY <2>3, <2>7 DEF Missed, Seen
  <2>9. Fresh1
    BY <2>3, <2>8, OneFresh DEF Fresh1
  <2> QED BY <2>2, <2>9
<1> QED BY <1>1, <1>2, <1>3 DEF Learn, dbVars

\* Where nothing more is missed, of two watches one is enough,
LEMMA BothStay ==
  ASSUME NeverBoth, FilesOK', Carried, Fresh0 PROVE NeverBoth'
<1> SUFFICES ASSUME NEW i \in 1..Len(clauses'), clauses'[i].lits # {},
                    NEW p \in 1..Len(trail'), NEW r \in 1..Len(trail'),
                    Missed(i, clauses[i].w0, p)', Missed(i, clauses[i].w1, r)'
             PROVE  FALSE
  BY DEF NeverBoth
<1>1. i \in 1..Len(clauses)
  BY DEF Fresh0
<1> PICK x : x = clauses'[i].w0
  OBVIOUS
<1> PICK y : y = clauses'[i].w1
  OBVIOUS
<1>2. Missed(i, x, p)' /\ Missed(i, y, r)'
  BY DEF Missed, Seen
<1>3. x # y
  BY DEF FilesOK, TwoWatches
<1>4. /\ clauses[i].lits # {}
      /\ x \in {clauses[i].w0, clauses[i].w1} /\ y \in {clauses[i].w0, clauses[i].w1}
      /\ p \in 1..Len(trail) /\ r \in 1..Len(trail) /\ Missed(i, x, p) /\ Missed(i, y, r)
  BY <1>1, <1>2 DEF Carried
<1> QED BY <1>1, <1>3, <1>4 DEF NeverBoth

\* and none stays none.
LEMMA NoneStay == ASSUME NeverOne, Carried, Fresh0, Fresh1 PROVE NeverOne'
<1> SUFFICES ASSUME NEW i \in 1..Len(clauses'), clauses'[i].lits # {},
                    NEW p \in 1..Len(trail'),
                    Missed(i, clauses[i].w0, p)' \/ Missed(i, clauses[i].w1, p)'
             PROVE  FALSE
  BY DEF NeverOne
<1>1. i \in 1..Len(clauses)
  BY DEF Fresh0, Fresh1
<1>2. PICK x \in {clauses'[i].w0, clauses'[i].w1} : Missed(i, x, p)'
  BY DEF Missed, Seen
<1>3. /\ clauses[i].lits # {} /\ x \in {clauses[i].w0, clauses[i].w1}
      /\ p \in 1..Len(trail) /\ Missed(i, x, p)
  BY <1>1, <1>2 DEF Carried
<1> QED BY <1>1, <1>3 DEF NeverOne

\* A search that begins has propagated nothing.
LEMMA NothingSeen == ASSUME QueueOK', qhead' = 0 PROVE NeverBoth' /\ NeverOne'
BY DEF NeverBoth, NeverOne, Missed, Seen

\* While the search runs.
Searching == pc \notin {"idle", "panic"}

\* No theory is consulted.
NoTheory == run.theory = FALSE /\ pc # "theory"

\* A step of the search misses nothing it did not miss before, and of what it
\* attaches no first watch; without a theory no watch at all.
LEMMA SearchCarry ==
  ASSUME IndInv, Sound, IndInv', Sound', ~Resumable, WatchesOK, QueueOK, SearchStep
  PROVE  (Carried /\ Fresh0 /\ (NoTheory => Fresh1)) \/ ~Searching'
<1>1. CASE AttachPending
  BY <1>1 DEF AttachPending, PendingUnit, PendingClause, TakePending, QueueOK
<1>2. CASE Propagate
  <2>1. Len(clauses') = Len(clauses)
    <3>1. ASSUME NEW i, NEW a, NEW b,
                 clauses' = [clauses EXCEPT ![i].w0 = a, ![i].w1 = b]
          PROVE  Len(clauses') = Len(clauses)
      <4>1. clauses \in Seq(Clause) /\ DOMAIN clauses' = DOMAIN clauses
        BY <3>1 DEF IndInv, DbOK
      <4>2. DOMAIN clauses' = 1..Len(clauses) /\ Len(clauses) \in Nat
        BY <4>1, LenProperties
      <4>3. clauses' \in Seq(Clause)
        BY DEF IndInv, DbOK
      <4> QED BY <4>2, <4>3, LenProperties
    <3> QED BY <1>2, <3>1 DEF Propagate, PropagateNext, DropStaleWatch, SkipBlocked,
              KeepSatisfied, MoveWatch, ImplyUnit, FindConflict, dbVars, Reordered
  <2> QED BY <1>2, <2>1, NoneFresh, PropagateCarry
<1>3. CASE TheoryPass
  <2>1. Fresh0
    <3>1. clauses' = clauses => Fresh0
      BY NoneFresh
    <3>2. CASE TheoryConflict
      <4>1. PICK C \in Conflicts : AttachConflict(Negation(C), Len(trail))
        BY <3>2 DEF TheoryConflict
      <4>2. Negation(C) \in SUBSET Lit
        BY <4>1, Typed DEF Conflicts, Negation
      <4> QED BY <4>1, <4>2, ConflictFresh
    <3>3. ASSUME NEW i \in answer, ImpliedFails(i) PROVE Fresh0
      <4>1. {i.lit} \cup Negation(i.why) \in SUBSET Lit
        BY <3>3, AnswerFacts DEF ImpliedFails
      <4> QED BY <3>3, <4>1, ConflictFresh DEF ImpliedFails
    <3>4. ASSUME NEW i \in answer, ImpliedAssigned(i) PROVE Fresh0
      <4>1. i.lit \in Lit /\ Negation(i.why) \subseteq Lit /\ trail \in Seq(Lit)
        BY <3>4, AnswerFacts, Typed DEF ImpliedAssigned
      <4>2. PICK w \in Negation(i.why) :
              Attach({i.lit} \cup Negation(i.why), i.lit, w, TRUE)
        BY <3>4 DEF ImpliedAssigned
      <4>3. trail' = Append(trail, i.lit) /\ w \in Lit
            /\ {i.lit} \cup Negation(i.why) \in SUBSET Lit
        BY <3>4, <4>1 DEF ImpliedAssigned
      <4> QED BY <4>1, <4>2, <4>3, AssertFresh
    <3> QED BY <1>3, <3>1, <3>2, <3>3, <3>4 DEF TheoryPass, TheoryAnswer, ImpliedHolds,
              ValidFails, ValidAssigned, EndPass, dbVars
  <2>2. ~NoTheory
    BY <1>3 DEF TheoryPass, TheoryConflict, TheoryAnswer, Consult, ConsultsTheory,
           ImpliedHolds, ValidFails, ImpliedFails, ValidAssigned, ImpliedAssigned,
           EndPass, Answering, NoTheory
  <2> QED BY <1>3, <2>1, <2>2, TheoryCarry
<1>4. CASE HandleConflict
  <2>1. (Fresh0 /\ Fresh1) \/ ~Searching'
    <3>1. clauses' = clauses => Fresh0 /\ Fresh1
      BY NoneFresh
    <3>2. CASE Learn
      BY <3>2, LearnFresh
    <3>3. CASE Reduce
      <4>1. clauses \in Seq(Clause) /\ clauses' \in Seq(Clause)
        BY DEF IndInv, DbOK
      <4>2. DOMAIN clauses' = DOMAIN clauses
        BY <3>3 DEF Reduce
      <4> QED BY <4>1, <4>2, NoneFresh, LenProperties
    <3>4. CASE UnitBelow
      BY <3>4 DEF UnitBelow, Chronological
    <3> QED BY <1>4, <3>1, <3>2, <3>3, <3>4 DEF HandleConflict, RootConflict,
              StartAnalysis, Resolve, FindUIP, AnalysisPanics, Analyzing,
              AssumptionConflict, Account, Learning, Conflicting, dbVars
  <2> QED BY <1>4, <2>1, HandleCarry DEF Searching
<1>5. CASE Branch
  <2>1. clauses' = clauses
    BY <1>5 DEF Branch, PlaceAssumption, Decide, AnswerSat, Branching, dbVars
  <2> QED BY <1>5, <2>1, NoneFresh, BranchCarry
<1> QED BY <1>1, <1>2, <1>3, <1>4, <1>5 DEF SearchStep

\* The search takes its steps while it runs.
LEMMA SearchSteps == SearchStep => Searching
BY DEF SearchStep, AttachPending, PendingUnit, PendingClause, TakePending,
           Propagate, PropagateNext, DropStaleWatch, SkipBlocked, KeepSatisfied,
           MoveWatch, ImplyUnit, FindConflict, Visit, Propagating,
           TheoryPass, TheoryConflict, TheoryAnswer, Consult, AtFixpoint, ImpliedHolds,
           ValidFails, ImpliedFails, ValidAssigned, ImpliedAssigned, EndPass, Answering,
           HandleConflict, RootConflict, UnitBelow, StartAnalysis, Resolve, FindUIP,
           AnalysisPanics, Analyzing, AssumptionConflict, Learn, Learning, Account,
           Reduce, Conflicting, Branch, PlaceAssumption, Decide, AnswerSat, Branching,
           Searching

\* A call leaves the solver idle, or begins a search.
LEMMA CallBegins ==
  ASSUME IndInv, ~Resumable, Call PROVE ~Searching' \/ qhead' = 0
<1>1. CASE \E assume \in AssumptionLists, limit \in ConflictLimits,
             theory \in TheoryCalls : Solve(assume, limit, theory)
  BY <1>1 DEF Solve, Searching, Deferred
<1>2. CASE MkVar \/ ResetTheory
           \/ \E c \in Range(Pool) : AddIgnored(c) \/ AddDeferred(c) \/ AddAtRoot(c)
  BY <1>2 DEF MkVar, ResetTheory, AddIgnored, AddDeferred, AddAtRoot, CallAdd, Searching
<1> QED BY <1>1, <1>2 DEF Call

\* Nothing happens, nothing is missed.
LEMMA StutterCarry == ASSUME UNCHANGED vars PROVE Carried
<1>1. UNCHANGED <<clauses, trail, lims, qhead, todo, pc>>
  BY DEF vars, dbVars, trailVars
<1>2. \A p, q : (Outlasts(q, p) <=> Outlasts(q, p)') /\ (InScope(p) <=> InScope(p)')
  BY <1>1 DEF Outlasts, InScope, Analysing, DecisionLevel
<1>3. \A i, p : Justified(i, p) <=> Justified(i, p)'
  BY <1>1, <1>2 DEF Justified
<1>4. \A i, x, p : Seen(i, x, p) <=> Seen(i, x, p)'
  BY <1>1, <1>2 DEF Seen
<1> QED BY <1>1, <1>3, <1>4 DEF Carried, Missed

\* Of the two watches of a clause, at most one is false for nothing.
LEMMA NextBoth ==
  ASSUME ~Resumable
  PROVE  IndInv /\ Sound /\ WatchesOK /\ QueueOK /\ (Searching => NeverBoth)
           /\ [Next]_vars => (Searching => NeverBoth)'
<1> SUFFICES ASSUME IndInv, Sound, WatchesOK, QueueOK, Searching => NeverBoth,
                    [Next]_vars, Searching'
             PROVE  NeverBoth'
  OBVIOUS
<1>1. IndInv' /\ Sound' /\ WatchesOK' /\ QueueOK'
  BY NextInv, NextSound, NextWatches, NextQueue
<1>2. CASE Call
  BY <1>1, <1>2, CallBegins, NothingSeen
<1>3. CASE SearchStep
  <2>1. Searching
    BY <1>3, SearchSteps
  <2> QED BY <1>1, <1>3, <2>1, SearchCarry, BothStay DEF WatchesOK
<1>4. CASE UNCHANGED vars
  <2>1. Searching /\ Carried /\ Fresh0
    BY <1>4, StutterCarry, NoneFresh DEF vars, dbVars, Searching
  <2> QED BY <1>1, <2>1, BothStay DEF WatchesOK
<1> QED BY <1>2, <1>3, <1>4 DEF Next

\* Without a theory none of them is.
LEMMA NextOne ==
  ASSUME ~Resumable, TRUE \notin TheoryCalls
  PROVE  IndInv /\ Sound /\ WatchesOK /\ QueueOK /\ NoTheory /\ (Searching => NeverOne)
           /\ [Next]_vars => NoTheory' /\ (Searching => NeverOne)'
<1> SUFFICES ASSUME IndInv, Sound, WatchesOK, QueueOK, NoTheory, Searching => NeverOne,
                    [Next]_vars
             PROVE  NoTheory' /\ (Searching' => NeverOne')
  OBVIOUS
<1>1. IndInv' /\ Sound' /\ WatchesOK' /\ QueueOK'
  BY NextInv, NextSound, NextWatches, NextQueue
<1>2. CASE Call
  <2>1. ASSUME \E assume \in AssumptionLists, limit \in ConflictLimits,
                 theory \in TheoryCalls : Solve(assume, limit, theory)
        PROVE  NoTheory'
    <3>1. PICK assume \in AssumptionLists, limit \in ConflictLimits,
               theory \in TheoryCalls : Solve(assume, limit, theory)
      BY <2>1
    <3>2. theory = FALSE
      BY SatAssumption DEF SatAssumption
    <3> QED BY <3>1, <3>2 DEF Solve, NoTheory, ToLoopHead
  <2>2. ASSUME MkVar \/ ResetTheory
               \/ \E c \in Range(Pool) : AddIgnored(c) \/ AddDeferred(c) \/ AddAtRoot(c)
        PROVE  NoTheory'
    BY <2>2 DEF MkVar, ResetTheory, AddIgnored, AddDeferred, AddAtRoot, CallAdd, NoTheory
  <2>3. NoTheory'
    BY <1>2, <2>1, <2>2 DEF Call
  <2> QED BY <1>1, <1>2, <2>3, CallBegins, NothingSeen
<1>3. CASE SearchStep
  <2>1. Searching
    BY <1>3, SearchSteps
  <2>2. NoTheory'
    <3>1. ~TheoryPass
      BY DEF TheoryPass, TheoryConflict, TheoryAnswer, Consult, ConsultsTheory,
             ImpliedHolds, ValidFails, ImpliedFails, ValidAssigned, ImpliedAssigned,
             EndPass, Answering, NoTheory
    <3>2. CASE AttachPending \/ Propagate \/ Branch
      BY <3>2 DEF AttachPending, PendingUnit, PendingClause, TakePending, NextPending,
             StopAttaching, Propagate, PropagateNext, DropStaleWatch, SkipBlocked,
             KeepSatisfied, MoveWatch, ImplyUnit, FindConflict, Visit, Propagating,
             Branch, PlaceAssumption, Decide, AnswerSat, Branching, Return, ToLoopHead,
             NoTheory
    <3>3. CASE HandleConflict
      <4>1. run'.theory = run.theory
        <5>1. CASE Account
          BY <5>1 DEF Account, IndInv, RestOK, Search
        <5> QED BY <1>3, <3>3, <5>1 DEF HandleConflict, RootConflict, UnitBelow,
              StartAnalysis, Resolve, FindUIP, AnalysisPanics, Analyzing,
              AssumptionConflict, Learn, Learning, Reduce, Conflicting
      <4>2. pc' # "theory"
        BY <3>3 DEF HandleConflict, RootConflict, UnitBelow, StartAnalysis, Resolve,
              FindUIP, AnalysisPanics, Analyzing, AssumptionConflict, Learn, Account,
              Reduce, Return, ToLoopHead
      <4> QED BY <4>1, <4>2 DEF NoTheory
    <3> QED BY <1>3, <3>1, <3>2, <3>3 DEF SearchStep
  <2> QED BY <1>1, <1>3, <2>1, <2>2, SearchCarry, NoneStay
<1>4. CASE UNCHANGED vars
  <2>1. NoTheory' /\ (Searching' <=> Searching) /\ Carried /\ Fresh0 /\ Fresh1
    BY <1>4, StutterCarry, NoneFresh DEF vars, dbVars, Searching, NoTheory
  <2> QED BY <2>1, NoneStay
<1> QED BY <1>2, <1>3, <1>4 DEF Next

-----------------------------------------------------------------------------
(* What an answer Sat rests on.                                            *)

\* Literal l was assigned before any decision level above d began.
Placed(l, d) ==
  \E q \in 1..Len(trail) :
    trail[q] = l /\ \A e \in 1..Len(lims) : d < e => q <= lims[e]

Stored(c) ==
  c # {} /\ \E i \in 1..Len(clauses) : clauses[i].lits = c /\ ~clauses[i].learnt

\* A clause added is true whatever the assignment, or in the database, or
\* satisfied at the root.
InputsKept ==
  ok => \A c \in inputs :
    /\ \A l \in c : VarOf(l) \in Known
    /\ Tautology(c) \/ Stored(c) \/ \E l \in c : Placed(l, 0)

\* Each decision level opened for an assumption holds it.
AssumeKept ==
  pc # "idle" =>
    \A d \in 1..Len(run.assume) : d <= Len(lims) => Placed(run.assume[d], d)

StatusOK == pc # "idle" => ok /\ verdict # "sat"

\* A step cuts the trail, and may assign a literal then,
CutTo(k) ==
  /\ lims' = LimsAfter(k)
  /\ trail' = TrailAfter(k) \/ \E l \in Lit : trail' = Append(TrailAfter(k), l)

\* or it opens a decision level.
Opened ==
  /\ lims' = Append(lims, Len(trail))
  /\ trail' = trail \/ \E l \in Lit : trail' = Append(trail, l)

\* Standing still is a cut of nothing.
LEMMA StillCut ==
  ASSUME IndInv, lims' = lims, trail' = trail \/ \E l \in Lit : trail' = Append(trail, l)
  PROVE  \E k \in Nat : CutTo(k)
BY Typed, Uncut DEF CutTo

\* A cut leaves what was placed below it,
LEMMA CutPlaces ==
  ASSUME IndInv, ~Resumable, NEW k \in Nat, CutTo(k), NEW l, NEW d \in Nat,
         d <= Len(lims'), Placed(l, d)
  PROVE  d <= Len(lims) /\ Placed(l, d)'
<1>1. PICK q \in 1..Len(trail) :
        trail[q] = l /\ \A e \in 1..Len(lims) : d < e => q <= lims[e]
  BY DEF Placed
<1> DEFINE t == TrailAfter(k)
<1>2. /\ t \in Seq(Lit) /\ Len(t) = IF DecisionLevel <= k THEN Len(trail) ELSE Target(k)
      /\ Len(t) \in Nat /\ \A p \in 1..Len(t) : t[p] = trail[p]
  BY PrefixLeft
<1>3. /\ Len(lims') = IF DecisionLevel <= k THEN DecisionLevel ELSE k
      /\ \A e \in 1..Len(lims') : e \in 1..Len(lims) /\ lims'[e] = lims[e]
      /\ k < DecisionLevel => k + 1 \in 1..Len(lims) /\ Target(k) = lims[k + 1]
  BY LimsLeft DEF CutTo, IndInv, Target
<1>4. DecisionLevel = Len(lims) /\ DecisionLevel \in Nat /\ trail \in Seq(Lit)
      /\ Len(trail) \in Nat
  BY Typed, LenProperties
<1> HIDE DEF t
<1>5. q <= Len(t)
  BY <1>1, <1>2, <1>3, <1>4
<1>6. q \in 1..Len(trail') /\ trail'[q] = t[q]
  BY <1>2, <1>4, <1>5, AppendProperties, LenProperties DEF CutTo, t
<1>7. trail'[q] = l
  BY <1>1, <1>2, <1>4, <1>5, <1>6
<1>8. \A e \in 1..Len(lims') : d < e => q <= lims'[e]
  BY <1>1, <1>3
<1> QED BY <1>3, <1>4, <1>6, <1>7, <1>8 DEF Placed

\* and a new decision level begins after it.
LEMMA OpenPlaces ==
  ASSUME IndInv, Opened, NEW l, NEW d \in Nat, d <= Len(lims), Placed(l, d)
  PROVE  Placed(l, d)'
<1>1. PICK q \in 1..Len(trail) :
        trail[q] = l /\ \A e \in 1..Len(lims) : d < e => q <= lims[e]
  BY DEF Placed
<1>2. trail \in Seq(Lit) /\ lims \in Seq(Nat) /\ Len(trail) \in Nat /\ Len(lims) \in Nat
  BY LenProperties DEF IndInv, TrailOK
<1>3. q \in 1..Len(trail') /\ trail'[q] = l
  <2>1. CASE trail' = trail
    BY <1>1, <2>1
  <2>2. ASSUME NEW a \in Lit, trail' = Append(trail, a) PROVE q \in 1..Len(trail') /\ trail'[q] = l
    <3>1. Len(trail') = Len(trail) + 1 /\ \A p \in 1..Len(trail) : trail'[p] = trail[p]
      BY <1>2, <2>2, AppendProperties
    <3> QED BY <1>1, <1>2, <3>1
  <2> QED BY <2>1, <2>2 DEF Opened
<1>4. /\ Len(lims') = Len(lims) + 1 /\ lims'[Len(lims) + 1] = Len(trail)
      /\ \A e \in 1..Len(lims) : lims'[e] = lims[e]
  BY <1>2, AppendProperties DEF Opened
<1>5. ASSUME NEW e \in 1..Len(lims'), d < e PROVE q <= lims'[e]
  <2>1. e = Len(lims) + 1 \/ e \in 1..Len(lims)
    BY <1>2, <1>4
  <2> QED BY <1>1, <1>2, <1>4, <1>5, <2>1
<1> QED BY <1>3, <1>5 DEF Placed

\* The steps of the search move the trail in these two ways.
LEMMA SearchMoves ==
  ASSUME IndInv, Sound, ~Resumable, QueueOK, SearchStep
  PROVE  (\E k \in Nat : CutTo(k)) \/ (Opened /\ Branch)
<1>0. DecisionLevel \in Nat /\ 0 \in Nat
  BY Typed
<1>1. UNCHANGED <<trail, lims>> => \E k \in Nat : CutTo(k)
  BY StillCut
<1>2. ASSUME NEW k \in Nat, NEW l \in Lit, NEW r, NEW lv, CancelAndAssign(k, l, r, lv)
      PROVE  CutTo(k)
  BY <1>2 DEF CancelAndAssign, Retract, CutTo
<1>3. ASSUME NEW k \in Nat, CancelUntil(k) PROVE CutTo(k)
  BY <1>3 DEF CancelUntil, Retract, CutTo
<1>4. ASSUME NEW c \in SUBSET Lit, NEW n, AttachConflict(c, n)
      PROVE  \E k \in Nat : CutTo(k)
  BY <1>4, Typed DEF AttachConflict, CutTo
<1>5. CASE AttachPending
  BY <1>5 DEF AttachPending, PendingUnit, PendingClause, TakePending, QueueOK
<1>6. CASE Propagate
  <2>1. ASSUME NEW w \in todo, ImplyUnit(w) PROVE \E k \in Nat : CutTo(k)
    <3>1. OtherWatch(clauses[w.cref]) \in Lit
      BY ScanFacts
    <3> QED BY <1>0, <1>2, <2>1, <3>1 DEF ImplyUnit, Assign
  <2> QED BY <1>1, <1>6, <2>1 DEF Propagate, PropagateNext, DropStaleWatch, SkipBlocked,
             KeepSatisfied, MoveWatch, FindConflict, trailVars
<1>7. CASE TheoryPass
  <2>1. CASE TheoryConflict
    <3>1. PICK C \in Conflicts : AttachConflict(Negation(C), Len(trail))
      BY <2>1 DEF TheoryConflict
    <3>2. Negation(C) \in SUBSET Lit
      BY <3>1, Typed DEF Conflicts, Negation
    <3> QED BY <1>4, <3>1, <3>2
  <2>2. ASSUME NEW i \in answer, ValidFails(i) PROVE \E k \in Nat : CutTo(k)
    <3>1. i.lit \in Lit
      BY <2>2, AnswerFacts DEF ValidFails
    <3>2. CASE UNCHANGED trailVars
      BY <1>1, <3>2 DEF trailVars
    <3>3. CASE Lv(i.lit) > 0 /\ CancelAndAssign(Lv(i.lit) - 1, i.lit, NoReason, 0)
      <4>1. Lv(i.lit) - 1 \in Nat
        BY <3>1, <3>3, Typed
      <4> QED BY <1>2, <3>1, <3>3, <4>1
    <3> QED BY <2>2, <3>2, <3>3 DEF ValidFails
  <2>3. ASSUME NEW i \in answer, ImpliedFails(i) PROVE \E k \in Nat : CutTo(k)
    <3>1. {i.lit} \cup Negation(i.why) \in SUBSET Lit
      BY <2>3, AnswerFacts DEF ImpliedFails
    <3> QED BY <1>4, <2>3, <3>1 DEF ImpliedFails
  <2>4. ASSUME NEW i \in answer, ValidAssigned(i) \/ ImpliedAssigned(i)
        PROVE  \E k \in Nat : CutTo(k)
    <3>1. i.lit \in Lit
      BY <2>4, AnswerFacts DEF ValidAssigned, ImpliedAssigned
    <3>2. lims' = lims /\ trail' = Append(trail, i.lit)
      BY <2>4 DEF ValidAssigned, ImpliedAssigned
    <3> QED BY <3>1, <3>2, StillCut
  <2> QED BY <1>1, <1>7, <2>1, <2>2, <2>3, <2>4 DEF TheoryPass, TheoryAnswer,
             ImpliedHolds, EndPass, trailVars
<1>8. CASE HandleConflict
  <2>1. CASE Learn
    <3>1. BacktrackLevel \in Nat /\ uip \in Lit
      BY <2>1, LearningFacts DEF Learn
    <3>2. \E r, lv : CancelAndAssign(BacktrackLevel, uip, r, lv)
      BY <2>1 DEF Learn
    <3> QED BY <1>2, <3>1, <3>2
  <2>2. CASE Account
    <3>1. Len(run.assume) \in Nat
      BY LenProperties DEF IndInv, RestOK, Search
    <3> QED BY <1>0, <1>1, <1>3, <2>2, <3>1 DEF Account, trailVars
  <2>3. ~UnitBelow
    BY DEF UnitBelow, Chronological
  <2> QED BY <1>0, <1>1, <1>3, <1>8, <2>1, <2>2, <2>3 DEF HandleConflict, RootConflict,
             StartAnalysis, Chronological, Resolve, FindUIP, AnalysisPanics, Analyzing,
             AssumptionConflict, Reduce, trailVars
<1>9. CASE Branch
  <2>1. CASE PlaceAssumption
    <3>1. run.assume[DecisionLevel + 1] \in Lit
      BY <2>1, AssumedLit DEF PlaceAssumption
    <3> QED BY <1>0, <1>3, <1>9, <2>1, <3>1 DEF PlaceAssumption, OpenLevel, Opened
  <2>2. CASE Decide
    <3>1. PICK v \in heap \ Assigned : \E l \in {v, -v} : OpenLevel(l)
      BY <2>2 DEF Decide
    <3>2. v \in Lit /\ -v \in Lit
      BY <3>1 DEF IndInv, TrailOK, Lit, Var
    <3> QED BY <1>9, <3>1, <3>2 DEF OpenLevel, Opened
  <2> QED BY <1>1, <1>9, <2>1, <2>2 DEF Branch, AnswerSat
<1> QED BY <1>5, <1>6, <1>7, <1>8, <1>9 DEF SearchStep

\* The clauses added stay in the database.
OriginalsKept ==
  \A i \in 1..Len(clauses) : ~clauses[i].learnt =>
    /\ i \in 1..Len(clauses')
    /\ clauses'[i].lits = clauses[i].lits /\ ~clauses'[i].learnt

\* A clause attached follows them.
LEMMA AttachOriginals ==
  ASSUME IndInv, NEW c \in SUBSET Lit, NEW w0 \in Lit, NEW w1 \in Lit,
         NEW b \in BOOLEAN, Attach(c, w0, w1, b)
  PROVE  /\ OriginalsKept
         /\ Len(clauses) + 1 \in 1..Len(clauses')
         /\ clauses'[Len(clauses) + 1].lits = c
         /\ clauses'[Len(clauses) + 1].learnt = b
<1> DEFINE x == [lits |-> c, w0 |-> w0, w1 |-> w1, learnt |-> b]
<1>1. x \in Clause /\ clauses' = Append(clauses, x) /\ clauses \in Seq(Clause)
      /\ x.lits = c /\ x.learnt = b
  BY DEF Attach, Clause, IndInv, DbOK
<1> HIDE DEF x
<1>2. /\ Len(clauses') = Len(clauses) + 1 /\ Len(clauses) \in Nat
      /\ clauses'[Len(clauses) + 1] = x
      /\ \A i \in 1..Len(clauses) : clauses'[i] = clauses[i]
  BY <1>1, AppendProperties, LenProperties
<1> QED BY <1>1, <1>2 DEF OriginalsKept

\* Other watches change nothing of a clause.
LEMMA RewatchOriginals ==
  ASSUME IndInv, NEW i \in 1..Len(clauses), NEW a \in Lit, NEW b \in Lit,
         clauses' = [clauses EXCEPT ![i].w0 = a, ![i].w1 = b]
  PROVE  OriginalsKept
<1>1. /\ clauses \in Seq(Clause) /\ clauses' \in Seq(Clause)
      /\ Len(clauses') = Len(clauses)
  BY RewatchSeq DEF IndInv, DbOK
<1>2. \A n \in 1..Len(clauses) \ {i} : clauses'[n] = clauses[n]
  BY RewatchIs
<1>3. clauses'[i] = [clauses[i] EXCEPT !.w0 = a, !.w1 = b] /\ clauses[i] \in Clause
  BY <1>1, LenProperties
<1>4. clauses'[i].lits = clauses[i].lits /\ clauses'[i].learnt = clauses[i].learnt
  BY <1>3 DEF Clause
<1> QED BY <1>1, <1>2, <1>4 DEF OriginalsKept

\* The search deletes learnt clauses only.
LEMMA SearchOriginals ==
  ASSUME IndInv, Sound, WatchesOK, ~Resumable, QueueOK, SearchStep PROVE OriginalsKept
<1>0. clauses \in Seq(Clause) /\ DOMAIN clauses = 1..Len(clauses)
  BY LenProperties DEF IndInv, DbOK
<1>1. clauses' = clauses => OriginalsKept
  BY DEF OriginalsKept
<1>2. ASSUME NEW c \in SUBSET Lit, NEW n, AttachConflict(c, n) PROVE OriginalsKept
  <2>1. PICK w0 \in c, w1 \in c : Attach(c, w0, w1, TRUE)
    BY <1>2 DEF AttachConflict
  <2>2. w0 \in Lit /\ w1 \in Lit /\ TRUE \in BOOLEAN
    OBVIOUS
  <2> QED BY <2>1, <2>2, AttachOriginals
<1>3. CASE AttachPending
  BY <1>3 DEF AttachPending, PendingUnit, PendingClause, TakePending, QueueOK
<1>4. CASE Propagate
  <2>1. ASSUME NEW w \in todo, clauses' = Reordered(w.cref) PROVE OriginalsKept
    <3>1. /\ w.cref \in 1..Len(clauses) /\ OtherWatch(clauses[w.cref]) \in Lit
          /\ -Propagated \in Lit
      BY ScanFacts
    <3> QED BY <2>1, <3>1, RewatchOriginals DEF Reordered
  <2>2. ASSUME NEW w \in todo, MoveWatch(w) PROVE OriginalsKept
    <3>1. PICK l \in Replacements(w.cref) :
            clauses' = [clauses EXCEPT ![w.cref].w0 = OtherWatch(clauses[w.cref]),
                                       ![w.cref].w1 = l]
      BY <2>2 DEF MoveWatch
    <3>2. /\ w.cref \in 1..Len(clauses) /\ OtherWatch(clauses[w.cref]) \in Lit
          /\ l \in Lit
      BY ScanFacts DEF Replacements
    <3> QED BY <3>1, <3>2, RewatchOriginals
  <2> QED BY <1>1, <1>4, <2>1, <2>2 DEF Propagate, PropagateNext, DropStaleWatch,
             SkipBlocked, KeepSatisfied, ImplyUnit, FindConflict, dbVars
<1>5. CASE TheoryPass
  <2>1. CASE TheoryConflict
    <3>1. PICK C \in Conflicts : AttachConflict(Negation(C), Len(trail))
      BY <2>1 DEF TheoryConflict
    <3>2. Negation(C) \in SUBSET Lit
      BY <3>1, Typed DEF Conflicts, Negation
    <3> QED BY <1>2, <3>1, <3>2
  <2>2. ASSUME NEW i \in answer, ImpliedFails(i) PROVE OriginalsKept
    <3>1. {i.lit} \cup Negation(i.why) \in SUBSET Lit
      BY <2>2, AnswerFacts DEF ImpliedFails
    <3> QED BY <1>2, <2>2, <3>1 DEF ImpliedFails
  <2>3. ASSUME NEW i \in answer, ImpliedAssigned(i) PROVE OriginalsKept
    <3>1. i.lit \in Lit /\ Negation(i.why) \subseteq Lit /\ TRUE \in BOOLEAN
      BY <2>3, AnswerFacts DEF ImpliedAssigned
    <3>2. PICK w \in Negation(i.why) :
            Attach({i.lit} \cup Negation(i.why), i.lit, w, TRUE)
      BY <2>3 DEF ImpliedAssigned
    <3>3. w \in Lit /\ {i.lit} \cup Negation(i.why) \in SUBSET Lit
      BY <3>1
    <3> QED BY <3>1, <3>2, <3>3, AttachOriginals
  <2> QED BY <1>1, <1>5, <2>1, <2>2, <2>3 DEF TheoryPass, TheoryAnswer, ImpliedHolds,
             ValidFails, ValidAssigned, EndPass, dbVars
<1>6. CASE HandleConflict
  <2>1. CASE Learn
    <3>1. CASE \E w \in resolvent : Attach(resolvent, uip, w, TRUE)
      <4>1. PICK w \in resolvent : Attach(resolvent, uip, w, TRUE)
        BY <3>1
      <4>2. uip \in Lit /\ resolvent \in SUBSET Lit /\ w \in Lit /\ TRUE \in BOOLEAN
        BY <2>1, LearningFacts DEF Learn
      <4> QED BY <4>1, <4>2, AttachOriginals
    <3> QED BY <1>1, <2>1, <3>1 DEF Learn, dbVars
  <2>2. ASSUME NEW gone \in SUBSET {c \in LiveLearnt : ~Locked(c)},
               clauses' = [c \in DOMAIN clauses |->
                             IF c \in gone THEN [clauses[c] EXCEPT !.lits = {}]
                             ELSE clauses[c]]
        PROVE  OriginalsKept
    <3>1. Len(clauses') = Len(clauses)
      BY <1>0, <2>2, ReducedSeq
    <3>2. \A i \in 1..Len(clauses) : ~clauses[i].learnt => clauses'[i] = clauses[i]
      BY <1>0, <2>2 DEF LiveLearnt
    <3> QED BY <3>1, <3>2 DEF OriginalsKept
  <2> QED BY <1>1, <1>6, <2>1, <2>2 DEF HandleConflict, RootConflict, UnitBelow,
             Chronological, StartAnalysis, Resolve, FindUIP, AnalysisPanics, Analyzing,
             AssumptionConflict, Account, Reduce, dbVars
<1>7. CASE Branch
  BY <1>1, <1>7 DEF Branch, PlaceAssumption, Decide, AnswerSat, Branching, dbVars
<1> QED BY <1>3, <1>4, <1>5, <1>6, <1>7 DEF SearchStep

\* ensure_var covers the variables it is called for, and those there were.
LEMMA VarsCovered ==
  ASSUME IndInv, NEW c \in SUBSET Lit
  PROVE  /\ VarsAfter(c) \in Nat /\ nvars <= VarsAfter(c) /\ nvars \in Nat
         /\ \A l \in c : VarOf(l) \in 1..VarsAfter(c)
<1> DEFINE S == {nvars} \cup {VarOf(l) : l \in c}
<1>1. NumVars \in Nat /\ nvars \in 0..NumVars /\ \A l \in c : VarOf(l) \in 1..NumVars
  BY SatAssumption, LitFacts DEF Var, IndInv, RestOK
<1>2. S \subseteq Nat /\ S # {} /\ \A s \in S : s <= NumVars
  BY <1>1
<1>3. nvars \in S /\ \A l \in c : VarOf(l) \in S
  OBVIOUS
<1> HIDE DEF S
<1>4. Max(S) \in S /\ \A s \in S : s <= Max(S)
  BY <1>1, <1>2, MaxIn
<1>5. VarsAfter(c) = Max(S)
  BY DEF VarsAfter, S
<1>6. Max(S) \in Nat /\ nvars <= Max(S) /\ \A l \in c : VarOf(l) <= Max(S)
  BY <1>2, <1>3, <1>4
<1>7. \A l \in c : VarOf(l) \in 1..Max(S)
  BY <1>1, <1>6
<1> QED BY <1>1, <1>5, <1>6, <1>7

\* What the search leaves alone, and when it answers Sat.
LEMMA SearchStatus ==
  ASSUME IndInv, Sound, ~Resumable, QueueOK, StatusOK, SearchStep
  PROVE  /\ StatusOK' /\ inputs' = inputs /\ run'.assume = run.assume
         /\ nvars <= nvars' /\ nvars \in Nat /\ nvars' \in Nat /\ pc # "idle"
         /\ verdict' = "sat" => AnswerSat
<1>0. pc # "idle" /\ ok /\ verdict # "sat"
  BY SearchSteps DEF StatusOK, Searching
<1>9. nvars \in Nat /\ nvars <= nvars
  BY DEF IndInv, RestOK
<1>1. CASE AttachPending
  BY <1>1 DEF AttachPending, PendingUnit, PendingClause, TakePending, QueueOK
<1>2. CASE Propagate
  <2>1. UNCHANGED <<ok, verdict, inputs, run, nvars>>
    BY <1>2 DEF Propagate, PropagateNext, DropStaleWatch, SkipBlocked, KeepSatisfied,
           MoveWatch, ImplyUnit, FindConflict, Visit, Propagating, apiVars
  <2> QED BY <1>0, <1>9, <2>1 DEF StatusOK
<1>3. CASE TheoryPass
  <2>1. inputs' = inputs /\ run' = run
    BY <1>3 DEF TheoryPass, TheoryConflict, TheoryAnswer, Consult, ImpliedHolds,
           ValidFails, ImpliedFails, ValidAssigned, ImpliedAssigned, EndPass, Answering,
           apiVars
  <2>2. UNCHANGED <<ok, verdict>> \/ (pc' = "idle" /\ verdict' = "unsat")
    BY <1>3 DEF TheoryPass, TheoryConflict, TheoryAnswer, Consult, ImpliedHolds,
           ValidFails, ImpliedFails, ValidAssigned, ImpliedAssigned, EndPass
  <2>3. nvars <= nvars' /\ nvars' \in Nat
    <3>1. ASSUME NEW i \in answer, ValidAssigned(i) \/ ImpliedAssigned(i)
          PROVE  nvars <= nvars' /\ nvars' \in Nat
      <4>1. {i.lit} \in SUBSET Lit
        BY <3>1, AnswerFacts DEF ValidAssigned, ImpliedAssigned
      <4> QED BY <3>1, <4>1, VarsCovered DEF ValidAssigned, ImpliedAssigned, Allocate
    <3>2. (\E i \in answer : ValidAssigned(i) \/ ImpliedAssigned(i)) \/ nvars' = nvars
      BY <1>3 DEF TheoryPass, TheoryConflict, TheoryAnswer, Consult, ImpliedHolds,
             ValidFails, ImpliedFails, EndPass
    <3> QED BY <1>9, <3>1, <3>2
  <2> QED BY <1>0, <1>9, <2>1, <2>2, <2>3 DEF StatusOK
<1>4. CASE HandleConflict
  <2>1. inputs' = inputs /\ nvars' = nvars
    BY <1>4 DEF HandleConflict, RootConflict, UnitBelow, StartAnalysis, Resolve,
           FindUIP, AnalysisPanics, Analyzing, AssumptionConflict, Learn, Learning,
           Account, Reduce, Conflicting, apiVars
  <2>2. run'.assume = run.assume
    <3>1. CASE Account
      BY <3>1 DEF Account, IndInv, RestOK, Search
    <3> QED BY <1>4, <3>1 DEF HandleConflict, RootConflict, UnitBelow, StartAnalysis,
           Resolve, FindUIP, AnalysisPanics, Analyzing, AssumptionConflict, Learn,
           Learning, Reduce, Conflicting
  <2>3. UNCHANGED <<ok, verdict>> \/ (pc' = "idle" /\ verdict' \in {"unsat", "unknown"})
    BY <1>4 DEF HandleConflict, RootConflict, UnitBelow, StartAnalysis, Resolve,
           FindUIP, AnalysisPanics, Analyzing, AssumptionConflict, Learn, Learning,
           Account, Reduce, Conflicting, Return
  <2>4. StatusOK' /\ verdict' # "sat"
    BY <1>0, <2>3 DEF StatusOK
  <2> QED BY <1>0, <1>9, <2>1, <2>2, <2>4
<1>5. CASE Branch
  <2>1. UNCHANGED <<ok, inputs, run, nvars>>
    BY <1>5 DEF Branch, PlaceAssumption, Decide, AnswerSat, Branching, apiVars
  <2>2. verdict' = verdict \/ (pc' = "idle" /\ (verdict' = "sat" => AnswerSat))
    BY <1>5 DEF Branch, PlaceAssumption, Decide, AnswerSat, Return
  <2> QED BY <1>0, <1>9, <2>1, <2>2 DEF StatusOK
<1> QED BY <1>1, <1>2, <1>3, <1>4, <1>5 DEF SearchStep

\* What a clause added rests on stays, where the database and the root of the
\* trail do.
LEMMA InputsStay ==
  ASSUME InputsKept, ok, inputs' = inputs, nvars <= nvars', nvars \in Nat, nvars' \in Nat,
         OriginalsKept, \A l : Placed(l, 0) => Placed(l, 0)',
         \A c \in inputs : \A l \in c : VarOf(l) \in Nat
  PROVE  InputsKept'
<1> SUFFICES ASSUME NEW c \in inputs
             PROVE  /\ \A l \in c : VarOf(l) \in 1..nvars'
                    /\ Tautology(c) \/ Stored(c)' \/ \E l \in c : Placed(l, 0)'
  BY DEF InputsKept, Known
<1>1. \A l \in c : VarOf(l) \in 1..nvars'
  BY DEF InputsKept, Known
<1>2. Stored(c) => Stored(c)'
  BY DEF Stored, OriginalsKept
<1> QED BY <1>1, <1>2 DEF InputsKept

\* The search keeps it.
LEMMA SearchInputs ==
  ASSUME IndInv, Sound, WatchesOK, ~Resumable, QueueOK, StatusOK, InputsKept, SearchStep
  PROVE  InputsKept'
<1>1. /\ inputs' = inputs /\ nvars <= nvars' /\ nvars \in Nat /\ nvars' \in Nat /\ ok
  BY SearchStatus DEF StatusOK
<1>2. OriginalsKept
  BY SearchOriginals
<1>3. ASSUME NEW l, Placed(l, 0) PROVE Placed(l, 0)'
  <2>1. /\ 0 \in Nat /\ Len(lims) \in Nat /\ Len(lims') \in Nat
        /\ 0 <= Len(lims) /\ 0 <= Len(lims')
    <3>1. lims \in Seq(Nat) /\ lims' \in Seq(Nat)
      BY NextInv DEF Next, IndInv, TrailOK
    <3> QED BY <3>1, LenProperties
  <2>2. CASE \E k \in Nat : CutTo(k)
    BY <1>3, <2>1, <2>2, CutPlaces
  <2>3. CASE Opened
    BY <1>3, <2>1, <2>3, OpenPlaces
  <2> QED BY <2>2, <2>3, SearchMoves
<1>4. \A c \in inputs : \A l \in c : VarOf(l) \in Nat
  BY LitFacts DEF IndInv, RestOK, Var
<1> QED BY <1>1, <1>2, <1>3, <1>4, InputsStay

\* At level 0 every literal of the trail is placed.
LEMMA RootPlaces ==
  ASSUME IndInv, IndInv', ~Resumable, lims' = <<>>
  PROVE  /\ \A l \in Range(trail') : Placed(l, 0)'
         /\ Range(RootTrail) \subseteq Range(trail') =>
              \A l : Placed(l, 0) => Placed(l, 0)'
<1>1. /\ Len(lims') = 0 /\ trail' \in Seq(Lit) /\ trail \in Seq(Lit) /\ 0 \in Nat
      /\ Len(trail) \in Nat /\ DecisionLevel = Len(lims) /\ DecisionLevel \in Nat
  BY Typed, EmptySeq, LenProperties DEF IndInv, TrailOK
<1>2. ASSUME NEW l \in Range(trail') PROVE Placed(l, 0)'
  BY <1>1, <1>2, RangeIs DEF Placed
<1>3. ASSUME NEW l, Placed(l, 0), Range(RootTrail) \subseteq Range(trail')
      PROVE  Placed(l, 0)'
  <2>1. PICK q \in 1..Len(trail) :
          trail[q] = l /\ \A e \in 1..Len(lims) : 0 < e => q <= lims[e]
    BY <1>3 DEF Placed
  <2> DEFINE t == TrailAfter(0)
  <2>2. /\ t \in Seq(Lit) /\ Len(t) = IF DecisionLevel <= 0 THEN Len(trail) ELSE Target(0)
        /\ Len(t) \in Nat /\ \A p \in 1..Len(t) : t[p] = trail[p]
    BY <1>1, PrefixLeft
  <2> HIDE DEF t
  <2>3. q \in 1..Len(t)
    BY <1>1, <2>1, <2>2 DEF Target
  <2>4. l \in Range(t)
    BY <2>1, <2>2, <2>3, RangeIs
  <2> QED BY <1>2, <1>3, <2>4 DEF RootTrail, t
<1> QED BY <1>2, <1>3

\* The caller's clauses are kept as they are added.
LEMMA CallInputs ==
  ASSUME IndInv, IndInv', ~Resumable, InputsKept, Call PROVE InputsKept'
<1>1. \A c \in inputs : \A l \in c : VarOf(l) \in Nat
  BY LitFacts DEF IndInv, RestOK, Var
<1>2. /\ nvars \in Nat /\ nvars' \in Nat /\ ok \in BOOLEAN
      /\ trail \in Seq(Lit) /\ trail' \in Seq(Lit)
  BY DEF IndInv, RestOK, TrailOK
<1>3. clauses' = clauses => OriginalsKept
  BY DEF OriginalsKept
<1>4. UNCHANGED <<trail, lims>> => \A l : Placed(l, 0) => Placed(l, 0)'
  BY DEF Placed
<1>5. CASE ~ok /\ ok' = ok
  BY <1>5 DEF InputsKept
<1>6. CASE MkVar \/ ResetTheory
  <2>1. /\ inputs' = inputs /\ ok' = ok /\ UNCHANGED <<trail, lims, clauses>>
        /\ nvars' = nvars \/ nvars' = nvars + 1
    BY <1>6 DEF MkVar, ResetTheory, apiVars, dbVars
  <2>2. nvars <= nvars'
    BY <1>2, <2>1
  <2> QED BY <1>1, <1>2, <1>3, <1>4, <1>5, <2>1, <2>2, InputsStay
<1>7. ASSUME NEW assume \in AssumptionLists, NEW limit \in ConflictLimits,
             NEW theory \in TheoryCalls, Solve(assume, limit, theory), ok
      PROVE  InputsKept'
  <2>1. /\ inputs' = inputs /\ clauses' = clauses /\ lims' = <<>>
        /\ trail' = TrailAfter(0) /\ nvars' = VarsAfter(Range(assume))
    BY <1>7 DEF Solve, Deferred, dbVars
  <2>2. Range(assume) \in SUBSET Lit
    BY SatAssumption, RangeIs
  <2>3. nvars <= nvars'
    BY <2>1, <2>2, VarsCovered
  <2>4. \A l : Placed(l, 0) => Placed(l, 0)'
    BY <2>1, RootPlaces DEF RootTrail
  <2> QED BY <1>1, <1>2, <1>3, <1>7, <2>1, <2>3, <2>4, InputsStay
<1>8. ASSUME NEW c, AddAtRoot(c), ok' PROVE InputsKept'
  <2>1. /\ ok /\ c \in SUBSET Lit /\ inputs' = inputs \cup {c} /\ lims' = <<>>
        /\ nvars' = VarsAfter(c)
    BY <1>8, CallAddFacts DEF AddAtRoot, CallAdd
  <2>2. nvars <= nvars' /\ \A l \in c : VarOf(l) \in 1..nvars'
    BY <2>1, VarsCovered
  <2>3. /\ Range(RootTrail) \subseteq Range(trail') /\ OriginalsKept
        /\ Tautology(c) \/ Stored(c)' \/ \E l \in c : l \in Range(trail')
    <3>1. RootTrail \in Seq(Lit)
      BY TrailAfterType DEF RootTrail, IndInv
    <3>2. CASE (Tautology(c) \/ (\E l \in Range(RootTrail) : c = {l}))
               /\ trail' = RootTrail /\ UNCHANGED dbVars
      BY <1>3, <3>2 DEF dbVars
    <3>3. ASSUME NEW l \in Lit, c = {l}, trail' = Append(RootTrail, l), UNCHANGED dbVars
          PROVE  /\ Range(RootTrail) \subseteq Range(trail') /\ OriginalsKept
                 /\ Tautology(c) \/ Stored(c)' \/ \E x \in c : x \in Range(trail')
      BY <1>3, <3>1, <3>3, AppendRange DEF dbVars
    <3>4. ASSUME NEW w0 \in c, NEW w1 \in c, Attach(c, w0, w1, FALSE), trail' = RootTrail
          PROVE  /\ Range(RootTrail) \subseteq Range(trail') /\ OriginalsKept
                 /\ Tautology(c) \/ Stored(c)' \/ \E x \in c : x \in Range(trail')
      <4>1. w0 \in Lit /\ w1 \in Lit /\ FALSE \in BOOLEAN
        BY <2>1
      <4>2. /\ OriginalsKept /\ Len(clauses) + 1 \in 1..Len(clauses')
            /\ clauses'[Len(clauses) + 1].lits = c
            /\ clauses'[Len(clauses) + 1].learnt = FALSE
        BY <2>1, <3>4, <4>1, AttachOriginals
      <4>3. Stored(c)'
        BY <3>4, <4>2 DEF Stored
      <4> QED BY <3>4, <4>2, <4>3
    <3> QED BY <1>8, <3>2, <3>3, <3>4 DEF AddAtRoot
  <2>4. (\A l : Placed(l, 0) => Placed(l, 0)') /\ \A l \in Range(trail') : Placed(l, 0)'
    BY <2>1, <2>3, RootPlaces
  <2>5. \A d \in inputs : /\ \A l \in d : VarOf(l) \in Known'
                          /\ Tautology(d) \/ Stored(d)' \/ \E l \in d : Placed(l, 0)'
    <3> TAKE d \in inputs
    <3>1. \A l \in d : VarOf(l) \in 1..nvars'
      BY <1>1, <1>2, <2>1, <2>2 DEF InputsKept, Known
    <3>2. Stored(d) => Stored(d)'
      BY <2>3 DEF Stored, OriginalsKept
    <3> QED BY <2>1, <2>4, <3>1, <3>2 DEF InputsKept, Known
  <2> QED BY <2>1, <2>2, <2>3, <2>4, <2>5 DEF InputsKept, Known
<1>9. ASSUME NEW c, AddIgnored(c) \/ AddDeferred(c) PROVE InputsKept'
  BY <1>5, <1>9 DEF AddIgnored, AddDeferred, Deferred
<1> QED
  <2>1. CASE \E assume \in AssumptionLists, limit \in ConflictLimits,
               theory \in TheoryCalls : Solve(assume, limit, theory)
    BY <1>2, <1>5, <1>7, <2>1 DEF Solve
  <2>2. CASE \E c \in Range(Pool) : AddAtRoot(c)
    BY <1>8, <2>2 DEF InputsKept
  <2> QED BY <1>6, <1>9, <2>1, <2>2 DEF Call

\* The search keeps the assumptions it placed.
LEMMA SearchAssumes ==
  ASSUME IndInv, Sound, IndInv', ~Resumable, QueueOK, StatusOK, AssumeKept, SearchStep
  PROVE  AssumeKept'
<1>1. run'.assume = run.assume /\ pc # "idle"
  BY SearchStatus
<1>2. /\ Len(lims) \in Nat /\ Len(lims') \in Nat /\ Len(run.assume) \in Nat
      /\ lims \in Seq(Nat) /\ trail \in Seq(Lit) /\ Len(trail) \in Nat
  BY LenProperties DEF IndInv, TrailOK, RestOK, Search
<1> SUFFICES ASSUME NEW d \in 1..Len(run.assume), d <= Len(lims')
             PROVE  Placed(run.assume[d], d)'
  BY <1>1 DEF AssumeKept
<1> PICK l : l = run.assume[d]
  OBVIOUS
<1>3. Placed(l, d)'
  <2>1. CASE \E k \in Nat : CutTo(k)
    <3>1. PICK k \in Nat : CutTo(k)
      BY <2>1
    <3>2. d <= Len(lims)
      <4>1. Len(lims') <= Len(lims)
        BY <1>2, <3>1, LimsLeft DEF CutTo, IndInv, DecisionLevel
      <4> QED BY <1>2, <4>1
    <3>3. Placed(l, d)
      BY <1>1, <3>2 DEF AssumeKept
    <3> QED BY <3>1, <3>3, CutPlaces
  <2>2. CASE Opened /\ Branch /\ d <= Len(lims)
    <3>1. Placed(l, d)
      BY <1>1, <2>2 DEF AssumeKept
    <3> QED BY <2>2, <3>1, OpenPlaces
  <2>3. CASE Opened /\ Branch /\ ~(d <= Len(lims))
    <3>1. Len(lims') = Len(lims) + 1 /\ d = Len(lims')
      BY <1>2, <2>3, AppendProperties DEF Opened
    <3>2. DecisionLevel < Len(run.assume) /\ DecisionLevel + 1 = d
      BY <1>2, <3>1 DEF DecisionLevel
    <3>3. \E q \in 1..Len(trail') : trail'[q] = l
      <4>1. CASE PlaceAssumption
        <5>1. l \in Lit
          BY <3>2, AssumedLit
        <5>2. (l \in Range(trail) /\ trail' = trail) \/ trail' = Append(trail, l)
          <6>1. lims' # LimsAfter(0)
            BY <1>2, <3>1, LimsLeft DEF IndInv, DecisionLevel
          <6> QED BY <3>2, <4>1, <6>1 DEF PlaceAssumption, CancelUntil, Retract, Holds,
                     OpenLevel
        <5>3. trail' = Append(trail, l) =>
                Len(trail) + 1 \in 1..Len(trail') /\ trail'[Len(trail) + 1] = l
          BY <1>2, <5>1, AppendProperties
        <5>4. l \in Range(trail) => \E q \in 1..Len(trail) : trail[q] = l
          BY <1>2, RangeIs
        <5> QED BY <5>2, <5>3, <5>4
      <4>2. CASE Decide \/ AnswerSat
        <5>1. DecisionLevel >= Len(run.assume)
          BY <4>2 DEF Decide, AnswerSat
        <5> QED BY <1>2, <3>2, <5>1 DEF DecisionLevel
      <4> QED BY <2>3, <4>1, <4>2 DEF Branch
    <3> QED BY <3>1, <3>3 DEF Placed
  <2> QED BY <2>1, <2>2, <2>3, SearchMoves
<1> QED BY <1>1, <1>3

\* A search begins with no decision level.
LEMMA CallAssumes ==
  ASSUME IndInv, IndInv', ~Resumable, Call PROVE AssumeKept' /\ StatusOK' /\ verdict' # "sat"
<1>1. CASE \E assume \in AssumptionLists, limit \in ConflictLimits,
             theory \in TheoryCalls : Solve(assume, limit, theory)
  <2>1. /\ verdict' \in {"none", "unsat"}
        /\ pc' = "idle" \/ (ok' /\ lims' = <<>> /\ verdict' = "none")
    BY <1>1 DEF Solve, Deferred
  <2>2. lims' = <<>> => Len(lims') = 0
    BY EmptySeq
  <2>3. lims' = <<>> => AssumeKept'
    BY <2>2 DEF AssumeKept
  <2> QED BY <2>1, <2>3 DEF AssumeKept, StatusOK
<1>2. CASE MkVar \/ ResetTheory
           \/ \E c \in Range(Pool) : AddIgnored(c) \/ AddDeferred(c) \/ AddAtRoot(c)
  <2>1. pc' = "idle" /\ verdict' = "none"
    BY <1>2 DEF MkVar, ResetTheory, AddIgnored, AddDeferred, AddAtRoot, CallAdd
  <2> QED BY <2>1 DEF AssumeKept, StatusOK
<1> QED BY <1>1, <1>2 DEF Call

\* When the heap holds no unassigned variable, every clause added and every
\* assumption is satisfied: of a stored clause's watches both would have to be
\* false with nothing to make up for it.
LEMMA SatAnswer ==
  ASSUME IndInv, WatchesOK, HeapOK, QueueOK, Searching => NeverBoth, StatusOK,
         InputsKept, AssumeKept, AnswerSat
  PROVE  SatIsModel'
<1>1. /\ UNCHANGED <<trail, lims, nvars, inputs, run>> /\ heap \subseteq Assigned
      /\ DecisionLevel >= Len(run.assume) /\ pc \in {"branch", "bcp"}
      /\ qhead = Len(trail) /\ todo = {}
  BY DEF AnswerSat, Branching, AtFixpoint, apiVars, QueueOK, IndInv, LocalsOK
<1>2. /\ ok /\ Searching /\ ~Analysing /\ pc # "idle" /\ NeverBoth
      /\ trail \in Seq(Lit) /\ Len(trail) \in Nat
      /\ Len(lims) \in Nat /\ Len(run.assume) \in Nat
      /\ \A x : x \in Range(trail) <=> \E q \in 1..Len(trail) : trail[q] = x
  BY <1>1, RangeIs, LenProperties
     DEF StatusOK, Searching, Analysing, IndInv, TrailOK, RestOK, Search
<1>3. \A v \in Known : \E l \in Range(trail) : VarOf(l) = v
  BY <1>1 DEF HeapOK, Offered, Known, Assigned
<1>4. \A x \in Lit : VarOf(x) \in Known => Holds(x) \/ Fails(x)
  <2> SUFFICES ASSUME NEW x \in Lit, VarOf(x) \in Known PROVE Holds(x) \/ Fails(x)
    OBVIOUS
  <2>1. PICK l \in Range(trail) : VarOf(l) = VarOf(x)
    BY <1>3
  <2>2. l \in Lit
    BY <1>2, RangeIs
  <2>3. l = x \/ l = -x
    BY <2>1, <2>2, LitPairs
  <2> QED BY <2>1, <2>3 DEF Holds, Fails
<1>5. ASSUME NEW i \in 1..Len(clauses), clauses[i].lits # {},
             \A l \in clauses[i].lits : VarOf(l) \in Known
      PROVE  \E l \in clauses[i].lits : Holds(l)
  <2> SUFFICES ASSUME \A l \in clauses[i].lits : ~Holds(l) PROVE FALSE
    OBVIOUS
  <2>1. /\ clauses[i].lits \subseteq Lit
        /\ clauses[i].w0 \in clauses[i].lits /\ clauses[i].w1 \in clauses[i].lits
    BY <1>5, ClauseFacts DEF WatchesOK, FilesOK, TwoWatches, IndInv
  <2>2. ASSUME NEW x \in {clauses[i].w0, clauses[i].w1}
        PROVE  \E p \in 1..Len(trail) : Missed(i, x, p)
    <3>1. PICK p \in 1..Len(trail) : trail[p] = -x
      BY <1>2, <1>4, <1>5, <2>1 DEF Fails
    <3>2. Seen(i, x, p)
      BY <1>1, <1>2, <3>1 DEF Seen, InScope
    <3>3. ~Justified(i, p)
      BY <1>2 DEF Justified, Holds
    <3> QED BY <3>2, <3>3 DEF Missed
  <2> QED BY <1>2, <1>5, <2>2 DEF NeverBoth
<1>6. ASSUME NEW c \in inputs PROVE \E l \in c : Holds(l)
  <2>1. /\ c \subseteq Lit /\ \A l \in c : VarOf(l) \in Known
        /\ Tautology(c) \/ Stored(c) \/ \E l \in c : Placed(l, 0)
    BY <1>2 DEF InputsKept, IndInv, RestOK
  <2>2. CASE Tautology(c)
    BY <1>4, <2>1, <2>2 DEF Tautology, Fails, Holds
  <2>3. CASE Stored(c)
    BY <1>5, <2>1, <2>3 DEF Stored
  <2>4. CASE \E l \in c : Placed(l, 0)
    BY <1>2, <2>4 DEF Placed, Holds
  <2> QED BY <2>1, <2>2, <2>3, <2>4
<1>7. ASSUME NEW d \in 1..Len(run.assume) PROVE Holds(run.assume[d])
  <2>1. Placed(run.assume[d], d)
    BY <1>1, <1>2 DEF AssumeKept, DecisionLevel
  <2> QED BY <1>2, <2>1 DEF Placed, Holds
<1>8. Known \subseteq Assigned
  BY <1>3 DEF Assigned
<1>9. run.assume \in Seq(Lit) /\ DOMAIN run.assume = 1..Len(run.assume)
  BY LenProperties DEF IndInv, RestOK, Search
<1> QED BY <1>1, <1>6, <1>7, <1>8, <1>9 DEF SatIsModel, Known, Assigned, Holds

\* The books of the lists, the heap and the queue, and what Sat rests on.
Complete ==
  /\ WatchesOK /\ HeapOK /\ QueueOK /\ (Searching => NeverBoth)
  /\ StatusOK /\ InputsKept /\ AssumeKept /\ SatIsModel

\* A new solver has promised nothing.
LEMMA InitComplete == Init => Complete
<1> SUFFICES ASSUME Init PROVE Complete
  OBVIOUS
<1>1. WatchesOK /\ HeapOK /\ QueueOK
  BY InitWatches, InitOffers, InitQueue
<1>2. pc = "idle" /\ verdict = "none" /\ inputs = {}
  BY DEF Init
<1> QED BY <1>1, <1>2 DEF Complete, Searching, StatusOK, InputsKept, AssumeKept, SatIsModel

\* Every step keeps it, where the solver backtracks to a prefix.
LEMMA NextComplete ==
  ASSUME ~Resumable
  PROVE  IndInv /\ Sound /\ Complete /\ [Next]_vars => Complete'
<1> SUFFICES ASSUME IndInv, Sound, Complete, [Next]_vars PROVE Complete'
  OBVIOUS
<1>1. /\ WatchesOK /\ HeapOK /\ QueueOK /\ (Searching => NeverBoth)
      /\ StatusOK /\ InputsKept /\ AssumeKept /\ SatIsModel
  BY DEF Complete
<1>2. /\ IndInv' /\ Sound' /\ WatchesOK' /\ HeapOK' /\ QueueOK'
      /\ (Searching' => NeverBoth')
  BY <1>1, NextInv, NextSound, NextWatches, NextOffers, NextQueue, NextBoth
<1>3. StatusOK' /\ InputsKept' /\ AssumeKept' /\ SatIsModel'
  <2>1. CASE Call
    BY <1>1, <1>2, <2>1, CallAssumes, CallInputs DEF SatIsModel
  <2>2. CASE SearchStep
    <3>1. StatusOK' /\ InputsKept' /\ AssumeKept'
      BY <1>1, <1>2, <2>2, SearchStatus, SearchInputs, SearchAssumes
    <3>2. verdict' = "sat" => SatIsModel'
      BY <1>1, <2>2, SearchStatus, SatAnswer
    <3> QED BY <3>1, <3>2 DEF SatIsModel
  <2>3. CASE UNCHANGED vars
    <3>1. StatusOK'
      BY <1>1, <2>3 DEF StatusOK, vars
    <3>2. InputsKept'
      BY <1>1, <2>3 DEF InputsKept, Stored, Placed, Known, vars, dbVars, trailVars, apiVars
    <3>3. AssumeKept'
      BY <1>1, <2>3 DEF AssumeKept, Placed, vars, trailVars
    <3>4. SatIsModel'
      BY <1>1, <2>3 DEF SatIsModel, Known, Assigned, Holds, vars, trailVars, apiVars
    <3> QED BY <3>1, <3>2, <3>3, <3>4
  <2> QED BY <2>1, <2>2, <2>3 DEF Next
<1> QED BY <1>2, <1>3 DEF Complete

\* The watch lists are exact and the decision heap holds every unassigned
\* variable, for every value of the constants, chronological backtracking
\* included.
THEOREM ListsAndHeapExact == Spec => [](WatchesExact /\ HeapComplete)
<1>1. Init => WatchesOK /\ HeapOK
  BY InitWatches, InitOffers
<1>2. IndInv /\ Sound /\ (WatchesOK /\ HeapOK) /\ [Next]_vars => (WatchesOK /\ HeapOK)'
  BY NextWatches, NextOffers
<1>3. IndInv /\ WatchesOK /\ HeapOK => WatchesExact /\ HeapComplete
  BY ExactWatches, HeapIsComplete
<1> QED BY <1>1, <1>2, <1>3, AlwaysSound, PTL DEF Spec

\* Both answers of a solver that backtracks to a prefix of its trail are right,
\* for every pool of clauses, theory, list of assumptions and limit: on Sat every
\* allocated variable has a value, and every clause added and every assumption
\* holds; Unsat without assumptions means that there is no model.
THEOREM BothVerdictsRight == ASSUME ~Resumable PROVE Spec => []VerdictsRight
<1>1. Init => Complete
  BY InitComplete
<1>2. IndInv /\ Sound /\ Complete /\ [Next]_vars => Complete'
  BY NextComplete
<1>3. Sound /\ Complete => VerdictsRight
  BY DEF Sound, Complete, VerdictsRight
<1> QED BY <1>1, <1>2, <1>3, AlwaysSound, PTL DEF Spec

\* A clause none of whose watches is false for nothing has a true literal or two
\* free ones, once everything is propagated.
LEMMA FixpointComplete ==
  ASSUME IndInv, WatchesOK, Searching => NeverOne PROVE PropagationComplete
<1> SUFFICES ASSUME AtFixpoint, NEW i \in DOMAIN clauses, ~Deleted(i),
                    \A l \in clauses[i].lits : ~Holds(l)
             PROVE  Cardinality({l \in clauses[i].lits : Free(l)}) >= 2
  BY DEF PropagationComplete
<1> DEFINE c == clauses[i]
           S == {l \in c.lits : Free(l)}
<1>1. i \in 1..Len(clauses) /\ c.lits # {} /\ c.lits \subseteq Lit
  <2>1. i \in 1..Len(clauses)
    BY LenProperties DEF IndInv, DbOK
  <2> QED BY <2>1, ClauseFacts DEF Deleted, IndInv
<1>2. /\ qhead = Len(trail) /\ todo = {} /\ Searching /\ ~Analysing /\ NeverOne
      /\ Len(trail) \in Nat
      /\ \A x : x \in Range(trail) <=> \E q \in 1..Len(trail) : trail[q] = x
  BY RangeIs, LenProperties DEF AtFixpoint, Searching, Analysing, IndInv, TrailOK
<1>3. c.w0 \in c.lits /\ c.w1 \in c.lits /\ c.w0 # c.w1
  BY <1>1 DEF WatchesOK, FilesOK, TwoWatches
<1>4. ASSUME NEW x \in {c.w0, c.w1} PROVE x \in S
  <2>1. ASSUME Fails(x) PROVE FALSE
    <3>1. PICK p \in 1..Len(trail) : trail[p] = -x
      BY <1>2, <2>1 DEF Fails
    <3>2. Seen(i, x, p)
      BY <1>2, <3>1 DEF Seen, InScope
    <3>3. ~Justified(i, p)
      BY <1>2 DEF Justified, Holds
    <3> QED BY <1>1, <1>2, <3>2, <3>3 DEF Missed, NeverOne
  <2> QED BY <1>3, <2>1 DEF Free
<1>5. IsFiniteSet(S)
  <2>1. /\ NumVars \in Nat /\ -NumVars \in Int /\ NumVars \in Int
        /\ Lit \subseteq (-NumVars)..NumVars
    BY SatAssumption DEF Lit, Var
  <2>2. IsFiniteSet((-NumVars)..NumVars)
    BY <2>1, FS_Interval
  <2> QED BY <1>1, <2>1, <2>2, FS_Subset
<1> HIDE DEF S
<1>6. {c.w0, c.w1} \subseteq S /\ IsFiniteSet(S)
  BY <1>4, <1>5
<1>7. Cardinality({c.w0, c.w1}) = 2
  <2> HIDE DEF c
  <2>1. IsFiniteSet({c.w0}) /\ Cardinality({c.w0}) = 1
    BY FS_Singleton
  <2>2. c.w1 \notin {c.w0} /\ {c.w0} \cup {c.w1} = {c.w0, c.w1}
    BY <1>3
  <2> QED BY <2>1, <2>2, FS_AddElement
<1>8. Cardinality({c.w0, c.w1}) <= Cardinality(S) /\ Cardinality(S) \in Nat
  BY <1>6, FS_Subset, FS_CardinalityType
<1> QED BY <1>7, <1>8 DEF S

\* A search without a theory, in a solver that backtracks to a prefix of its
\* trail, overlooks nothing, for every pool of clauses, list of assumptions and
\* limit: the watch lists and the decision heap are exact, at a propagation
\* fixpoint every clause has a true literal or two free ones, and Sat comes with
\* a model.
THEOREM SearchOverlooksNothing ==
  ASSUME ~Resumable, TRUE \notin TheoryCalls
  PROVE  Spec => []SearchComplete
<1> DEFINE J == Complete /\ NoTheory /\ (Searching => NeverOne)
<1>1. Init => J
  <2>1. Init => NoTheory /\ ~Searching
    BY DEF Init, NoTheory, Searching
  <2> QED BY <2>1, InitComplete
<1>2. IndInv /\ Sound /\ J /\ [Next]_vars => J'
  BY NextComplete, NextOne DEF Complete
<1>3. IndInv /\ Sound /\ J => SearchComplete
  BY ExactWatches, HeapIsComplete, FixpointComplete DEF Complete, SearchComplete
<1> HIDE DEF J
<1> QED BY <1>1, <1>2, <1>3, AlwaysSound, PTL DEF Spec

=============================================================================
