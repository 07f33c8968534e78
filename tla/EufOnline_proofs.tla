------------------------- MODULE EufOnline_proofs -------------------------
(***************************************************************************)
(* The online congruence closure takes back exactly what it merged, for    *)
(* every set of terms and atoms, every trail and every order of growing    *)
(* it.                                                                     *)
(*                                                                         *)
(* The e-graph is a value here, a tuple of its eight parts, and a merge    *)
(* and its undoing are operators on such values (Joined, Undone).  The     *)
(* member list of a class is the orbit of a node along next, a tree of the *)
(* proof forest the orbits along target; GraphRight says that the lists    *)
(* are those of the classes and the trees lead to their roots, which is    *)
(* what the undoing relies on (JoinBack).  Restorable strings the merges   *)
(* together: the e-graphs of the past, one before each merge, of which the *)
(* marks name some.                                                        *)
(***************************************************************************)
EXTENDS EufOnline, FiniteSetTheorems, SequenceTheorems, WellFoundedInduction, TLAPS

LEMMA NatInductive ==
    ASSUME NEW T, 0 \in T, \A n \in Nat : n \in T => n + 1 \in T
    PROVE  Nat \subseteq T
<1> SUFFICES ASSUME NEW m \in Nat, m \notin T PROVE FALSE
  OBVIOUS
<1> DEFINE F == {0 .. k : k \in Nat \ T}
           R == StrictSubsetOrdering(Nat)
<1>1. IsWellFoundedOn(R, FiniteSubsetsOf(Nat))
  BY FS_StrictSubsetOrderingWellFounded
<1>2. F \subseteq FiniteSubsetsOf(Nat) /\ F # {}
  <2>1. ASSUME NEW k \in Nat \ T PROVE 0 .. k \in FiniteSubsetsOf(Nat)
    <3>1. IsFiniteSet(0 .. k) BY FS_Interval
    <3>2. 0 .. k \in SUBSET Nat OBVIOUS
    <3> QED BY <3>1, <3>2 DEF FiniteSubsetsOf
  <2>2. 0 .. m \in F OBVIOUS
  <2> QED BY <2>1, <2>2
<1>3. \E x \in F : \A y \in F : <<y, x>> \notin R
  <2> HIDE DEF R, F
  <2> QED BY <1>1, <1>2, WFMin
<1>4. PICK k \in Nat \ T : \A j \in Nat \ T : <<0 .. j, 0 .. k>> \notin R
  BY <1>3
<1>5. k # 0 /\ k - 1 \in Nat \ T
  <2>1. k # 0 OBVIOUS
  <2> QED BY <2>1
<1>6. 0 .. (k - 1) \subseteq 0 .. k /\ k \in 0 .. k /\ k \notin 0 .. (k - 1)
  BY <1>5
<1>7. <<0 .. (k - 1), 0 .. k>> \in R
  BY <1>5, <1>6 DEF StrictSubsetOrdering
<1> QED BY <1>4, <1>5, <1>7


-----------------------------------------------------------------------------
(* Orbits: the nodes met along a function *)

WalkStep(f, n, k, M) == IF k = 0 THEN n ELSE f[M[k - 1]]
WalkRun(f, n, m, M) == M = [k \in 0 .. m |-> WalkStep(f, n, k, M)]

LEMMA WalkStepSame ==
    ASSUME NEW f, NEW n, NEW k, NEW M, NEW L, k # 0 => M[k - 1] = L[k - 1]
    PROVE  WalkStep(f, n, k, M) = WalkStep(f, n, k, L)
  BY DEF WalkStep

LEMMA WalkRuns == ASSUME NEW f, NEW n, NEW N \in Nat PROVE \E M : WalkRun(f, n, N, M)
<1> DEFINE S == {m \in Nat : \E M : WalkRun(f, n, m, M)}
<1>1. 0 \in S
  <2> DEFINE T == [i \in 0 .. 0 |-> WalkStep(f, n, i, << >>)]
  <2>1. T = [i \in 0 .. 0 |-> WalkStep(f, n, i, T)]
    <3>1. 0 .. 0 = {0} OBVIOUS
    <3>2. \A i \in 0 .. 0 : T[i] = WalkStep(f, n, i, << >>) OBVIOUS
    <3>3. T = [i \in 0 .. 0 |-> T[i]] OBVIOUS
    <3> HIDE DEF T
    <3>4. \A i \in 0 .. 0 : T[i] = WalkStep(f, n, i, T) BY <3>1, <3>2, WalkStepSame
    <3> QED BY <3>3, <3>4
  <2>2. WalkRun(f, n, 0, T)
    <3> HIDE DEF T
    <3> QED BY <2>1 DEF WalkRun
  <2> QED BY <2>2
<1>2. ASSUME NEW m \in Nat, m \in S PROVE m + 1 \in S
  <2>1. PICK T : WalkRun(f, n, m, T) BY <1>2
  <2> DEFINE U == [i \in 0 .. m + 1 |-> IF i = m + 1 THEN WalkStep(f, n, i, T) ELSE T[i]]
  <2>2. \A i \in 0 .. m : U[i] = T[i] OBVIOUS
  <2>3. \A i \in 0 .. m : T[i] = WalkStep(f, n, i, T) BY <2>1 DEF WalkRun
  <2>4. \A i \in 0 .. m + 1 : U[i] = WalkStep(f, n, i, T)
    <3>1. \A i \in 0 .. m + 1 : i = m + 1 \/ i \in 0 .. m OBVIOUS
    <3> QED BY <2>3, <3>1
  <2>5. U = [i \in 0 .. m + 1 |-> U[i]] OBVIOUS
  <2> HIDE DEF U
  <2>6. ASSUME NEW i \in 0 .. m + 1 PROVE U[i] = WalkStep(f, n, i, U)
    <3>1. i # 0 => i - 1 \in 0 .. m OBVIOUS
    <3>2. WalkStep(f, n, i, T) = WalkStep(f, n, i, U) BY <3>1, <2>2, WalkStepSame
    <3> QED BY <2>4, <3>2
  <2>7. U = [i \in 0 .. m + 1 |-> WalkStep(f, n, i, U)] BY <2>5, <2>6
  <2>8. WalkRun(f, n, m + 1, U) BY <2>7 DEF WalkRun
  <2> QED BY <2>8
<1>3. Nat \subseteq S
  <2> HIDE DEF S
  <2> QED BY <1>1, <1>2, NatInductive
<1> QED BY <1>3

\* A walk along f that stays in S: it starts in n, goes on by f, and stays in every
\* set that does.
LEMMA WalkStays ==
    ASSUME NEW S, NEW f, NEW n \in S, NEW N \in Nat, NEW at, WalkRun(f, n, N, at),
           NEW X, n \in X, \A x \in X : f[x] \in X
    PROVE  \A k \in 0 .. N : at[k] \in X
<1>1. \A k \in 0 .. N : at[k] = IF k = 0 THEN n ELSE f[at[k - 1]] BY DEF WalkRun, WalkStep
<1> DEFINE T == {k \in Nat : k <= N => at[k] \in X}
<1>2. 0 \in T
  <2>1. 0 \in 0 .. N OBVIOUS
  <2>2. at[0] = n BY <1>1, <2>1
  <2> QED BY <2>2
<1>3. ASSUME NEW k \in Nat, k \in T PROVE k + 1 \in T
  <2> SUFFICES ASSUME k + 1 <= N PROVE at[k + 1] \in X OBVIOUS
  <2>1. k + 1 \in 0 .. N /\ k + 1 # 0 /\ k + 1 - 1 = k /\ at[k] \in X BY <1>3
  <2>2. at[k + 1] = f[at[k]] BY <1>1, <2>1
  <2> QED BY <2>1, <2>2
<1>4. Nat \subseteq T
  <2> HIDE DEF T
  <2> QED BY <1>2, <1>3, NatInductive
<1> QED BY <1>4

Returns(N, at) == \E i, j \in 0 .. N : i < j /\ at[i] = at[j]
Closes(f, N, at) == \A k \in 0 .. N : \E h \in 0 .. N : f[at[k]] = at[h]

\* A walk that comes back to where it was is closed.
LEMMA WalkCloses ==
    ASSUME NEW f, NEW n, NEW N \in Nat, NEW at, WalkRun(f, n, N, at),
           Returns(N, at)
    PROVE  Closes(f, N, at)
<1>0. PICK i \in 0 .. N, j \in 0 .. N : i < j /\ at[i] = at[j] BY DEF Returns
<1>1. \A k \in 0 .. N : k # 0 => at[k] = f[at[k - 1]] BY DEF WalkRun, WalkStep
<1>2. \A k \in 0 .. N - 1 : k + 1 \in 0 .. N /\ at[k + 1] = f[at[k]]
  <2>1. \A k \in 0 .. N - 1 : k + 1 \in 0 .. N /\ k + 1 # 0 /\ k + 1 - 1 = k OBVIOUS
  <2> QED BY <1>1, <2>1
<1> DEFINE T == {m \in Nat : j + m <= N => at[i + m] = at[j + m]}
<1>3. 0 \in T BY <1>0
<1>4. ASSUME NEW m \in Nat, m \in T PROVE m + 1 \in T
  <2> SUFFICES ASSUME j + (m + 1) <= N PROVE at[i + (m + 1)] = at[j + (m + 1)] OBVIOUS
  <2>1. at[i + m] = at[j + m] BY <1>4
  <2>2. i + m \in 0 .. N - 1 /\ j + m \in 0 .. N - 1 BY <1>0
  <2>3. at[(i + m) + 1] = f[at[i + m]] /\ at[(j + m) + 1] = f[at[j + m]] BY <1>2, <2>2
  <2>4. (i + m) + 1 = i + (m + 1) /\ (j + m) + 1 = j + (m + 1) OBVIOUS
  <2> QED BY <2>1, <2>3, <2>4
<1>5. Nat \subseteq T
  <2> HIDE DEF T
  <2> QED BY <1>3, <1>4, NatInductive
<1>6. at[i + (N - j)] = at[N] /\ i + (N - j) \in 0 .. N - 1
  <2>1. N - j \in Nat /\ j + (N - j) = N /\ i + (N - j) \in 0 .. N - 1 BY <1>0
  <2>2. N - j \in T BY <1>5, <2>1
  <2> QED BY <2>1, <2>2
<1> SUFFICES ASSUME NEW k \in 0 .. N PROVE \E h \in 0 .. N : f[at[k]] = at[h] BY DEF Closes
<1>7. CASE k = N
  <2> DEFINE p == i + (N - j)
  <2>1. at[p] = at[N] /\ p \in 0 .. N - 1 BY <1>6
  <2> HIDE DEF p
  <2>2. p + 1 \in 0 .. N /\ at[p + 1] = f[at[p]] BY <1>2, <2>1
  <2> QED BY <1>7, <2>1, <2>2
<1>8. CASE k # N
  <2>1. k \in 0 .. N - 1 BY <1>8
  <2> QED BY <1>2, <2>1
<1> QED BY <1>7, <1>8

LEMMA NodesCounted ==
    /\ NumNodes \in Nat /\ IsFiniteSet(Node) /\ Cardinality(Node) = NumNodes
    /\ IsFiniteSet(0 .. NumNodes) /\ Cardinality(0 .. NumNodes) = NumNodes + 1 /\ None \notin Node
<1>1. NumNodes \in Nat /\ NumNodes >= 2 BY EufAssumption
<1>2. IsFiniteSet(1 .. NumNodes) /\ Cardinality(1 .. NumNodes) = IF 1 > NumNodes THEN 0 ELSE NumNodes - 1 + 1
  BY <1>1, FS_Interval
<1>3. IsFiniteSet(0 .. NumNodes) /\ Cardinality(0 .. NumNodes) = IF 0 > NumNodes THEN 0 ELSE NumNodes - 0 + 1
  BY <1>1, FS_Interval
<1>4. NumNodes - 1 + 1 = NumNodes /\ ~(1 > NumNodes) /\ ~(0 > NumNodes) /\ NumNodes - 0 + 1 = NumNodes + 1 BY <1>1
<1> QED BY <1>1, <1>2, <1>3, <1>4 DEF Node, None

\* As many steps as there are nodes come back to a node met before.
LEMMA WalkReturns ==
    ASSUME NEW at, \A k \in 0 .. NumNodes : at[k] \in Node
    PROVE  Returns(NumNodes, at)
<1> DEFINE A == [k \in 0 .. NumNodes |-> at[k]]
<1>1. A \in [0 .. NumNodes -> Node] OBVIOUS
<1>2. \E x, y \in 0 .. NumNodes : x # y /\ A[x] = A[y]
  <2>1. Cardinality(Node) < Cardinality(0 .. NumNodes) BY NodesCounted
  <2> HIDE DEF A
  <2> QED BY <1>1, <2>1, NodesCounted, FS_PigeonHole
<1>3. PICK x \in 0 .. NumNodes, y \in 0 .. NumNodes : x # y /\ at[x] = at[y] BY <1>2
<1>4. x < y \/ y < x BY <1>3, NodesCounted
<1> QED BY <1>3, <1>4 DEF Returns

-----------------------------------------------------------------------------
(* The member list of a class and the path up a proof tree *)

LEMMA MembersAre ==
    ASSUME NEW nx \in [Node -> Node], NEW n \in Node
    PROVE  /\ Members(nx, n) \subseteq Node /\ n \in Members(nx, n)
           /\ \A m \in Members(nx, n) : nx[m] \in Members(nx, n)
           /\ \A X : n \in X /\ (\A x \in X : nx[x] \in X) => Members(nx, n) \subseteq X
<1> DEFINE N == NumNodes
           at == CHOOSE M : M = [k \in 0 .. N |-> WalkStep(nx, n, k, M)]
<1>1. Members(nx, n) = {at[k] : k \in 0 .. N} BY DEF Members, WalkStep
<1>2. N \in Nat BY NodesCounted
<1>3. WalkRun(nx, n, N, at)
  <2>1. \E M : M = [k \in 0 .. N |-> WalkStep(nx, n, k, M)]
    <3> HIDE DEF N, at
    <3>1. PICK M : WalkRun(nx, n, N, M) BY <1>2, WalkRuns
    <3> QED BY <3>1 DEF WalkRun
  <2>2. at = [k \in 0 .. N |-> WalkStep(nx, n, k, at)]
    <3> HIDE DEF N
    <3> QED BY <2>1
  <2> HIDE DEF at, N
  <2> QED BY <2>2 DEF WalkRun
<1> HIDE DEF at
<1>4. ASSUME NEW X, n \in X, \A x \in X : nx[x] \in X PROVE Members(nx, n) \subseteq X
  <2>1. \A k \in 0 .. N : at[k] \in X
    <3> HIDE DEF N
    <3> QED BY <1>2, <1>3, <1>4, WalkStays
  <2> QED BY <1>1, <2>1
<1>5. n \in Node /\ \A x \in Node : nx[x] \in Node OBVIOUS
<1>6. Members(nx, n) \subseteq Node BY <1>4, <1>5
<1>7. \A k \in 0 .. NumNodes : at[k] \in Node BY <1>1, <1>6
<1>8. Returns(N, at) BY <1>7, WalkReturns
<1>9. \A k \in 0 .. N : \E h \in 0 .. N : nx[at[k]] = at[h]
  <2> HIDE DEF N
  <2> QED BY <1>2, <1>3, <1>8, WalkCloses DEF Closes
<1>10. n \in Members(nx, n)
  <2>1. 0 \in 0 .. N BY <1>2
  <2>2. at[0] = n BY <1>3, <2>1 DEF WalkRun, WalkStep
  <2> QED BY <1>1, <2>1, <2>2
<1>11. \A m \in Members(nx, n) : nx[m] \in Members(nx, n) BY <1>1, <1>9
<1> QED BY <1>4, <1>6, <1>10, <1>11

LEMMA AboveIs ==
    ASSUME NEW tg \in [Node -> Node \cup {None}], NEW n \in Node
    PROVE  /\ Above(tg, n) \subseteq Node /\ n \in Above(tg, n)
           /\ \A m \in Above(tg, n) : tg[m] # None => tg[m] \in Above(tg, n)
           /\ \A X : n \in X /\ (\A x \in X : x \in Node /\ tg[x] # None => tg[x] \in X) => Above(tg, n) \subseteq X
<1> DEFINE N == NumNodes
           step == [m \in Node \cup {None} |-> IF m = None THEN None ELSE tg[m]]
           at == CHOOSE M : M = [k \in 0 .. N |-> WalkStep(step, n, k, M)]
<1>1. Above(tg, n) = {at[k] : k \in 0 .. N} \ {None} BY DEF Above, WalkStep
<1>2. N \in Nat BY NodesCounted
<1>s. step[None] = None /\ \A m \in Node : step[m] = tg[m] BY NodesCounted
<1> HIDE DEF step
<1>3. WalkRun(step, n, N, at)
  <2>1. \E M : M = [k \in 0 .. N |-> WalkStep(step, n, k, M)]
    <3> HIDE DEF N, at
    <3>1. PICK M : WalkRun(step, n, N, M) BY <1>2, WalkRuns
    <3> QED BY <3>1 DEF WalkRun
  <2>2. at = [k \in 0 .. N |-> WalkStep(step, n, k, at)]
    <3> HIDE DEF N
    <3> QED BY <2>1
  <2> HIDE DEF at, N
  <2> QED BY <2>2 DEF WalkRun
<1> HIDE DEF at
<1>4. ASSUME NEW X, n \in X, \A x \in X : step[x] \in X PROVE \A k \in 0 .. N : at[k] \in X
  <2> HIDE DEF N
  <2> QED BY <1>2, <1>3, <1>4, WalkStays
<1>5. \A k \in 0 .. N : at[k] \in Node \cup {None}
  <2>1. n \in Node \cup {None} /\ \A x \in Node \cup {None} : step[x] \in Node \cup {None} BY <1>s
  <2> QED BY <1>4, <2>1
<1>6. Above(tg, n) \subseteq Node BY <1>1, <1>5
<1>7. ASSUME NEW X, n \in X, \A x \in X : x \in Node /\ tg[x] # None => tg[x] \in X PROVE Above(tg, n) \subseteq X
  <2> DEFINE Y == (X \cap Node) \cup {None}
  <2>1. n \in Y /\ \A x \in Y : step[x] \in Y BY <1>7, <1>s
  <2>2. \A k \in 0 .. N : at[k] \in Y
    <3> HIDE DEF Y
    <3> QED BY <1>4, <2>1
  <2> QED BY <1>1, <2>2
<1>8. n \in Above(tg, n)
  <2>1. 0 \in 0 .. N BY <1>2
  <2>2. at[0] = n BY <1>3, <2>1 DEF WalkRun, WalkStep
  <2>3. n # None BY NodesCounted
  <2> QED BY <1>1, <2>1, <2>2, <2>3
<1>9. \A k \in 0 .. N : k # 0 => at[k] = step[at[k - 1]] BY <1>3 DEF WalkRun, WalkStep
<1>10. \A k \in 0 .. N : \E h \in 0 .. N : step[at[k]] = at[h]
  <2>1. CASE \E k \in 0 .. N : at[k] \notin Node
    <3>1. PICK k \in 0 .. N : at[k] = None BY <1>5, <2>1
    <3>2. ASSUME NEW m \in 0 .. N PROVE \E h \in 0 .. N : step[at[m]] = at[h]
      <4>1. CASE m < N
        <5>1. m + 1 \in 0 .. N /\ m + 1 # 0 /\ m + 1 - 1 = m BY <1>2, <4>1
        <5> QED BY <1>9, <5>1
      <4>2. CASE m = N
        <5>1. CASE at[N] = None BY <1>s, <4>2, <5>1
        <5>2. CASE at[N] # None
          <6>1. k < N BY <1>2, <3>1, <5>2
          <6>2. k + 1 \in 0 .. N /\ k + 1 # 0 /\ k + 1 - 1 = k BY <1>2, <6>1
          <6>3. at[k + 1] = at[k] BY <1>9, <1>s, <3>1, <6>2
          <6>4. k < k + 1 BY <1>2
          <6>5. Returns(N, at) BY <6>2, <6>3, <6>4 DEF Returns
          <6> HIDE DEF N
          <6>6. Closes(step, N, at) BY <1>2, <1>3, <6>5, WalkCloses
          <6> QED BY <6>6 DEF Closes
        <5> QED BY <5>1, <5>2
      <4> QED BY <1>2, <4>1, <4>2
    <3> QED BY <3>2
  <2>2. CASE \A k \in 0 .. N : at[k] \in Node
    <3>1. Returns(N, at) BY <2>2, WalkReturns
    <3> HIDE DEF N
    <3> QED BY <1>2, <1>3, <3>1, WalkCloses DEF Closes
  <2> QED BY <2>1, <2>2
<1>11. \A m \in Above(tg, n) : tg[m] # None => tg[m] \in Above(tg, n)
  <2> SUFFICES ASSUME NEW m \in Above(tg, n), tg[m] # None PROVE tg[m] \in Above(tg, n) OBVIOUS
  <2>1. PICK k \in 0 .. N : m = at[k] BY <1>1
  <2>2. PICK h \in 0 .. N : step[m] = at[h] BY <1>10, <2>1
  <2>3. step[m] = tg[m] BY <1>6, <1>s
  <2> QED BY <1>1, <2>2, <2>3
<1> QED BY <1>6, <1>7, <1>8, <1>11

-----------------------------------------------------------------------------
(* The proof forest *)

\* Induction from the top of the trees reaches every node.
Grounded(tg) ==
    \A Z \in SUBSET Node : (\A x \in Node : tg[x] = None \/ tg[x] \in Z => x \in Z) => Node \subseteq Z

\* The trees of tg are those of the roots rt: one for each class.
Forest(tg, rt) ==
    /\ tg \in [Node -> Node \cup {None}] /\ rt \in [Node -> Node] /\ Grounded(tg)
    /\ \A n \in Node : tg[n] # None => rt[tg[n]] = rt[n]
    /\ \A n \in Node : tg[n] = None => rt[n] = n

LEMMA AboveUnfolds ==
    ASSUME NEW tg \in [Node -> Node \cup {None}], NEW n \in Node
    PROVE  /\ tg[n] = None => Above(tg, n) = {n}
           /\ tg[n] # None => tg[n] \in Node /\ Above(tg, n) = {n} \cup Above(tg, tg[n])
<1>1. CASE tg[n] = None
  <2>1. Above(tg, n) \subseteq {n}
    <3>1. n \in {n} /\ \A x \in {n} : x \in Node /\ tg[x] # None => tg[x] \in {n} BY <1>1
    <3> QED BY <3>1, AboveIs
  <2> QED BY <1>1, <2>1, AboveIs
<1>2. CASE tg[n] # None
  <2>1. tg[n] \in Node BY <1>2
  <2> DEFINE t == tg[n]
             X == {n} \cup Above(tg, t)
  <2>2. t \in Above(tg, t) /\ \A m \in Above(tg, t) : tg[m] # None => tg[m] \in Above(tg, t) BY <2>1, AboveIs
  <2>3. n \in X /\ \A x \in X : x \in Node /\ tg[x] # None => tg[x] \in X BY <2>2
  <2>4. Above(tg, n) \subseteq X
    <3> HIDE DEF X
    <3> QED BY <2>3, AboveIs
  <2>5. n \in Above(tg, n) /\ t \in Above(tg, n)
        /\ \A m \in Above(tg, n) : tg[m] # None => tg[m] \in Above(tg, n)
    BY <1>2, AboveIs
  <2>6. Above(tg, t) \subseteq Above(tg, n)
    <3> DEFINE Y == Above(tg, n)
    <3>1. t \in Y /\ \A x \in Y : x \in Node /\ tg[x] # None => tg[x] \in Y BY <2>5
    <3> HIDE DEF Y, t
    <3>2. t \in Node BY <2>1 DEF t
    <3>3. Above(tg, t) \subseteq Y BY <3>1, <3>2, AboveIs
    <3> QED BY <3>3 DEF Y
  <2> QED BY <1>2, <2>1, <2>4, <2>5, <2>6
<1> QED BY <1>1, <1>2

\* Above a node above n is what is above n.
LEMMA AboveNested ==
    ASSUME NEW tg \in [Node -> Node \cup {None}], NEW n \in Node, NEW m \in Above(tg, n)
    PROVE  Above(tg, m) \subseteq Above(tg, n)
<1>1. m \in Node BY AboveIs
<1>2. \A x \in Above(tg, n) : x \in Node /\ tg[x] # None => tg[x] \in Above(tg, n) BY AboveIs
<1> DEFINE Y == Above(tg, n)
<1>3. m \in Y /\ \A x \in Y : x \in Node /\ tg[x] # None => tg[x] \in Y BY <1>2
<1> HIDE DEF Y
<1>4. Above(tg, m) \subseteq Y BY <1>1, <1>3, AboveIs
<1> QED BY <1>4 DEF Y

\* The path from n ends in the root of its class.
LEMMA TopIs ==
    ASSUME NEW tg, NEW rt, Forest(tg, rt), NEW n \in Node
    PROVE  rt[n] \in Above(tg, n) /\ tg[rt[n]] = None
<1>1. tg \in [Node -> Node \cup {None}] /\ rt \in [Node -> Node] /\ Grounded(tg) BY DEF Forest
<1> DEFINE Z == {x \in Node : rt[x] \in Above(tg, x) /\ tg[rt[x]] = None}
<1>2. ASSUME NEW x \in Node, tg[x] = None \/ tg[x] \in Z PROVE x \in Z
  <2>1. CASE tg[x] = None
    <3>1. rt[x] = x BY <2>1 DEF Forest
    <3>2. x \in Above(tg, x) BY <1>1, AboveIs
    <3> QED BY <2>1, <3>1, <3>2
  <2>2. CASE tg[x] # None
    <3>1. tg[x] \in Z BY <1>2, <2>2
    <3>2. rt[tg[x]] = rt[x] BY <2>2 DEF Forest
    <3>3. Above(tg, x) = {x} \cup Above(tg, tg[x]) BY <1>1, <2>2, AboveUnfolds
    <3> QED BY <3>1, <3>2, <3>3
  <2> QED BY <2>1, <2>2
<1>3. Node \subseteq Z
  <2>1. Z \in SUBSET Node OBVIOUS
  <2> HIDE DEF Z
  <2> QED BY <1>1, <1>2, <2>1 DEF Grounded
<1> QED BY <1>3

LEMMA SameRootAbove ==
    ASSUME NEW tg, NEW rt, Forest(tg, rt), NEW n \in Node
    PROVE  \A m \in Above(tg, n) : rt[m] = rt[n]
<1>1. tg \in [Node -> Node \cup {None}] /\ \A m \in Node : tg[m] # None => rt[tg[m]] = rt[m] BY DEF Forest
<1> DEFINE X == {m \in Node : rt[m] = rt[n]}
<1>2. n \in X /\ \A x \in X : x \in Node /\ tg[x] # None => tg[x] \in X BY <1>1
<1>3. Above(tg, n) \subseteq X
  <2> HIDE DEF X
  <2> QED BY <1>1, <1>2, AboveIs
<1> QED BY <1>3

\* No node is above itself.
LEMMA Acyclic ==
    ASSUME NEW tg \in [Node -> Node \cup {None}], Grounded(tg), NEW n \in Node, tg[n] # None
    PROVE  n \notin Above(tg, tg[n])
<1> DEFINE Z == {x \in Node : tg[x] # None => x \notin Above(tg, tg[x])}
<1>1. ASSUME NEW x \in Node, tg[x] = None \/ tg[x] \in Z PROVE x \in Z
  <2> SUFFICES ASSUME tg[x] # None, x \in Above(tg, tg[x]) PROVE FALSE OBVIOUS
  <2> DEFINE y == tg[x]
  <2>1. y \in Node /\ y \in Z /\ (tg[y] # None => y \notin Above(tg, tg[y])) BY <1>1
  <2>2. y \in Above(tg, x) BY AboveUnfolds, <2>1, AboveIs
  <2>3. x \in Above(tg, y) OBVIOUS
  <2>4. tg[x] # None /\ tg[x] = y OBVIOUS
  <2> HIDE DEF y, Z
  <2>5. CASE tg[y] = None
    <3>1. x = y BY <2>1, <2>3, <2>5, AboveUnfolds
    <3> QED BY <2>4, <2>5, <3>1
  <2>6. CASE tg[y] # None
    <3>1. tg[y] \in Node /\ Above(tg, y) = {y} \cup Above(tg, tg[y]) BY <2>1, <2>6, AboveUnfolds
    <3>2. CASE x = y
      <4>1. tg[y] = y BY <2>4, <3>2
      <4>2. y \in Above(tg, y) BY <2>1, AboveIs
      <4> QED BY <2>1, <2>6, <4>1, <4>2
    <3>3. CASE x # y
      <4>1. x \in Above(tg, tg[y]) BY <2>3, <3>1, <3>3
      <4> DEFINE w == tg[y]
      <4>2. w \in Node /\ x \in Above(tg, w) BY <3>1, <4>1
      <4> HIDE DEF w
      <4>3. tg[x] \in Above(tg, w) BY <2>4, <4>2, AboveIs
      <4> QED BY <2>1, <2>4, <2>6, <4>3 DEF w
    <3> QED BY <3>2, <3>3
  <2> QED BY <2>5, <2>6
<1>2. Z \in SUBSET Node OBVIOUS
<1>3. Node \subseteq Z
  <2> HIDE DEF Z
  <2> QED BY <1>1, <1>2 DEF Grounded
<1> QED BY <1>3

\* Of two nodes above n one is above the other.
LEMMA Linear ==
    ASSUME NEW tg \in [Node -> Node \cup {None}], Grounded(tg), NEW n \in Node
    PROVE  \A c, d \in Above(tg, n) : d \in Above(tg, c) \/ c \in Above(tg, d)
<1> DEFINE Z == {x \in Node : \A c, d \in Above(tg, x) : d \in Above(tg, c) \/ c \in Above(tg, d)}
<1>1. ASSUME NEW x \in Node, tg[x] = None \/ tg[x] \in Z PROVE x \in Z
  <2>0. x \in Above(tg, x) BY AboveIs
  <2>1. CASE tg[x] = None
    <3>1. Above(tg, x) = {x} BY <2>1, AboveUnfolds
    <3> QED BY <2>0, <3>1
  <2>2. CASE tg[x] # None
    <3>1. tg[x] \in Z /\ Above(tg, x) = {x} \cup Above(tg, tg[x]) BY <1>1, <2>2, AboveUnfolds
    <3>2. ASSUME NEW c \in Above(tg, x), NEW d \in Above(tg, x)
          PROVE  d \in Above(tg, c) \/ c \in Above(tg, d)
      <4>1. CASE c = x BY <4>1
      <4>2. CASE d = x BY <4>2
      <4>3. CASE c # x /\ d # x
        <5>1. c \in Above(tg, tg[x]) /\ d \in Above(tg, tg[x]) BY <3>1, <4>3
        <5> QED BY <3>1, <5>1
      <4> QED BY <4>1, <4>2, <4>3
    <3> QED BY <3>2
  <2> QED BY <2>1, <2>2
<1>2. Z \in SUBSET Node OBVIOUS
<1>3. Node \subseteq Z
  <2> HIDE DEF Z
  <2> QED BY <1>1, <1>2 DEF Grounded
<1> QED BY <1>3

\* On a path a node is below one node only.
LEMMA OneBelow ==
    ASSUME NEW tg \in [Node -> Node \cup {None}], Grounded(tg), NEW n \in Node,
           NEW c \in Above(tg, n), NEW d \in Above(tg, n), tg[c] = tg[d], tg[c] # None
    PROVE  c = d
<1> SUFFICES ASSUME c # d PROVE FALSE OBVIOUS
<1>1. c \in Node /\ d \in Node BY AboveIs
<1>2. d \in Above(tg, c) \/ c \in Above(tg, d) BY Linear
<1>3. Above(tg, c) = {c} \cup Above(tg, tg[c]) /\ Above(tg, d) = {d} \cup Above(tg, tg[d]) BY <1>1, AboveUnfolds
<1>4. d \in Above(tg, tg[d]) \/ c \in Above(tg, tg[c]) BY <1>2, <1>3
<1> QED BY <1>1, <1>4, Acyclic

LEMMA HasBelow ==
    ASSUME NEW tg \in [Node -> Node \cup {None}], NEW n \in Node
    PROVE  \A m \in Above(tg, n) \ {n} : \E c \in Above(tg, n) : tg[c] = m
<1> DEFINE X == {m \in Above(tg, n) : m = n \/ \E c \in Above(tg, n) : tg[c] = m}
<1>1. n \in Above(tg, n) /\ \A m \in Above(tg, n) : tg[m] # None => tg[m] \in Above(tg, n) BY AboveIs
<1>2. n \in X /\ \A x \in X : x \in Node /\ tg[x] # None => tg[x] \in X BY <1>1
<1>3. Above(tg, n) \subseteq X
  <2> HIDE DEF X
  <2> QED BY <1>2, AboveIs
<1> QED BY <1>3

\* invert_trans: the path from n runs the other way.
LEMMA InvertedIs ==
    ASSUME NEW tg \in [Node -> Node \cup {None}], Grounded(tg), NEW n \in Node
    PROVE  LET up == Above(tg, n)
               iv == InvertedTarget(tg, n)
           IN  /\ iv \in [Node -> Node \cup {None}] /\ iv[n] = None
               /\ \A m \in up \ {n} : iv[m] \in up /\ tg[iv[m]] = m
               /\ \A m \in Node \ up : iv[m] = tg[m]
<1> DEFINE up == Above(tg, n)
           turned == {<<tg[c], c>> : c \in {m \in up : tg[m] # None}}
           iv == InvertedTarget(tg, n)
<1>1. up \subseteq Node /\ n \in up BY AboveIs
<1>2. ASSUME NEW m \in up \ {n} PROVE (CHOOSE e \in turned : e[1] = m)[2] \in up
                                     /\ tg[(CHOOSE e \in turned : e[1] = m)[2]] = m
  <2>1. PICK c \in up : tg[c] = m BY HasBelow
  <2>2. m # None BY <1>1, NodesCounted
  <2>3. <<tg[c], c>> \in turned BY <2>1, <2>2
  <2>4. <<tg[c], c>>[1] = m BY <2>1
  <2>5. (CHOOSE e \in turned : e[1] = m) \in turned /\ (CHOOSE e \in turned : e[1] = m)[1] = m
    <3> HIDE DEF turned
    <3> QED BY <2>3, <2>4
  <2> DEFINE e == CHOOSE e \in turned : e[1] = m
  <2>6. e \in turned /\ e[1] = m BY <2>5
  <2> HIDE DEF e
  <2>7. PICK d \in up : tg[d] # None /\ e = <<tg[d], d>> BY <2>6
  <2>8. e[2] = d /\ tg[d] = m BY <2>6, <2>7
  <2>9. e[2] \in up /\ tg[e[2]] = m BY <2>8
  <2> QED BY <2>9 DEF e
<1>3. iv = [m \in Node |-> CASE m = n -> None
                             [] m \in up \ {n} -> (CHOOSE e \in turned : e[1] = m)[2]
                             [] OTHER -> tg[m]]
  BY DEF InvertedTarget
<1> DEFINE below(m) == (CHOOSE e \in turned : e[1] = m)[2]
<1>4. \A m \in up \ {n} : below(m) \in up /\ tg[below(m)] = m BY <1>2
<1>5. iv = [m \in Node |-> CASE m = n -> None [] m \in up \ {n} -> below(m) [] OTHER -> tg[m]] BY <1>3
<1> HIDE DEF below, iv, up, turned
<1>6. iv[n] = None BY <1>5
<1>7. \A m \in up \ {n} : iv[m] = below(m)
  <2>1. \A m \in up \ {n} : m \in Node /\ m # n BY <1>1
  <2> QED BY <1>5, <2>1
<1>8. \A m \in Node \ up : iv[m] = tg[m]
  <2>1. \A m \in Node \ up : m # n BY <1>1
  <2> QED BY <1>5, <2>1
<1>9. \A m \in Node : iv[m] \in Node \cup {None}
  <2>1. \A m \in Node : m = n \/ m \in up \ {n} \/ m \in Node \ up OBVIOUS
  <2> QED BY <1>1, <1>4, <1>6, <1>7, <1>8, <2>1
<1>10. iv = [m \in Node |-> iv[m]] BY <1>5
<1>11. iv \in [Node -> Node \cup {None}] BY <1>9, <1>10
<1> QED BY <1>4, <1>6, <1>7, <1>8, <1>11 DEF up, iv

\* What turning the path above n does, edge by edge.
Turned(tg, n, iv) ==
    /\ iv \in [Node -> Node \cup {None}] /\ iv[n] = None
    /\ \A m \in Above(tg, n) : tg[m] # None => iv[tg[m]] = m
    /\ \A m \in Above(tg, n) \ {n} : iv[m] \in Above(tg, n) /\ tg[iv[m]] = m
    /\ \A m \in Node \ Above(tg, n) : iv[m] = tg[m]

LEMMA TurnedIs ==
    ASSUME NEW tg \in [Node -> Node \cup {None}], Grounded(tg), NEW n \in Node
    PROVE  Turned(tg, n, InvertedTarget(tg, n))
<1> DEFINE up == Above(tg, n)
           iv == InvertedTarget(tg, n)
<1>1. /\ iv \in [Node -> Node \cup {None}] /\ iv[n] = None
      /\ \A m \in up \ {n} : iv[m] \in up /\ tg[iv[m]] = m
      /\ \A m \in Node \ up : iv[m] = tg[m]
  BY InvertedIs
<1>2. up \subseteq Node /\ n \in up /\ \A m \in up : tg[m] # None => tg[m] \in up BY AboveIs
<1>3. ASSUME NEW m \in up, tg[m] = n PROVE FALSE
  <2>1. n # None BY NodesCounted
  <2>2. CASE m = n
    <3>1. n \notin Above(tg, n) BY <1>3, <2>1, <2>2, Acyclic
    <3> QED BY <1>2, <3>1
  <2>3. CASE m # n
    <3>1. tg[n] # None
      <4>1. tg[n] = None => up = {n} BY AboveUnfolds
      <4> QED BY <2>3, <4>1
    <3>2. tg[n] \in Node /\ m \in Above(tg, tg[n]) BY <2>3, <3>1, AboveUnfolds
    <3> DEFINE t == tg[n]
    <3>3. t \in Node /\ m \in Above(tg, t) BY <3>2
    <3>4. n \notin Above(tg, t) BY <3>1, Acyclic
    <3> HIDE DEF t
    <3>5. tg[m] \in Above(tg, t) BY <1>3, <2>1, <3>3, AboveIs
    <3> QED BY <1>3, <3>4, <3>5
  <2> QED BY <2>2, <2>3
<1>4. ASSUME NEW m \in up, tg[m] # None PROVE iv[tg[m]] = m
  <2>1. tg[m] \in up \ {n} BY <1>2, <1>3, <1>4
  <2>2. iv[tg[m]] \in up /\ tg[iv[tg[m]]] = tg[m] BY <1>1, <2>1
  <2> DEFINE c == iv[tg[m]]
  <2>3. c \in up /\ tg[c] = tg[m] BY <2>2
  <2> HIDE DEF c, iv
  <2>4. c = m BY <1>4, <2>3, OneBelow
  <2> QED BY <2>4 DEF c
<1> HIDE DEF iv
<1>5. Turned(tg, n, iv) BY <1>1, <1>4 DEF Turned
<1> QED BY <1>5 DEF iv

LEMMA InvertGrounded ==
    ASSUME NEW tg \in [Node -> Node \cup {None}], Grounded(tg), NEW n \in Node,
           NEW iv, Turned(tg, n, iv)
    PROVE  Grounded(iv)
<1> DEFINE up == Above(tg, n)
<1> SUFFICES ASSUME NEW Z \in SUBSET Node, \A x \in Node : iv[x] = None \/ iv[x] \in Z => x \in Z
             PROVE Node \subseteq Z
  BY DEF Grounded
<1>1. n \in Z BY DEF Turned
<1>2. \A m \in up : tg[m] # None => tg[m] \in up BY AboveIs
<1>3. up \subseteq Node /\ n \in up BY AboveIs
<1> DEFINE X == up \cap Z
<1>4. n \in X BY <1>1, <1>3
<1>5. ASSUME NEW x \in X, x \in Node, tg[x] # None PROVE tg[x] \in X
  <2>1. iv[tg[x]] = x BY <1>5 DEF Turned
  <2>2. tg[x] \in up /\ tg[x] \in Node BY <1>2, <1>3, <1>5
  <2>3. tg[x] \in Z BY <2>1, <2>2
  <2> QED BY <2>2, <2>3
<1>6. up \subseteq X
  <2> HIDE DEF X
  <2> QED BY <1>4, <1>5, AboveIs
<1>7. ASSUME NEW x \in Node, tg[x] = None \/ tg[x] \in Z PROVE x \in Z
  <2>1. CASE x \in up BY <1>6, <2>1
  <2>2. CASE x \notin up
    <3>1. iv[x] = tg[x] BY <2>2 DEF Turned
    <3> QED BY <1>7, <3>1
  <2> QED BY <2>1, <2>2
<1> QED BY <1>7 DEF Grounded

\* Turning the path back from the old root restores every edge.
LEMMA InvertBack ==
    ASSUME NEW tg, NEW rt, Forest(tg, rt), NEW n \in Node
    PROVE  InvertedTarget(InvertedTarget(tg, n), rt[n]) = tg
<1> DEFINE up == Above(tg, n)
           iv == InvertedTarget(tg, n)
           r == rt[n]
           Y == Above(iv, r)
           bk == InvertedTarget(iv, r)
<1>1. tg \in [Node -> Node \cup {None}] /\ rt \in [Node -> Node] /\ Grounded(tg) BY DEF Forest
<1>2. Turned(tg, n, iv) BY <1>1, TurnedIs
<1> HIDE DEF iv
<1>3. Grounded(iv) /\ iv \in [Node -> Node \cup {None}] /\ iv[n] = None BY <1>1, <1>2, InvertGrounded DEF Turned
<1>4. up \subseteq Node /\ n \in up /\ \A m \in up : tg[m] # None => tg[m] \in up BY <1>1, AboveIs
<1>5. r \in Node /\ r \in up /\ tg[r] = None BY <1>1, TopIs
<1>6. \A m \in up : rt[m] = r BY SameRootAbove
<1> HIDE DEF r, bk
<1>7. Turned(iv, r, bk) BY <1>3, <1>5, TurnedIs DEF bk
<1>8. Y \subseteq up
  <2>1. ASSUME NEW x \in up, iv[x] # None PROVE iv[x] \in up
    <3>1. x # n BY <1>3, <2>1
    <3> QED BY <1>2, <3>1 DEF Turned
  <2> DEFINE X == up
  <2>2. r \in X /\ \A x \in X : x \in Node /\ iv[x] # None => iv[x] \in X BY <1>5, <2>1
  <2> HIDE DEF X
  <2>3. Y \subseteq X BY <1>3, <1>5, <2>2, AboveIs
  <2> QED BY <2>3 DEF X
<1>9. up \subseteq Y
  <2> DEFINE Z == {x \in Node : x \in up => x \in Y}
  <2>1. ASSUME NEW x \in Node, tg[x] = None \/ tg[x] \in Z, x \in up PROVE x \in Y
    <3>1. CASE tg[x] = None
      <4>1. x = r BY <1>6, <2>1, <3>1 DEF Forest
      <4> QED BY <1>3, <1>5, <4>1, AboveIs
    <3>2. CASE tg[x] # None
      <4>1. tg[x] \in up BY <1>4, <2>1, <3>2
      <4>2. tg[x] \in Y BY <2>1, <3>2, <4>1
      <4>3. iv[tg[x]] = x BY <1>2, <2>1, <3>2 DEF Turned
      <4>4. x # None BY NodesCounted
      <4>5. iv[tg[x]] \in Y BY <1>3, <1>5, <4>2, <4>3, <4>4, AboveIs
      <4> QED BY <4>3, <4>5
    <3> QED BY <3>1, <3>2
  <2>2. Z \in SUBSET Node /\ \A x \in Node : tg[x] = None \/ tg[x] \in Z => x \in Z BY <2>1
  <2>3. Node \subseteq Z
    <3> HIDE DEF Z
    <3> QED BY <1>1, <2>2 DEF Grounded
  <2> QED BY <1>4, <2>3
<1>10. Y = up BY <1>8, <1>9
<1>11. ASSUME NEW m \in Node PROVE bk[m] = tg[m]
  <2>1. CASE m = r BY <1>5, <1>7, <2>1 DEF Turned
  <2>2. CASE m \in up \ {r}
    <3>1. bk[m] \in up /\ iv[bk[m]] = m BY <1>7, <1>10, <2>2 DEF Turned
    <3>2. m # None BY NodesCounted
    <3>3. bk[m] # n BY <1>3, <3>1, <3>2
    <3>4. tg[iv[bk[m]]] = bk[m] BY <1>2, <3>1, <3>3 DEF Turned
    <3> QED BY <3>1, <3>4
  <2>3. CASE m \notin up
    <3>1. bk[m] = iv[m] BY <1>7, <1>10, <2>3 DEF Turned
    <3>2. iv[m] = tg[m] BY <1>2, <2>3 DEF Turned
    <3> QED BY <3>1, <3>2
  <2> QED BY <2>1, <2>2, <2>3
<1>12. bk = tg
  <2>1. bk = [m \in Node |-> bk[m]] /\ tg = [m \in Node |-> tg[m]] BY <1>1, <1>7 DEF Turned
  <2> QED BY <1>11, <2>1
<1> QED BY <1>12 DEF bk, r, iv

\* A tree turned to have a on top hangs under b, a node of another tree.
Hung(tg, a, b) == [InvertedTarget(tg, a) EXCEPT ![a] = b]
Relabelled(rt, r1, r2) == [n \in Node |-> IF rt[n] = r1 THEN r2 ELSE rt[n]]

LEMMA HungIs ==
    ASSUME NEW tg \in [Node -> Node \cup {None}], Grounded(tg), NEW a \in Node, NEW b \in Node
    PROVE  LET iv == InvertedTarget(tg, a)
               hg == Hung(tg, a, b)
           IN  /\ hg \in [Node -> Node \cup {None}] /\ hg[a] = b
               /\ \A m \in Node \ {a} : hg[m] = iv[m]
               /\ [hg EXCEPT ![a] = None] = iv
<1> DEFINE iv == InvertedTarget(tg, a)
           hg == [iv EXCEPT ![a] = b]
           off == [hg EXCEPT ![a] = None]
<1>1. Turned(tg, a, iv) BY TurnedIs
<1> HIDE DEF iv
<1>2. iv \in [Node -> Node \cup {None}] /\ iv[a] = None BY <1>1 DEF Turned
<1>3. hg \in [Node -> Node \cup {None}] /\ hg[a] = b /\ \A m \in Node \ {a} : hg[m] = iv[m] BY <1>2
<1>4. off = iv
  <2>1. off \in [Node -> Node \cup {None}] /\ \A m \in Node : off[m] = iv[m] BY <1>2, <1>3
  <2>2. off = [m \in Node |-> off[m]] /\ iv = [m \in Node |-> iv[m]] BY <1>2, <2>1
  <2> HIDE DEF off
  <2> QED BY <2>1, <2>2
<1> QED BY <1>3, <1>4 DEF Hung, iv

LEMMA ForestJoined ==
    ASSUME NEW tg, NEW rt, Forest(tg, rt), NEW a \in Node, NEW b \in Node, rt[a] # rt[b], rt[rt[b]] = rt[b]
    PROVE  Forest(Hung(tg, a, b), Relabelled(rt, rt[a], rt[b]))
<1> DEFINE up == Above(tg, a)
           iv == InvertedTarget(tg, a)
           hg == Hung(tg, a, b)
           rl == Relabelled(rt, rt[a], rt[b])
<1>1. tg \in [Node -> Node \cup {None}] /\ rt \in [Node -> Node] /\ Grounded(tg) BY DEF Forest
<1>2. Turned(tg, a, iv) BY <1>1, TurnedIs
<1>3. hg \in [Node -> Node \cup {None}] /\ hg[a] = b /\ \A m \in Node \ {a} : hg[m] = iv[m] BY <1>1, HungIs
<1> HIDE DEF iv, hg
<1>4. Grounded(iv) /\ iv \in [Node -> Node \cup {None}] /\ iv[a] = None BY <1>1, <1>2, InvertGrounded DEF Turned
<1>5. up \subseteq Node /\ a \in up /\ \A m \in up : tg[m] # None => tg[m] \in up BY <1>1, AboveIs
<1>6. \A m \in up : rt[m] = rt[a] BY SameRootAbove
<1>7. rl \in [Node -> Node] /\ \A m \in Node : rl[m] = IF rt[m] = rt[a] THEN rt[b] ELSE rt[m] BY <1>1 DEF Relabelled
<1> HIDE DEF rl
<1>8. Grounded(hg)
  <2> SUFFICES ASSUME NEW Z \in SUBSET Node, \A x \in Node : hg[x] = None \/ hg[x] \in Z => x \in Z
               PROVE Node \subseteq Z
    BY DEF Grounded
  <2> DEFINE W == {x \in Node : rt[x] = rt[b] => x \in Z}
  <2>1. ASSUME NEW x \in Node, tg[x] = None \/ tg[x] \in W, rt[x] = rt[b] PROVE x \in Z
    <3>1. x \notin up /\ x # a BY <1>6, <2>1
    <3>2. hg[x] = tg[x] BY <1>2, <1>3, <3>1 DEF Turned
    <3>3. tg[x] # None => rt[tg[x]] = rt[b] BY <2>1 DEF Forest
    <3> QED BY <2>1, <3>2, <3>3
  <2>2. W \in SUBSET Node /\ \A x \in Node : tg[x] = None \/ tg[x] \in W => x \in W BY <2>1
  <2>3. Node \subseteq W
    <3> HIDE DEF W
    <3> QED BY <1>1, <2>2 DEF Grounded
  <2>4. b \in Z BY <2>3
  <2>5. a \in Z BY <1>3, <2>4
  <2>6. \A x \in Node : iv[x] = None \/ iv[x] \in Z => x \in Z BY <1>3, <2>5
  <2> QED BY <1>4, <2>6 DEF Grounded
<1>9. ASSUME NEW m \in Node, iv[m] # None PROVE rt[iv[m]] = rt[m]
  <2>1. m # a BY <1>4, <1>9
  <2>2. CASE m \in up
    <3>1. iv[m] \in up BY <1>2, <2>1, <2>2 DEF Turned
    <3> QED BY <1>6, <2>2, <3>1
  <2>3. CASE m \notin up
    <3>1. iv[m] = tg[m] BY <1>2, <2>3 DEF Turned
    <3> QED BY <1>9, <3>1 DEF Forest
  <2> QED BY <2>2, <2>3
<1>10. ASSUME NEW m \in Node, hg[m] # None PROVE rl[hg[m]] = rl[m]
  <2>1. CASE m = a BY <1>3, <1>7, <2>1
  <2>2. CASE m # a
    <3>1. hg[m] = iv[m] /\ hg[m] \in Node BY <1>3, <1>10, <2>2
    <3>2. rt[hg[m]] = rt[m] BY <1>9, <1>10, <3>1
    <3> QED BY <1>7, <3>1, <3>2
  <2> QED BY <2>1, <2>2
<1>11. ASSUME NEW m \in Node, hg[m] = None PROVE rl[m] = m
  <2>1. m # a BY <1>3, <1>11, NodesCounted
  <2>2. iv[m] = None BY <1>3, <1>11, <2>1
  <2>3. CASE m \in up
    <3>1. iv[m] \in up BY <1>2, <2>1, <2>3 DEF Turned
    <3> QED BY <1>5, <2>2, <3>1, NodesCounted
  <2>4. CASE m \notin up
    <3>1. tg[m] = None BY <1>2, <2>2, <2>4 DEF Turned
    <3>2. rt[m] = m BY <3>1 DEF Forest
    <3>3. rt[m] # rt[a]
      <4>1. rt[a] \in up BY TopIs
      <4> QED BY <2>4, <3>2, <4>1
    <3> QED BY <1>7, <3>2, <3>3
  <2> QED BY <2>3, <2>4
<1>12. Forest(hg, rl) BY <1>3, <1>7, <1>8, <1>10, <1>11 DEF Forest
<1> QED BY <1>12 DEF hg, rl

-----------------------------------------------------------------------------
(* Classes and their member lists *)

\* A set that holds a node and with each node the next one holds the class.
Circular(rt, nx) ==
    \A X \in SUBSET Node : (\A x \in X : nx[x] \in X) =>
       \A n \in X : \A m \in Node : rt[m] = rt[n] => m \in X

Classes(rt, nx) ==
    /\ rt \in [Node -> Node] /\ nx \in [Node -> Node]
    /\ \A n \in Node : rt[rt[n]] = rt[n] /\ rt[nx[n]] = rt[n]
    /\ Circular(rt, nx)

LEMMA ClassIs ==
    ASSUME NEW rt, NEW nx, Classes(rt, nx), NEW n \in Node
    PROVE  Members(nx, n) = {m \in Node : rt[m] = rt[n]}
<1>1. rt \in [Node -> Node] /\ nx \in [Node -> Node] BY DEF Classes
<1> DEFINE C == {m \in Node : rt[m] = rt[n]}
           M == Members(nx, n)
<1>2. n \in C /\ \A x \in C : nx[x] \in C BY <1>1 DEF Classes
<1>3. M \subseteq C
  <2> HIDE DEF C
  <2> QED BY <1>1, <1>2, MembersAre
<1>4. M \in SUBSET Node /\ n \in M /\ \A x \in M : nx[x] \in M BY <1>1, MembersAre
<1>5. C \subseteq M
  <2> HIDE DEF M
  <2> QED BY <1>4 DEF Classes, Circular
<1> QED BY <1>3, <1>5

\* The lists of two classes become one list, or one list becomes two.
Spliced(nx, r1, r2) == [nx EXCEPT ![r1] = nx[r2], ![r2] = nx[r1]]

LEMMA SplicedIs ==
    ASSUME NEW nx \in [Node -> Node], NEW r1 \in Node, NEW r2 \in Node, r1 # r2
    PROVE  LET sp == Spliced(nx, r1, r2) IN
           /\ sp \in [Node -> Node] /\ sp[r1] = nx[r2] /\ sp[r2] = nx[r1]
           /\ \A n \in Node \ {r1, r2} : sp[n] = nx[n]
           /\ Spliced(sp, r1, r2) = nx
<1> DEFINE sp == [nx EXCEPT ![r1] = nx[r2], ![r2] = nx[r1]]
           tw == [sp EXCEPT ![r1] = sp[r2], ![r2] = sp[r1]]
<1>1. sp \in [Node -> Node] /\ sp[r1] = nx[r2] /\ sp[r2] = nx[r1] /\ \A n \in Node \ {r1, r2} : sp[n] = nx[n] OBVIOUS
<1>2. tw \in [Node -> Node] /\ \A n \in Node : tw[n] = nx[n]
  <2> HIDE DEF sp
  <2>1. tw \in [Node -> Node] /\ tw[r1] = sp[r2] /\ tw[r2] = sp[r1] /\ \A n \in Node \ {r1, r2} : tw[n] = sp[n] BY <1>1
  <2> QED BY <1>1, <2>1
<1>3. tw = nx
  <2> HIDE DEF tw
  <2>1. tw = [n \in Node |-> tw[n]] /\ nx = [n \in Node |-> nx[n]] BY <1>2
  <2> QED BY <1>2, <2>1
<1> QED BY <1>1, <1>3 DEF Spliced

LEMMA ClassesJoined ==
    ASSUME NEW rt, NEW nx, Classes(rt, nx), NEW r1 \in Node, NEW r2 \in Node, r1 # r2, rt[r1] = r1, rt[r2] = r2
    PROVE  Classes(Relabelled(rt, r1, r2), Spliced(nx, r1, r2))
<1> DEFINE rl == Relabelled(rt, r1, r2)
           sp == Spliced(nx, r1, r2)
<1>1. rt \in [Node -> Node] /\ nx \in [Node -> Node] /\ \A n \in Node : rt[rt[n]] = rt[n] /\ rt[nx[n]] = rt[n] BY DEF Classes
<1>2. rl \in [Node -> Node] /\ \A n \in Node : rl[n] = IF rt[n] = r1 THEN r2 ELSE rt[n] BY <1>1 DEF Relabelled
<1>3. sp \in [Node -> Node] /\ sp[r1] = nx[r2] /\ sp[r2] = nx[r1] /\ \A n \in Node \ {r1, r2} : sp[n] = nx[n] BY <1>1, SplicedIs
<1> HIDE DEF rl, sp
<1>4. ASSUME NEW n \in Node PROVE rl[rl[n]] = rl[n]
  <2>1. rl[n] \in Node BY <1>2
  <2>2. CASE rt[n] = r1 BY <1>2, <2>2
  <2>3. CASE rt[n] # r1 BY <1>1, <1>2, <2>3
  <2> QED BY <2>2, <2>3
<1>5. ASSUME NEW n \in Node PROVE rl[sp[n]] = rl[n]
  <2>1. sp[n] \in Node /\ nx[n] \in Node BY <1>1, <1>3
  <2>2. CASE n = r1 BY <1>1, <1>2, <1>3, <2>2
  <2>3. CASE n = r2 BY <1>1, <1>2, <1>3, <2>3
  <2>4. CASE n \notin {r1, r2} BY <1>1, <1>2, <1>3, <2>1, <2>4
  <2> QED BY <2>2, <2>3, <2>4
<1>6. ASSUME NEW X \in SUBSET Node, \A x \in X : nx[x] \in X, NEW n \in X, NEW m \in Node, rt[m] = rt[n] PROVE m \in X
  BY <1>6 DEF Classes, Circular
<1>7. ASSUME NEW X \in SUBSET Node, \A x \in X : sp[x] \in X, NEW n \in X, NEW m \in Node, rl[m] = rl[n] PROVE m \in X
  <2> DEFINE Part(i) == {x \in X : rt[x] = i}
  <2>1. ASSUME NEW i \in Node, NEW x \in X, rt[x] = i, \A y \in Part(i) : nx[y] \in X PROVE \A y \in Node : rt[y] = i => y \in X
    <3>1. Part(i) \in SUBSET Node /\ x \in Part(i) /\ \A y \in Part(i) : nx[y] \in Part(i) BY <1>1, <2>1
    <3> DEFINE P == Part(i)
    <3>2. P \in SUBSET Node /\ x \in P /\ (\A y \in P : nx[y] \in P) /\ P \subseteq X BY <3>1
    <3> HIDE DEF P, Part
    <3> QED BY <1>6, <2>1, <3>2
  <2>2. ASSUME NEW i \in {r1, r2}, NEW x \in X, rt[x] = i PROVE i \in X
    <3> SUFFICES ASSUME i \notin X PROVE FALSE OBVIOUS
    <3>1. \A y \in Part(i) : nx[y] \in X
      <4> SUFFICES ASSUME NEW y \in X, rt[y] = i PROVE nx[y] \in X OBVIOUS
      <4>1. y \in Node \ {r1, r2} OBVIOUS
      <4> QED BY <1>3, <1>7, <4>1
    <3>2. i \in Node /\ rt[i] = i OBVIOUS
    <3> HIDE DEF Part
    <3> QED BY <2>1, <2>2, <3>1, <3>2
  <2>3. CASE rt[n] \in {r1, r2}
    <3>1. r1 \in X \/ r2 \in X BY <2>2, <2>3
    <3>2. r1 \in X => r2 \in X
      <4>1. r1 \in X => nx[r2] \in X /\ rt[nx[r2]] = r2 BY <1>1, <1>3, <1>7
      <4> QED BY <2>2, <4>1
    <3>3. r2 \in X => r1 \in X
      <4>1. r2 \in X => nx[r1] \in X /\ rt[nx[r1]] = r1 BY <1>1, <1>3, <1>7
      <4> QED BY <2>2, <4>1
    <3>4. r1 \in X /\ r2 \in X BY <3>1, <3>2, <3>3
    <3>5. \A y \in X : nx[y] \in X
      <4> SUFFICES ASSUME NEW y \in X PROVE nx[y] \in X OBVIOUS
      <4>1. CASE y = r1 BY <1>3, <1>7, <3>4, <4>1
      <4>2. CASE y = r2 BY <1>3, <1>7, <3>4, <4>2
      <4>3. CASE y \notin {r1, r2} BY <1>3, <1>7, <4>3
      <4> QED BY <4>1, <4>2, <4>3
    <3>6. rt[m] \in {r1, r2} BY <1>2, <1>7, <2>3
    <3> HIDE DEF Part
    <3> QED BY <1>6, <3>4, <3>5, <3>6
  <2>4. CASE rt[n] \notin {r1, r2}
    <3>1. rt[m] = rt[n] BY <1>2, <1>7, <2>4
    <3> DEFINE i == rt[n]
    <3>2. \A y \in Part(i) : nx[y] \in X
      <4> SUFFICES ASSUME NEW y \in X, rt[y] = i PROVE nx[y] \in X OBVIOUS
      <4>1. y \in Node \ {r1, r2} BY <2>4
      <4> QED BY <1>3, <1>7, <4>1
    <3>3. i \in Node /\ rt[n] = i /\ rt[m] = i BY <1>1, <3>1
    <3> HIDE DEF Part, i
    <3> QED BY <2>1, <3>2, <3>3
  <2> QED BY <2>3, <2>4
<1>8. Circular(rl, sp) BY <1>7 DEF Circular
<1>9. Classes(rl, sp) BY <1>2, <1>3, <1>4, <1>5, <1>8 DEF Classes
<1> QED BY <1>9 DEF rl, sp

-----------------------------------------------------------------------------
(* Joining two classes and undoing it, part by part *)

\* The lists of the first class come after those of the second.
Longer(f, r1, r2) == [f EXCEPT ![r2] = @ \o f[r1]]
Shortened(f, r, n) == [f EXCEPT ![r] = SubSeq(@, 1, n)]
Grown(sz, r1, r2) == [sz EXCEPT ![r2] = @ + sz[r1]]
Reduced(sz, r1, r2) == [sz EXCEPT ![r2] = @ - sz[r1]]
Valued(vl, r1, r2) == [vl EXCEPT ![r2] = IF vl[r2] = None THEN vl[r1] ELSE vl[r2]]
Revalued(vl, r, v) == [vl EXCEPT ![r] = v]

LEMMA FirstPart ==
    ASSUME NEW S, NEW p \in Seq(S), NEW q \in Seq(S)
    PROVE  p \o q \in Seq(S) /\ SubSeq(p \o q, 1, Len(p)) = p
<1> DEFINE t == p \o q
           s == SubSeq(t, 1, Len(p))
<1>1. t \in Seq(S) /\ Len(t) = Len(p) + Len(q) /\ \A i \in 1 .. Len(p) : t[i] = p[i] OBVIOUS
<1>2. Len(p) \in Nat /\ Len(q) \in Nat OBVIOUS
<1> HIDE DEF t
<1>3. s \in Seq(S) /\ Len(s) = Len(p) /\ \A i \in 1 .. Len(p) : s[i] = t[i] BY <1>1, <1>2
<1> HIDE DEF s
<1>4. s = p BY <1>1, <1>3
<1> QED BY <1>1, <1>4 DEF s, t

LEMMA LongerBack ==
    ASSUME NEW S, NEW f \in [Node -> Seq(S)], NEW r1 \in Node, NEW r2 \in Node
    PROVE  /\ Longer(f, r1, r2) \in [Node -> Seq(S)]
           /\ Shortened(Longer(f, r1, r2), r2, Len(f[r2])) = f
<1> DEFINE t == f[r2] \o f[r1]
           lg == [f EXCEPT ![r2] = t]
           n == Len(f[r2])
           sh == [lg EXCEPT ![r2] = SubSeq(lg[r2], 1, n)]
<1>1. t \in Seq(S) /\ SubSeq(t, 1, n) = f[r2] BY FirstPart
<1> HIDE DEF t, n
<1>2. lg \in [Node -> Seq(S)] /\ lg[r2] = t /\ \A m \in Node \ {r2} : lg[m] = f[m] BY <1>1
<1> HIDE DEF lg
<1>3. sh = [lg EXCEPT ![r2] = f[r2]] BY <1>1, <1>2
<1>4. DOMAIN sh = Node /\ sh = [m \in Node |-> sh[m]] /\ \A m \in Node : sh[m] = f[m] BY <1>2, <1>3
<1> HIDE DEF sh
<1>5. sh = f
  <2>1. f = [m \in Node |-> f[m]] OBVIOUS
  <2> QED BY <1>4, <2>1
<1> QED BY <1>2, <1>5 DEF sh, lg, t, n, Longer, Shortened

LEMMA GrownBack ==
    ASSUME NEW f \in [Node -> Int], NEW r1 \in Node, NEW r2 \in Node, r1 # r2
    PROVE  Grown(f, r1, r2) \in [Node -> Int] /\ Reduced(Grown(f, r1, r2), r1, r2) = f
<1> DEFINE lg == [f EXCEPT ![r2] = f[r2] + f[r1]]
           sh == [lg EXCEPT ![r2] = lg[r2] - lg[r1]]
<1>1. lg \in [Node -> Int] /\ lg[r2] = f[r2] + f[r1] /\ \A m \in Node \ {r2} : lg[m] = f[m] OBVIOUS
<1> HIDE DEF lg
<1>2. lg[r2] - lg[r1] = f[r2]
  <2>1. lg[r1] = f[r1] BY <1>1
  <2>2. f[r1] \in Int /\ f[r2] \in Int OBVIOUS
  <2> QED BY <1>1, <2>1, <2>2
<1>3. sh = [lg EXCEPT ![r2] = f[r2]] BY <1>2
<1>4. DOMAIN sh = Node /\ sh = [m \in Node |-> sh[m]] /\ \A m \in Node : sh[m] = f[m] BY <1>1, <1>3
<1> HIDE DEF sh
<1>5. sh = f
  <2>1. f = [m \in Node |-> f[m]] OBVIOUS
  <2> QED BY <1>4, <2>1
<1> QED BY <1>1, <1>5 DEF sh, lg, Grown, Reduced

LEMMA ValuedBack ==
    ASSUME NEW f \in [Node -> Node \cup {None}], NEW r1 \in Node, NEW r2 \in Node
    PROVE  Valued(f, r1, r2) \in [Node -> Node \cup {None}] /\ Revalued(Valued(f, r1, r2), r2, f[r2]) = f
<1> DEFINE v == IF f[r2] = None THEN f[r1] ELSE f[r2]
           lg == [f EXCEPT ![r2] = v]
           sh == [lg EXCEPT ![r2] = f[r2]]
<1>1. v \in Node \cup {None} OBVIOUS
<1> HIDE DEF v
<1>2. lg \in [Node -> Node \cup {None}] /\ \A m \in Node \ {r2} : lg[m] = f[m] BY <1>1
<1> HIDE DEF lg
<1>4. DOMAIN sh = Node /\ sh = [m \in Node |-> sh[m]] /\ \A m \in Node : sh[m] = f[m] BY <1>2
<1> HIDE DEF sh
<1>5. sh = f
  <2>1. f = [m \in Node |-> f[m]] OBVIOUS
  <2> QED BY <1>4, <2>1
<1> QED BY <1>2, <1>5 DEF sh, lg, v, Valued, Revalued

\* The congruence table.
Filed(tb) == \A e \in tb : e.app \in Node /\ e = [key |-> e.key, app |-> e.app]
TakenOf(tb, rt, qs) == {p \in Range(qs) : p \in Found(tb, rt, p)}
KeptOf(tb, rt, qs) == tb \ {Entry(rt, p) : p \in TakenOf(tb, rt, qs)}
BackOf(tb, rt, rl, qs) == Reentered(KeptOf(tb, rt, qs), rl, qs)
TableOf(tb, rt, rl, qs) == KeptOf(tb, rt, qs) \cup {Entry(rl, p) : p \in BackOf(tb, rt, rl, qs)}
TableBefore(tb, rt, rl, taken, back) ==
    {e \in tb : ~\E p \in back : e = Entry(rl, p)} \cup {Entry(rt, p) : p \in taken}

LEMMA FoundIs ==
    ASSUME NEW tb, Filed(tb), NEW rt, NEW p
    PROVE  p \in Found(tb, rt, p) <=> Entry(rt, p) \in tb
<1>1. ASSUME p \in Found(tb, rt, p) PROVE Entry(rt, p) \in tb
  <2>1. PICK d \in tb : d.key = Key(rt, p) /\ d.app = p BY <1>1 DEF Found
  <2>2. d = [key |-> d.key, app |-> d.app] BY DEF Filed
  <2> QED BY <2>1, <2>2 DEF Entry
<1>2. ASSUME Entry(rt, p) \in tb PROVE p \in Found(tb, rt, p)
  <2> DEFINE d == Entry(rt, p)
  <2>1. d.key = Key(rt, p) /\ d.app = p /\ d \in tb BY <1>2 DEF Entry
  <2> HIDE DEF d
  <2> QED BY <2>1 DEF Found
<1> QED BY <1>1, <1>2

LEMMA TableBack ==
    ASSUME NEW tb, Filed(tb), NEW rt, NEW rl, NEW qs \in Seq(Node)
    PROVE  /\ Filed(TableOf(tb, rt, rl, qs))
           /\ TableBefore(TableOf(tb, rt, rl, qs), rt, rl, TakenOf(tb, rt, qs), BackOf(tb, rt, rl, qs)) = tb
<1> DEFINE T == TakenOf(tb, rt, qs)
           K == KeptOf(tb, rt, qs)
           B == BackOf(tb, rt, rl, qs)
           N == TableOf(tb, rt, rl, qs)
<1>1. T \subseteq Node /\ \A p \in T : Entry(rt, p) \in tb
  <2>1. Range(qs) \subseteq Node BY DEF Range
  <2> QED BY <2>1, FoundIs DEF TakenOf
<1>2. K = tb \ {Entry(rt, p) : p \in T} BY DEF KeptOf
<1>3. Filed(K) BY <1>2 DEF Filed
<1>4. B \subseteq Node /\ \A p \in B : Found(K, rl, p) = {}
  <2>1. B = Reentered(K, rl, qs) BY DEF BackOf
  <2> HIDE DEF B, K
  <2>2. ASSUME NEW p \in B PROVE p \in Node /\ Found(K, rl, p) = {}
    <3>1. PICK h \in DOMAIN qs : p = qs[h] /\ Found(K, rl, qs[h]) = {} BY <2>1 DEF Reentered
    <3> QED BY <3>1
  <2> QED BY <2>2
<1>5. N = K \cup {Entry(rl, p) : p \in B} BY DEF TableOf
<1> HIDE DEF T, K, B, N
<1>6. \A p \in B : Entry(rl, p) \notin K
  <2> SUFFICES ASSUME NEW p \in B, Entry(rl, p) \in K PROVE FALSE OBVIOUS
  <2>1. p \in Found(K, rl, p) BY <1>3, FoundIs
  <2> QED BY <1>4, <2>1
<1>7. {e \in N : ~\E p \in B : e = Entry(rl, p)} = K BY <1>5, <1>6
<1>8. K \cup {Entry(rt, p) : p \in T} = tb BY <1>1, <1>2
<1>9. Filed(N)
  <2>1. ASSUME NEW p \in B PROVE Entry(rl, p).app \in Node /\ Entry(rl, p) = [key |-> Entry(rl, p).key, app |-> Entry(rl, p).app]
    BY <1>4 DEF Entry
  <2> QED BY <1>3, <1>5, <2>1 DEF Filed
<1>10. TableBefore(N, rt, rl, T, B) = tb BY <1>7, <1>8 DEF TableBefore
<1> QED BY <1>9, <1>10 DEF T, K, B, N

\* The e-graph as a value.
GraphRight(rt, nx, sz, ps, wt, vl, tb, tg) ==
    /\ Classes(rt, nx) /\ Forest(tg, rt)
    /\ sz \in [Node -> Int] /\ ps \in [Node -> Seq(Node)] /\ wt \in [Node -> Seq(DOMAIN Atoms)]
    /\ vl \in [Node -> Node \cup {None}] /\ Filed(tb)

Relisted(rt, nx, n, r) == [m \in Node |-> IF m \in Members(nx, n) THEN r ELSE rt[m]]

JoinRecord(a, b, rt, ps, wt, vl, tb, rl) ==
    [r1 |-> rt[a], r2 |-> rt[b], n1 |-> a, parentsLen |-> Len(ps[rt[b]]), watchLen |-> Len(wt[rt[b]]),
     value |-> vl[rt[b]], taken |-> TakenOf(tb, rt, ps[rt[a]]), back |-> BackOf(tb, rt, rl, ps[rt[a]])]

JoinedGraph(a, b, rt, nx, sz, ps, wt, vl, tb, tg, rl) ==
    <<rl, Spliced(nx, rt[a], rt[b]), Grown(sz, rt[a], rt[b]), Longer(ps, rt[a], rt[b]), Longer(wt, rt[a], rt[b]),
      Valued(vl, rt[a], rt[b]), TableOf(tb, rt, rl, ps[rt[a]]), Hung(tg, a, b)>>

UndoneGraph(u, rt, nx, sz, ps, wt, vl, tb, tg, old) ==
    <<old, Spliced(nx, u.r1, u.r2), Reduced(sz, u.r1, u.r2), Shortened(ps, u.r2, u.parentsLen),
      Shortened(wt, u.r2, u.watchLen), Revalued(vl, u.r2, u.value), TableBefore(tb, old, rt, u.taken, u.back),
      InvertedTarget([tg EXCEPT ![u.n1] = None], u.r1)>>

Right(g) == g = <<g[1], g[2], g[3], g[4], g[5], g[6], g[7], g[8]>> /\ GraphRight(g[1], g[2], g[3], g[4], g[5], g[6], g[7], g[8])
Undone(u, g) == UndoneGraph(u, g[1], g[2], g[3], g[4], g[5], g[6], g[7], g[8],
                            Relisted(g[1], Spliced(g[2], u.r1, u.r2), u.r1, u.r1))
Joined(a, b, g) == JoinedGraph(a, b, g[1], g[2], g[3], g[4], g[5], g[6], g[7], g[8], Relisted(g[1], g[2], g[1][a], g[1][b]))
Recorded(a, b, g) == JoinRecord(a, b, g[1], g[4], g[5], g[6], g[7], Relisted(g[1], g[2], g[1][a], g[1][b]))

\* A join keeps the e-graph right, and what is recorded of it takes it back.
LEMMA JoinBack ==
    ASSUME NEW rt, NEW nx, NEW sz, NEW ps, NEW wt, NEW vl, NEW tb, NEW tg, GraphRight(rt, nx, sz, ps, wt, vl, tb, tg),
           NEW a \in Node, NEW b \in Node, rt[a] # rt[b]
    PROVE  LET g == <<rt, nx, sz, ps, wt, vl, tb, tg>> IN
           Right(Joined(a, b, g)) /\ Undone(Recorded(a, b, g), Joined(a, b, g)) = g
<1> DEFINE g == <<rt, nx, sz, ps, wt, vl, tb, tg>>
           r1 == rt[a]
           r2 == rt[b]
           rl == Relabelled(rt, r1, r2)
           qs == ps[r1]
           u == Recorded(a, b, g)
           j == Joined(a, b, g)
           sp == Spliced(nx, r1, r2)
           hg == Hung(tg, a, b)
<1>1. Classes(rt, nx) /\ Forest(tg, rt) /\ rt \in [Node -> Node] /\ nx \in [Node -> Node] BY DEF GraphRight, Classes
<1>2. r1 \in Node /\ r2 \in Node /\ r1 # r2 /\ rt[r1] = r1 /\ rt[r2] = r2 BY <1>1 DEF Classes
<1>3. Relisted(rt, nx, r1, r2) = rl
  <2>1. Members(nx, r1) = {m \in Node : rt[m] = r1} BY <1>1, <1>2, ClassIs
  <2> QED BY <2>1 DEF Relisted, Relabelled
<1>4. Classes(rl, sp) BY <1>1, <1>2, ClassesJoined
<1>5. Forest(hg, rl) BY <1>1, <1>2, ForestJoined
<1>6. Relisted(rl, nx, r1, r1) = rt
  <2>1. Members(nx, r1) = {m \in Node : rt[m] = r1} BY <1>1, <1>2, ClassIs
  <2>2. \A m \in Node : rl[m] = IF rt[m] = r1 THEN r2 ELSE rt[m] BY DEF Relabelled
  <2> HIDE DEF rl
  <2>3. \A m \in Node : (IF m \in Members(nx, r1) THEN r1 ELSE rl[m]) = rt[m] BY <2>1, <2>2
  <2>4. rt = [m \in Node |-> rt[m]] BY <1>1
  <2> QED BY <2>3, <2>4 DEF Relisted
<1>7. Spliced(sp, r1, r2) = nx BY <1>1, <1>2, SplicedIs
<1>8. InvertedTarget([hg EXCEPT ![a] = None], r1) = tg
  <2>1. tg \in [Node -> Node \cup {None}] /\ Grounded(tg) BY <1>1 DEF Forest
  <2>2. [hg EXCEPT ![a] = None] = InvertedTarget(tg, a) BY <2>1, HungIs
  <2>3. InvertedTarget(InvertedTarget(tg, a), rt[a]) = tg BY <1>1, InvertBack
  <2> QED BY <2>2, <2>3
<1>9. u = JoinRecord(a, b, rt, ps, wt, vl, tb, rl) BY <1>3 DEF Recorded
<1>10. j = JoinedGraph(a, b, rt, nx, sz, ps, wt, vl, tb, tg, rl) BY <1>3 DEF Joined
<1> HIDE DEF rl, sp, hg, r1, r2, u, j
<1>11. /\ u.r1 = r1 /\ u.r2 = r2 /\ u.n1 = a /\ u.parentsLen = Len(ps[r2]) /\ u.watchLen = Len(wt[r2])
       /\ u.value = vl[r2] /\ u.taken = TakenOf(tb, rt, qs) /\ u.back = BackOf(tb, rt, rl, qs)
  BY <1>9 DEF JoinRecord, r1, r2
<1>12. j = <<rl, sp, Grown(sz, r1, r2), Longer(ps, r1, r2), Longer(wt, r1, r2), Valued(vl, r1, r2),
             TableOf(tb, rt, rl, qs), hg>>
  BY <1>10 DEF JoinedGraph, r1, r2, sp, hg
<1>13. sz \in [Node -> Int] /\ ps \in [Node -> Seq(Node)] /\ wt \in [Node -> Seq(DOMAIN Atoms)]
       /\ vl \in [Node -> Node \cup {None}] /\ Filed(tb)
  BY DEF GraphRight
<1>14. Grown(sz, r1, r2) \in [Node -> Int] /\ Reduced(Grown(sz, r1, r2), r1, r2) = sz BY <1>2, <1>13, GrownBack
<1>15. Longer(ps, r1, r2) \in [Node -> Seq(Node)] /\ Shortened(Longer(ps, r1, r2), r2, Len(ps[r2])) = ps BY <1>2, <1>13, LongerBack
<1>16. Longer(wt, r1, r2) \in [Node -> Seq(DOMAIN Atoms)] /\ Shortened(Longer(wt, r1, r2), r2, Len(wt[r2])) = wt BY <1>2, <1>13, LongerBack
<1>17. Valued(vl, r1, r2) \in [Node -> Node \cup {None}] /\ Revalued(Valued(vl, r1, r2), r2, vl[r2]) = vl BY <1>2, <1>13, ValuedBack
<1>18. qs \in Seq(Node) BY <1>2, <1>13
<1> HIDE DEF qs
<1>19. Filed(TableOf(tb, rt, rl, qs))
       /\ TableBefore(TableOf(tb, rt, rl, qs), rt, rl, TakenOf(tb, rt, qs), BackOf(tb, rt, rl, qs)) = tb
  BY <1>13, <1>18, TableBack
<1>20. j[1] = rl /\ j[2] = sp /\ j[3] = Grown(sz, r1, r2) /\ j[4] = Longer(ps, r1, r2) /\ j[5] = Longer(wt, r1, r2)
       /\ j[6] = Valued(vl, r1, r2) /\ j[7] = TableOf(tb, rt, rl, qs) /\ j[8] = hg
       /\ j = <<j[1], j[2], j[3], j[4], j[5], j[6], j[7], j[8]>>
  BY <1>12
<1>21. Right(j)
  <2>1. GraphRight(rl, sp, Grown(sz, r1, r2), Longer(ps, r1, r2), Longer(wt, r1, r2), Valued(vl, r1, r2),
                   TableOf(tb, rt, rl, qs), hg)
    BY <1>4, <1>5, <1>14, <1>15, <1>16, <1>17, <1>19 DEF GraphRight
  <2> QED BY <1>20, <2>1 DEF Right
<1>22. Undone(u, j) = g
  <2>1. Relisted(j[1], Spliced(j[2], u.r1, u.r2), u.r1, u.r1) = rt BY <1>6, <1>7, <1>11, <1>20
  <2>2. Undone(u, j) = UndoneGraph(u, rl, sp, Grown(sz, r1, r2), Longer(ps, r1, r2), Longer(wt, r1, r2), Valued(vl, r1, r2),
                                   TableOf(tb, rt, rl, qs), hg, rt)
    BY <1>20, <2>1 DEF Undone
  <2>3. @ = <<rt, nx, sz, ps, wt, vl, tb, tg>>
    <3>1. InvertedTarget([hg EXCEPT ![u.n1] = None], u.r1) = tg BY <1>8, <1>11
    <3> QED BY <1>7, <1>11, <1>14, <1>15, <1>16, <1>17, <1>19, <3>1 DEF UndoneGraph
  <2> QED BY <2>2, <2>3
<1> QED BY <1>21, <1>22 DEF u, j

-----------------------------------------------------------------------------
(* Sets of numbers in ascending order *)

LEMMA LeastIs ==
    ASSUME NEW S \in SUBSET Nat, S # {}
    PROVE  \E m \in S : \A x \in S : m <= x
<1> SUFFICES ASSUME \A m \in S : \E x \in S : x < m PROVE FALSE OBVIOUS
<1> DEFINE T == {k \in Nat : \A x \in S : k <= x}
<1>1. 0 \in T OBVIOUS
<1>2. ASSUME NEW k \in Nat, k \in T PROVE k + 1 \in T
  <2> SUFFICES ASSUME NEW x \in S, ~(k + 1 <= x) PROVE FALSE OBVIOUS
  <2>1. k <= x BY <1>2
  <2>2. x = k BY <2>1
  <2>3. PICK y \in S : y < x OBVIOUS
  <2> QED BY <1>2, <2>2, <2>3
<1>3. Nat \subseteq T
  <2> HIDE DEF T
  <2> QED BY <1>1, <1>2, NatInductive
<1>4. PICK s \in Nat : s \in S OBVIOUS
<1>5. s + 1 \in T
  <2> HIDE DEF T
  <2> QED BY <1>3
<1>6. s + 1 <= s BY <1>4, <1>5
<1> QED BY <1>6

LEMMA RankExists ==
    ASSUME NEW S \in SUBSET Nat, IsFiniteSet(S)
    PROVE  \A k \in Nat : k < Cardinality(S) => \E x \in S : Cardinality({y \in S : y < x}) = k
<1> DEFINE T == {k \in Nat : k < Cardinality(S) => \E x \in S : Cardinality({y \in S : y < x}) = k}
<1>0. Cardinality(S) \in Nat BY FS_CardinalityType
<1>1. 0 \in T
  <2> SUFFICES ASSUME 0 < Cardinality(S) PROVE \E x \in S : Cardinality({y \in S : y < x}) = 0 OBVIOUS
  <2>1. S # {} BY FS_EmptySet
  <2>2. PICK m \in S : \A x \in S : m <= x BY <2>1, LeastIs
  <2>3. {y \in S : y < m} = {}
    <3> SUFFICES ASSUME NEW y \in S, y < m PROVE FALSE OBVIOUS
    <3>1. m <= y /\ m \in Nat /\ y \in Nat BY <2>2
    <3> QED BY <3>1
  <2>4. Cardinality({y \in S : y < m}) = 0 BY <2>3, FS_EmptySet
  <2> QED BY <2>4
<1>2. ASSUME NEW k \in Nat, k \in T PROVE k + 1 \in T
  <2> SUFFICES ASSUME k + 1 < Cardinality(S) PROVE \E x \in S : Cardinality({y \in S : y < x}) = k + 1 OBVIOUS
  <2>1. k < Cardinality(S) BY <1>0
  <2>2. PICK x \in S : Cardinality({y \in S : y < x}) = k BY <1>2, <2>1
  <2> DEFINE L == {y \in S : y < x}
             A == L \cup {x}
             B == S \ A
  <2>3. IsFiniteSet(L) /\ x \notin L
    <3>1. L \subseteq S OBVIOUS
    <3> HIDE DEF L
    <3>2. IsFiniteSet(L) BY <3>1, FS_Subset
    <3> QED BY <3>2 DEF L
  <2>4. Cardinality(A) = k + 1
    <3>1. Cardinality(L) = k BY <2>2
    <3> HIDE DEF L
    <3> QED BY <2>3, <3>1, FS_AddElement
  <2>5. B # {}
    <3> SUFFICES ASSUME B = {} PROVE FALSE OBVIOUS
    <3>1. S = A OBVIOUS
    <3> HIDE DEF A
    <3> QED BY <1>0, <2>4, <3>1
  <2>6. PICK m \in B : \A y \in B : m <= y
    <3>1. B \in SUBSET Nat OBVIOUS
    <3> HIDE DEF B
    <3> QED BY <2>5, <3>1, LeastIs
  <2>7. {y \in S : y < m} = A
    <3>1. m \in S /\ m \in Nat /\ ~(m < x) /\ m # x BY <2>6
    <3>2. x < m BY <3>1
    <3>3. ASSUME NEW y \in S, y < m PROVE y \in A
      <4>1. y \notin B BY <2>6, <3>1, <3>3
      <4> QED BY <4>1
    <3>4. ASSUME NEW y \in A PROVE y \in S /\ y < m BY <3>1, <3>2
    <3> HIDE DEF A
    <3> QED BY <3>3, <3>4
  <2>8. m \in S OBVIOUS
  <2> QED BY <2>4, <2>7, <2>8
<1>3. Nat \subseteq T
  <2> HIDE DEF T
  <2> QED BY <1>1, <1>2, NatInductive
<1> QED BY <1>3

LEMMA AscendingIs ==
    ASSUME NEW S \in SUBSET Nat, IsFiniteSet(S)
    PROVE  Ascending(S) \in Seq(S) /\ (S # {} => Ascending(S) # <<>>)
<1> DEFINE n == Cardinality(S)
           rank(x) == Cardinality({y \in S : y < x})
           sq == [k \in 1 .. n |-> CHOOSE x \in S : rank(x) = k - 1]
<1>1. n \in Nat BY FS_CardinalityType
<1>2. \A k \in Nat : k < n => \E x \in S : rank(x) = k BY RankExists
<1>3. Ascending(S) = sq BY DEF Ascending
<1>4. S # {} => n # 0 BY FS_EmptySet
<1> HIDE DEF n, rank
<1>5. ASSUME NEW k \in 1 .. n PROVE (CHOOSE x \in S : rank(x) = k - 1) \in S
  <2>1. k - 1 \in Nat /\ k - 1 < n BY <1>1
  <2>2. \E x \in S : rank(x) = k - 1 BY <1>2, <2>1
  <2> QED BY <2>2
<1>6. sq \in [1 .. n -> S] BY <1>5
<1> HIDE DEF sq
<1>7. sq \in Seq(S) /\ Len(sq) = n BY <1>1, <1>6
<1> QED BY <1>3, <1>4, <1>7

LEMMA AscendingIn ==
    ASSUME NEW m \in Nat, NEW S \in SUBSET (1 .. m), NEW T, S \subseteq T
    PROVE  Ascending(S) \in Seq(T) /\ (S # {} => Ascending(S) # <<>>)
<1>1. IsFiniteSet(1 .. m) BY FS_Interval
<1>2. IsFiniteSet(S) /\ S \in SUBSET Nat
  <2>1. IsFiniteSet(S) BY <1>1, FS_Subset
  <2>2. \A i \in 1 .. m : i \in Nat OBVIOUS
  <2> QED BY <2>1, <2>2
<1> DEFINE sq == Ascending(S)
<1>3. sq \in Seq(S) /\ (S # {} => sq # <<>>) BY <1>2, AscendingIs
<1> HIDE DEF sq
<1>4. sq \in Seq(T)
  <2>1. Len(sq) \in Nat /\ sq \in [1 .. Len(sq) -> S] BY <1>3
  <2>2. sq \in [1 .. Len(sq) -> T] BY <2>1
  <2> QED BY <2>1, <2>2
<1> QED BY <1>3, <1>4 DEF sq

-----------------------------------------------------------------------------
(* What is listed at every node *)

LEMMA AtomsAre ==
    /\ Len(Atoms) \in Nat /\ DOMAIN Atoms = 1 .. Len(Atoms)
    /\ \A i \in DOMAIN Atoms : Atoms[i].x \in Node /\ Atoms[i].y \in Node
    /\ 1 \in DOMAIN Stages /\ \A s \in DOMAIN Stages : 1 .. Stages[s][2] \subseteq DOMAIN Atoms
<1>1. Atoms \in Seq([kind : {"eq", "pred"}, lit : Lit, x : Node, y : Node]) BY EufAssumption
<1>2. Stages \in Seq(Node \X (0 .. Len(Atoms))) /\ Stages # <<>> BY EufAssumption
<1>3. Len(Atoms) \in Nat /\ DOMAIN Atoms = 1 .. Len(Atoms) BY <1>1
<1>4. \A i \in DOMAIN Atoms : Atoms[i] \in [kind : {"eq", "pred"}, lit : Lit, x : Node, y : Node]
  <2> DEFINE R == [kind : {"eq", "pred"}, lit : Lit, x : Node, y : Node]
  <2>1. Atoms \in Seq(R) BY <1>1
  <2> HIDE DEF R
  <2>2. \A i \in DOMAIN Atoms : Atoms[i] \in R BY <2>1
  <2> QED BY <2>2 DEF R
<1>5. \A i \in DOMAIN Atoms : Atoms[i].x \in Node /\ Atoms[i].y \in Node BY <1>4
<1>6. DOMAIN Stages = 1 .. Len(Stages) /\ Len(Stages) \in Nat /\ Len(Stages) # 0 BY <1>2
<1>7. \A s \in DOMAIN Stages : Stages[s] \in Node \X (0 .. Len(Atoms)) BY <1>2
<1>8. \A s \in DOMAIN Stages : Stages[s][2] \in 0 .. Len(Atoms) BY <1>7
<1> QED BY <1>3, <1>5, <1>6, <1>8

LEMMA NewListed ==
    ASSUME NEW s
    PROVE  \A n \in Node : NewParents(s, n) \in Seq(Node) /\ NewWatch(s, n) \in Seq(DOMAIN Atoms)
<1> SUFFICES ASSUME NEW n \in Node PROVE NewParents(s, n) \in Seq(Node) /\ NewWatch(s, n) \in Seq(DOMAIN Atoms) OBVIOUS
<1>1. NewParents(s, n) \in Seq(Node)
  <2> DEFINE P == {p \in NewNodes(s) : n \in Range(Args[p])}
  <2>1. P \subseteq Node /\ P \in SUBSET (1 .. NumNodes) BY DEF NewNodes, Node
  <2> HIDE DEF P
  <2>2. Ascending(P) \in Seq(Node) BY <2>1, NodesCounted, AscendingIn
  <2> QED BY <2>2 DEF NewParents, P
<1>2. NewWatch(s, n) \in Seq(DOMAIN Atoms)
  <2> DEFINE P == {i \in NewAtoms(s) : n \in Sides(i)}
  <2>1. P \subseteq DOMAIN Atoms /\ P \in SUBSET (1 .. Len(Atoms)) BY AtomsAre DEF NewAtoms
  <2> HIDE DEF P
  <2>2. Ascending(P) \in Seq(DOMAIN Atoms) BY <2>1, AtomsAre, AscendingIn
  <2> QED BY <2>2 DEF NewWatch, P
<1> QED BY <1>1, <1>2

LEMMA NewFiled == ASSUME NEW s, NEW rt PROVE Filed(NewEntries(s, rt))
  BY DEF Filed, NewEntries, NewNodes, Entry

\* The e-graph of the first stage.
LEMMA RightAtFirst == Init => Right(graph)
<1> SUFFICES ASSUME Init PROVE Right(graph) OBVIOUS
<1>1. root = [n \in Node |-> n] /\ next = [n \in Node |-> n] /\ size = [n \in Node |-> 1]
      /\ parents = [n \in Node |-> NewParents(1, n)] /\ watch = [n \in Node |-> NewWatch(1, n)]
      /\ value = [n \in Node |-> IF Val[n] = NoVal THEN None ELSE n] /\ cg = NewEntries(1, root)
      /\ target = [n \in Node |-> None]
  BY DEF Init
<1>2. Classes(root, next)
  <2>1. Circular(root, next) BY <1>1 DEF Circular
  <2> QED BY <1>1, <2>1 DEF Classes
<1>3. Forest(target, root)
  <2>1. Grounded(target) BY <1>1 DEF Grounded
  <2> QED BY <1>1, <2>1 DEF Forest
<1>4. size \in [Node -> Int] /\ value \in [Node -> Node \cup {None}] BY <1>1
<1>5. parents \in [Node -> Seq(Node)] /\ watch \in [Node -> Seq(DOMAIN Atoms)] BY <1>1, NewListed
<1>6. Filed(cg) BY <1>1, NewFiled
<1>7. GraphRight(root, next, size, parents, watch, value, cg, target) BY <1>2, <1>3, <1>4, <1>5, <1>6 DEF GraphRight
<1> QED BY <1>7 DEF Right, graph

LEMMA GraphIs ==
    /\ graph[1] = root /\ graph[2] = next /\ graph[3] = size /\ graph[4] = parents /\ graph[5] = watch
    /\ graph[6] = value /\ graph[7] = cg /\ graph[8] = target
    /\ graph = <<root, next, size, parents, watch, value, cg, target>>
  BY DEF graph

LEMMA RightGrown ==
    ASSUME Right(graph), Grow
    PROVE  Right(graph')
<1>1. GraphRight(root, next, size, parents, watch, value, cg, target) BY GraphIs DEF Right
<1>2. /\ UNCHANGED <<root, next, size, value, target>>
      /\ parents' = [n \in Node |-> parents[n] \o NewParents(stage + 1, n)]
      /\ watch' = [n \in Node |-> watch[n] \o NewWatch(stage + 1, n)]
      /\ cg' = cg \cup NewEntries(stage + 1, root)
  BY DEF Grow, GrowTable
<1>3. parents \in [Node -> Seq(Node)] /\ watch \in [Node -> Seq(DOMAIN Atoms)] BY <1>1 DEF GraphRight
<1>4. \A n \in Node : parents[n] \o NewParents(stage + 1, n) \in Seq(Node)
  <2> SUFFICES ASSUME NEW n \in Node PROVE parents[n] \o NewParents(stage + 1, n) \in Seq(Node) OBVIOUS
  <2>1. NewParents(stage + 1, n) \in Seq(Node) /\ parents[n] \in Seq(Node) BY <1>3, NewListed
  <2> QED BY <2>1
<1>5. \A n \in Node : watch[n] \o NewWatch(stage + 1, n) \in Seq(DOMAIN Atoms)
  <2> SUFFICES ASSUME NEW n \in Node PROVE watch[n] \o NewWatch(stage + 1, n) \in Seq(DOMAIN Atoms) OBVIOUS
  <2>1. NewWatch(stage + 1, n) \in Seq(DOMAIN Atoms) /\ watch[n] \in Seq(DOMAIN Atoms) BY <1>3, NewListed
  <2> QED BY <2>1
<1>6. parents' \in [Node -> Seq(Node)] /\ watch' \in [Node -> Seq(DOMAIN Atoms)] BY <1>2, <1>4, <1>5
<1>7. Filed(cg') BY <1>1, <1>2, NewFiled DEF GraphRight, Filed
<1>8. GraphRight(root, next, size, parents', watch', value, cg', target) BY <1>1, <1>6, <1>7 DEF GraphRight
<1>9. graph' = <<root, next, size, parents', watch', value, cg', target>> BY <1>2 DEF graph
<1> QED BY <1>8, <1>9 DEF Right

\* A merge is a join of its two classes.
LEMMA JoinIs ==
    ASSUME NEW a, NEW b, NEW j, NEW rest, Join(a, b, j, rest)
    PROVE  graph' = Joined(a, b, graph) /\ undo' = Append(undo, Recorded(a, b, graph))
<1> DEFINE rl == Relisted(root, next, root[a], root[b])
<1>1. /\ root' = rl
      /\ next' = Spliced(next, root[a], root[b])
      /\ size' = Grown(size, root[a], root[b])
  BY DEF Join, Relisted, Spliced, Grown
<1>2. /\ parents' = Longer(parents, root[a], root[b])
      /\ watch' = Longer(watch, root[a], root[b])
      /\ value' = Valued(value, root[a], root[b])
  BY DEF Join, Longer, Valued
<1>3. cg' = TableOf(cg, root, rl, parents[root[a]])
  BY DEF Join, TableOf, KeptOf, BackOf, TakenOf, Taken, Relisted
<1>4. target' = Hung(target, a, b) BY DEF Join, Hung
<1>5. undo' = Append(undo, JoinRecord(a, b, root, parents, watch, value, cg, rl))
  BY DEF Join, JoinRecord, KeptOf, BackOf, TakenOf, Taken, Relisted
<1> HIDE DEF rl
<1>6. graph' = JoinedGraph(a, b, root, next, size, parents, watch, value, cg, target, rl)
  BY <1>1, <1>2, <1>3, <1>4 DEF JoinedGraph, graph
<1> QED BY <1>5, <1>6, GraphIs DEF Joined, Recorded, rl

LEMMA UndoIs ==
    ASSUME UndoMerge
    PROVE  graph' = Undone(Last(undo), graph) /\ undo' = Front(undo)
<1> DEFINE u == Last(undo)
           old == Relisted(root, Spliced(next, u.r1, u.r2), u.r1, u.r1)
<1>1. /\ root' = old
      /\ next' = Spliced(next, u.r1, u.r2)
      /\ size' = Reduced(size, u.r1, u.r2)
  BY DEF UndoMerge, Relisted, Spliced, Reduced
<1>2. /\ parents' = Shortened(parents, u.r2, u.parentsLen)
      /\ watch' = Shortened(watch, u.r2, u.watchLen)
      /\ value' = Revalued(value, u.r2, u.value)
  BY DEF UndoMerge, Shortened, Revalued
<1>3. cg' = TableBefore(cg, root', root, u.taken, u.back) BY DEF UndoMerge, RestoredTable, TableBefore
<1>4. target' = InvertedTarget([target EXCEPT ![u.n1] = None], u.r1) BY DEF UndoMerge
<1>5. undo' = Front(undo) BY DEF UndoMerge
<1> HIDE DEF old, u
<1>6. graph' = UndoneGraph(u, root, next, size, parents, watch, value, cg, target, old)
  BY <1>1, <1>2, <1>3, <1>4 DEF UndoneGraph, graph
<1> QED BY <1>5, <1>6, GraphIs DEF Undone, old, u

-----------------------------------------------------------------------------
(* The past of the e-graph and the marks in it *)

Listed(s) == \E S : s \in Seq(S)

LEMMA ListAppend ==
    ASSUME NEW s, Listed(s), NEW e
    PROVE  /\ Listed(Append(s, e)) /\ Len(s) \in Nat /\ Len(Append(s, e)) = Len(s) + 1
           /\ \A i \in 1 .. Len(s) : Append(s, e)[i] = s[i]
           /\ Append(s, e)[Len(s) + 1] = e
<1>1. PICK S : s \in Seq(S) BY DEF Listed
<1> DEFINE U == S \cup {e}
           t == Append(s, e)
<1>2. s \in Seq(U)
  <2>1. Len(s) \in Nat /\ s \in [1 .. Len(s) -> S] BY <1>1
  <2>2. s \in [1 .. Len(s) -> U] BY <2>1
  <2> HIDE DEF U
  <2> QED BY <2>1, <2>2
<1>3. e \in U OBVIOUS
<1> HIDE DEF U
<1>4. t \in Seq(U) /\ Len(s) \in Nat /\ Len(t) = Len(s) + 1 BY <1>2, <1>3
<1>5. (\A i \in 1 .. Len(s) : t[i] = s[i]) /\ t[Len(s) + 1] = e BY <1>2, <1>3
<1> HIDE DEF t
<1>6. Listed(t) BY <1>4 DEF Listed
<1> QED BY <1>4, <1>5, <1>6 DEF t

LEMMA ListCut ==
    ASSUME NEW s, Listed(s), NEW k \in 0 .. Len(s)
    PROVE  /\ Listed(SubSeq(s, 1, k)) /\ Len(s) \in Nat /\ Len(SubSeq(s, 1, k)) = k
           /\ \A i \in 1 .. k : SubSeq(s, 1, k)[i] = s[i]
<1>1. PICK S : s \in Seq(S) BY DEF Listed
<1> DEFINE t == SubSeq(s, 1, k)
<1>2. t \in Seq(S) /\ Len(s) \in Nat /\ Len(t) = k /\ \A i \in 1 .. k : t[i] = s[i] BY <1>1
<1> HIDE DEF t
<1>3. Listed(t) BY <1>2 DEF Listed
<1> QED BY <1>2, <1>3 DEF t

\* gs[k] is the e-graph before the k-th merge of us, and the last one is g.
Past(us, g, gs) ==
    /\ \A k \in 1 .. Len(us) + 1 : Right(gs[k])
    /\ gs[Len(us) + 1] = g
    /\ \A k \in 1 .. Len(us) : Undone(us[k], gs[k + 1]) = gs[k]

\* The marks ms rise from the first e-graph up to length fl, and bf holds the
\* e-graph of each of them, and perhaps that of length fl.
Marked(ms, bf, fl, gs) ==
    /\ \A i \in 1 .. Len(ms) : ms[i].len \in 0 .. fl /\ bf[i] = gs[ms[i].len + 1]
    /\ \A i, j \in 1 .. Len(ms) : i <= j => ms[i].len <= ms[j].len
    /\ IF Len(ms) = 0 THEN fl = 0 ELSE ms[1].len = 0
    /\ \/ Len(bf) = Len(ms)
       \/ Len(bf) = Len(ms) + 1 /\ bf[Len(ms) + 1] = gs[fl + 1]

Restorable(us, g, ms, bf, fl) ==
    /\ Listed(us) /\ Listed(ms) /\ Listed(bf) /\ fl \in 0 .. Len(us)
    /\ \E gs : Past(us, g, gs) /\ Marked(ms, bf, fl, gs)

LEMMA LengthIs == ASSUME NEW s, Listed(s) PROVE Len(s) \in Nat
<1>1. PICK S : s \in Seq(S) BY DEF Listed
<1> QED BY <1>1

LEMMA RestorableFirst ==
    ASSUME NEW g, Right(g)
    PROVE  Restorable(<<>>, g, <<>>, <<>>, 0)
<1> DEFINE gs == [k \in {1} |-> g]
<1>1. Listed(<<>>)
  <2>1. <<>> \in Seq({}) OBVIOUS
  <2> QED BY <2>1 DEF Listed
<1>2. Len(<<>>) = 0 /\ 0 \in 0 .. 0 /\ 1 .. 0 = {} /\ 0 + 1 = 1 /\ 1 .. 1 = {1} OBVIOUS
<1>3. gs[1] = g OBVIOUS
<1> HIDE DEF gs
<1>4. Past(<<>>, g, gs) BY <1>2, <1>3 DEF Past
<1>5. Marked(<<>>, <<>>, 0, gs) BY <1>2 DEF Marked
<1> QED BY <1>1, <1>2, <1>4, <1>5 DEF Restorable

\* A merge lengthens the past; the first mark is below it.
LEMMA RestorableJoin ==
    ASSUME NEW us, NEW g, NEW ms, NEW bf, Restorable(us, g, ms, bf, Len(us)), Len(bf) = Len(ms), Len(ms) # 0,
           NEW u, NEW h, Right(h), Undone(u, h) = g
    PROVE  Restorable(Append(us, u), h, ms, bf, Len(Append(us, u)))
<1> DEFINE n == Len(us)
           vs == Append(us, u)
<1>1. Listed(us) /\ Listed(ms) /\ Listed(bf) BY DEF Restorable
<1>2. PICK gs : Past(us, g, gs) /\ Marked(ms, bf, n, gs) BY DEF Restorable
<1>3. Listed(vs) /\ n \in Nat /\ Len(vs) = n + 1 /\ (\A i \in 1 .. n : vs[i] = us[i]) /\ vs[n + 1] = u
  BY <1>1, ListAppend
<1>4. Len(ms) \in Nat BY <1>1, LengthIs
<1> DEFINE hs == [k \in 1 .. n + 2 |-> IF k = n + 2 THEN h ELSE gs[k]]
<1>5. (\A k \in 1 .. n + 1 : hs[k] = gs[k]) /\ hs[n + 2] = h BY <1>3
<1> HIDE DEF hs, vs, n
<1>6. /\ \A k \in 1 .. n + 1 : Right(gs[k])
      /\ gs[n + 1] = g
      /\ \A k \in 1 .. n : Undone(us[k], gs[k + 1]) = gs[k]
  BY <1>2 DEF Past, n
<1>7. Past(vs, h, hs)
  <2>1. \A k \in 1 .. (n + 1) + 1 : Right(hs[k])
    <3>1. \A k \in 1 .. (n + 1) + 1 : k \in 1 .. n + 1 \/ k = n + 2 BY <1>3
    <3> QED BY <1>5, <1>6, <3>1
  <2>2. \A k \in 1 .. n + 1 : Undone(vs[k], hs[k + 1]) = hs[k]
    <3> SUFFICES ASSUME NEW k \in 1 .. n + 1 PROVE Undone(vs[k], hs[k + 1]) = hs[k] OBVIOUS
    <3>1. CASE k = n + 1
      <4>1. (n + 1) + 1 = n + 2 /\ n + 1 \in 1 .. n + 1 BY <1>3
      <4>2. hs[k + 1] = h /\ hs[k] = g /\ vs[k] = u BY <1>3, <1>5, <1>6, <3>1, <4>1
      <4> QED BY <4>2
    <3>2. CASE k # n + 1
      <4>1. k \in 1 .. n /\ k + 1 \in 1 .. n + 1 BY <1>3, <3>2
      <4>2. hs[k + 1] = gs[k + 1] /\ hs[k] = gs[k] /\ vs[k] = us[k] BY <1>3, <1>5, <4>1
      <4> QED BY <1>6, <4>1, <4>2
    <3> QED BY <3>1, <3>2
  <2>3. (n + 1) + 1 = n + 2 BY <1>3
  <2> QED BY <1>3, <1>5, <2>1, <2>2, <2>3 DEF Past
<1>8. Marked(ms, bf, n + 1, hs)
  <2>1. ASSUME NEW i \in 1 .. Len(ms) PROVE ms[i].len \in 0 .. n + 1 /\ bf[i] = hs[ms[i].len + 1]
    <3>1. ms[i].len \in 0 .. n /\ bf[i] = gs[ms[i].len + 1] BY <1>2 DEF Marked
    <3>2. ms[i].len + 1 \in 1 .. n + 1 /\ ms[i].len \in 0 .. n + 1 BY <1>3, <3>1
    <3> QED BY <1>5, <3>1, <3>2
  <2>2. \A i, j \in 1 .. Len(ms) : i <= j => ms[i].len <= ms[j].len BY <1>2 DEF Marked
  <2>3. ms[1].len = 0 BY <1>2 DEF Marked
  <2> QED BY <2>1, <2>2, <2>3 DEF Marked
<1>9. n + 1 \in 0 .. Len(vs) /\ Len(vs) = n + 1 BY <1>3
<1> QED BY <1>1, <1>3, <1>7, <1>8, <1>9 DEF Restorable, vs

\* Undoing the last merge above length fl goes one step back.
LEMMA RestorableUndo ==
    ASSUME NEW us, NEW g, NEW ms, NEW bf, NEW fl, Restorable(us, g, ms, bf, fl), Len(us) > fl
    PROVE  Restorable(Front(us), Undone(Last(us), g), ms, bf, fl)
<1> DEFINE n == Len(us)
           vs == SubSeq(us, 1, n - 1)
<1>1. Listed(us) /\ Listed(ms) /\ Listed(bf) /\ n \in Nat /\ fl \in 0 .. n BY LengthIs DEF Restorable
<1>2. PICK gs : Past(us, g, gs) /\ Marked(ms, bf, fl, gs) BY DEF Restorable
<1>3. n - 1 \in 0 .. n /\ n - 1 \in Nat /\ fl \in 0 .. n - 1 /\ n \in 1 .. n /\ (n - 1) + 1 = n BY <1>1
<1>4. Listed(vs) /\ Len(vs) = n - 1 /\ \A i \in 1 .. n - 1 : vs[i] = us[i] BY <1>1, <1>3, ListCut
<1>5. Undone(us[n], g) = gs[n] BY <1>2, <1>3 DEF Past
<1> HIDE DEF vs, n
<1>6. /\ \A k \in 1 .. n + 1 : Right(gs[k])
      /\ \A k \in 1 .. n : Undone(us[k], gs[k + 1]) = gs[k]
  BY <1>2 DEF Past, n
<1>7. Past(vs, gs[n], gs)
  <2>1. \A k \in 1 .. n : k \in 1 .. n + 1 BY <1>1
  <2>2. \A k \in 1 .. n - 1 : k \in 1 .. n BY <1>1
  <2>3. \A k \in 1 .. n : Right(gs[k]) BY <1>6, <2>1
  <2>4. \A k \in 1 .. n - 1 : Undone(vs[k], gs[k + 1]) = gs[k] BY <1>4, <1>6, <2>2
  <2> QED BY <1>3, <1>4, <2>3, <2>4 DEF Past
<1>8. Restorable(vs, gs[n], ms, bf, fl) BY <1>1, <1>2, <1>3, <1>4, <1>7 DEF Restorable
<1> QED BY <1>5, <1>8 DEF vs, n, Front, Last

\* The marks after the k-th are taken away.
LEMMA RestorableCut ==
    ASSUME NEW us, NEW g, NEW ms, NEW bf, Restorable(us, g, ms, bf, Len(us)), Len(bf) = Len(ms),
           NEW k \in 0 .. Len(ms)
    PROVE  Restorable(us, g, SubSeq(ms, 1, k), SubSeq(bf, 1, Min({k + 1, Len(bf)})),
                      IF k < Len(ms) THEN ms[k + 1].len ELSE Len(us))
<1> DEFINE n == Len(us)
           d == Len(ms)
           m == Min({k + 1, Len(bf)})
           fl == IF k < d THEN ms[k + 1].len ELSE n
           ns == SubSeq(ms, 1, k)
           cf == SubSeq(bf, 1, m)
<1>1. Listed(us) /\ Listed(ms) /\ Listed(bf) /\ n \in Nat /\ d \in Nat BY LengthIs DEF Restorable
<1>2. PICK gs : Past(us, g, gs) /\ Marked(ms, bf, n, gs) BY DEF Restorable
<1>3. m = IF k < d THEN k + 1 ELSE k
  <2> DEFINE P == {k + 1, Len(bf)}
             v == IF k < d THEN k + 1 ELSE k
  <2>1. v \in P /\ (\A y \in P : v <= y) /\ \A w \in P : (\A y \in P : w <= y) => w = v BY <1>1
  <2>2. m = CHOOSE x \in P : \A y \in P : x <= y BY DEF Min
  <2> HIDE DEF P, v
  <2>3. m = v BY <2>1, <2>2
  <2> QED BY <2>3 DEF v
<1> HIDE DEF m
<1>4. m \in 0 .. Len(bf) /\ k \in Nat BY <1>1, <1>3
<1>5. Listed(ns) /\ Len(ns) = k /\ \A i \in 1 .. k : ns[i] = ms[i] BY <1>1, ListCut
<1>6. Listed(cf) /\ Len(cf) = m /\ \A i \in 1 .. m : cf[i] = bf[i] BY <1>1, <1>4, ListCut
<1> HIDE DEF n, d, ns, cf
<1>7. /\ \A i \in 1 .. d : ms[i].len \in 0 .. n /\ bf[i] = gs[ms[i].len + 1]
      /\ \A i, j \in 1 .. d : i <= j => ms[i].len <= ms[j].len
      /\ IF d = 0 THEN n = 0 ELSE ms[1].len = 0
  BY <1>2 DEF Marked, d, n
<1>8. fl \in 0 .. n
  <2>1. CASE k < d
    <3>1. k + 1 \in 1 .. d BY <1>1, <1>4, <2>1
    <3> QED BY <1>7, <2>1, <3>1
  <2>2. CASE ~(k < d) BY <1>1, <2>2
  <2> QED BY <2>1, <2>2
<1>9. Marked(ns, cf, fl, gs)
  <2>1. ASSUME NEW i \in 1 .. k PROVE ns[i].len \in 0 .. fl /\ cf[i] = gs[ns[i].len + 1]
    <3>1. i \in 1 .. d /\ i \in 1 .. m BY <1>1, <1>3, <1>4, <2>1 DEF d
    <3>2. ns[i] = ms[i] /\ cf[i] = bf[i] BY <1>5, <1>6, <3>1
    <3>3. ms[i].len \in 0 .. n /\ bf[i] = gs[ms[i].len + 1] BY <1>7, <3>1
    <3>4. CASE k < d
      <4>1. k + 1 \in 1 .. d /\ i <= k + 1 BY <1>1, <1>4, <3>4
      <4>2. ms[i].len <= ms[k + 1].len /\ ms[k + 1].len \in 0 .. n BY <1>7, <3>1, <4>1
      <4>3. ms[i].len \in 0 .. fl BY <3>3, <3>4, <4>2
      <4> QED BY <3>2, <3>3, <4>3
    <3>5. CASE ~(k < d) BY <3>2, <3>3, <3>5
    <3> QED BY <3>4, <3>5
  <2>2. ASSUME NEW i \in 1 .. k, NEW j \in 1 .. k, i <= j PROVE ns[i].len <= ns[j].len
    <3>1. i \in 1 .. d /\ j \in 1 .. d BY <1>1, <1>4 DEF d
    <3>2. ns[i] = ms[i] /\ ns[j] = ms[j] BY <1>5
    <3> QED BY <1>7, <2>2, <3>1, <3>2
  <2>3. IF k = 0 THEN fl = 0 ELSE ns[1].len = 0
    <3>1. CASE k = 0 /\ k < d
      <4>1. d # 0 /\ k + 1 = 1 BY <1>1, <3>1
      <4> QED BY <1>7, <3>1, <4>1
    <3>2. CASE k = 0 /\ ~(k < d)
      <4>1. d = 0 BY <1>1, <3>2
      <4> QED BY <1>7, <3>2, <4>1
    <3>3. CASE k # 0
      <4>1. d # 0 /\ 1 \in 1 .. k BY <1>1, <1>4, <3>3 DEF d
      <4>2. ns[1] = ms[1] BY <1>5, <4>1
      <4> QED BY <1>7, <3>3, <4>1, <4>2
    <3> QED BY <3>1, <3>2, <3>3
  <2>4. Len(cf) = k \/ (Len(cf) = k + 1 /\ cf[k + 1] = gs[fl + 1])
    <3>1. CASE k < d
      <4>1. k + 1 \in 1 .. d /\ m = k + 1 /\ k + 1 \in 1 .. m BY <1>1, <1>3, <1>4, <3>1
      <4>2. cf[k + 1] = bf[k + 1] /\ bf[k + 1] = gs[ms[k + 1].len + 1] BY <1>6, <1>7, <4>1
      <4> QED BY <1>6, <3>1, <4>1, <4>2
    <3>2. CASE ~(k < d) BY <1>3, <1>6, <3>2
    <3> QED BY <3>1, <3>2
  <2> HIDE DEF fl
  <2> QED BY <1>5, <2>1, <2>2, <2>3, <2>4 DEF Marked
<1> HIDE DEF fl
<1>10. Restorable(us, g, ns, cf, fl) BY <1>1, <1>2, <1>5, <1>6, <1>8, <1>9 DEF Restorable, n
<1> QED BY <1>10 DEF ns, cf, fl, m, d, n

\* A new mark holds the e-graph as it is.
LEMMA RestorableMark ==
    ASSUME NEW us, NEW g, NEW ms, NEW bf, Restorable(us, g, ms, bf, Len(us)), Len(bf) = Len(ms),
           NEW e, e.len = Len(us)
    PROVE  /\ Restorable(us, g, Append(ms, e), Append(bf, g), Len(us))
           /\ Len(Append(bf, g)) = Len(Append(ms, e)) /\ Len(Append(ms, e)) = Len(ms) + 1 /\ Len(ms) \in Nat
<1> DEFINE n == Len(us)
           d == Len(ms)
           ns == Append(ms, e)
           cf == Append(bf, g)
<1>1. Listed(us) /\ Listed(ms) /\ Listed(bf) /\ n \in Nat /\ d \in Nat /\ n \in 0 .. n BY LengthIs DEF Restorable
<1>2. PICK gs : Past(us, g, gs) /\ Marked(ms, bf, n, gs) BY DEF Restorable
<1>3. Listed(ns) /\ Len(ns) = d + 1 /\ (\A i \in 1 .. d : ns[i] = ms[i]) /\ ns[d + 1] = e BY <1>1, ListAppend
<1>4. Listed(cf) /\ Len(cf) = d + 1 /\ (\A i \in 1 .. d : cf[i] = bf[i]) /\ cf[d + 1] = g BY <1>1, ListAppend
<1>5. gs[n + 1] = g BY <1>2 DEF Past
<1>6. /\ \A i \in 1 .. d : ms[i].len \in 0 .. n /\ bf[i] = gs[ms[i].len + 1]
      /\ \A i, j \in 1 .. d : i <= j => ms[i].len <= ms[j].len
      /\ IF d = 0 THEN n = 0 ELSE ms[1].len = 0
  BY <1>2 DEF Marked
<1>7. e.len = n OBVIOUS
<1> HIDE DEF n, d, ns, cf
<1>8. \A i \in 1 .. d + 1 : i \in 1 .. d \/ i = d + 1 BY <1>1
<1>9. ASSUME NEW i \in 1 .. d + 1 PROVE ns[i].len \in 0 .. n /\ cf[i] = gs[ns[i].len + 1]
  <2>1. CASE i \in 1 .. d BY <1>3, <1>4, <1>6, <2>1
  <2>2. CASE i = d + 1 BY <1>1, <1>3, <1>4, <1>5, <1>7, <2>2
  <2> QED BY <1>8, <2>1, <2>2
<1>10. ASSUME NEW i \in 1 .. d + 1, NEW j \in 1 .. d + 1, i <= j PROVE ns[i].len <= ns[j].len
  <2>1. CASE j = d + 1
    <3>1. ns[j].len = n BY <1>3, <1>7, <2>1
    <3>2. ns[i].len \in 0 .. n BY <1>9
    <3> QED BY <1>1, <3>1, <3>2
  <2>2. CASE j # d + 1
    <3>1. i \in 1 .. d /\ j \in 1 .. d BY <1>1, <1>10, <2>2
    <3> QED BY <1>3, <1>6, <1>10, <3>1
  <2> QED BY <2>1, <2>2
<1>11. ns[1].len = 0
  <2>1. CASE d = 0
    <3>1. ns[1] = e /\ n = 0 BY <1>3, <1>6, <2>1
    <3> QED BY <1>7, <3>1
  <2>2. CASE d # 0
    <3>1. 1 \in 1 .. d BY <1>1, <2>2
    <3> QED BY <1>3, <1>6, <2>2, <3>1
  <2> QED BY <2>1, <2>2
<1>12. Marked(ns, cf, n, gs)
  <2>1. d + 1 # 0 BY <1>1
  <2> QED BY <1>3, <1>4, <1>9, <1>10, <1>11, <2>1 DEF Marked
<1>13. Restorable(us, g, ns, cf, n) BY <1>1, <1>2, <1>3, <1>4, <1>12 DEF Restorable, n
<1> QED BY <1>1, <1>3, <1>4, <1>13 DEF n, d, ns, cf

\* Back at the length fl, the e-graph kept for it is the present one, and is
\* not needed any more.
LEMMA RestorableSettled ==
    ASSUME NEW us, NEW g, NEW ms, NEW bf, Restorable(us, g, ms, bf, Len(us))
    PROVE  /\ Restorable(us, g, ms, SubSeq(bf, 1, Len(ms)), Len(us)) /\ Len(SubSeq(bf, 1, Len(ms))) = Len(ms)
           /\ Len(ms) = 0 => Len(us) = 0
<1> DEFINE n == Len(us)
           d == Len(ms)
           cf == SubSeq(bf, 1, d)
<1>1. Listed(us) /\ Listed(ms) /\ Listed(bf) /\ n \in Nat /\ d \in Nat /\ n \in 0 .. n BY LengthIs DEF Restorable
<1>2. PICK gs : Past(us, g, gs) /\ Marked(ms, bf, n, gs) BY DEF Restorable
<1>4. /\ \A i \in 1 .. d : ms[i].len \in 0 .. n /\ bf[i] = gs[ms[i].len + 1]
      /\ \A i, j \in 1 .. d : i <= j => ms[i].len <= ms[j].len
      /\ IF d = 0 THEN n = 0 ELSE ms[1].len = 0
      /\ Len(bf) = d \/ (Len(bf) = d + 1 /\ bf[d + 1] = gs[n + 1])
  BY <1>2 DEF Marked
<1>5. d \in 0 .. Len(bf) BY <1>1, <1>4
<1>6. Listed(cf) /\ Len(cf) = d /\ \A i \in 1 .. d : cf[i] = bf[i] BY <1>1, <1>5, ListCut
<1> HIDE DEF n, d, cf
<1>8. Marked(ms, cf, n, gs)
  <2>1. \A i \in 1 .. d : ms[i].len \in 0 .. n /\ cf[i] = gs[ms[i].len + 1] BY <1>4, <1>6
  <2> QED BY <1>4, <1>6, <2>1 DEF Marked, d
<1>9. Restorable(us, g, ms, cf, n) BY <1>1, <1>2, <1>6, <1>8 DEF Restorable, n
<1> QED BY <1>4, <1>6, <1>9 DEF n, d, cf

LEMMA RestorableTop ==
    ASSUME NEW us, NEW g, NEW ms, NEW bf, Restorable(us, g, ms, bf, Len(us)), Len(bf) > Len(ms)
    PROVE  bf[Len(ms) + 1] = g
<1>1. Len(ms) \in Nat /\ Len(bf) \in Nat BY LengthIs DEF Restorable
<1>2. PICK gs : Past(us, g, gs) /\ Marked(ms, bf, Len(us), gs) BY DEF Restorable
<1>3. gs[Len(us) + 1] = g BY <1>2 DEF Past
<1>4. Len(bf) = Len(ms) \/ (Len(bf) = Len(ms) + 1 /\ bf[Len(ms) + 1] = gs[Len(us) + 1]) BY <1>2 DEF Marked
<1> QED BY <1>1, <1>3, <1>4

LEMMA RestorableRight ==
    ASSUME NEW us, NEW g, NEW ms, NEW bf, NEW fl, Restorable(us, g, ms, bf, fl)
    PROVE  Right(g) /\ Len(us) \in Nat /\ Len(ms) \in Nat /\ fl \in 0 .. Len(us) /\ (Len(us) = 0 => us = <<>>)
           /\ (Len(ms) = 0 => fl = 0 /\ ms = <<>>)
<1>1. Len(us) \in Nat /\ Len(ms) \in Nat /\ Listed(us) /\ Listed(ms) /\ fl \in 0 .. Len(us) BY LengthIs DEF Restorable
<1>2. PICK gs : Past(us, g, gs) /\ Marked(ms, bf, fl, gs) BY DEF Restorable
<1>3. Right(g)
  <2>1. Len(us) + 1 \in 1 .. Len(us) + 1 BY <1>1
  <2> QED BY <1>2, <2>1 DEF Past
<1>4. Len(us) = 0 => us = <<>>
  <2>1. PICK S : us \in Seq(S) BY <1>1 DEF Listed
  <2> QED BY <2>1
<1>5. Len(ms) = 0 => fl = 0 BY <1>2 DEF Marked
<1>6. Len(ms) = 0 => ms = <<>>
  <2>1. PICK S : ms \in Seq(S) BY <1>1 DEF Listed
  <2> QED BY <2>1
<1> QED BY <1>1, <1>3, <1>4, <1>5, <1>6

-----------------------------------------------------------------------------
(* The invariant *)

Congruence == [a : Node, b : Node, j : [lit : {0}, p : Node, q : Node]]
Unwinding == {"undo", "drop", "grow"}

\* Down to this length of undo the e-graph is being taken back.
Floor == IF pc \in Unwinding THEN goal ELSE Len(undo)

WorkRight ==
    /\ stage \in DOMAIN Stages
    /\ pending \in Seq(Congruence)
    /\ todo \in Seq(DOMAIN Atoms) /\ (pc = "atom" => todo # <<>>)
    /\ trail \in Seq(Lit) /\ processed \in Nat /\ start \in Nat /\ pos \in Nat

Phases ==
    /\ pc \notin Unwinding => Len(before) = Len(marks)
    /\ pc = "grow" => Len(marks) = 0
    /\ pc \in {"atom", "drain"} => Len(marks) # 0
    /\ pc \in {"undo", "assert", "atom", "drain"} => firstMark \in 0 .. Len(marks)

IInv == WorkRight /\ Phases /\ Restorable(undo, graph, marks, before, Floor)

\* Every parent of the class that moves finds an entry of its new signature.
LEMMA EntryFound ==
    ASSUME NEW tb, Filed(tb), NEW rt, NEW rl, NEW qs \in Seq(Node), NEW i \in DOMAIN qs
    PROVE  /\ Found(TableOf(tb, rt, rl, qs), rl, qs[i]) # {}
           /\ Found(TableOf(tb, rt, rl, qs), rl, qs[i]) \subseteq Node
<1> DEFINE K == KeptOf(tb, rt, qs)
           B == BackOf(tb, rt, rl, qs)
           N == TableOf(tb, rt, rl, qs)
<1>1. N = K \cup {Entry(rl, p) : p \in B} BY DEF TableOf
<1>2. Filed(N) BY TableBack
<1>3. B = Reentered(K, rl, qs) BY DEF BackOf
<1> HIDE DEF K, B, N
<1>4. Found(N, rl, qs[i]) \subseteq Node BY <1>2 DEF Found, Filed
<1>5. CASE Found(K, rl, qs[i]) # {}
  <2>1. K \subseteq N BY <1>1
  <2>2. Found(K, rl, qs[i]) \subseteq Found(N, rl, qs[i]) BY <2>1 DEF Found
  <2> QED BY <1>4, <1>5, <2>2 DEF N
<1>6. CASE Found(K, rl, qs[i]) = {}
  <2> DEFINE T == {h \in DOMAIN qs : Key(rl, qs[h]) = Key(rl, qs[i])}
  <2>1. DOMAIN qs = 1 .. Len(qs) /\ Len(qs) \in Nat OBVIOUS
  <2>2. T \in SUBSET Nat /\ T # {} BY <2>1
  <2>3. PICK g \in T : \A x \in T : g <= x
    <3> HIDE DEF T
    <3> QED BY <2>2, LeastIs
  <2>4. g \in DOMAIN qs /\ Key(rl, qs[g]) = Key(rl, qs[i]) OBVIOUS
  <2>5. Found(K, rl, qs[g]) = {} BY <1>6, <2>4 DEF Found
  <2>6. \A h \in 1 .. (g - 1) : Key(rl, qs[h]) # Key(rl, qs[g])
    <3> SUFFICES ASSUME NEW h \in 1 .. (g - 1), Key(rl, qs[h]) = Key(rl, qs[g]) PROVE FALSE OBVIOUS
    <3>1. h \in DOMAIN qs /\ h < g BY <2>1, <2>4
    <3>2. h \in T BY <2>4, <3>1
    <3> QED BY <2>1, <2>3, <2>4, <3>1, <3>2
  <2>7. qs[g] \in B BY <1>3, <2>4, <2>5, <2>6 DEF Reentered
  <2> DEFINE d == Entry(rl, qs[g])
  <2>8. d \in N BY <1>1, <2>7
  <2>9. d.key = Key(rl, qs[i]) /\ d.app = qs[g] /\ Key(rl, d.app) = Key(rl, qs[i]) BY <2>4 DEF Entry
  <2> HIDE DEF d
  <2>10. d.app \in Found(N, rl, qs[i]) BY <2>8, <2>9 DEF Found
  <2> QED BY <1>4, <2>10 DEF N
<1> QED BY <1>5, <1>6

LEMMA ClashesRight ==
    ASSUME NEW tb, Filed(tb), NEW rt, NEW rl, NEW qs \in Seq(Node)
    PROVE  Clashes(TableOf(tb, rt, rl, qs), rl, qs) \in Seq(Congruence)
<1> DEFINE N == TableOf(tb, rt, rl, qs)
           hits == {i \in DOMAIN qs : \A q \in Found(N, rl, qs[i]) : rl[q] # rl[qs[i]]}
           order == Ascending(hits)
           one(k) == LET p == qs[order[k]]
                         q == CHOOSE e \in Found(N, rl, p) : TRUE
                     IN  [a |-> p, b |-> q, j |-> ByCong(p, q)]
<1>1. \A i \in DOMAIN qs : Found(N, rl, qs[i]) # {} /\ Found(N, rl, qs[i]) \subseteq Node BY EntryFound
<1>2. DOMAIN qs = 1 .. Len(qs) /\ Len(qs) \in Nat /\ \A i \in DOMAIN qs : qs[i] \in Node OBVIOUS
<1>3. hits \in SUBSET (1 .. Len(qs)) /\ hits \subseteq DOMAIN qs BY <1>2
<1>4. Clashes(N, rl, qs) = [k \in DOMAIN order |-> one(k)] BY DEF Clashes
<1> HIDE DEF N, hits
<1>5. order \in Seq(DOMAIN qs) BY <1>2, <1>3, AscendingIn
<1> HIDE DEF order
<1>6. DOMAIN order = 1 .. Len(order) /\ Len(order) \in Nat /\ \A k \in DOMAIN order : order[k] \in DOMAIN qs BY <1>5
<1>7. ASSUME NEW k \in DOMAIN order PROVE one(k) \in Congruence
  <2> DEFINE p == qs[order[k]]
             q == CHOOSE e \in Found(N, rl, p) : TRUE
  <2>1. p \in Node BY <1>2, <1>6
  <2>2. Found(N, rl, p) # {} /\ Found(N, rl, p) \subseteq Node BY <1>1, <1>6
  <2>3. q \in Node BY <2>2
  <2> HIDE DEF p, q
  <2>4. [a |-> p, b |-> q, j |-> ByCong(p, q)] \in Congruence BY <2>1, <2>3 DEF Congruence, ByCong, None
  <2> QED BY <2>4 DEF p, q
<1> HIDE DEF one
<1>8. [k \in DOMAIN order |-> one(k)] \in Seq(Congruence) BY <1>6, <1>7
<1> QED BY <1>4, <1>8 DEF N

LEMMA JoinStep ==
    ASSUME Restorable(undo, graph, marks, before, Len(undo)), Len(before) = Len(marks), Len(marks) # 0,
           NEW a \in Node, NEW b \in Node, NEW j, NEW rest \in Seq(Congruence), root[a] # root[b],
           Join(a, b, j, rest), marks' = marks, before' = before
    PROVE  Restorable(undo', graph', marks', before', Len(undo')) /\ pending' \in Seq(Congruence)
<1> DEFINE u == Recorded(a, b, graph)
           h == Joined(a, b, graph)
<1>1. graph' = h /\ undo' = Append(undo, u) BY JoinIs
<1>2. Right(graph) BY RestorableRight
<1>3. GraphRight(root, next, size, parents, watch, value, cg, target) BY <1>2, GraphIs DEF Right
<1>4. Right(h) /\ Undone(u, h) = graph
  <2>1. graph = <<root, next, size, parents, watch, value, cg, target>> BY GraphIs
  <2>2. LET g == <<root, next, size, parents, watch, value, cg, target>> IN
        Right(Joined(a, b, g)) /\ Undone(Recorded(a, b, g), Joined(a, b, g)) = g
    BY <1>3, JoinBack
  <2> QED BY <2>1, <2>2
<1> HIDE DEF u, h
<1>5. Restorable(Append(undo, u), h, marks, before, Len(Append(undo, u))) BY <1>4, RestorableJoin
<1>6. Restorable(undo', graph', marks', before', Len(undo')) BY <1>1, <1>5
<1>7. pending' \in Seq(Congruence)
  <2> DEFINE rl == Relisted(root, next, root[a], root[b])
             ps == parents[root[a]]
             cl == Clashes(TableOf(cg, root, rl, ps), rl, ps)
  <2>1. pending' = rest \o cl
    BY DEF Join, Relisted, TableOf, KeptOf, BackOf, TakenOf, Taken
  <2>2. root \in [Node -> Node] /\ parents \in [Node -> Seq(Node)] /\ Filed(cg) BY <1>3 DEF GraphRight, Classes
  <2>3. ps \in Seq(Node) BY <2>2
  <2> HIDE DEF rl, ps
  <2>4. cl \in Seq(Congruence) BY <2>2, <2>3, ClashesRight
  <2> HIDE DEF cl
  <2> QED BY <2>1, <2>4
<1> QED BY <1>6, <1>7

LEMMA MergeStep ==
    ASSUME Restorable(undo, graph, marks, before, Len(undo)), Len(before) = Len(marks), Len(marks) # 0,
           NEW a \in Node, NEW b \in Node, NEW j, NEW rest \in Seq(Congruence),
           Merge(a, b, j, rest), marks' = marks, before' = before
    PROVE  Restorable(undo', graph', marks', before', Len(undo')) /\ pending' \in Seq(Congruence)
<1>1. CASE root[a] = root[b]
  <2>1. pending' = rest /\ UNCHANGED <<graph, undo>> BY <1>1 DEF Merge
  <2> QED BY <2>1
<1>2. CASE root[a] # root[b] /\ size[root[a]] > size[root[b]]
  <2>1. Join(b, a, j, rest) BY <1>2 DEF Merge
  <2>2. root[b] # root[a] BY <1>2
  <2> QED BY <2>1, <2>2, JoinStep
<1>3. CASE root[a] # root[b] /\ ~(size[root[a]] > size[root[b]])
  <2>1. Join(a, b, j, rest) BY <1>3 DEF Merge
  <2> QED BY <1>3, <2>1, JoinStep
<1> QED BY <1>1, <1>2, <1>3

LEMMA KeptMarksIn == ASSUME Listed(marks), NEW s PROVE KeptMarks(s) \in 0 .. Len(marks)
<1>1. PICK S : marks \in Seq(S) BY DEF Listed
<1>2. DOMAIN marks = 1 .. Len(marks) /\ Len(marks) \in Nat BY <1>1
<1> DEFINE K == {i \in DOMAIN marks : marks[i].pos <= s}
<1>3. K \subseteq 1 .. Len(marks) BY <1>2
<1>4. IsFiniteSet(1 .. Len(marks)) /\ Cardinality(1 .. Len(marks)) = Len(marks)
  <2>1. Cardinality(1 .. Len(marks)) = IF 1 > Len(marks) THEN 0 ELSE Len(marks) - 1 + 1 BY <1>2, FS_Interval
  <2>2. IsFiniteSet(1 .. Len(marks)) BY <1>2, FS_Interval
  <2> QED BY <1>2, <2>1, <2>2
<1> HIDE DEF K
<1>5. IsFiniteSet(K) /\ Cardinality(K) <= Len(marks) BY <1>3, <1>4, FS_Subset
<1>6. Cardinality(K) \in Nat BY <1>5, FS_CardinalityType
<1>7. Cardinality(K) \in 0 .. Len(marks) BY <1>2, <1>5, <1>6
<1> QED BY <1>7 DEF KeptMarks, K

\* Going back to a mark.
LEMMA RewindStep ==
    ASSUME Restorable(undo, graph, marks, before, Len(undo)), Len(before) = Len(marks),
           NEW k \in 0 .. Len(marks), RewindTo(k), UNCHANGED <<graph, undo>>
    PROVE  Restorable(undo', graph', marks', before', goal') /\ Len(marks') = k
<1>1. marks' = SubSeq(marks, 1, k) /\ before' = SubSeq(before, 1, Min({k + 1, Len(before)}))
      /\ goal' = IF k < Len(marks) THEN marks[k + 1].len ELSE Len(undo)
  BY DEF RewindTo
<1>2. Restorable(undo, graph, marks', before', goal') BY <1>1, RestorableCut
<1>3. Len(marks') = k
  <2>1. Listed(marks) BY DEF Restorable
  <2> QED BY <1>1, <2>1, ListCut
<1> QED BY <1>2, <1>3

-----------------------------------------------------------------------------
(* The invariant holds at first, and every step keeps it *)

LEMMA InvAtFirst == Init => IInv
<1> SUFFICES ASSUME Init PROVE IInv OBVIOUS
<1>1. /\ undo = <<>> /\ marks = <<>> /\ before = <<>> /\ pc = "idle" /\ stage = 1 /\ pending = <<>> /\ todo = <<>>
      /\ trail = <<>> /\ processed = 0 /\ start = 0 /\ pos = 0 /\ firstMark = 0
  BY DEF Init
<1>2. Right(graph) BY RightAtFirst
<1>3. Restorable(<<>>, graph, <<>>, <<>>, 0) BY <1>2, RestorableFirst
<1>4. Floor = 0 BY <1>1 DEF Floor, Unwinding
<1>5. WorkRight BY <1>1, AtomsAre DEF WorkRight
<1>6. Phases BY <1>1 DEF Phases, Unwinding
<1> QED BY <1>1, <1>3, <1>4, <1>5, <1>6 DEF IInv

LEMMA InvUsed ==
    ASSUME IInv
    PROVE  /\ Restorable(undo, graph, marks, before, Floor) /\ Right(graph) /\ WorkRight /\ Phases
           /\ Len(undo) \in Nat /\ Len(marks) \in Nat /\ Listed(undo) /\ Listed(marks) /\ Listed(before)
           /\ (pc \notin Unwinding => Restorable(undo, graph, marks, before, Len(undo)) /\ Len(before) = Len(marks))
           /\ (pc \in Unwinding => Restorable(undo, graph, marks, before, goal) /\ goal \in 0 .. Len(undo))
<1>1. Restorable(undo, graph, marks, before, Floor) /\ WorkRight /\ Phases BY DEF IInv
<1>2. Right(graph) /\ Len(undo) \in Nat /\ Len(marks) \in Nat /\ Floor \in 0 .. Len(undo) BY <1>1, RestorableRight
<1>3. Listed(undo) /\ Listed(marks) /\ Listed(before) BY <1>1 DEF Restorable
<1>4. pc \notin Unwinding => Floor = Len(undo) BY DEF Floor
<1>5. pc \in Unwinding => Floor = goal BY DEF Floor
<1> QED BY <1>1, <1>2, <1>3, <1>4, <1>5 DEF Phases

LEMMA AtomsOfIn ==
    ASSUME WorkRight, NEW v
    PROVE  Ascending(AtomsOf(v)) \in Seq(DOMAIN Atoms) /\ (AtomsOf(v) # {} => Ascending(AtomsOf(v)) # <<>>)
<1>1. KnownAtoms \subseteq DOMAIN Atoms BY AtomsAre DEF WorkRight, KnownAtoms
<1> DEFINE A == AtomsOf(v)
<1>2. A \subseteq DOMAIN Atoms /\ A \in SUBSET (1 .. Len(Atoms)) BY <1>1, AtomsAre DEF AtomsOf
<1> HIDE DEF A
<1>3. Ascending(A) \in Seq(DOMAIN Atoms) /\ (A # {} => Ascending(A) # <<>>) BY <1>2, AtomsAre, AscendingIn
<1> QED BY <1>3 DEF A

LEMMA StageIn ==
    ASSUME stage \in DOMAIN Stages, stage < Len(Stages)
    PROVE  stage + 1 \in DOMAIN Stages
<1>1. Stages \in Seq(Node \X (0 .. Len(Atoms))) BY EufAssumption
<1>2. DOMAIN Stages = 1 .. Len(Stages) /\ Len(Stages) \in Nat BY <1>1
<1> QED BY <1>2

LEMMA ExtendStep == ASSUME IInv, Extend PROVE IInv' /\ stage < Len(Stages)
<1>1. /\ pc = "idle" /\ stage < Len(Stages)
      /\ goal' = IF marks = <<>> THEN Len(undo) ELSE marks[1].len
      /\ marks' = <<>> /\ before' = SubSeq(before, 1, Min({1, Len(before)}))
      /\ processed' = 0 /\ pending' = <<>> /\ pc' = "grow"
      /\ UNCHANGED <<graph, undo, stage, trail, todo, start, pos>>
  BY DEF Extend, envVars, passVars
<1>2. Restorable(undo, graph, marks, before, Len(undo)) /\ Len(before) = Len(marks) /\ WorkRight
      /\ Len(marks) \in Nat /\ Listed(marks)
  BY <1>1, InvUsed DEF Unwinding
<1>3. 0 \in 0 .. Len(marks) /\ 0 + 1 = 1 BY <1>2
<1>4. marks = <<>> <=> ~(0 < Len(marks))
  <2>1. PICK S : marks \in Seq(S) BY <1>2 DEF Listed
  <2> QED BY <2>1
<1>5. SubSeq(marks, 1, 0) = <<>> /\ Len(<<>>) = 0
  <2>1. PICK S : marks \in Seq(S) BY <1>2 DEF Listed
  <2> QED BY <2>1
<1>6. RewindTo(0) BY <1>1, <1>3, <1>4, <1>5 DEF RewindTo
<1>7. Restorable(undo', graph', marks', before', goal') BY <1>1, <1>2, <1>3, <1>6, RewindStep
<1>8. WorkRight' BY <1>1, <1>2 DEF WorkRight
<1>9. Phases' BY <1>1, <1>5 DEF Phases, Unwinding
<1>10. Floor' = goal' BY <1>1 DEF Floor, Unwinding
<1> QED BY <1>1, <1>7, <1>8, <1>9, <1>10 DEF IInv

\* grow is reached by Extend alone: there is a further stage.
Growing == pc = "grow" => stage < Len(Stages)

LEMMA GrowStep == ASSUME IInv, Growing, Grow PROVE IInv'
<1>1. /\ pc = "grow" /\ Len(undo) = goal /\ stage' = stage + 1 /\ before' = <<>> /\ pc' = "idle"
      /\ UNCHANGED <<undo, pending, marks, processed, trail, start, pos, todo>>
  BY DEF Grow, passVars
<1>2. Restorable(undo, graph, marks, before, Len(undo)) /\ WorkRight /\ Right(graph) /\ Len(marks) = 0
  BY <1>1, InvUsed DEF Unwinding, Phases
<1>3. Len(undo) = 0 BY <1>2, RestorableSettled
<1>4. undo = <<>> /\ marks = <<>> BY <1>2, <1>3, RestorableRight
<1>5. Right(graph') BY <1>2, RightGrown
<1>6. Restorable(<<>>, graph', <<>>, <<>>, 0) BY <1>5, RestorableFirst
<1>7. Floor' = 0 BY <1>1, <1>3 DEF Floor, Unwinding
<1>8. stage' \in DOMAIN Stages BY <1>1, <1>2, StageIn DEF Growing, WorkRight
<1>9. WorkRight' BY <1>1, <1>2, <1>8 DEF WorkRight
<1>10. Phases' BY <1>1, <1>4 DEF Phases, Unwinding
<1> QED BY <1>1, <1>4, <1>6, <1>7, <1>9, <1>10 DEF IInv

LEMMA UndoStep == ASSUME IInv, UndoMerge PROVE IInv'
<1>1. /\ pc \in Unwinding /\ Len(undo) > goal
      /\ UNCHANGED <<pending, marks, processed, stage, trail, pc, goal, pos, todo, start, firstMark, before>>
  BY DEF UndoMerge, Unwinding, envVars, passVars
<1>2. Restorable(undo, graph, marks, before, goal) /\ WorkRight /\ Phases BY <1>1, InvUsed
<1>3. Restorable(Front(undo), Undone(Last(undo), graph), marks, before, goal) BY <1>1, <1>2, RestorableUndo
<1>4. graph' = Undone(Last(undo), graph) /\ undo' = Front(undo) BY UndoIs
<1>5. Floor' = goal BY <1>1 DEF Floor
<1>6. WorkRight' /\ Phases' BY <1>1, <1>2 DEF WorkRight, Phases
<1> QED BY <1>1, <1>3, <1>4, <1>5, <1>6 DEF IInv

LEMMA StartPassStep ==
    ASSUME IInv, pc = "idle", NEW t \in Trails, NEW s \in 0 .. MaxTrail, StartPass(t, s)
    PROVE  IInv'
<1>1. Restorable(undo, graph, marks, before, Len(undo)) /\ Len(before) = Len(marks) /\ WorkRight
      /\ Len(marks) \in Nat /\ Listed(marks) /\ Len(undo) \in Nat
  BY InvUsed DEF Unwinding
<1>2. /\ trail' = t /\ pending' = <<>> /\ start' = processed' /\ firstMark' = Len(marks') /\ pos' = processed'
      /\ pc' = "undo" /\ UNCHANGED <<graph, undo, stage, todo>>
  BY DEF StartPass
<1>3. Restorable(undo', graph', marks', before', goal') /\ Len(marks') \in Nat /\ processed' \in Nat
  <2>1. CASE s < processed
    <3>1. RewindTo(KeptMarks(s)) /\ processed' = s BY <2>1 DEF StartPass
    <3>2. KeptMarks(s) \in 0 .. Len(marks) BY <1>1, KeptMarksIn
    <3>3. Restorable(undo', graph', marks', before', goal') /\ Len(marks') = KeptMarks(s)
      BY <1>1, <1>2, <3>1, <3>2, RewindStep
    <3>4. s \in Nat BY EufAssumption
    <3> QED BY <1>1, <3>1, <3>2, <3>3, <3>4
  <2>2. CASE ~(s < processed)
    <3>1. goal' = Len(undo) /\ UNCHANGED <<marks, before, processed>> BY <2>2 DEF StartPass
    <3>2. Restorable(undo', graph', marks', before', goal') BY <1>1, <1>2, <3>1
    <3> QED BY <1>1, <3>1, <3>2 DEF WorkRight
  <2> QED BY <2>1, <2>2
<1>4. t \in Seq(Lit)
  <2>1. t \in BoundedSeq(Lit, MaxTrail) BY DEF Trails
  <2>2. PICK m \in 0 .. MaxTrail : t \in [1 .. m -> Lit] BY <2>1 DEF BoundedSeq, SeqOf
  <2>3. m \in Nat BY EufAssumption
  <2> QED BY <2>2, <2>3
<1>5. WorkRight'
  <2>1. trail' \in Seq(Lit) /\ start' \in Nat /\ pos' \in Nat /\ processed' \in Nat BY <1>2, <1>3, <1>4
  <2>2. pending' \in Seq(Congruence) BY <1>2
  <2> QED BY <1>1, <1>2, <2>1, <2>2 DEF WorkRight
<1>6. Phases'
  <2>1. firstMark' \in 0 .. Len(marks') BY <1>2, <1>3
  <2> QED BY <1>2, <2>1 DEF Phases, Unwinding
<1>7. Floor' = goal' BY <1>2 DEF Floor, Unwinding
<1> QED BY <1>2, <1>3, <1>5, <1>6, <1>7 DEF IInv

\* The e-graph is back: the pass asserts, or it is over.
LEMMA SettleStep ==
    ASSUME IInv, pc \in {"undo", "drop"}, Len(undo) = goal, before' = SubSeq(before, 1, Len(marks)),
           pc' = "idle" \/ (pc' = "assert" /\ pc = "undo"),
           UNCHANGED <<graph, undo, pending, marks, processed, stage, trail, pos, todo, start, firstMark>>
    PROVE  IInv'
<1>1. Restorable(undo, graph, marks, before, Len(undo)) /\ WorkRight /\ Phases BY InvUsed DEF Unwinding
<1>2. Restorable(undo, graph, marks, before', Len(undo)) /\ Len(before') = Len(marks) BY <1>1, RestorableSettled
<1>3. Floor' = Len(undo) BY DEF Floor, Unwinding
<1>4. WorkRight' BY <1>1 DEF WorkRight
<1>5. Phases' BY <1>1, <1>2 DEF Phases, Unwinding
<1> QED BY <1>2, <1>3, <1>4, <1>5 DEF IInv

LEMMA AssertLiteralStep == ASSUME IInv, AssertLiteral PROVE IInv'
<1>1. /\ pc = "assert" /\ Relevant(pos) # {} /\ pos' = Min(Relevant(pos))
      /\ marks' = Append(marks, [pos |-> pos', len |-> Len(undo)]) /\ before' = Append(before, graph)
      /\ todo' = Ascending(AtomsOf(VarOf(trail[pos']))) /\ pc' = "atom"
      /\ UNCHANGED <<graph, undo, pending, processed, stage, trail, start, firstMark>>
  BY DEF AssertLiteral, envVars, passVars
<1>2. Restorable(undo, graph, marks, before, Len(undo)) /\ Len(before) = Len(marks) /\ WorkRight /\ Phases
  BY <1>1, InvUsed DEF Unwinding
<1>3. pos' \in Relevant(pos) /\ pos' \in Nat
  <2> DEFINE R == Relevant(pos)
  <2>1. pos \in Nat /\ trail \in Seq(Lit) BY <1>2 DEF WorkRight
  <2>2. R \in SUBSET Nat
    <3>1. \A i \in (pos + 1) .. Len(trail) : i \in Nat BY <2>1
    <3> QED BY <3>1 DEF Relevant
  <2>3. pos' = CHOOSE x \in R : \A y \in R : x <= y BY <1>1 DEF Min
  <2> HIDE DEF R
  <2>4. \E m \in R : \A y \in R : m <= y BY <1>1, <2>2, LeastIs DEF R
  <2>5. pos' \in R BY <2>3, <2>4
  <2> QED BY <2>2, <2>5 DEF R
<1>4. AtomsOf(VarOf(trail[pos'])) # {} BY <1>3 DEF Relevant
<1>5. todo' \in Seq(DOMAIN Atoms) /\ todo' # <<>> BY <1>1, <1>2, <1>4, AtomsOfIn
<1> DEFINE e == [pos |-> pos', len |-> Len(undo)]
<1>6. e.len = Len(undo) OBVIOUS
<1>7. marks' = Append(marks, e) BY <1>1
<1> HIDE DEF e
<1>8. Restorable(undo, graph, marks', before', Len(undo)) /\ Len(before') = Len(marks')
      /\ Len(marks') = Len(marks) + 1 /\ Len(marks) \in Nat
  BY <1>1, <1>2, <1>6, <1>7, RestorableMark
<1>9. Floor' = Len(undo) BY <1>1 DEF Floor, Unwinding
<1>10. WorkRight' BY <1>1, <1>2, <1>3, <1>5 DEF WorkRight
<1>11. Phases'
  <2>1. firstMark \in 0 .. Len(marks) BY <1>1, <1>2 DEF Phases
  <2>2. firstMark \in 0 .. Len(marks') /\ Len(marks') # 0 BY <1>8, <2>1
  <2> QED BY <1>1, <1>8, <2>2 DEF Phases, Unwinding
<1> QED BY <1>1, <1>8, <1>9, <1>10, <1>11 DEF IInv

\* The steps of an atom and of a congruence merge, or leave the e-graph alone.
LEMMA MergesStep ==
    ASSUME IInv, pc \in {"atom", "drain"}, pc' = "drain",
           Restorable(undo', graph', marks', before', Len(undo')) /\ pending' \in Seq(Congruence),
           todo' \in Seq(DOMAIN Atoms),
           UNCHANGED <<marks, processed, stage, trail, pos, start, firstMark, before>>
    PROVE  IInv'
<1>1. Len(before) = Len(marks) /\ WorkRight /\ Phases BY InvUsed DEF Unwinding
<1>2. Floor' = Len(undo') BY DEF Floor, Unwinding
<1>3. WorkRight' BY <1>1 DEF WorkRight
<1>4. Phases' BY <1>1 DEF Phases, Unwinding
<1> QED BY <1>2, <1>3, <1>4 DEF IInv

LEMMA AtomStep ==
    ASSUME IInv, AssertEquality \/ AssertDisequality \/ AssertPredicate
    PROVE  IInv'
<1>1. /\ pc = "atom" /\ todo' = Tail(todo) /\ pc' = "drain"
      /\ UNCHANGED <<marks, processed, stage, trail, pos, start, firstMark, before>>
  BY DEF AssertEquality, AssertDisequality, AssertPredicate, TakeAtom, envVars, passVars
<1>2. Restorable(undo, graph, marks, before, Len(undo)) /\ Len(before) = Len(marks) /\ WorkRight /\ Phases
  BY <1>1, InvUsed DEF Unwinding
<1>3. Len(marks) # 0 /\ todo \in Seq(DOMAIN Atoms) /\ todo # <<>> /\ pending \in Seq(Congruence)
  BY <1>1, <1>2 DEF Phases, WorkRight
<1>4. Tail(todo) \in Seq(DOMAIN Atoms) /\ Head(todo) \in DOMAIN Atoms BY <1>3
<1> DEFINE atom == Atoms[Head(todo)]
<1>5. atom.x \in Node /\ atom.y \in Node BY <1>4, AtomsAre
<1>6. TrueNode \in Node /\ FalseNode \in Node BY EufAssumption DEF Node, TrueNode, FalseNode
<1>7. Restorable(undo', graph', marks', before', Len(undo')) /\ pending' \in Seq(Congruence)
  <2>1. CASE AssertEquality
    <3>1. Merge(atom.x, atom.y, ByLit(trail[pos]), pending) BY <2>1 DEF AssertEquality
    <3> HIDE DEF atom
    <3> QED BY <1>1, <1>2, <1>3, <1>5, <3>1, MergeStep
  <2>2. CASE AssertDisequality
    <3>1. UNCHANGED <<graph, undo, pending>> BY <2>2 DEF AssertDisequality
    <3> QED BY <1>1, <1>2, <1>3, <3>1
  <2>3. CASE AssertPredicate
    <3> DEFINE side == IF trail[pos] = atom.lit THEN TrueNode ELSE FalseNode
    <3>1. Merge(atom.x, side, ByLit(trail[pos]), pending) BY <2>3 DEF AssertPredicate
    <3>2. side \in Node BY <1>6
    <3> HIDE DEF atom, side
    <3> QED BY <1>1, <1>2, <1>3, <1>5, <3>1, <3>2, MergeStep
  <2> QED BY <2>1, <2>2, <2>3
<1>8. pc \in {"atom", "drain"} /\ todo' \in Seq(DOMAIN Atoms) BY <1>1, <1>4
<1> QED BY <1>1, <1>7, <1>8, MergesStep

LEMMA MergeCongruentStep == ASSUME IInv, MergeCongruent PROVE IInv'
<1> DEFINE c == Last(pending)
<1>1. /\ pc = "drain" /\ pending # <<>> /\ Merge(c.a, c.b, c.j, Rest)
      /\ UNCHANGED <<marks, processed, stage, trail, pc, pos, todo, start, firstMark, before>>
  BY DEF MergeCongruent, envVars, passVars
<1>2. Restorable(undo, graph, marks, before, Len(undo)) /\ Len(before) = Len(marks) /\ WorkRight /\ Phases
  BY <1>1, InvUsed DEF Unwinding
<1>3. Len(marks) # 0 /\ todo \in Seq(DOMAIN Atoms) /\ pending \in Seq(Congruence)
  BY <1>1, <1>2 DEF Phases, WorkRight
<1>4. c \in Congruence /\ Rest \in Seq(Congruence)
  <2>1. Len(pending) \in 1 .. Len(pending) /\ Len(pending) - 1 \in 0 .. Len(pending) BY <1>1, <1>3
  <2>2. pending[Len(pending)] \in Congruence /\ SubSeq(pending, 1, Len(pending) - 1) \in Seq(Congruence) BY <1>3, <2>1
  <2> QED BY <2>2 DEF Last, Front, Rest
<1>5. c.a \in Node /\ c.b \in Node BY <1>4 DEF Congruence
<1> HIDE DEF c
<1>6. Restorable(undo', graph', marks', before', Len(undo')) /\ pending' \in Seq(Congruence)
  BY <1>1, <1>2, <1>3, <1>4, <1>5, MergeStep
<1>7. pc \in {"atom", "drain"} /\ pc' = "drain" /\ todo' \in Seq(DOMAIN Atoms) BY <1>1, <1>3
<1> QED BY <1>1, <1>6, <1>7, MergesStep

LEMMA DrainedStep == ASSUME IInv, Drained PROVE IInv'
<1>1. /\ pc = "drain" /\ pc' = IF todo = <<>> THEN "assert" ELSE "atom"
      /\ UNCHANGED <<graph, undo, pending, marks, processed, stage, trail, pos, todo, start, firstMark, before>>
  BY DEF Drained, envVars, passVars
<1>2. Restorable(undo, graph, marks, before, Len(undo)) /\ Len(before) = Len(marks) /\ WorkRight /\ Phases
  BY <1>1, InvUsed DEF Unwinding
<1>3. Floor' = Len(undo) BY <1>1 DEF Floor, Unwinding
<1>4. WorkRight' BY <1>1, <1>2 DEF WorkRight
<1>5. Phases' BY <1>1, <1>2 DEF Phases, Unwinding
<1> QED BY <1>1, <1>2, <1>3, <1>4, <1>5 DEF IInv

LEMMA AnswerConflictStep == ASSUME IInv, AnswerConflict PROVE IInv'
<1>1. /\ pc = "drain" /\ RewindTo(firstMark) /\ processed' = start /\ pending' = <<>> /\ todo' = <<>> /\ pc' = "drop"
      /\ UNCHANGED <<graph, undo, stage, trail, pos, start, firstMark>>
  BY DEF AnswerConflict, DropPass, envVars, passVars
<1>2. Restorable(undo, graph, marks, before, Len(undo)) /\ Len(before) = Len(marks) /\ WorkRight /\ Phases
  BY <1>1, InvUsed DEF Unwinding
<1>3. firstMark \in 0 .. Len(marks) BY <1>1, <1>2 DEF Phases
<1>4. Restorable(undo', graph', marks', before', goal') BY <1>1, <1>2, <1>3, RewindStep
<1>5. Floor' = goal' BY <1>1 DEF Floor, Unwinding
<1>6. WorkRight' BY <1>1, <1>2 DEF WorkRight
<1>7. Phases' BY <1>1 DEF Phases, Unwinding
<1> QED BY <1>4, <1>5, <1>6, <1>7 DEF IInv

LEMMA AnswerStep == ASSUME IInv, AnswerImplied \/ MirrorLog PROVE IInv'
<1>1. /\ pc \in {"assert", "mirror"} /\ pc' \in {"mirror", "idle"}
      /\ UNCHANGED <<graph, undo, pending, marks, stage, trail, pos, todo, start, firstMark, before>>
  BY DEF AnswerImplied, MirrorLog, envVars, passVars
<1>2. Restorable(undo, graph, marks, before, Len(undo)) /\ Len(before) = Len(marks) /\ WorkRight /\ Phases
  BY <1>1, InvUsed DEF Unwinding
<1>3. processed' \in Nat
  <2>1. trail \in Seq(Lit) /\ processed \in Nat BY <1>2 DEF WorkRight
  <2>2. processed' = Len(trail) \/ processed' = processed BY DEF AnswerImplied, MirrorLog
  <2> QED BY <2>1, <2>2
<1>4. Floor' = Len(undo) BY <1>1 DEF Floor, Unwinding
<1>5. WorkRight' BY <1>1, <1>2, <1>3 DEF WorkRight
<1>6. Phases' BY <1>1, <1>2 DEF Phases, Unwinding
<1> QED BY <1>1, <1>2, <1>4, <1>5, <1>6 DEF IInv

LEMMA InvStep == ASSUME IInv, Growing, [Next]_vars PROVE IInv' /\ Growing'
<1>1. CASE Extend
  <2>1. pc' = "grow" /\ stage' = stage BY <1>1 DEF Extend, envVars
  <2> QED BY <1>1, <2>1, ExtendStep DEF Growing
<1>2. CASE pc = "idle" /\ \E t \in Trails, s \in 0 .. MaxTrail : StartPass(t, s)
  <2>1. PICK t \in Trails, s \in 0 .. MaxTrail : StartPass(t, s) BY <1>2
  <2>2. pc' = "undo" BY <2>1 DEF StartPass
  <2> QED BY <1>2, <2>1, <2>2, StartPassStep DEF Growing
<1>3. CASE UndoMerge
  <2>1. pc' = pc /\ stage' = stage BY <1>3 DEF UndoMerge, envVars
  <2> QED BY <1>3, <2>1, UndoStep DEF Growing
<1>4. CASE Rewound
  <2>1. /\ pc = "undo" /\ Len(undo) = goal /\ pc' = "assert" /\ before' = SubSeq(before, 1, Len(marks))
        /\ UNCHANGED <<graph, undo, pending, marks, processed, stage, trail, pos, todo, start, firstMark>>
    BY <1>4 DEF Rewound, envVars, passVars
  <2>2. IInv' BY <2>1, SettleStep
  <2> QED BY <2>1, <2>2 DEF Growing
<1>5. CASE Grow
  <2>1. pc' = "idle" BY <1>5 DEF Grow
  <2> QED BY <1>5, <2>1, GrowStep DEF Growing
<1>6. CASE AssertLiteral
  <2>1. pc' = "atom" BY <1>6 DEF AssertLiteral
  <2> QED BY <1>6, <2>1, AssertLiteralStep DEF Growing
<1>7. CASE AssertEquality \/ AssertDisequality \/ AssertPredicate
  <2>1. pc' = "drain" BY <1>7 DEF AssertEquality, AssertDisequality, AssertPredicate, TakeAtom
  <2> QED BY <1>7, <2>1, AtomStep DEF Growing
<1>8. CASE MergeCongruent
  <2>1. pc' = "drain" BY <1>8 DEF MergeCongruent
  <2> QED BY <1>8, <2>1, MergeCongruentStep DEF Growing
<1>9. CASE Drained
  <2>1. pc' \in {"assert", "atom"} BY <1>9 DEF Drained
  <2> QED BY <1>9, <2>1, DrainedStep DEF Growing
<1>10. CASE AnswerConflict
  <2>1. pc' = "drop" BY <1>10 DEF AnswerConflict
  <2> QED BY <1>10, <2>1, AnswerConflictStep DEF Growing
<1>11. CASE Dropped
  <2>1. /\ pc = "drop" /\ Len(undo) = goal /\ pc' = "idle" /\ before' = SubSeq(before, 1, Len(marks))
        /\ UNCHANGED <<graph, undo, pending, marks, processed, stage, trail, pos, todo, start, firstMark>>
    BY <1>11 DEF Dropped, envVars, passVars
  <2>2. IInv' BY <2>1, SettleStep
  <2> QED BY <2>1, <2>2 DEF Growing
<1>12. CASE AnswerImplied \/ MirrorLog
  <2>1. pc' \in {"mirror", "idle"} BY <1>12 DEF AnswerImplied, MirrorLog
  <2> QED BY <1>12, <2>1, AnswerStep DEF Growing
<1>13. CASE UNCHANGED vars
  <2>1. /\ UNCHANGED <<graph, undo, pending, marks, processed, stage, trail, pos, todo, start, firstMark, before, pc, goal>>
    BY <1>13 DEF vars, envVars, passVars
  <2>2. IInv' BY <2>1 DEF IInv, WorkRight, Phases, Floor
  <2> QED BY <2>1, <2>2 DEF Growing
<1> QED BY <1>1, <1>2, <1>3, <1>4, <1>5, <1>6, <1>7, <1>8, <1>9, <1>10, <1>11, <1>12, <1>13 DEF Next, PassStep

\* Whatever literals were asserted, merged and closed under congruence, and
\* however far a pass goes back, undo_to restores the e-graph that stood before
\* the literal: classes, member lists, sizes, parents, watches, values, the
\* congruence table and the proof forest (undo_to, propagate, extend).
THEOREM UndoIsExact == Spec => []UndoExact
<1>1. Init => IInv /\ Growing
  <2>1. Init => Growing BY DEF Init, Growing
  <2> QED BY <2>1, InvAtFirst
<1>2. IInv /\ Growing /\ [Next]_vars => (IInv /\ Growing)'
  <2> SUFFICES ASSUME IInv, Growing, [Next]_vars PROVE IInv' /\ Growing' OBVIOUS
  <2> QED BY InvStep
<1>3. IInv /\ Growing => UndoExact
  <2> SUFFICES ASSUME IInv, pc \in {"undo", "drop", "grow"}, Len(undo) = goal, Len(before) > Len(marks)
               PROVE  graph = before[Len(marks) + 1]
    BY DEF UndoExact
  <2>1. Restorable(undo, graph, marks, before, Len(undo)) BY InvUsed DEF Unwinding
  <2>2. before[Len(marks) + 1] = graph BY <2>1, RestorableTop
  <2> QED BY <2>2
<1> QED BY <1>1, <1>2, <1>3, PTL DEF Spec
=============================================================================
