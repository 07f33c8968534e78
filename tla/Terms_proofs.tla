------------------------------ MODULE Terms_proofs ------------------------------
(***************************************************************************)
(* What the manager of terms promises: for every set of nodes, every hash  *)
(* and every number of buckets equal contents are never created twice; a   *)
(* walk leaves every node once and after its children; and a copy into     *)
(* another manager says what its source says and shares what it shares.    *)
(***************************************************************************)
EXTENDS AstTranslation, FiniteSetTheorems, SequenceTheorems, WellFoundedInduction, TLAPS

\* The table by itself: what the lookup of intern relies on.
TableTyped ==
    /\ nodes \in Seq(ContentsUpTo(MaxNodes)) /\ Len(nodes) <= MaxNodes
    /\ slots \in Nat \ {0} /\ buckets \in [0 .. slots - 1 -> SUBSET Ids]

TableSound == TableTyped /\ Bucketed /\ HashConsed

-----------------------------------------------------------------------------

\* Contents over fewer nodes are contents.
LEMMA ContentsGrow ==
    ASSUME NEW low \in Nat, NEW high \in Nat, low <= high
    PROVE  ContentsUpTo(low) \subseteq ContentsUpTo(high)
<1>1. SUFFICES ASSUME NEW n \in ContentsUpTo(low) PROVE n \in ContentsUpTo(high)
  OBVIOUS
<1>2. PICK h \in Heads : n \in {<<h, args>> : args \in [1 .. Arity[h] -> 1 .. low]}
  BY <1>1 DEF ContentsUpTo
<1>3. PICK args \in [1 .. Arity[h] -> 1 .. low] : n = <<h, args>>
  BY <1>2
<1>4. args \in [1 .. Arity[h] -> 1 .. high]
  <2>1. 1 .. low \subseteq 1 .. high
    OBVIOUS
  <2>2. QED BY <1>3, <2>1
<1>5. QED BY <1>3, <1>4 DEF ContentsUpTo

\* A bucket number is one of the table's.
LEMMA BucketInTable ==
    ASSUME NEW n \in ContentsUpTo(MaxNodes), NEW size \in Nat \ {0}
    PROVE  BucketOf(n, size) \in 0 .. size - 1
<1>1. Hash(n) \in Nat
  BY AstAssumption
<1>2. QED BY <1>1 DEF BucketOf

\* An id whose content is looked for is in the one bucket that is searched.
LEMMA LookupFinds ==
    ASSUME TableTyped, Bucketed, NEW n \in ContentsUpTo(MaxNodes)
    PROVE  Same(n) = {i \in Ids : nodes[i] = n}
<1>1. BucketOf(n, slots) \in DOMAIN buckets
  BY BucketInTable DEF TableTyped
<1>2. buckets[BucketOf(n, slots)] = {i \in Ids : BucketOf(nodes[i], slots) = BucketOf(n, slots)}
  BY <1>1 DEF Bucketed
<1>3. QED BY <1>2 DEF Same

\* A node that was not there is created: the table keeps its order.
LEMMA CreateKeeps ==
    ASSUME TableSound, NEW n \in ContentsUpTo(MaxNodes), Len(nodes) < MaxNodes,
           Same(n) = {}, Create(n)
    PROVE  TableSound'
<1> DEFINE new == Len(nodes) + 1
<1>1. nodes' = Append(nodes, n) /\ nodes \in Seq(ContentsUpTo(MaxNodes)) /\ MaxNodes \in Nat
  BY AstAssumption DEF TableSound, TableTyped, Create
<1>2. /\ nodes' \in Seq(ContentsUpTo(MaxNodes)) /\ Len(nodes') = new /\ Len(nodes) \in Nat
      /\ nodes'[new] = n
      /\ \A i \in 1 .. Len(nodes) : nodes'[i] = nodes[i]
  BY <1>1
<1>3. Ids' = Ids \cup {new} /\ new \notin Ids
  BY <1>2 DEF Ids
<1>4. \A i \in Ids : nodes[i] \in ContentsUpTo(MaxNodes)
  BY <1>1 DEF Ids
<1>5. HashConsed'
  <2>1. \A i \in Ids : nodes[i] # n
    BY LookupFinds DEF TableSound
  <2>2. SUFFICES ASSUME NEW i \in Ids', NEW j \in Ids', nodes'[i] = nodes'[j] PROVE i = j
    BY DEF HashConsed
  <2>3. CASE i \in Ids /\ j \in Ids
    BY <2>2, <2>3, <1>2 DEF TableSound, HashConsed, Ids
  <2>4. CASE i = new \/ j = new
    BY <2>1, <2>2, <2>4, <1>2, <1>3 DEF Ids
  <2>5. QED BY <2>3, <2>4, <1>3
<1>6. TableTyped' /\ Bucketed'
  <2>1. CASE Len(nodes) + 1 > slots * 2
    <3>1. slots' = slots * 2 /\ buckets' = Rehashed(nodes', slots * 2)
      BY <2>1 DEF Create
    <3>2. slots' \in Nat \ {0}
      BY <3>1 DEF TableSound, TableTyped
    <3>3. buckets' = [b \in 0 .. slots' - 1 |-> {i \in Ids' : BucketOf(nodes'[i], slots') = b}]
      BY <3>1, <1>2 DEF Rehashed, Ids
    <3>4. QED BY <3>2, <3>3, <1>2 DEF TableTyped, Bucketed
  <2>2. CASE ~(Len(nodes) + 1 > slots * 2)
    <3>1. /\ slots' = slots
          /\ buckets' = [buckets EXCEPT ![BucketOf(n, slots)] = @ \cup {new}]
      BY <2>2 DEF Create
    <3>2. BucketOf(n, slots) \in 0 .. slots - 1
      BY BucketInTable DEF TableSound, TableTyped
    <3>3. buckets \in [0 .. slots - 1 -> SUBSET Ids] /\ slots \in Nat \ {0}
      BY DEF TableSound, TableTyped
    <3>4. buckets' \in [0 .. slots - 1 -> SUBSET Ids']
      BY <3>1, <3>2, <3>3, <1>3
    <3>5. ASSUME NEW b \in 0 .. slots - 1
          PROVE  buckets'[b] = {i \in Ids' : BucketOf(nodes'[i], slots) = b}
      <4>1. buckets[b] = {i \in Ids : BucketOf(nodes[i], slots) = b}
        BY <3>3 DEF TableSound, Bucketed
      <4>2. \A i \in Ids : BucketOf(nodes'[i], slots) = BucketOf(nodes[i], slots)
        BY <1>2 DEF Ids
      <4>3. CASE b = BucketOf(n, slots)
        <5>1. buckets'[b] = buckets[b] \cup {new}
          BY <3>1, <3>3, <4>3
        <5>2. QED BY <5>1, <4>1, <4>2, <4>3, <1>2, <1>3
      <4>4. CASE b # BucketOf(n, slots)
        <5>1. buckets'[b] = buckets[b]
          BY <3>1, <3>3, <4>4
        <5>2. QED BY <5>1, <4>1, <4>2, <4>4, <1>2, <1>3
      <4>5. QED BY <4>3, <4>4
    <3>6. Bucketed'
      <4>1. DOMAIN buckets' = 0 .. slots - 1
        BY <3>4
      <4>2. QED BY <4>1, <3>1, <3>5 DEF Bucketed
    <3>7. TableTyped'
      <4>1. Len(nodes') <= MaxNodes
        BY <1>1, <1>2
      <4>2. QED BY <4>1, <3>1, <3>3, <3>4, <1>2 DEF TableTyped
    <3>8. QED BY <3>6, <3>7
  <2>3. QED BY <2>1, <2>2
<1>7. QED BY <1>5, <1>6 DEF TableSound

\* A new manager's table is in order.
LEMMA InitSound == Init => TableSound
<1> SUFFICES ASSUME Init PROVE TableSound
  OBVIOUS
<1>1. nodes = <<>> /\ Ids = {} /\ Len(nodes) = 0
  BY DEF Init, Ids
<1>2. TableTyped
  BY <1>1, AstAssumption DEF Init, TableTyped
<1>3. Bucketed /\ HashConsed
  BY <1>1 DEF Init, Bucketed, HashConsed
<1>4. QED BY <1>2, <1>3 DEF TableSound

\* The table stays as it is: so does what holds of it.
LEMMA SameTable == ASSUME TableSound, UNCHANGED table PROVE TableSound'
  BY DEF table, TableSound, TableTyped, Bucketed, HashConsed, Ids

\* Every step keeps the table in order; walks do not touch it.
LEMMA NextKeeps == TableSound /\ [Next]_vars => TableSound'
<1> SUFFICES ASSUME TableSound, [Next]_vars PROVE TableSound'
  OBVIOUS
<1>1. ASSUME NEW n \in Contents, Intern(n) PROVE TableSound'
  <2>1. n \in ContentsUpTo(MaxNodes)
    <3>1. Len(nodes) \in Nat /\ MaxNodes \in Nat /\ Len(nodes) <= MaxNodes
      BY AstAssumption DEF TableSound, TableTyped
    <3>2. QED BY <1>1, <3>1, ContentsGrow DEF Contents
  <2>2. CASE Same(n) # {}
    BY <1>1, <2>2, SameTable DEF Intern
  <2>3. CASE Same(n) = {}
    BY <1>1, <2>1, <2>3, CreateKeeps DEF Intern
  <2>4. QED BY <2>2, <2>3
<1>2. ASSUME NEW rs, Start(rs) PROVE TableSound'
  BY <1>2, SameTable DEF Start
<1>3. CASE Walk
  <2>1. UNCHANGED table
    BY <1>3 DEF Walk, Skip, Expand, Leave, NextRoot
  <2>2. QED BY <2>1, SameTable
<1>4. CASE UNCHANGED vars
  BY <1>4, SameTable DEF vars
<1>5. QED BY <1>1, <1>2, <1>3, <1>4 DEF Next

\* The table is in order in every behaviour.
THEOREM TableIsSound == Spec => []TableSound
  BY InitSound, NextKeeps, PTL DEF Spec

\* intern (manager.rs:196): identity of ids is identity of terms, for every hash,
\* through every growth of the table.
THEOREM NodesAreHashConsed == Spec => []HashConsed
<1>1. TableSound => HashConsed
  BY DEF TableSound
<1>2. QED BY <1>1, TableIsSound, PTL

\* grow (manager.rs:214): every id is in the bucket of its hash and in no other.
THEOREM BucketsAreExact == Spec => []Bucketed
<1>1. TableSound => Bucketed
  BY DEF TableSound
<1>2. QED BY <1>1, TableIsSound, PTL

-----------------------------------------------------------------------------
(* Walks *)

\* Induction on the naturals, said of a set.
LEMMA NatInductive ==
    ASSUME NEW T, 0 \in T, \A n \in Nat : n \in T => n + 1 \in T
    PROVE  Nat \subseteq T
<1> SUFFICES ASSUME NEW m \in Nat, m \notin T PROVE FALSE
  OBVIOUS
<1> DEFINE F == {0 .. k : k \in Nat \ T}
           R == StrictSubsetOrdering(Nat)
<1>1. IsWellFoundedOn(R, FiniteSubsetsOf(Nat))
  BY FS_StrictSubsetOrderingWellFounded
<1>2. F \subseteq FiniteSubsetsOf(Nat) /\ F # {}
  <2>1. ASSUME NEW k \in Nat \ T PROVE 0 .. k \in FiniteSubsetsOf(Nat)
    <3>1. IsFiniteSet(0 .. k) BY FS_Interval
    <3>2. 0 .. k \in SUBSET Nat OBVIOUS
    <3> QED BY <3>1, <3>2 DEF FiniteSubsetsOf
  <2>2. 0 .. m \in F OBVIOUS
  <2> QED BY <2>1, <2>2
<1>3. \E x \in F : \A y \in F : <<y, x>> \notin R
  <2> HIDE DEF R, F
  <2> QED BY <1>1, <1>2, WFMin
<1>4. PICK k \in Nat \ T : \A j \in Nat \ T : <<0 .. j, 0 .. k>> \notin R
  BY <1>3
<1>5. k # 0 /\ k - 1 \in Nat \ T
  <2>1. k # 0 OBVIOUS
  <2> QED BY <2>1
<1>6. 0 .. (k - 1) \subseteq 0 .. k /\ k \in 0 .. k /\ k \notin 0 .. (k - 1)
  BY <1>5
<1>7. <<0 .. (k - 1), 0 .. k>> \in R
  BY <1>5, <1>6 DEF StrictSubsetOrdering
<1> QED BY <1>4, <1>5, <1>7

\* Sequences and pairs.
LEMMA OneSeq == ASSUME NEW S, NEW e \in S PROVE <<e>> \in Seq(S)
  OBVIOUS

LEMMA FunSeq ==
    ASSUME NEW S, NEW n \in Nat, NEW f \in [1 .. n -> S]
    PROVE  f \in Seq(S) /\ Len(f) = n
<1>1. f \in Seq(S) BY SeqDef
<1>2. DOMAIN f = 1 .. n /\ DOMAIN f = 1 .. Len(f) /\ Len(f) \in Nat BY <1>1, LenProperties
<1> QED BY <1>1, <1>2

LEMMA AppendIs ==
    ASSUME NEW S, NEW s \in Seq(S), NEW e \in S
    PROVE  /\ Append(s, e) \in Seq(S) /\ Len(Append(s, e)) = Len(s) + 1 /\ Len(s) \in Nat
           /\ Append(s, e)[Len(s) + 1] = e
           /\ \A k \in 1 .. Len(s) : Append(s, e)[k] = s[k]
  OBVIOUS

LEMMA SeqRest ==
    ASSUME NEW S, NEW s \in Seq(S), s # <<>>
    PROVE  /\ SubSeq(s, 1, Len(s) - 1) \in Seq(S)
           /\ Len(SubSeq(s, 1, Len(s) - 1)) = Len(s) - 1
           /\ Len(s) \in Nat /\ Len(s) >= 1
           /\ \A k \in 1 .. Len(s) - 1 : SubSeq(s, 1, Len(s) - 1)[k] = s[k]
           /\ s[Len(s)] \in S
<1>1. Len(s) \in Nat /\ Len(s) >= 1 BY EmptySeq
<1>2. \A i \in 1 .. Len(s) - 1 : s[i] \in S BY <1>1, ElementOfSeq
<1>3. s[Len(s)] \in S BY <1>1, ElementOfSeq
<1>4. /\ SubSeq(s, 1, Len(s) - 1) \in Seq(S)
      /\ Len(SubSeq(s, 1, Len(s) - 1)) = IF 1 <= Len(s) - 1 THEN Len(s) - 1 - 1 + 1 ELSE 0
      /\ \A i \in 1 .. Len(s) - 1 - 1 + 1 : SubSeq(s, 1, Len(s) - 1)[i] = s[1 + i - 1]
  BY <1>1, <1>2, SubSeqProperties
<1>5. \A i \in 1 .. Len(s) - 1 : SubSeq(s, 1, Len(s) - 1)[i] = s[i]
  <2>1. Len(s) - 1 - 1 + 1 = Len(s) - 1 /\ \A i \in 1 .. Len(s) - 1 : 1 + i - 1 = i
    BY <1>1
  <2> QED BY <1>4, <2>1
<1>6. Len(SubSeq(s, 1, Len(s) - 1)) = Len(s) - 1
  <2> DEFINE r == SubSeq(s, 1, Len(s) - 1)
             n == Len(s)
  <2>1. Len(r) = IF 1 <= n - 1 THEN n - 1 - 1 + 1 ELSE 0 BY <1>4
  <2> HIDE DEF r
  <2>2. n \in Nat /\ n >= 1 BY <1>1
  <2> HIDE DEF n
  <2>3. Len(r) = n - 1 BY <2>1, <2>2
  <2> QED BY <2>3 DEF r, n
<1> QED BY <1>1, <1>3, <1>4, <1>5, <1>6

LEMMA SeqOver ==
    ASSUME NEW S, NEW r \in Seq(S), NEW t \in Seq(S)
    PROVE  /\ r \o t \in Seq(S) /\ Len(r \o t) = Len(r) + Len(t)
           /\ Len(r) \in Nat /\ Len(t) \in Nat
           /\ \A k \in 1 .. Len(r) : (r \o t)[k] = r[k]
           /\ \A k \in 1 .. Len(t) : (r \o t)[Len(r) + k] = t[k]
<1>1. Len(r) \in Nat /\ Len(t) \in Nat OBVIOUS
<1>2. /\ r \o t \in Seq(S) /\ Len(r \o t) = Len(r) + Len(t)
      /\ \A i \in 1 .. Len(r) + Len(t) :
            (r \o t)[i] = IF i <= Len(r) THEN r[i] ELSE t[i - Len(r)]
  BY ConcatProperties
<1>3. ASSUME NEW k \in 1 .. Len(t) PROVE (r \o t)[Len(r) + k] = t[k]
  <2>1. Len(r) + k \in 1 .. Len(r) + Len(t) /\ ~(Len(r) + k <= Len(r)) /\ Len(r) + k - Len(r) = k
    BY <1>1
  <2> QED BY <2>1, <1>2
<1> QED BY <1>1, <1>2, <1>3

\* The frames pushed one after the other when i is expanded.
Shut(c) == <<c, FALSE>>
Push(args, k, f) == IF Marked(args[k]) THEN f ELSE Append(f, Shut(args[k]))
FrameRun(first, args, n, F) ==
    F = [k \in 0 .. n |-> IF k = 0 THEN first ELSE Push(args, k, F[k - 1])]

LEMMA FrameRuns == ASSUME NEW first, NEW args, NEW n \in Nat PROVE \E F : FrameRun(first, args, n, F)
<1> DEFINE T == {m \in Nat : \E F : FrameRun(first, args, m, F)}
<1>1. 0 \in T
  <2> DEFINE F == [k \in 0 .. 0 |-> first]
  <2>1. FrameRun(first, args, 0, F) BY DEF FrameRun
  <2> QED BY <2>1
<1>2. ASSUME NEW m \in Nat, m \in T PROVE m + 1 \in T
  <2>1. PICK F : FrameRun(first, args, m, F) BY <1>2
  <2> DEFINE G == [k \in 0 .. m + 1 |-> IF k = m + 1 THEN Push(args, m + 1, F[m]) ELSE F[k]]
  <2>2. F = [k \in 0 .. m |-> IF k = 0 THEN first ELSE Push(args, k, F[k - 1])]
    BY <2>1 DEF FrameRun
  <2>3. G = [k \in 0 .. m + 1 |-> IF k = 0 THEN first ELSE Push(args, k, G[k - 1])]
    BY <2>2
  <2>4. FrameRun(first, args, m + 1, G)
    BY <2>3 DEF FrameRun
  <2> QED BY <2>4
<1>3. Nat \subseteq T
  <2> HIDE DEF T
  <2> QED BY <1>1, <1>2, NatInductive
<1> QED BY <1>3

\* What is pushed: i, opened, and above it every child not yet marked.
Covers(args, j, f) == Marked(args[j]) \/ \E l \in 2 .. Len(f) : f[l][1] = args[j]
Pushed(i, args, k, f) ==
    /\ f \in Seq(Ids \X BOOLEAN) /\ Len(f) >= 1
    /\ f[1] = <<i, TRUE>>
    /\ \A l \in 2 .. Len(f) : f[l][2] = FALSE
    /\ \A j \in 1 .. k : Covers(args, j, f)

LEMMA PushKeeps ==
    ASSUME NEW i, NEW args, NEW k \in Nat, args[k + 1] \in Ids, NEW f, Pushed(i, args, k, f)
    PROVE  Pushed(i, args, k + 1, Push(args, k + 1, f))
<1>1. /\ f \in Seq(Ids \X BOOLEAN) /\ Len(f) >= 1 /\ Len(f) \in Nat
      /\ f[1] = <<i, TRUE>> /\ \A l \in 2 .. Len(f) : f[l][2] = FALSE
      /\ \A j \in 1 .. k : Covers(args, j, f)
  BY DEF Pushed
<1>2. CASE Marked(args[k + 1])
  <2>1. \A j \in 1 .. k + 1 : j \in 1 .. k \/ j = k + 1
    OBVIOUS
  <2>2. \A j \in 1 .. k + 1 : Covers(args, j, f)
    BY <1>1, <1>2, <2>1 DEF Covers
  <2>3. Pushed(i, args, k + 1, f)
    BY <1>1, <2>2 DEF Pushed
  <2> QED BY <1>2, <2>3 DEF Push
<1>3. CASE ~Marked(args[k + 1])
  <2> DEFINE e == Shut(args[k + 1])
             g == Append(f, e)
  <2>1. e \in Ids \X BOOLEAN /\ e[1] = args[k + 1] /\ e[2] = FALSE
    BY DEF Shut
  <2> HIDE DEF e
  <2>2. /\ g \in Seq(Ids \X BOOLEAN) /\ Len(g) = Len(f) + 1
        /\ g[Len(f) + 1] = e /\ \A l \in 1 .. Len(f) : g[l] = f[l]
    BY <1>1, <2>1, AppendIs
  <2> HIDE DEF g
  <2>3. g[1] = f[1] /\ Len(g) >= 1
    <3>1. 1 \in 1 .. Len(f) BY <1>1
    <3>2. g[1] = f[1] BY <3>1, <2>2
    <3>3. Len(g) >= 1 BY <1>1, <2>2
    <3> QED BY <3>2, <3>3
  <2>4. ASSUME NEW l \in 2 .. Len(g) PROVE g[l][2] = FALSE
    <3>1. CASE l = Len(f) + 1 BY <3>1, <2>1, <2>2
    <3>2. CASE l # Len(f) + 1
      <4>1. l \in 2 .. Len(f) /\ l \in 1 .. Len(f) BY <3>2, <1>1, <2>2
      <4>2. g[l] = f[l] /\ f[l][2] = FALSE BY <4>1, <1>1, <2>2
      <4> QED BY <4>2
    <3> QED BY <3>1, <3>2
  <2>5. ASSUME NEW j \in 1 .. k + 1 PROVE Covers(args, j, g)
    <3>1. CASE j = k + 1
      <4>1. Len(f) + 1 \in 2 .. Len(g) /\ g[Len(f) + 1][1] = args[j]
        BY <1>1, <2>1, <2>2, <3>1
      <4> QED BY <4>1 DEF Covers
    <3>2. CASE j # k + 1
      <4>1. Covers(args, j, f) BY <1>1, <3>2
      <4>2. ASSUME NEW l \in 2 .. Len(f), f[l][1] = args[j]
            PROVE  l \in 2 .. Len(g) /\ g[l][1] = args[j]
        <5>1. l \in 2 .. Len(g) /\ g[l] = f[l] BY <1>1, <2>2
        <5> QED BY <4>2, <5>1
      <4> QED BY <4>1, <4>2 DEF Covers
    <3> QED BY <3>1, <3>2
  <2>6. Pushed(i, args, k + 1, g)
    BY <1>1, <2>2, <2>3, <2>4, <2>5 DEF Pushed
  <2> QED BY <1>3, <2>6 DEF g, e, Push
<1> QED BY <1>2, <1>3

LEMMA FramesAre ==
    ASSUME NEW i \in Ids, nodes[i][2] \in Seq(Ids)
    PROVE  Pushed(i, nodes[i][2], Len(nodes[i][2]), Frames(i))
<1> DEFINE args == nodes[i][2]
           n == Len(args)
           first == <<<<i, TRUE>>>>
           F == CHOOSE F : FrameRun(first, args, n, F)
           T == {k \in Nat : k <= n => Pushed(i, args, k, F[k])}
<1>1. n \in Nat /\ DOMAIN args = 1 .. n /\ \A k \in 1 .. n : args[k] \in Ids
  OBVIOUS
<1>2. FrameRun(first, args, n, F)
  <2> HIDE DEF first, args
  <2> QED BY <1>1, FrameRuns
<1>3. Frames(i) = F[n]
  BY DEF Frames, FrameRun, Shut, Push
<1>4. Pushed(i, args, 0, first)
  <2> DEFINE e == <<i, TRUE>>
  <2>1. e \in Ids \X BOOLEAN OBVIOUS
  <2> HIDE DEF e
  <2>2. <<e>> \in Seq(Ids \X BOOLEAN) /\ Len(<<e>>) = 1 /\ <<e>>[1] = e
    BY <2>1
  <2>3. first = <<e>> BY DEF e
  <2> HIDE DEF first
  <2>4. first \in Seq(Ids \X BOOLEAN) /\ Len(first) = 1 /\ first[1] = <<i, TRUE>>
    BY <2>2, <2>3 DEF e
  <2> QED BY <2>4 DEF Pushed
<1> HIDE DEF F, first, args
<1>5. 0 \in T
  <2>1. F[0] = first BY <1>1, <1>2 DEF FrameRun
  <2> QED BY <1>4, <2>1
<1>6. ASSUME NEW k \in Nat, k \in T PROVE k + 1 \in T
  <2>1. ASSUME k + 1 <= n PROVE Pushed(i, args, k + 1, F[k + 1])
    <3>1. Pushed(i, args, k, F[k]) /\ args[k + 1] \in Ids
      BY <1>1, <1>6, <2>1
    <3>2. F[k + 1] = Push(args, k + 1, F[k])
      BY <1>1, <1>2, <2>1 DEF FrameRun
    <3> QED BY <3>1, <3>2, PushKeeps
  <2> QED BY <2>1
<1>7. Nat \subseteq T
  <2> HIDE DEF T
  <2> QED BY <1>5, <1>6, NatInductive
<1>8. Pushed(i, args, n, F[n])
  BY <1>1, <1>7
<1> QED BY <1>3, <1>8 DEF args

\* A node is made from nodes that were there.
Grounded == \A i \in Ids : nodes[i] \in ContentsUpTo(i - 1)

Done == {order[k] : k \in DOMAIN order}

\* The marks and the walk by themselves: no stamp is ahead of the epoch.
WalkTyped ==
    /\ epoch \in Nat /\ stamp \in Seq(0 .. epoch)
    /\ ~Idle => Len(stamp) = Len(nodes)
    /\ stack \in Seq(Ids \X BOOLEAN) /\ roots \in Seq(Ids) /\ order \in Seq(Ids)

\* The children of an opened node are done or somewhere above it: when it is on
\* top they are done.
ChildrenAbove ==
    \A l \in DOMAIN stack : stack[l][2] =>
        \A c \in Children(stack[l][1]) :
            c \in Done \/ \E m \in l + 1 .. Len(stack) : stack[m][1] = c

WalkSound == Grounded /\ WalkTyped /\ MarksOwn /\ ChildrenFirst /\ ChildrenAbove

\* The children of a node are nodes.
LEMMA ChildrenAreIds ==
    ASSUME TableTyped, Grounded, NEW i \in Ids
    PROVE  /\ nodes[i][2] \in Seq(1 .. i - 1) /\ nodes[i][2] \in Seq(Ids)
           /\ Children(i) \subseteq Ids
<1>1. nodes \in Seq(ContentsUpTo(MaxNodes)) /\ i \in Nat /\ i <= Len(nodes) /\ i >= 1 /\ Len(nodes) \in Nat
  BY DEF TableTyped, Ids
<1>2. PICK h \in Heads : nodes[i] \in {<<h, args>> : args \in [1 .. Arity[h] -> 1 .. i - 1]}
  BY DEF Grounded, ContentsUpTo
<1>3. PICK args \in [1 .. Arity[h] -> 1 .. i - 1] : nodes[i] = <<h, args>>
  BY <1>2
<1>4. Arity[h] \in Nat /\ nodes[i][2] = args
  BY <1>3, AstAssumption
<1>5. args \in Seq(1 .. i - 1)
  BY <1>3, <1>4, FunSeq
<1>6. 1 .. i - 1 \subseteq Ids
  BY <1>1 DEF Ids
<1>7. args \in Seq(Ids)
  BY <1>5, <1>6, SeqMonotonic
<1> QED BY <1>4, <1>5, <1>7 DEF Children

\* Starting a walk leaves no mark of an earlier one.
LEMMA StartSound ==
    ASSUME TableTyped, WalkSound, NEW rs \in Seq(Ids), Start(rs)
    PROVE  WalkSound'
<1>1. /\ nodes' = nodes /\ Ids' = Ids /\ rs # <<>> /\ Idle
      /\ stack' = <<<<Head(rs), FALSE>>>> /\ roots' = Tail(rs) /\ order' = <<>>
      /\ epoch' = (IF epoch = MaxEpoch THEN 1 ELSE epoch + 1)
      /\ stamp' = [i \in Ids |-> IF i <= Len(stamp) /\ epoch < MaxEpoch THEN stamp[i] ELSE 0]
  BY DEF Start, Fresh, table, Ids
<1>2. epoch \in Nat /\ stamp \in Seq(0 .. epoch) /\ MaxEpoch \in Nat \ {0} /\ Ids = 1 .. Len(nodes) /\ Len(nodes) \in Nat
  BY AstAssumption DEF WalkSound, WalkTyped, Ids, TableTyped
<1>3. Grounded' BY <1>1 DEF WalkSound, Grounded
<1>4. epoch' \in Nat /\ epoch' >= 1
  BY <1>1, <1>2
<1>5. ASSUME NEW i \in Ids PROVE stamp'[i] \in 0 .. epoch' /\ stamp'[i] # epoch'
  <2>1. CASE i <= Len(stamp) /\ epoch < MaxEpoch
    <3>1. stamp[i] \in 0 .. epoch BY <1>2, <2>1
    <3>2. stamp'[i] = stamp[i] /\ epoch' = epoch + 1 BY <1>1, <1>2, <2>1
    <3> QED BY <3>1, <3>2, <1>2
  <2>2. CASE ~(i <= Len(stamp) /\ epoch < MaxEpoch)
    <3>1. stamp'[i] = 0 BY <1>1, <2>2
    <3> QED BY <3>1, <1>4
  <2> QED BY <2>1, <2>2
<1>6. DOMAIN stamp' = Ids BY <1>1
<1>7. stamp' \in Seq(0 .. epoch') /\ Len(stamp') = Len(nodes')
  <2>1. stamp' \in [1 .. Len(nodes) -> 0 .. epoch']
    BY <1>1, <1>2, <1>5
  <2> QED BY <2>1, <1>1, <1>2
<1>8. WalkTyped'
  <2>1. Head(rs) \in Ids /\ Tail(rs) \in Seq(Ids) BY <1>1
  <2>2. stack' \in Seq(Ids' \X BOOLEAN)
    <3>1. <<Head(rs), FALSE>> \in Ids \X BOOLEAN BY <2>1
    <3> QED BY <3>1, <1>1, OneSeq
  <2>3. roots' \in Seq(Ids') /\ order' \in Seq(Ids') BY <1>1, <2>1
  <2> QED BY <1>4, <1>7, <2>2, <2>3 DEF WalkTyped
<1>9. MarksOwn'
  <2>1. {i \in DOMAIN stamp' : Marked(i)'} = {} BY <1>5, <1>6 DEF Marked
  <2>2. {order'[k] : k \in DOMAIN order'} = {} BY <1>1
  <2> QED BY <2>1, <2>2 DEF MarksOwn
<1>10. ChildrenFirst' BY <1>1 DEF ChildrenFirst
<1>11. ChildrenAbove'
  <2>1. ASSUME NEW l \in DOMAIN stack' PROVE ~stack'[l][2]
    <3>1. DOMAIN stack' = 1 .. 1 /\ stack'[1][2] = FALSE BY <1>1
    <3> QED BY <3>1
  <2> QED BY <2>1 DEF ChildrenAbove
<1> QED BY <1>3, <1>8, <1>9, <1>10, <1>11 DEF WalkSound

\* A root comes when the stack is empty.
LEMMA NextRootSound == ASSUME WalkSound, NextRoot PROVE WalkSound'
<1>1. /\ nodes' = nodes /\ Ids' = Ids /\ roots # <<>> /\ order' = order
      /\ stack' = <<<<Head(roots), FALSE>>>> /\ roots' = Tail(roots)
      /\ stamp' = stamp /\ epoch' = epoch
  BY DEF NextRoot, table, marks, Ids
<1>2. roots \in Seq(Ids) /\ ~Idle BY <1>1 DEF WalkSound, WalkTyped, Idle
<1>3. Grounded' BY <1>1 DEF WalkSound, Grounded
<1>4. WalkTyped'
  <2>1. Head(roots) \in Ids /\ Tail(roots) \in Seq(Ids) BY <1>1, <1>2
  <2>2. stack' \in Seq(Ids' \X BOOLEAN)
    <3>1. <<Head(roots), FALSE>> \in Ids \X BOOLEAN BY <2>1
    <3> QED BY <3>1, <1>1, OneSeq
  <2> QED BY <1>1, <1>2, <2>1, <2>2 DEF WalkSound, WalkTyped
<1>5. MarksOwn' BY <1>1, <1>2 DEF WalkSound, MarksOwn, Marked
<1>6. ChildrenFirst'
  <2>1. nodes' = nodes /\ order' = order BY <1>1
  <2>2. ChildrenFirst BY DEF WalkSound
  <2> QED BY <2>1, <2>2 DEF ChildrenFirst, Children
<1>7. ChildrenAbove'
  <2>1. ASSUME NEW l \in DOMAIN stack' PROVE ~stack'[l][2]
    <3>1. DOMAIN stack' = 1 .. 1 /\ stack'[1][2] = FALSE BY <1>1
    <3> QED BY <3>1
  <2> QED BY <2>1 DEF ChildrenAbove
<1> QED BY <1>3, <1>4, <1>5, <1>6, <1>7 DEF WalkSound

\* What the top of the stack is.
LEMMA TopIs ==
    ASSUME WalkSound, stack # <<>>
    PROVE  /\ stack \in Seq(Ids \X BOOLEAN) /\ Len(stack) \in Nat /\ Len(stack) >= 1
           /\ Top \in Ids \X BOOLEAN /\ Top[1] \in Ids /\ Top[2] \in BOOLEAN
           /\ Rest \in Seq(Ids \X BOOLEAN) /\ Len(Rest) = Len(stack) - 1
           /\ \A k \in 1 .. Len(stack) - 1 : Rest[k] = stack[k]
           /\ ~Idle
<1>1. stack \in Seq(Ids \X BOOLEAN) BY DEF WalkSound, WalkTyped
<1>2. Top \in Ids \X BOOLEAN BY <1>1, SeqRest DEF Top
<1>3. Top[1] \in Ids /\ Top[2] \in BOOLEAN BY <1>2
<1>4. /\ Rest \in Seq(Ids \X BOOLEAN) /\ Len(Rest) = Len(stack) - 1
      /\ Len(stack) \in Nat /\ Len(stack) >= 1
      /\ \A k \in 1 .. Len(Rest) : Rest[k] = stack[k]
  BY <1>1, SeqRest DEF Rest
<1> QED BY <1>1, <1>2, <1>3, <1>4 DEF Idle

\* A marked node is passed: it is done.
LEMMA SkipSound == ASSUME WalkSound, Skip PROVE WalkSound'
<1>1. /\ nodes' = nodes /\ Ids' = Ids /\ roots' = roots /\ order' = order
      /\ stack # <<>> /\ Marked(Top[1]) /\ stack' = Rest
      /\ stamp' = stamp /\ epoch' = epoch /\ Done' = Done
  BY DEF Skip, table, marks, Ids, Done
<1>2. Grounded' BY <1>1 DEF WalkSound, Grounded
<1>3. WalkTyped'
  <2>1. stack' \in Seq(Ids' \X BOOLEAN) /\ ~Idle BY <1>1, TopIs
  <2> QED BY <1>1, <2>1 DEF WalkSound, WalkTyped
<1>4. {i \in DOMAIN stamp : Marked(i)} = Done
  BY <1>1, TopIs DEF WalkSound, MarksOwn, Done
<1>5. MarksOwn' BY <1>1, <1>4 DEF MarksOwn, Marked, Done
<1>6. ChildrenFirst'
  <2>1. nodes' = nodes /\ order' = order BY <1>1
  <2>2. ChildrenFirst BY DEF WalkSound
  <2> QED BY <2>1, <2>2 DEF ChildrenFirst, Children
<1>7. Top[1] \in Done
  <2>1. Top[1] \in DOMAIN stamp BY <1>1, TopIs DEF WalkSound, WalkTyped, Ids
  <2> QED BY <2>1, <1>1, <1>4
<1>8. ChildrenAbove'
  <2> SUFFICES ASSUME NEW l \in DOMAIN stack', stack'[l][2], NEW c \in Children(stack[l][1])'
               PROVE  c \in Done' \/ \E m \in l + 1 .. Len(stack') : stack'[m][1] = c
    BY DEF ChildrenAbove
  <2>1. /\ l \in 1 .. Len(stack) - 1 /\ l \in DOMAIN stack /\ stack'[l] = stack[l]
        /\ Len(stack') = Len(stack) - 1 /\ \A k \in 1 .. Len(stack) - 1 : stack'[k] = stack[k]
    <3>1. /\ stack \in Seq(Ids \X BOOLEAN) /\ Len(stack) \in Nat /\ Len(stack) >= 1
          /\ stack' \in Seq(Ids \X BOOLEAN) /\ Len(stack') = Len(stack) - 1
      BY <1>1, TopIs
    <3>2. \A k \in 1 .. Len(stack) - 1 : stack'[k] = stack[k]
      BY <1>1, TopIs
    <3>3. DOMAIN stack = 1 .. Len(stack) /\ DOMAIN stack' = 1 .. Len(stack')
      BY <3>1
    <3>4. l \in 1 .. Len(stack) - 1 /\ l \in DOMAIN stack
      BY <3>1, <3>3
    <3> QED BY <3>1, <3>2, <3>4
  <2>2. c \in Children(stack[l][1]) BY <1>1, <2>1 DEF Children
  <2>3. c \in Done \/ \E m \in l + 1 .. Len(stack) : stack[m][1] = c
    BY <2>1, <2>2 DEF WalkSound, ChildrenAbove
  <2>4. ASSUME NEW m \in l + 1 .. Len(stack), stack[m][1] = c, c \notin Done
        PROVE  \E k \in l + 1 .. Len(stack') : stack'[k][1] = c
    <3>1. m # Len(stack) BY <1>7, <2>4 DEF Top
    <3>2. m \in l + 1 .. Len(stack') /\ stack'[m] = stack[m] BY <2>1, <3>1
    <3> QED BY <2>4, <3>2
  <2> QED BY <1>1, <2>3, <2>4
<1> QED BY <1>2, <1>3, <1>5, <1>6, <1>8 DEF WalkSound

\* An opened node stays where it was, its open children above it.
LEMMA ExpandSound == ASSUME TableTyped, WalkSound, Expand PROVE WalkSound'
<1> DEFINE i == Top[1]
           fs == Frames(i)
<1>1. /\ nodes' = nodes /\ Ids' = Ids /\ roots' = roots /\ order' = order
      /\ stack # <<>> /\ ~Marked(i) /\ stack' = Rest \o fs
      /\ stamp' = stamp /\ epoch' = epoch /\ Done' = Done
  BY DEF Expand, table, marks, Ids, Done
<1>2. i \in Ids BY <1>1, TopIs
<1>3. Pushed(i, nodes[i][2], Len(nodes[i][2]), fs)
  BY <1>2, ChildrenAreIds, FramesAre DEF WalkSound
<1> HIDE DEF fs
<1>4. /\ fs \in Seq(Ids \X BOOLEAN) /\ Len(fs) >= 1 /\ fs[1] = <<i, TRUE>>
      /\ \A l \in 2 .. Len(fs) : fs[l][2] = FALSE
  BY <1>3 DEF Pushed
<1>5. /\ Rest \in Seq(Ids \X BOOLEAN) /\ Len(Rest) = Len(stack) - 1
      /\ Len(stack) \in Nat /\ Len(stack) >= 1
      /\ \A k \in 1 .. Len(stack) - 1 : Rest[k] = stack[k]
  BY <1>1, TopIs
<1>6. /\ stack' \in Seq(Ids \X BOOLEAN) /\ Len(stack') = Len(stack) - 1 + Len(fs)
      /\ Len(fs) \in Nat
      /\ \A k \in 1 .. Len(stack) - 1 : stack'[k] = stack[k]
      /\ \A k \in 1 .. Len(fs) : stack'[Len(stack) - 1 + k] = fs[k]
  <2> DEFINE r == Rest
             all == r \o fs
             n == Len(stack) - 1
  <2>1. r \in Seq(Ids \X BOOLEAN) /\ fs \in Seq(Ids \X BOOLEAN) BY <1>4, <1>5
  <2>2. stack' = all /\ Len(r) = n /\ \A k \in 1 .. n : r[k] = stack[k] BY <1>1, <1>5
  <2> HIDE DEF r
  <2>3. /\ all \in Seq(Ids \X BOOLEAN) /\ Len(all) = Len(r) + Len(fs)
        /\ Len(fs) \in Nat
        /\ \A k \in 1 .. Len(r) : all[k] = r[k]
        /\ \A k \in 1 .. Len(fs) : all[Len(r) + k] = fs[k]
    BY <2>1, SeqOver
  <2> HIDE DEF all, n
  <2>4. /\ stack' \in Seq(Ids \X BOOLEAN) /\ Len(stack') = n + Len(fs)
        /\ Len(fs) \in Nat
        /\ \A k \in 1 .. n : stack'[k] = stack[k]
        /\ \A k \in 1 .. Len(fs) : stack'[n + k] = fs[k]
    BY <2>2, <2>3
  <2> QED BY <2>4 DEF n
<1>7. Grounded' BY <1>1 DEF WalkSound, Grounded
<1>8. WalkTyped'
  <2>1. ~Idle BY <1>1, TopIs
  <2> QED BY <1>1, <1>6, <2>1 DEF WalkSound, WalkTyped
<1>9. {j \in DOMAIN stamp : Marked(j)} = Done
  BY <1>1, TopIs DEF WalkSound, MarksOwn, Done
<1>10. MarksOwn' BY <1>1, <1>9 DEF MarksOwn, Marked, Done
<1>11. ChildrenFirst'
  <2>1. nodes' = nodes /\ order' = order BY <1>1
  <2>2. ChildrenFirst BY DEF WalkSound
  <2> QED BY <2>1, <2>2 DEF ChildrenFirst, Children
<1>12. ChildrenAbove'
  <2> SUFFICES ASSUME NEW l \in DOMAIN stack', stack'[l][2], NEW c \in Children(stack[l][1])'
               PROVE  c \in Done' \/ \E m \in l + 1 .. Len(stack') : stack'[m][1] = c
    BY DEF ChildrenAbove
  <2>1. l \in 1 .. Len(stack') BY <1>6
  <2>2. CASE l < Len(stack)
    <3>1. l \in DOMAIN stack /\ stack'[l] = stack[l] BY <1>5, <1>6, <2>1, <2>2
    <3>2. c \in Children(stack[l][1]) BY <1>1, <3>1 DEF Children
    <3>3. c \in Done \/ \E m \in l + 1 .. Len(stack) : stack[m][1] = c
      BY <3>1, <3>2 DEF WalkSound, ChildrenAbove
    <3>4. ASSUME NEW m \in l + 1 .. Len(stack), stack[m][1] = c
          PROVE  \E k \in l + 1 .. Len(stack') : stack'[k][1] = c
      <4>1. m \in l + 1 .. Len(stack') BY <1>4, <1>6
      <4>2. CASE m = Len(stack)
        <5>1. c = i BY <3>4, <4>2 DEF Top
        <5>2. 1 \in 1 .. Len(fs) /\ Len(stack) - 1 + 1 = m BY <1>4, <1>5, <1>6, <4>2
        <5>3. stack'[Len(stack) - 1 + 1] = fs[1] BY <5>2, <1>6
        <5>4. stack'[m] = <<i, TRUE>> BY <5>2, <5>3, <1>4
        <5>5. stack'[m][1] = i BY <5>4
        <5> QED BY <4>1, <5>1, <5>5
      <4>3. CASE m # Len(stack)
        <5>1. m \in 1 .. Len(stack) - 1 BY <1>5, <1>6, <4>3, <2>1
        <5>2. stack'[m] = stack[m] BY <5>1, <1>6
        <5> QED BY <3>4, <4>1, <5>2
      <4> QED BY <4>2, <4>3
    <3> QED BY <1>1, <3>3, <3>4
  <2>3. CASE l >= Len(stack)
    <3> DEFINE k == l - Len(stack) + 1
    <3>1. k \in 1 .. Len(fs) /\ stack'[l] = fs[k]
      <4>1. k \in 1 .. Len(fs) /\ l = Len(stack) - 1 + k
        <5>1. /\ l \in 1 .. Len(stack') /\ l >= Len(stack) /\ Len(stack) \in Nat
              /\ Len(fs) \in Nat /\ Len(stack') = Len(stack) - 1 + Len(fs)
          BY <1>5, <1>6, <2>1, <2>3
        <5> QED BY <5>1
      <4> QED BY <4>1, <1>6
    <3>2. k = 1
      <4>1. k \in 2 .. Len(fs) => fs[k][2] = FALSE BY <1>4
      <4>2. fs[k][2] BY <3>1
      <4> QED BY <3>1, <4>1, <4>2, <1>4
    <3>3. c \in Children(i)
      <4>1. stack'[l] = <<i, TRUE>> BY <1>4, <3>1, <3>2
      <4>2. stack'[l][1] = i BY <4>1
      <4>3. Children(stack[l][1])' = Children(i) BY <1>1, <4>2 DEF Children
      <4> QED BY <4>3
    <3>4. Marked(c) \/ \E m \in 2 .. Len(fs) : fs[m][1] = c
      <4>1. PICK j \in DOMAIN nodes[i][2] : c = nodes[i][2][j] BY <3>3 DEF Children
      <4>2. j \in 1 .. Len(nodes[i][2])
        <5>1. nodes[i][2] \in Seq(Ids) BY <1>2, ChildrenAreIds DEF WalkSound
        <5> QED BY <4>1, <5>1
      <4> QED BY <1>3, <4>1, <4>2 DEF Pushed, Covers
    <3>5. CASE Marked(c)
      <4>1. c \in Ids BY <1>2, <3>3, ChildrenAreIds DEF WalkSound
      <4>2. c \in DOMAIN stamp BY <1>1, <4>1, TopIs DEF WalkSound, WalkTyped, Ids
      <4> QED BY <1>1, <1>9, <3>5, <4>2
    <3>6. ASSUME NEW m \in 2 .. Len(fs), fs[m][1] = c
          PROVE  \E j \in l + 1 .. Len(stack') : stack'[j][1] = c
      <4>1. Len(stack) - 1 + m \in l + 1 .. Len(stack') BY <1>5, <1>6, <3>2, <2>1
      <4>2. stack'[Len(stack) - 1 + m] = fs[m] BY <1>6
      <4> QED BY <4>1, <4>2, <3>6
    <3> QED BY <3>4, <3>5, <3>6
  <2> QED BY <2>1, <2>2, <2>3, <1>5
<1> QED BY <1>7, <1>8, <1>10, <1>11, <1>12 DEF WalkSound

\* A node is left when it is opened and on top: its children are done.
LEMMA LeaveSound == ASSUME TableTyped, WalkSound, Leave PROVE WalkSound'
<1> DEFINE i == Top[1]
<1>1. /\ nodes' = nodes /\ Ids' = Ids /\ roots' = roots /\ order' = Append(order, i)
      /\ stack # <<>> /\ ~Marked(i) /\ Top[2] /\ stack' = Rest
      /\ stamp' = [stamp EXCEPT ![i] = epoch] /\ epoch' = epoch
  BY DEF Leave, table, Ids
<1>2. /\ i \in Ids /\ order \in Seq(Ids) /\ i \in DOMAIN stamp /\ ~Idle
      /\ epoch \in Nat /\ stamp \in Seq(0 .. epoch)
  BY <1>1, TopIs DEF WalkSound, WalkTyped, Ids
<1>3. /\ order' \in Seq(Ids) /\ Len(order') = Len(order) + 1 /\ Len(order) \in Nat
      /\ order'[Len(order) + 1] = i /\ \A k \in 1 .. Len(order) : order'[k] = order[k]
  BY <1>1, <1>2
<1>4. Done' = Done \cup {i}
  <2>1. DOMAIN order = 1 .. Len(order) /\ DOMAIN order' = 1 .. Len(order) + 1
    BY <1>2, <1>3
  <2>2. ASSUME NEW k \in DOMAIN order' PROVE order'[k] \in Done \cup {i}
    BY <2>1, <1>3 DEF Done
  <2>3. ASSUME NEW k \in DOMAIN order PROVE order[k] \in Done'
    <3>1. k \in DOMAIN order' /\ order'[k] = order[k] BY <1>3, <2>1
    <3> QED BY <3>1 DEF Done
  <2>4. i \in Done'
    <3>1. Len(order) + 1 \in DOMAIN order' BY <1>3, <2>1
    <3> QED BY <3>1, <1>3 DEF Done
  <2> QED BY <2>2, <2>3, <2>4 DEF Done
<1>5. {j \in DOMAIN stamp : Marked(j)} = Done
  BY <1>2 DEF WalkSound, MarksOwn, Done
<1>6. i \notin Done BY <1>1, <1>5
<1>7. Grounded' BY <1>1 DEF WalkSound, Grounded
<1>8. WalkTyped'
  <2>1. stamp' \in Seq(0 .. epoch') /\ Len(stamp') = Len(stamp)
    BY <1>1, <1>2
  <2>2. stack' \in Seq(Ids' \X BOOLEAN) BY <1>1, TopIs
  <2> QED BY <1>1, <1>2, <1>3, <2>1, <2>2 DEF WalkSound, WalkTyped
<1>9. MarksOwn'
  <2>1. {j \in DOMAIN stamp' : Marked(j)'} = {j \in DOMAIN stamp : Marked(j)} \cup {i}
    BY <1>1, <1>2 DEF Marked
  <2> QED BY <2>1, <1>4, <1>5 DEF MarksOwn, Done
<1>10. Children(i) \subseteq Done
  <2>1. Len(stack) \in DOMAIN stack /\ stack[Len(stack)] = Top /\ Len(stack) \in Nat
    BY <1>1, TopIs DEF Top
  <2>2. \A c \in Children(stack[Len(stack)][1]) :
           c \in Done \/ \E m \in Len(stack) + 1 .. Len(stack) : stack[m][1] = c
    BY <1>1, <2>1 DEF WalkSound, ChildrenAbove
  <2>3. Len(stack) + 1 .. Len(stack) = {} BY <2>1
  <2> QED BY <2>1, <2>2, <2>3
<1>11. ChildrenFirst'
  <2>1. ASSUME NEW k \in DOMAIN order'
        PROVE  /\ \A l \in 1 .. k - 1 : order'[l] # order'[k]
               /\ \A c \in Children(order'[k]) : \E l \in 1 .. k - 1 : order'[l] = c
    <3>1. k \in 1 .. Len(order) + 1 BY <1>3
    <3>2. CASE k = Len(order) + 1
      <4>1. \A l \in 1 .. k - 1 : order'[l] \in Done
        BY <1>2, <1>3, <3>2 DEF Done
      <4>2. order'[k] = i BY <1>3, <3>2
      <4>3. ASSUME NEW c \in Children(i) PROVE \E l \in 1 .. k - 1 : order'[l] = c
        <5>1. PICK l \in DOMAIN order : order[l] = c BY <1>10 DEF Done
        <5>2. l \in 1 .. k - 1 /\ order'[l] = order[l] BY <1>2, <1>3, <3>2
        <5> QED BY <5>1, <5>2
      <4> QED BY <4>1, <4>2, <4>3, <1>6
    <3>3. CASE k # Len(order) + 1
      <4>1. k \in DOMAIN order /\ order'[k] = order[k] /\ \A l \in 1 .. k - 1 : order'[l] = order[l]
        BY <1>2, <1>3, <3>1, <3>3
      <4>2. /\ \A l \in 1 .. k - 1 : order[l] # order[k]
            /\ \A c \in Children(order[k]) : \E l \in 1 .. k - 1 : order[l] = c
        BY <4>1 DEF WalkSound, ChildrenFirst
      <4> QED BY <4>1, <4>2
    <3> QED BY <3>2, <3>3
  <2>2. \A j : Children(j)' = Children(j)
    BY <1>1 DEF Children
  <2> QED BY <2>1, <2>2 DEF ChildrenFirst
<1>12. ChildrenAbove'
  <2> SUFFICES ASSUME NEW l \in DOMAIN stack', stack'[l][2], NEW c \in Children(stack[l][1])'
               PROVE  c \in Done' \/ \E m \in l + 1 .. Len(stack') : stack'[m][1] = c
    BY DEF ChildrenAbove
  <2>1. /\ l \in 1 .. Len(stack) - 1 /\ l \in DOMAIN stack /\ stack'[l] = stack[l]
        /\ Len(stack') = Len(stack) - 1 /\ \A k \in 1 .. Len(stack) - 1 : stack'[k] = stack[k]
    <3>1. /\ stack \in Seq(Ids \X BOOLEAN) /\ Len(stack) \in Nat /\ Len(stack) >= 1
          /\ stack' \in Seq(Ids \X BOOLEAN) /\ Len(stack') = Len(stack) - 1
      BY <1>1, TopIs
    <3>2. \A k \in 1 .. Len(stack) - 1 : stack'[k] = stack[k]
      BY <1>1, TopIs
    <3>3. DOMAIN stack = 1 .. Len(stack) /\ DOMAIN stack' = 1 .. Len(stack')
      BY <3>1
    <3>4. l \in 1 .. Len(stack) - 1 /\ l \in DOMAIN stack
      BY <3>1, <3>3
    <3> QED BY <3>1, <3>2, <3>4
  <2>2. c \in Children(stack[l][1]) BY <1>1, <2>1 DEF Children
  <2>3. c \in Done \/ \E m \in l + 1 .. Len(stack) : stack[m][1] = c
    BY <2>1, <2>2 DEF WalkSound, ChildrenAbove
  <2>4. ASSUME NEW m \in l + 1 .. Len(stack), stack[m][1] = c, c # i
        PROVE  \E k \in l + 1 .. Len(stack') : stack'[k][1] = c
    <3>1. m # Len(stack) BY <2>4 DEF Top
    <3>2. m \in l + 1 .. Len(stack') /\ stack'[m] = stack[m] BY <2>1, <3>1
    <3> QED BY <2>4, <3>2
  <2> QED BY <1>4, <2>3, <2>4
<1> QED BY <1>7, <1>8, <1>9, <1>11, <1>12 DEF WalkSound

\* Between walks nodes are made, from nodes that are there.
LEMMA InternSound ==
    ASSUME TableTyped, WalkSound, NEW n \in Contents, Intern(n) PROVE WalkSound'
<1>1. /\ Idle /\ UNCHANGED <<marks, walk>>
      /\ nodes' = nodes \/ nodes' = Append(nodes, n)
      /\ stack = <<>> /\ stack' = <<>> /\ roots' = <<>> /\ order' = order /\ stamp' = stamp /\ epoch' = epoch
  BY DEF Intern, Create, table, marks, walk, Idle
<1>2. nodes \in Seq(ContentsUpTo(MaxNodes)) /\ Len(nodes) \in Nat BY DEF TableTyped
<1>3. /\ Ids \subseteq Ids' /\ \A i \in Ids : nodes'[i] = nodes[i]
      /\ \A i \in Ids' : i \in Ids \/ (i = Len(nodes) + 1 /\ nodes'[i] = n)
  <2>1. CASE nodes' = nodes BY <2>1 DEF Ids
  <2>2. CASE nodes' = Append(nodes, n)
    <3>1. Len(nodes') = Len(nodes) + 1 /\ nodes'[Len(nodes) + 1] = n
          /\ \A i \in 1 .. Len(nodes) : nodes'[i] = nodes[i]
      BY <1>2, <2>2
    <3> QED BY <3>1, <1>2 DEF Ids
  <2> QED BY <1>1, <2>1, <2>2
<1>4. Grounded'
  <2> SUFFICES ASSUME NEW i \in Ids' PROVE nodes'[i] \in ContentsUpTo(i - 1)
    BY DEF Grounded, ContentsUpTo
  <2>1. CASE i \in Ids BY <2>1, <1>3 DEF WalkSound, Grounded
  <2>2. CASE i \notin Ids
    <3>1. i - 1 = Len(nodes) /\ nodes'[i] = n BY <1>2, <1>3, <2>2
    <3> QED BY <3>1 DEF Contents
  <2> QED BY <2>1, <2>2
<1>5. WalkTyped'
  <2>1. order \in Seq(Ids) /\ epoch \in Nat /\ stamp \in Seq(0 .. epoch) BY DEF WalkSound, WalkTyped
  <2>2. order' \in Seq(Ids') BY <1>1, <1>3, <2>1
  <2> QED BY <1>1, <2>1, <2>2 DEF WalkTyped, Idle
<1>6. MarksOwn' BY <1>1 DEF MarksOwn, Idle
<1>7. ChildrenFirst'
  <2>1. \A k \in DOMAIN order : order[k] \in Ids BY DEF WalkSound, WalkTyped
  <2>2. \A k \in DOMAIN order : Children(order[k])' = Children(order[k])
    BY <1>1, <1>3, <2>1 DEF Children
  <2> QED BY <1>1, <2>2 DEF WalkSound, ChildrenFirst
<1>8. ChildrenAbove' BY <1>1 DEF ChildrenAbove
<1> QED BY <1>4, <1>5, <1>6, <1>7, <1>8 DEF WalkSound

LEMMA WalkInitSound == Init => WalkSound
<1> SUFFICES ASSUME Init PROVE WalkSound OBVIOUS
<1>1. /\ nodes = <<>> /\ Ids = {} /\ stack = <<>> /\ roots = <<>> /\ order = <<>>
      /\ stamp = <<>> /\ epoch = 0 /\ Idle
  BY DEF Init, Ids, Idle
<1>2. Grounded BY <1>1 DEF Grounded
<1>3. WalkTyped BY <1>1 DEF WalkTyped
<1>4. MarksOwn BY <1>1 DEF MarksOwn
<1>5. ChildrenFirst BY <1>1 DEF ChildrenFirst
<1>6. ChildrenAbove BY <1>1 DEF ChildrenAbove
<1> QED BY <1>2, <1>3, <1>4, <1>5, <1>6 DEF WalkSound

LEMMA SameWalk == ASSUME WalkSound, UNCHANGED vars PROVE WalkSound'
<1>1. /\ nodes' = nodes /\ stack' = stack /\ roots' = roots /\ order' = order
      /\ stamp' = stamp /\ epoch' = epoch /\ Ids' = Ids
  BY DEF vars, table, marks, walk, Ids
<1>2. Grounded' BY <1>1 DEF WalkSound, Grounded, ContentsUpTo
<1>3. WalkTyped' BY <1>1 DEF WalkSound, WalkTyped, Idle
<1>4. MarksOwn' BY <1>1 DEF WalkSound, MarksOwn, Marked, Idle
<1>5. ChildrenFirst' BY <1>1 DEF WalkSound, ChildrenFirst, Children
<1>6. ChildrenAbove'
  <2>1. nodes' = nodes /\ order' = order /\ stack' = stack BY <1>1
  <2>2. ChildrenAbove BY DEF WalkSound
  <2>3. Done' = Done BY <2>1 DEF Done
  <2>4. \A l \in DOMAIN stack : Children(stack[l][1])' = Children(stack[l][1])
    BY <2>1 DEF Children
  <2> QED BY <2>1, <2>2, <2>3, <2>4 DEF ChildrenAbove
<1> QED BY <1>2, <1>3, <1>4, <1>5, <1>6 DEF WalkSound

LEMMA WalkNextSound == TableSound /\ WalkSound /\ [Next]_vars => WalkSound'
<1> SUFFICES ASSUME TableSound, WalkSound, [Next]_vars PROVE WalkSound'
  OBVIOUS
<1>1. TableTyped BY DEF TableSound
<1>2. ASSUME NEW n \in Contents, Intern(n) PROVE WalkSound'
  BY <1>1, <1>2, InternSound
<1>3. ASSUME NEW i \in Ids, NEW j \in Ids, Start(<<i>>) \/ Start(<<i, j>>) PROVE WalkSound'
  <2>1. <<i>> \in Seq(Ids) /\ <<i, j>> \in Seq(Ids) OBVIOUS
  <2> QED BY <1>1, <1>3, <2>1, StartSound
<1>4. CASE Skip BY <1>4, SkipSound
<1>5. CASE Expand BY <1>1, <1>5, ExpandSound
<1>6. CASE Leave BY <1>1, <1>6, LeaveSound
<1>7. CASE NextRoot BY <1>7, NextRootSound
<1>8. CASE UNCHANGED vars BY <1>8, SameWalk
<1> QED BY <1>2, <1>3, <1>4, <1>5, <1>6, <1>7, <1>8 DEF Next, Walk

\* postorder_many (query.rs:80): a walk leaves what its roots reach, everything
\* once and children first, by marks that are its own, on any graph, from any
\* roots and however the epochs wrap.
THEOREM WalksAreRight == Spec => []WalkRight
<1>1. TableSound /\ WalkSound => WalkRight
  <2> SUFFICES ASSUME WalkSound PROVE WalkRight OBVIOUS
  <2>1. NothingForgotten
    <3> DEFINE ahead == {stack[k][1] : k \in {l \in DOMAIN stack : ~stack[l][2]}}
               opened == {stack[k][1] : k \in {l \in DOMAIN stack : stack[l][2]}}
    <3>1. ASSUME NEW i \in opened, NEW c \in Children(i) PROVE c \in Done \cup opened \cup ahead
      <4>1. PICK l \in DOMAIN stack : stack[l][2] /\ stack[l][1] = i BY <3>1
      <4>2. c \in Done \/ \E m \in l + 1 .. Len(stack) : stack[m][1] = c
        BY <3>1, <4>1 DEF WalkSound, ChildrenAbove
      <4>3. ASSUME NEW m \in l + 1 .. Len(stack), stack[m][1] = c PROVE c \in opened \cup ahead
        <5>1. m \in DOMAIN stack BY <4>1, <4>3 DEF WalkSound, WalkTyped
        <5> QED BY <4>3, <5>1
      <4> QED BY <4>2, <4>3
    <3> QED BY <3>1 DEF NothingForgotten, Done
  <2> QED BY <2>1 DEF WalkSound, WalkRight
<1>2. Init => TableSound /\ WalkSound BY InitSound, WalkInitSound
<1>3. TableSound /\ WalkSound /\ [Next]_vars => (TableSound /\ WalkSound)'
  BY NextKeeps, WalkNextSound
<1> QED BY <1>1, <1>2, <1>3, PTL DEF Spec

-----------------------------------------------------------------------------
(* Copies *)

\* What a node's content is.
ContentFit(n, top) ==
    /\ n = <<n[1], n[2]>> /\ n[1] \in Heads /\ Arity[n[1]] \in Nat
    /\ n[1] = <<n[1][1], n[1][2]>> /\ n[1][2] \in Nat
    /\ n[2] \in [1 .. Arity[n[1]] -> 1 .. top] /\ DOMAIN n[2] = 1 .. Arity[n[1]]

LEMMA ContentIs == ASSUME NEW top, NEW n \in ContentsUpTo(top) PROVE ContentFit(n, top)
<1>1. PICK h \in Heads : n \in {<<h, args>> : args \in [1 .. Arity[h] -> 1 .. top]}
  BY DEF ContentsUpTo
<1>2. PICK args \in [1 .. Arity[h] -> 1 .. top] : n = <<h, args>>
  BY <1>1
<1>3. n[1] = h /\ n[2] = args /\ Arity[h] \in Nat
  BY <1>2, AstAssumption
<1>4. h = <<h[1], h[2]>> /\ h[2] \in Nat
  BY TranslationAssumption
<1> QED BY <1>2, <1>3, <1>4 DEF ContentFit

\* The nodes that ns has, with the children of each before it.
Rooted(ns) ==
    /\ Len(ns) \in Nat /\ DOMAIN ns = 1 .. Len(ns)
    /\ \A i \in DOMAIN ns : \A k \in DOMAIN ns[i][2] : ns[i][2][k] \in 1 .. i - 1

LEMMA MadeRooted == ASSUME NEW ns, NEW fams, WellMade(ns, fams) PROVE Rooted(ns)
<1>1. ns \in Seq(ContentsUpTo(Len(ns))) /\ \A i \in DOMAIN ns : ns[i] \in ContentsUpTo(i - 1)
  BY DEF WellMade
<1>2. Len(ns) \in Nat /\ DOMAIN ns = 1 .. Len(ns) BY <1>1
<1>3. ASSUME NEW i \in DOMAIN ns, NEW k \in DOMAIN ns[i][2] PROVE ns[i][2][k] \in 1 .. i - 1
  <2>1. ContentFit(ns[i], i - 1) BY <1>1, ContentIs
  <2> QED BY <2>1, <1>3 DEF ContentFit
<1> QED BY <1>2, <1>3 DEF Rooted

\* What node i says when its children say T.
NameOf(fams, fid) == IF fid = 0 THEN "none" ELSE fams[fid]
Say(ns, fams, i, T) ==
    <<ns[i][1][1], NameOf(fams, ns[i][1][2]), [k \in DOMAIN ns[i][2] |-> T[ns[i][2][k]]]>>
TermRun(ns, fams, m, T) == T = [i \in 1 .. m |-> Say(ns, fams, i, T)]

LEMMA SaySame ==
    ASSUME NEW ns, NEW fams, NEW i, NEW T, NEW U,
           \A k \in DOMAIN ns[i][2] : T[ns[i][2][k]] = U[ns[i][2][k]]
    PROVE  Say(ns, fams, i, T) = Say(ns, fams, i, U)
<1>1. [k \in DOMAIN ns[i][2] |-> T[ns[i][2][k]]] = [k \in DOMAIN ns[i][2] |-> U[ns[i][2][k]]]
  OBVIOUS
<1> QED BY <1>1 DEF Say

LEMMA TermRuns ==
    ASSUME NEW ns, NEW fams, Rooted(ns) PROVE \E T : TermRun(ns, fams, Len(ns), T)
<1> DEFINE S == {m \in Nat : m <= Len(ns) => \E T : TermRun(ns, fams, m, T)}
<1>1. 0 \in S
  <2> DEFINE T == [i \in 1 .. 0 |-> Say(ns, fams, i, ns)]
  <2>1. T = [i \in 1 .. 0 |-> Say(ns, fams, i, T)]
    <3> HIDE DEF T
    <3>1. 1 .. 0 = {} OBVIOUS
    <3>2. T = [i \in {} |-> Say(ns, fams, i, ns)] BY <3>1 DEF T
    <3>3. T = [i \in {} |-> Say(ns, fams, i, T)] BY <3>2
    <3> QED BY <3>1, <3>3
  <2>2. TermRun(ns, fams, 0, T)
    <3> HIDE DEF T
    <3> QED BY <2>1 DEF TermRun
  <2> QED BY <2>2
<1>2. ASSUME NEW m \in Nat, m \in S PROVE m + 1 \in S
  <2> SUFFICES ASSUME m + 1 <= Len(ns) PROVE \E T : TermRun(ns, fams, m + 1, T)
    OBVIOUS
  <2>1. Len(ns) \in Nat BY DEF Rooted
  <2>2. PICK T : TermRun(ns, fams, m, T) BY <1>2, <2>1
  <2> DEFINE U == [i \in 1 .. m + 1 |-> IF i = m + 1 THEN Say(ns, fams, i, T) ELSE T[i]]
  <2>3. \A i \in 1 .. m : U[i] = T[i] OBVIOUS
  <2>4. \A i \in 1 .. m : T[i] = Say(ns, fams, i, T) BY <2>2 DEF TermRun
  <2>5. \A i \in 1 .. m + 1 : U[i] = Say(ns, fams, i, T)
    <3>1. \A i \in 1 .. m + 1 : i = m + 1 \/ i \in 1 .. m OBVIOUS
    <3> QED BY <2>4, <3>1
  <2>6. DOMAIN U = 1 .. m + 1 /\ U = [i \in 1 .. m + 1 |-> U[i]] OBVIOUS
  <2> HIDE DEF U
  <2>7. ASSUME NEW i \in 1 .. m + 1 PROVE U[i] = Say(ns, fams, i, U)
    <3>1. i \in DOMAIN ns BY <2>1 DEF Rooted
    <3>2. \A k \in DOMAIN ns[i][2] : ns[i][2][k] \in 1 .. m BY <3>1 DEF Rooted
    <3>3. Say(ns, fams, i, T) = Say(ns, fams, i, U)
      <4>1. \A k \in DOMAIN ns[i][2] : T[ns[i][2][k]] = U[ns[i][2][k]] BY <2>3, <3>2
      <4> QED BY <4>1, SaySame
    <3> QED BY <2>5, <3>3
  <2>8. U = [i \in 1 .. m + 1 |-> Say(ns, fams, i, U)] BY <2>6, <2>7
  <2> QED BY <2>8 DEF TermRun
<1>3. Nat \subseteq S
  <2> HIDE DEF S
  <2> QED BY <1>1, <1>2, NatInductive
<1> QED BY <1>3 DEF Rooted

\* The term of a node is what it says of the terms of its children.
LEMMA TermIs ==
    ASSUME NEW ns, NEW fams, Rooted(ns)
    PROVE  \A i \in DOMAIN ns : Term(ns, fams)[i] = Say(ns, fams, i, Term(ns, fams))
<1> DEFINE T == Term(ns, fams)
<1>1. DOMAIN ns = 1 .. Len(ns) BY DEF Rooted
<1>2. T = CHOOSE U : U = [i \in DOMAIN ns |-> Say(ns, fams, i, U)]
  BY DEF Term, Say, NameOf
<1>3. \E U : U = [i \in DOMAIN ns |-> Say(ns, fams, i, U)]
  <2>1. PICK U : TermRun(ns, fams, Len(ns), U) BY TermRuns
  <2>2. U = [i \in 1 .. Len(ns) |-> Say(ns, fams, i, U)] BY <2>1 DEF TermRun
  <2>3. U = [i \in DOMAIN ns |-> Say(ns, fams, i, U)] BY <2>2, <1>1
  <2> QED BY <2>3
<1> HIDE DEF T
<1>4. T = [i \in DOMAIN ns |-> Say(ns, fams, i, T)] BY <1>2, <1>3
<1>5. \A i \in DOMAIN ns : T[i] = Say(ns, fams, i, T) BY <1>4
<1> QED BY <1>5 DEF T

\* Terms say the same when nodes and families are added.
Keeps(ns, fams, ms, gams) ==
    /\ DOMAIN ns \subseteq DOMAIN ms
    /\ \A i \in DOMAIN ns : /\ ms[i] = ns[i]
                            /\ NameOf(gams, ns[i][1][2]) = NameOf(fams, ns[i][1][2])

LEMMA TermsStay ==
    ASSUME NEW ns, NEW fams, NEW ms, NEW gams, Rooted(ns), Rooted(ms), Keeps(ns, fams, ms, gams)
    PROVE  \A i \in DOMAIN ns : Term(ms, gams)[i] = Term(ns, fams)[i]
<1> DEFINE T == Term(ns, fams)
           U == Term(ms, gams)
           S == {m \in Nat : \A i \in DOMAIN ns : i <= m => U[i] = T[i]}
<1>1. \A i \in DOMAIN ns : T[i] = Say(ns, fams, i, T) BY TermIs
<1>2. \A i \in DOMAIN ms : U[i] = Say(ms, gams, i, U) BY TermIs
<1> HIDE DEF T, U
<1>3. Len(ns) \in Nat /\ DOMAIN ns = 1 .. Len(ns) BY DEF Rooted
<1>4. 0 \in S BY <1>3
<1>5. ASSUME NEW m \in Nat, m \in S PROVE m + 1 \in S
  <2> SUFFICES ASSUME NEW i \in DOMAIN ns, i <= m + 1 PROVE U[i] = T[i]
    OBVIOUS
  <2>1. ms[i] = ns[i] /\ i \in DOMAIN ms /\ NameOf(gams, ns[i][1][2]) = NameOf(fams, ns[i][1][2])
    BY DEF Keeps
  <2>2. U[i] = <<ns[i][1][1], NameOf(fams, ns[i][1][2]), [k \in DOMAIN ns[i][2] |-> U[ns[i][2][k]]]>>
    BY <1>2, <2>1 DEF Say
  <2>3. \A k \in DOMAIN ns[i][2] : U[ns[i][2][k]] = T[ns[i][2][k]]
    <3>1. ASSUME NEW k \in DOMAIN ns[i][2] PROVE U[ns[i][2][k]] = T[ns[i][2][k]]
      <4>1. ns[i][2][k] \in 1 .. i - 1 BY DEF Rooted
      <4>2. ns[i][2][k] \in DOMAIN ns /\ ns[i][2][k] <= m BY <4>1, <1>3
      <4> QED BY <1>5, <4>2
    <3> QED BY <3>1
  <2>4. [k \in DOMAIN ns[i][2] |-> U[ns[i][2][k]]] = [k \in DOMAIN ns[i][2] |-> T[ns[i][2][k]]]
    BY <2>3
  <2>5. T[i] = <<ns[i][1][1], NameOf(fams, ns[i][1][2]), [k \in DOMAIN ns[i][2] |-> T[ns[i][2][k]]]>>
    BY <1>1 DEF Say
  <2> QED BY <2>2, <2>4, <2>5
<1>6. Nat \subseteq S
  <2> HIDE DEF S
  <2> QED BY <1>4, <1>5, NatInductive
<1>7. \A i \in DOMAIN ns : U[i] = T[i]
  BY <1>3, <1>6
<1> QED BY <1>7 DEF T, U

\* Different families of a manager have different names, and none is no name.
LEMMA NamesApart ==
    ASSUME NEW fams \in Seq(Names), \A k, l \in DOMAIN fams : fams[k] = fams[l] => k = l,
           NEW p \in Nat, NEW q \in Nat, p <= Len(fams), q <= Len(fams),
           NameOf(fams, p) = NameOf(fams, q)
    PROVE  p = q
<1>1. DOMAIN fams = 1 .. Len(fams) /\ Len(fams) \in Nat OBVIOUS
<1>2. \A f \in DOMAIN fams : fams[f] # "none" BY TranslationAssumption
<1>3. CASE p = 0 /\ q = 0 BY <1>3
<1>4. CASE p = 0 /\ q # 0
  <2>1. q \in DOMAIN fams BY <1>1, <1>4
  <2> QED BY <1>2, <1>4, <2>1 DEF NameOf
<1>5. CASE p # 0 /\ q = 0
  <2>1. p \in DOMAIN fams BY <1>1, <1>5
  <2> QED BY <1>2, <1>5, <2>1 DEF NameOf
<1>6. CASE p # 0 /\ q # 0
  <2>1. p \in DOMAIN fams /\ q \in DOMAIN fams BY <1>1, <1>6
  <2>2. fams[p] = fams[q] BY <1>6 DEF NameOf
  <2> QED BY <2>1, <2>2
<1> QED BY <1>3, <1>4, <1>5, <1>6

\* Different nodes of one manager are different terms.
LEMMA TermsApart ==
    ASSUME NEW ns, NEW fams, WellMade(ns, fams),
           NEW i \in DOMAIN ns, NEW j \in DOMAIN ns, Term(ns, fams)[i] = Term(ns, fams)[j]
    PROVE  i = j
<1> DEFINE T == Term(ns, fams)
           S == {m \in Nat : \A a, b \in DOMAIN ns : a <= m /\ T[a] = T[b] => a = b}
<1>1. Rooted(ns) BY MadeRooted
<1>2. \A a \in DOMAIN ns : T[a] = Say(ns, fams, a, T) BY <1>1, TermIs
<1> HIDE DEF T
<1>3. Len(ns) \in Nat /\ DOMAIN ns = 1 .. Len(ns) BY <1>1 DEF Rooted
<1>4. 0 \in S BY <1>3
<1>5. ASSUME NEW m \in Nat, m \in S PROVE m + 1 \in S
  <2> SUFFICES ASSUME NEW a \in DOMAIN ns, NEW b \in DOMAIN ns, a <= m + 1, T[a] = T[b] PROVE a = b
    OBVIOUS
  <2> DEFINE na == ns[a]
             nb == ns[b]
             fa == [k \in DOMAIN na[2] |-> T[na[2][k]]]
             fb == [k \in DOMAIN nb[2] |-> T[nb[2][k]]]
  <2>1. ContentFit(na, a - 1) /\ ContentFit(nb, b - 1)
    BY ContentIs DEF WellMade
  <2>2. na[1][2] <= Len(fams) /\ nb[1][2] <= Len(fams) /\ fams \in Seq(Names)
        /\ \A k, l \in DOMAIN fams : fams[k] = fams[l] => k = l
    BY DEF WellMade
  <2>3. <<na[1][1], NameOf(fams, na[1][2]), fa>> = <<nb[1][1], NameOf(fams, nb[1][2]), fb>>
    BY <1>2 DEF Say
  <2>4. na[1][1] = nb[1][1] /\ NameOf(fams, na[1][2]) = NameOf(fams, nb[1][2]) /\ fa = fb
    <3> HIDE DEF na, nb, fa, fb
    <3> QED BY <2>3
  <2>5. na[1][2] = nb[1][2]
    <3>1. na[1][2] \in Nat /\ nb[1][2] \in Nat /\ na[1][2] <= Len(fams) /\ nb[1][2] <= Len(fams)
      BY <2>1, <2>2 DEF ContentFit
    <3>2. NameOf(fams, na[1][2]) = NameOf(fams, nb[1][2]) BY <2>4
    <3> QED BY <3>1, <3>2, NamesApart DEF WellMade
  <2>6. na[1] = nb[1]
    <3> HIDE DEF na, nb
    <3> QED BY <2>1, <2>4, <2>5 DEF ContentFit
  <2>7. DOMAIN na[2] = DOMAIN nb[2]
    BY <2>1, <2>6 DEF ContentFit
  <2>8. ASSUME NEW k \in DOMAIN na[2] PROVE na[2][k] = nb[2][k]
    <3>1. fa[k] = T[na[2][k]] /\ fb[k] = T[nb[2][k]] BY <2>7
    <3>2. T[na[2][k]] = T[nb[2][k]]
      <4> HIDE DEF fa, fb
      <4> QED BY <3>1, <2>4
    <3>3. na[2][k] \in 1 .. a - 1 /\ nb[2][k] \in 1 .. b - 1
      BY <1>1, <2>7 DEF Rooted
    <3>4. na[2][k] \in DOMAIN ns /\ nb[2][k] \in DOMAIN ns /\ na[2][k] <= m
      BY <1>3, <3>3
    <3> QED BY <1>5, <3>2, <3>4
  <2>9. na[2] = nb[2]
    <3>1. na[2] \in [1 .. Arity[na[1]] -> 1 .. a - 1] /\ nb[2] \in [1 .. Arity[nb[1]] -> 1 .. b - 1]
      BY <2>1 DEF ContentFit
    <3> HIDE DEF na, nb
    <3> QED BY <3>1, <2>7, <2>8
  <2>10. na = nb
    <3>1. na = <<na[1], na[2]>> /\ nb = <<nb[1], nb[2]>> BY <2>1 DEF ContentFit
    <3> HIDE DEF na, nb
    <3> QED BY <3>1, <2>6, <2>9
  <2> QED BY <2>10 DEF WellMade
<1>6. Nat \subseteq S
  <2> HIDE DEF S
  <2> QED BY <1>4, <1>5, NatInductive
<1>7. i \in S BY <1>3, <1>6
<1> QED BY <1>7 DEF T

\* The destination: its table in order, its nodes over earlier ones and over
\* families it has, each of which is registered once.
FamiliesSound ==
    /\ families \in Seq(Names)
    /\ \A k, l \in DOMAIN families : families[k] = families[l] => k = l
    /\ \A i \in Ids : nodes[i][1][2] <= Len(families)
DestSound == TableSound /\ Grounded /\ FamiliesSound

LEMMA DestMade == ASSUME DestSound PROVE WellMade(nodes, families) /\ Rooted(nodes) /\ DOMAIN nodes = Ids
<1>1. nodes \in Seq(ContentsUpTo(MaxNodes)) /\ Len(nodes) \in Nat /\ DOMAIN nodes = Ids
  BY DEF DestSound, TableSound, TableTyped, Ids
<1>2. \A i \in Ids : nodes[i] \in ContentsUpTo(i - 1) BY DEF DestSound, Grounded
<1>3. \A i \in Ids : nodes[i] \in ContentsUpTo(Len(nodes))
  <2>1. ASSUME NEW i \in Ids PROVE nodes[i] \in ContentsUpTo(Len(nodes))
    <3>1. i - 1 \in Nat /\ i - 1 <= Len(nodes) BY <1>1 DEF Ids
    <3>2. ContentsUpTo(i - 1) \subseteq ContentsUpTo(Len(nodes)) BY <1>1, <3>1, ContentsGrow
    <3> QED BY <1>2, <3>2
  <2> QED BY <2>1
<1>4. nodes \in Seq(ContentsUpTo(Len(nodes)))
  <2>1. nodes \in [1 .. Len(nodes) -> ContentsUpTo(Len(nodes))]
    <3> DEFINE C == ContentsUpTo(Len(nodes))
    <3>1. \A i \in 1 .. Len(nodes) : nodes[i] \in C BY <1>3 DEF Ids
    <3>2. nodes = [i \in 1 .. Len(nodes) |-> nodes[i]] BY <1>1
    <3> HIDE DEF C
    <3>3. nodes \in [1 .. Len(nodes) -> C] BY <3>1, <3>2
    <3> QED BY <3>3 DEF C
  <2> QED BY <2>1, <1>1, FunSeq
<1>5. families \in Seq(Names) /\ \A i \in DOMAIN nodes : nodes[i][1][2] <= Len(families)
  BY <1>1 DEF DestSound, FamiliesSound
<1>6. \A k, l \in DOMAIN families : families[k] = families[l] => k = l
  BY DEF DestSound, FamiliesSound
<1>7. \A i, j \in DOMAIN nodes : nodes[i] = nodes[j] => i = j
  BY <1>1 DEF DestSound, TableSound, HashConsed
<1>8. WellMade(nodes, families)
  BY <1>1, <1>2, <1>4, <1>5, <1>6, <1>7 DEF WellMade
<1> QED BY <1>1, <1>8, MadeRooted

\* There are no more families than names, so their ids are ids of heads.
LEMMA FamilyRoom ==
    ASSUME NEW fams \in Seq(Names), \A k, l \in DOMAIN fams : fams[k] = fams[l] => k = l
    PROVE  Len(fams) <= Cardinality(Names) /\ Cardinality(Names) \in Nat /\ Len(fams) \in Nat
<1>1. Len(fams) \in Nat /\ DOMAIN fams = 1 .. Len(fams) OBVIOUS
<1>2. fams \in [1 .. Len(fams) -> Names] /\ IsInjective(fams)
  BY <1>1 DEF IsInjective
<1>3. IsFiniteSet(Names) BY TranslationAssumption
<1>4. fams \in Injection(1 .. Len(fams), Names) BY <1>2 DEF Injection
<1>5. Cardinality(1 .. Len(fams)) <= Cardinality(Names)
  BY <1>3, <1>4, FS_Injection
<1>6. Cardinality(1 .. Len(fams)) = Len(fams)
  <2>1. Cardinality(1 .. Len(fams)) = IF 1 > Len(fams) THEN 0 ELSE Len(fams) - 1 + 1
    BY <1>1, FS_Interval
  <2> QED BY <1>1, <2>1
<1> QED BY <1>1, <1>3, <1>5, <1>6, FS_CardinalityType

\* A family is added: the table is as it was and the terms say what they said.
LEMMA FamilyAdded ==
    ASSUME DestSound, NEW name \in Names, Position(families, name) = {},
           families' = Append(families, name), UNCHANGED table
    PROVE  DestSound' /\ Keeps(nodes, families, nodes', families')
<1>1. nodes' = nodes /\ Ids' = Ids BY DEF table, Ids
<1>2. TableSound' BY SameTable DEF DestSound
<1>3. Grounded' BY <1>1 DEF DestSound, Grounded
<1>4. /\ families \in Seq(Names)
      /\ \A k, l \in DOMAIN families : families[k] = families[l] => k = l
      /\ \A i \in Ids : nodes[i][1][2] <= Len(families)
  BY DEF DestSound, FamiliesSound
<1>5. /\ families' \in Seq(Names) /\ Len(families') = Len(families) + 1 /\ Len(families) \in Nat
      /\ families'[Len(families) + 1] = name
      /\ \A k \in 1 .. Len(families) : families'[k] = families[k]
  BY <1>4, AppendIs
<1>6. DOMAIN families = 1 .. Len(families) /\ DOMAIN families' = 1 .. Len(families) + 1
  BY <1>4, <1>5
<1>7. \A k \in DOMAIN families : families[k] # name BY DEF Position
<1>8. \A k, l \in DOMAIN families' : families'[k] = families'[l] => k = l
  <2>1. \A k \in DOMAIN families' : k = Len(families) + 1 \/ k \in DOMAIN families BY <1>5, <1>6
  <2>2. \A k \in DOMAIN families : families'[k] = families[k] BY <1>5, <1>6
  <2> QED BY <1>4, <1>5, <1>7, <2>1, <2>2
<1>9. \A i \in Ids : nodes[i][1][2] \in Nat
  <2>1. ASSUME NEW i \in Ids PROVE nodes[i][1][2] \in Nat
    <3>1. nodes[i] \in ContentsUpTo(i - 1) BY DEF DestSound, Grounded
    <3> QED BY <3>1, ContentIs DEF ContentFit
  <2> QED BY <2>1
<1>10. FamiliesSound'
  <2>1. \A i \in Ids : nodes[i][1][2] <= Len(families) + 1 BY <1>4, <1>5, <1>9
  <2> QED BY <1>1, <1>5, <1>8, <2>1 DEF FamiliesSound
<1>11. Keeps(nodes, families, nodes', families')
  <2>1. ASSUME NEW i \in Ids PROVE NameOf(families', nodes[i][1][2]) = NameOf(families, nodes[i][1][2])
    <3>1. nodes[i][1][2] \in Nat /\ nodes[i][1][2] <= Len(families) BY <1>4, <1>9
    <3>2. nodes[i][1][2] = 0 \/ nodes[i][1][2] \in 1 .. Len(families) BY <1>5, <3>1
    <3> QED BY <1>5, <3>2 DEF NameOf
  <2>2. DOMAIN nodes = Ids BY DestMade
  <2> QED BY <1>1, <2>1, <2>2 DEF Keeps
<1> QED BY <1>2, <1>3, <1>10, <1>11 DEF DestSound

\* A node is found or made: the terms say what they said.
Interned(n) ==
    IF Same(n) # {} THEN UNCHANGED table ELSE Len(nodes) < MaxNodes /\ Create(n)

LEMMA NodeAdded ==
    ASSUME DestSound, NEW n \in Contents, n[1][2] <= Len(families), Interned(n),
           families' = families
    PROVE  /\ DestSound' /\ Keeps(nodes, families, nodes', families') /\ Ids \subseteq Ids'
           /\ \A k \in Same(n) : k \in Ids' /\ nodes'[k] = n
           /\ Same(n) = {} => Len(nodes) + 1 \in Ids' /\ nodes'[Len(nodes) + 1] = n
<1>1. nodes \in Seq(ContentsUpTo(MaxNodes)) /\ Len(nodes) \in Nat /\ Len(nodes) <= MaxNodes
      /\ TableSound /\ TableTyped /\ Bucketed
  BY DEF DestSound, TableSound, TableTyped
<1>2. n \in ContentsUpTo(MaxNodes)
  <2>1. MaxNodes \in Nat BY AstAssumption
  <2> QED BY <1>1, <2>1, ContentsGrow DEF Contents
<1>3. nodes' = nodes \/ nodes' = Append(nodes, n)
  BY DEF Interned, Create, table
<1>4. TableSound'
  <2>1. CASE Same(n) # {} BY <1>1, <2>1, SameTable DEF Interned
  <2>2. CASE Same(n) = {} BY <1>1, <1>2, <2>2, CreateKeeps DEF Interned
  <2> QED BY <2>1, <2>2
<1>5. /\ Ids \subseteq Ids' /\ \A i \in Ids : nodes'[i] = nodes[i]
      /\ \A i \in Ids' : i \in Ids \/ (i = Len(nodes) + 1 /\ nodes'[i] = n)
  <2>1. CASE nodes' = nodes BY <2>1 DEF Ids
  <2>2. CASE nodes' = Append(nodes, n)
    <3>1. Len(nodes') = Len(nodes) + 1 /\ nodes'[Len(nodes) + 1] = n
          /\ \A i \in 1 .. Len(nodes) : nodes'[i] = nodes[i]
      BY <1>1, <1>2, <2>2
    <3> QED BY <3>1, <1>1 DEF Ids
  <2> QED BY <1>3, <2>1, <2>2
<1>6. Grounded'
  <2> SUFFICES ASSUME NEW i \in Ids' PROVE nodes'[i] \in ContentsUpTo(i - 1)
    BY DEF Grounded, ContentsUpTo
  <2>1. CASE i \in Ids BY <2>1, <1>5 DEF DestSound, Grounded
  <2>2. CASE i \notin Ids
    <3>1. i - 1 = Len(nodes) /\ nodes'[i] = n BY <1>1, <1>5, <2>2
    <3> QED BY <3>1 DEF Contents
  <2> QED BY <2>1, <2>2
<1>7. FamiliesSound'
  <2>1. families \in Seq(Names) /\ (\A k, l \in DOMAIN families : families[k] = families[l] => k = l)
        /\ \A i \in Ids : nodes[i][1][2] <= Len(families)
    BY DEF DestSound, FamiliesSound
  <2>2. \A i \in Ids' : nodes'[i][1][2] <= Len(families) BY <1>5, <2>1
  <2> QED BY <2>1, <2>2 DEF FamiliesSound
<1>8. Keeps(nodes, families, nodes', families')
  <2>1. DOMAIN nodes = Ids BY DestMade
  <2>2. DOMAIN nodes' = Ids' BY <1>4 DEF TableSound, TableTyped, Ids
  <2> QED BY <1>5, <2>1, <2>2 DEF Keeps
<1>9. \A k \in Same(n) : k \in Ids' /\ nodes'[k] = n
  BY <1>1, <1>2, <1>5, LookupFinds
<1>10. ASSUME Same(n) = {} PROVE Len(nodes) + 1 \in Ids' /\ nodes'[Len(nodes) + 1] = n
  <2>1. nodes' = Append(nodes, n) BY <1>10 DEF Interned, Create
  <2>2. Len(nodes') = Len(nodes) + 1 /\ nodes'[Len(nodes) + 1] = n BY <1>1, <1>2, <2>1
  <2> QED BY <1>1, <2>2 DEF Ids
<1> QED BY <1>4, <1>5, <1>6, <1>7, <1>8, <1>9, <1>10 DEF DestSound

-----------------------------------------------------------------------------
(* The calls of translate *)

\* A frame has done what comes before its position: the family is registered and
\* the children passed have copies.
Ready(s, fams, M, f) ==
    f[2] >= 1 =>
        /\ s.nodes[f[1]][1][2] = 0 \/ Position(fams, s.families[s.nodes[f[1]][1][2]]) # {}
        /\ \A k \in DOMAIN s.nodes[f[1]][2] : k < f[2] => \E m \in M : m[1] = s.nodes[f[1]][2][k]

CopyTyped ==
    /\ src \in Sources
    /\ frames \in Seq((DOMAIN src.nodes) \X Nat)
    /\ memo \subseteq (DOMAIN src.nodes) \X Ids /\ answers \subseteq (DOMAIN src.nodes) \X Ids
AllReady == \A l \in DOMAIN frames : Ready(src, families, memo, frames[l])

CopySound == DestSound /\ CopyTyped /\ AllReady /\ SameTerm

LEMMA PairIs ==
    ASSUME NEW D, NEW E, NEW p \in D \X E
    PROVE  p = <<p[1], p[2]>> /\ p[1] \in D /\ p[2] \in E
  OBVIOUS

LEMMA PairOf == ASSUME NEW D, NEW E, NEW a \in D, NEW b \in E PROVE <<a, b>> \in D \X E
  OBVIOUS

LEMMA GroundedRooted ==
    ASSUME NEW ns \in Seq(ContentsUpTo(MaxNodes)), \A i \in 1 .. Len(ns) : ns[i] \in ContentsUpTo(i - 1)
    PROVE  Rooted(ns)
<1>1. Len(ns) \in Nat /\ DOMAIN ns = 1 .. Len(ns) OBVIOUS
<1>2. ASSUME NEW i \in DOMAIN ns, NEW k \in DOMAIN ns[i][2] PROVE ns[i][2][k] \in 1 .. i - 1
  <2>1. ContentFit(ns[i], i - 1) BY <1>1, ContentIs
  <2> QED BY <2>1, <1>2 DEF ContentFit
<1> QED BY <1>1, <1>2 DEF Rooted

LEMMA ReadyStays ==
    ASSUME NEW s, NEW fams, NEW gams, NEW M, NEW N, NEW f, Ready(s, fams, M, f), M \subseteq N,
           \A name : Position(fams, name) # {} => Position(gams, name) # {}
    PROVE  Ready(s, gams, N, f)
  BY DEF Ready

\* The source: what its nodes are.
SourceFit(i) ==
    /\ ContentFit(src.nodes[i], i - 1)
    /\ \A k \in DOMAIN src.nodes[i][2] : src.nodes[i][2][k] \in DOMAIN src.nodes
    /\ src.nodes[i][1][2] <= Len(src.families)

LEMMA SourceIs ==
    ASSUME src \in Sources
    PROVE  /\ WellMade(src.nodes, src.families) /\ Rooted(src.nodes)
           /\ \A i \in DOMAIN src.nodes : SourceFit(i)
<1>1. WellMade(src.nodes, src.families) BY TranslationAssumption
<1>2. Rooted(src.nodes) BY <1>1, MadeRooted
<1>3. ASSUME NEW i \in DOMAIN src.nodes PROVE SourceFit(i)
  <2>1. src.nodes[i] \in ContentsUpTo(i - 1) /\ src.nodes[i][1][2] <= Len(src.families)
    BY <1>1 DEF WellMade
  <2>2. ContentFit(src.nodes[i], i - 1) BY <2>1, ContentIs
  <2>3. \A k \in DOMAIN src.nodes[i][2] : src.nodes[i][2][k] \in DOMAIN src.nodes
    BY <1>2 DEF Rooted
  <2> QED BY <2>1, <2>2, <2>3 DEF SourceFit
<1> QED BY <1>1, <1>2, <1>3

\* Terms of the destination go on saying what they said.
LEMMA TermsCarry ==
    ASSUME DestSound, DestSound', CopyTyped, SameTerm, Keeps(nodes, families, nodes', families'),
           src' = src, NEW m \in memo \cup answers
    PROVE  Term(nodes', families')[m[2]] = Term(src.nodes, src.families)[m[1]]
<1>1. m \in (DOMAIN src.nodes) \X Ids BY DEF CopyTyped
<1>2. Rooted(nodes) /\ DOMAIN nodes = Ids BY DestMade
<1>3. Rooted(nodes')
  <2>1. nodes' \in Seq(ContentsUpTo(MaxNodes)) /\ \A i \in 1 .. Len(nodes') : nodes'[i] \in ContentsUpTo(i - 1)
    BY DEF DestSound, TableSound, TableTyped, Grounded, Ids
  <2> QED BY <2>1, GroundedRooted
<1>4. \A i \in DOMAIN nodes : Term(nodes', families')[i] = Term(nodes, families)[i]
  BY <1>2, <1>3, TermsStay
<1>5. m[2] \in DOMAIN nodes BY <1>1, <1>2, PairIs
<1> QED BY <1>4, <1>5 DEF SameTerm

\* The destination may be left alone.
LEMMA DestStays ==
    ASSUME DestSound, UNCHANGED <<vars, families>>
    PROVE  DestSound' /\ Keeps(nodes, families, nodes', families') /\ Ids' = Ids
<1>1. UNCHANGED table /\ nodes' = nodes /\ families' = families BY DEF vars, table
<1>2. TableSound' BY <1>1, SameTable DEF DestSound
<1>3. Ids' = Ids BY <1>1 DEF Ids
<1>4. Grounded' /\ FamiliesSound' BY <1>1, <1>3 DEF DestSound, Grounded, FamiliesSound
<1> QED BY <1>1, <1>2, <1>3, <1>4 DEF DestSound, Keeps

\* A source node in a family the destination has gets a head of the destination.
LEMMA FamilyIs ==
    ASSUME DestSound, NEW fid, fid = 0 \/ Position(families, src.families[fid]) # {}
    PROVE  /\ Family(families, fid) \in Nat /\ Family(families, fid) <= Len(families)
           /\ NameOf(families, Family(families, fid)) = NameOf(src.families, fid)
<1>1. Len(families) \in Nat /\ DOMAIN families = 1 .. Len(families)
  BY DEF DestSound, FamiliesSound
<1>2. CASE fid = 0 BY <1>1, <1>2 DEF Family, NameOf
<1>3. CASE fid # 0
  <2>1. Family(families, fid) \in Position(families, src.families[fid])
    BY <1>3 DEF Family
  <2>2. Family(families, fid) \in 1 .. Len(families)
        /\ families[Family(families, fid)] = src.families[fid]
    BY <1>1, <2>1 DEF Position
  <2>3. Family(families, fid) # 0 BY <2>2, <1>1
  <2> QED BY <1>1, <1>3, <2>2, <2>3 DEF NameOf
<1> QED BY <1>2, <1>3

LEMMA CopyIs ==
    ASSUME NEW i, \E m \in memo : m[1] = i
    PROVE  \E m \in memo : m[1] = i /\ m[2] = CopyOf(i)
  BY DEF CopyOf

\* The frame on top.
LEMMA FrameIs ==
    ASSUME CopyTyped, frames # <<>>
    PROVE  /\ FrameTop \in (DOMAIN src.nodes) \X Nat /\ Len(frames) \in Nat /\ Len(frames) >= 1
           /\ Len(frames) \in DOMAIN frames /\ DOMAIN frames = 1 .. Len(frames)
           /\ FramesBelow \in Seq((DOMAIN src.nodes) \X Nat) /\ Len(FramesBelow) = Len(frames) - 1
           /\ \A k \in 1 .. Len(frames) - 1 : FramesBelow[k] = frames[k]
<1> DEFINE S == (DOMAIN src.nodes) \X Nat
<1>1. frames \in Seq(S) BY DEF CopyTyped
<1> HIDE DEF S
<1>2. /\ FramesBelow \in Seq(S) /\ Len(FramesBelow) = Len(frames) - 1 /\ Len(frames) \in Nat
      /\ Len(frames) >= 1 /\ FrameTop \in S
      /\ \A k \in 1 .. Len(frames) - 1 : FramesBelow[k] = frames[k]
  BY <1>1, SeqRest DEF FramesBelow, FrameTop
<1>3. DOMAIN frames = 1 .. Len(frames) /\ Len(frames) \in DOMAIN frames BY <1>1, <1>2
<1> QED BY <1>2, <1>3 DEF S

\* The top frame goes on to the next position.
LEMMA AdvanceIs ==
    ASSUME CopyTyped, frames # <<>>, Advance
    PROVE  /\ frames' \in Seq((DOMAIN src.nodes) \X Nat) /\ DOMAIN frames' = DOMAIN frames
           /\ frames'[Len(frames)] = <<FrameTop[1], FrameTop[2] + 1>>
           /\ \A l \in DOMAIN frames : l # Len(frames) => frames'[l] = frames[l]
<1> DEFINE S == (DOMAIN src.nodes) \X Nat
           n == Len(frames)
           t == <<FrameTop[1], FrameTop[2] + 1>>
<1>1. frames \in Seq(S) /\ n \in Nat /\ DOMAIN frames = 1 .. n /\ n \in 1 .. n /\ FrameTop \in S
  BY FrameIs DEF CopyTyped
<1>2. t \in S /\ FrameTop = <<FrameTop[1], FrameTop[2]>> /\ FrameTop = frames[n]
  <2>1. FrameTop = <<FrameTop[1], FrameTop[2]>> /\ FrameTop[1] \in DOMAIN src.nodes /\ FrameTop[2] \in Nat
    BY <1>1, PairIs
  <2>2. FrameTop[2] + 1 \in Nat BY <2>1
  <2>3. t \in S BY <2>1, <2>2, PairOf
  <2> QED BY <2>1, <2>3 DEF FrameTop
<1>3. frames' = [frames EXCEPT ![n][2] = frames[n][2] + 1] BY DEF Advance
<1>4. [frames[n] EXCEPT ![2] = frames[n][2] + 1] = t BY <1>2
<1>5. frames' = [frames EXCEPT ![n] = t] BY <1>1, <1>3, <1>4
<1> HIDE DEF S, n, t
<1>6. frames' = [k \in 1 .. n |-> IF k = n THEN t ELSE frames[k]] BY <1>1, <1>5
<1>7. \A k \in 1 .. n : frames[k] \in S BY <1>1
<1>8. frames' \in [1 .. n -> S] BY <1>2, <1>6, <1>7
<1>9. frames' \in Seq(S) /\ DOMAIN frames' = 1 .. n BY <1>1, <1>8, FunSeq
<1>10. frames'[n] = t /\ \A l \in 1 .. n : l # n => frames'[l] = frames[l] BY <1>1, <1>6
<1> QED BY <1>1, <1>9, <1>10 DEF S, n, t

LEMMA TranslateSound ==
    ASSUME CopySound, NEW i \in DOMAIN src.nodes, Translate(i) PROVE CopySound'
<1>1. /\ frames' = <<<<i, 0>>>> /\ memo' = {} /\ UNCHANGED <<vars, families>> /\ src' = src
      /\ answers' = answers /\ families' = families
  BY DEF Translate
<1>2. DestSound' /\ Keeps(nodes, families, nodes', families') /\ Ids' = Ids
  BY <1>1, DestStays DEF CopySound
<1>3. CopyTyped'
  <2>1. <<i, 0>> \in (DOMAIN src.nodes) \X Nat BY PairOf
  <2>2. frames' \in Seq((DOMAIN src.nodes) \X Nat) BY <1>1, <2>1, OneSeq
  <2> QED BY <1>1, <1>2, <2>2 DEF CopySound, CopyTyped
<1>4. AllReady'
  <2>1. \A l \in DOMAIN frames' : frames'[l] = <<i, 0>> BY <1>1
  <2>2. Ready(src, families, {}, <<i, 0>>) BY DEF Ready
  <2> QED BY <1>1, <2>1, <2>2 DEF AllReady
<1>5. SameTerm'
  <2>1. \A m \in answers : Term(nodes', families')[m[2]] = Term(src.nodes, src.families)[m[1]]
    BY <1>1, <1>2, TermsCarry DEF CopySound
  <2> QED BY <1>1, <2>1 DEF SameTerm
<1> QED BY <1>2, <1>3, <1>4, <1>5 DEF CopySound

LEMMA RegisterSound == ASSUME CopySound, Register PROVE CopySound'
<1> DEFINE i == FrameTop[1]
           fid == src.nodes[i][1][2]
<1>1. /\ frames # <<>> /\ FrameTop[2] = 0 /\ Advance /\ UNCHANGED <<vars, src, memo, answers>>
      /\ families' = Registered(families, fid) /\ src' = src /\ memo' = memo /\ answers' = answers
  BY DEF Register, Source
<1>2. CopyTyped /\ DestSound /\ AllReady /\ SameTerm BY DEF CopySound
<1>3. FrameTop \in (DOMAIN src.nodes) \X Nat /\ i \in DOMAIN src.nodes /\ Len(frames) \in DOMAIN frames
  BY <1>1, <1>2, FrameIs, PairIs
<1>4. SourceFit(i) /\ src.families \in Seq(Names)
  BY <1>2, <1>3, SourceIs DEF CopyTyped, WellMade
<1>5. fid \in Nat /\ fid <= Len(src.families) BY <1>4 DEF SourceFit, ContentFit
<1> HIDE DEF i
<1>6. /\ DestSound' /\ Keeps(nodes, families, nodes', families') /\ Ids' = Ids
      /\ fid = 0 \/ Position(families', src.families[fid]) # {}
      /\ \A name : Position(families, name) # {} => Position(families', name) # {}
  <2>1. CASE fid = 0 \/ Position(families, src.families[fid]) # {}
    <3>1. families' = families BY <1>1, <2>1 DEF Registered
    <3> HIDE DEF fid
    <3>2. UNCHANGED <<vars, families>> BY <1>1, <3>1
    <3> QED BY <1>2, <3>1, <3>2, <2>1, DestStays
  <2>2. CASE fid # 0 /\ Position(families, src.families[fid]) = {}
    <3>1. families' = Append(families, src.families[fid]) BY <1>1, <2>2 DEF Registered
    <3>2. fid \in 1 .. Len(src.families) BY <1>4, <1>5, <2>2
    <3>3. src.families[fid] \in Names BY <1>4, <3>2
    <3> DEFINE name == src.families[fid]
    <3>4. UNCHANGED table BY <1>1 DEF vars
    <3>5. DestSound' /\ Keeps(nodes, families, nodes', families')
      <4> HIDE DEF name, fid
      <4> QED BY <1>2, <2>2, <3>1, <3>3, <3>4, FamilyAdded DEF name
    <3>6. Ids' = Ids BY <3>4 DEF table, Ids
    <3>7. families \in Seq(Names) BY <1>2 DEF DestSound, FamiliesSound
    <3>8. /\ Len(families') = Len(families) + 1 /\ Len(families) \in Nat
          /\ families' \in Seq(Names)
          /\ families'[Len(families) + 1] = name
          /\ \A k \in 1 .. Len(families) : families'[k] = families[k]
      <4> HIDE DEF name
      <4>1. name \in Names /\ families' = Append(families, name) BY <3>1, <3>3 DEF name
      <4> QED BY <3>7, <4>1, AppendIs
    <3>9. DOMAIN families' = 1 .. Len(families) + 1 /\ DOMAIN families = 1 .. Len(families)
      BY <3>7, <3>8
    <3>10. Position(families', name) # {}
      <4> HIDE DEF name
      <4>1. Len(families) + 1 \in DOMAIN families' BY <3>8, <3>9
      <4> QED BY <3>8, <4>1 DEF Position
    <3>11. ASSUME NEW other, Position(families, other) # {} PROVE Position(families', other) # {}
      <4>1. PICK k \in DOMAIN families : families[k] = other BY <3>11 DEF Position
      <4>2. k \in DOMAIN families' /\ families'[k] = other BY <3>8, <3>9, <4>1
      <4> QED BY <4>2 DEF Position
    <3> QED BY <3>5, <3>6, <3>10, <3>11
  <2> QED BY <2>1, <2>2
<1>7. /\ frames' \in Seq((DOMAIN src.nodes) \X Nat) /\ DOMAIN frames' = DOMAIN frames
      /\ frames'[Len(frames)] = <<i, FrameTop[2] + 1>>
      /\ \A l \in DOMAIN frames : l # Len(frames) => frames'[l] = frames[l]
  BY <1>1, <1>2, AdvanceIs DEF i
<1>8. CopyTyped' BY <1>1, <1>2, <1>6, <1>7 DEF CopyTyped
<1>9. AllReady'
  <2>1. Ready(src, families', memo, <<i, 1>>)
    <3>1. \A k \in DOMAIN src.nodes[i][2] : ~(k < 1)
      BY <1>4 DEF SourceFit, ContentFit
    <3> QED BY <1>6, <3>1 DEF Ready
  <2>2. ASSUME NEW l \in DOMAIN frames PROVE Ready(src, families', memo, frames'[l])
    <3>1. CASE l = Len(frames)
      <4>1. frames'[l] = <<i, 1>> BY <1>1, <1>7, <3>1
      <4> QED BY <2>1, <4>1
    <3>2. CASE l # Len(frames)
      <4>1. frames'[l] = frames[l] /\ Ready(src, families, memo, frames[l])
        BY <1>2, <1>7, <3>2 DEF AllReady
      <4> QED BY <1>6, <4>1, ReadyStays
    <3> QED BY <3>1, <3>2
  <2> QED BY <1>1, <1>7, <2>2 DEF AllReady
<1>10. SameTerm'
  <2>1. \A m \in memo \cup answers : Term(nodes', families')[m[2]] = Term(src.nodes, src.families)[m[1]]
    BY <1>1, <1>2, <1>6, TermsCarry
  <2> QED BY <1>1, <2>1 DEF SameTerm
<1> QED BY <1>6, <1>8, <1>9, <1>10 DEF CopySound

\* Only frames, memo and answers move: the destination is as it was.
LEMMA SameStays ==
    ASSUME CopySound, UNCHANGED <<vars, families, src, memo, answers>>
    PROVE  DestSound' /\ SameTerm' /\ Ids' = Ids /\ families' = families /\ src' = src /\ memo' = memo
<1>1. UNCHANGED <<vars, families>> /\ src' = src /\ memo' = memo /\ answers' = answers /\ families' = families
  OBVIOUS
<1>2. DestSound' /\ Keeps(nodes, families, nodes', families') /\ Ids' = Ids
  BY <1>1, DestStays DEF CopySound
<1>3. \A m \in memo \cup answers : Term(nodes', families')[m[2]] = Term(src.nodes, src.families)[m[1]]
  BY <1>1, <1>2, TermsCarry DEF CopySound
<1>4. SameTerm' BY <1>1, <1>3 DEF SameTerm
<1> QED BY <1>1, <1>2, <1>4

LEMMA KnownSound == ASSUME CopySound, Known PROVE CopySound'
<1> DEFINE i == FrameTop[1]
           p == FrameTop[2]
<1>1. /\ frames # <<>> /\ Advance /\ UNCHANGED <<vars, families, src, memo, answers>> /\ answers' = answers
      /\ p \in DOMAIN src.nodes[i][2] /\ Copied(src.nodes[i][2][p]) # {}
  BY DEF Known, AtChild, Child, Source
<1>2. CopyTyped /\ AllReady BY DEF CopySound
<1>3. DestSound' /\ SameTerm' /\ Ids' = Ids /\ families' = families /\ src' = src /\ memo' = memo
  BY <1>1, SameStays
<1>4. FrameTop \in (DOMAIN src.nodes) \X Nat /\ i \in DOMAIN src.nodes /\ p \in Nat
      /\ FrameTop = <<i, p>> /\ Len(frames) \in DOMAIN frames /\ FrameTop = frames[Len(frames)]
  BY <1>1, <1>2, FrameIs, PairIs DEF FrameTop
<1>5. SourceFit(i) BY <1>2, <1>4, SourceIs DEF CopyTyped
<1> HIDE DEF i, p
<1>6. /\ frames' \in Seq((DOMAIN src.nodes) \X Nat) /\ DOMAIN frames' = DOMAIN frames
      /\ frames'[Len(frames)] = <<i, p + 1>>
      /\ \A l \in DOMAIN frames : l # Len(frames) => frames'[l] = frames[l]
  BY <1>1, <1>2, AdvanceIs DEF i, p
<1>7. CopyTyped' BY <1>1, <1>2, <1>3, <1>6 DEF CopyTyped
<1>8. p >= 1 BY <1>1, <1>5 DEF SourceFit, ContentFit
<1>9. Ready(src, families, memo, <<i, p>>) BY <1>2, <1>4 DEF AllReady
<1>10. Ready(src, families, memo, <<i, p + 1>>)
  <2>1. \A k \in DOMAIN src.nodes[i][2] : k < p + 1 => k < p \/ k = p
    BY <1>4, <1>5 DEF SourceFit, ContentFit
  <2>2. \E m \in memo : m[1] = src.nodes[i][2][p] BY <1>1 DEF Copied
  <2> QED BY <1>8, <1>9, <2>1, <2>2 DEF Ready
<1>11. AllReady'
  <2>1. ASSUME NEW l \in DOMAIN frames PROVE Ready(src, families, memo, frames'[l])
    BY <1>2, <1>6, <1>10 DEF AllReady
  <2> QED BY <1>3, <1>6, <2>1 DEF AllReady
<1> QED BY <1>3, <1>7, <1>11 DEF CopySound

LEMMA DescendSound == ASSUME CopySound, Descend PROVE CopySound'
<1> DEFINE i == FrameTop[1]
           p == FrameTop[2]
           c == src.nodes[i][2][p]
<1>1. /\ frames # <<>> /\ UNCHANGED <<vars, families, src, memo, answers>> /\ answers' = answers
      /\ p \in DOMAIN src.nodes[i][2] /\ frames' = Append(frames, <<c, 0>>)
  BY DEF Descend, AtChild, Child, Source
<1>2. CopyTyped /\ AllReady BY DEF CopySound
<1>3. DestSound' /\ SameTerm' /\ Ids' = Ids /\ families' = families /\ src' = src /\ memo' = memo
  BY <1>1, SameStays
<1>4. i \in DOMAIN src.nodes
  BY <1>1, <1>2, FrameIs, PairIs
<1>5. c \in DOMAIN src.nodes BY <1>1, <1>2, <1>4, SourceIs DEF CopyTyped, SourceFit
<1> HIDE DEF i, p, c
<1>6. <<c, 0>> \in (DOMAIN src.nodes) \X Nat BY <1>5
<1> DEFINE S == (DOMAIN src.nodes) \X Nat
<1>7. frames \in Seq(S) BY <1>2 DEF CopyTyped
<1>8. /\ frames' \in Seq(S) /\ Len(frames') = Len(frames) + 1 /\ Len(frames) \in Nat
      /\ frames'[Len(frames) + 1] = <<c, 0>>
      /\ \A k \in 1 .. Len(frames) : frames'[k] = frames[k]
  <2> HIDE DEF S
  <2>1. <<c, 0>> \in S BY <1>6 DEF S
  <2> QED BY <1>1, <1>7, <2>1, AppendIs
<1>9. CopyTyped' BY <1>1, <1>2, <1>3, <1>8 DEF CopyTyped
<1>10. AllReady'
  <2>1. DOMAIN frames = 1 .. Len(frames) /\ DOMAIN frames' = 1 .. Len(frames) + 1 BY <1>7, <1>8
  <2>2. ASSUME NEW l \in DOMAIN frames' PROVE Ready(src, families, memo, frames'[l])
    <3>1. CASE l \in DOMAIN frames
      <4>1. frames'[l] = frames[l] BY <1>8, <2>1, <3>1
      <4> QED BY <1>2, <3>1, <4>1 DEF AllReady
    <3>2. CASE l \notin DOMAIN frames
      <4>1. frames'[l] = <<c, 0>> BY <1>8, <2>1, <3>2
      <4> QED BY <4>1 DEF Ready
    <3> QED BY <3>1, <3>2
  <2> QED BY <1>3, <2>2 DEF AllReady
<1> QED BY <1>3, <1>9, <1>10 DEF CopySound

\* What Build makes of the source node i.
Made(i) ==
    <<<<src.nodes[i][1][1], Family(families, src.nodes[i][1][2])>>,
      [k \in DOMAIN src.nodes[i][2] |-> CopyOf(src.nodes[i][2][k])]>>

LEMMA MadeIs ==
    ASSUME CopySound, NEW i \in DOMAIN src.nodes,
           src.nodes[i][1][2] = 0 \/ Position(families, src.families[src.nodes[i][1][2]]) # {},
           \A k \in DOMAIN src.nodes[i][2] : \E m \in memo : m[1] = src.nodes[i][2][k]
    PROVE  /\ Made(i) \in Contents /\ Made(i)[1][2] <= Len(families)
           /\ NameOf(families, Made(i)[1][2]) = NameOf(src.families, src.nodes[i][1][2])
           /\ \A k \in DOMAIN src.nodes[i][2] :
                 \E m \in memo : m[1] = src.nodes[i][2][k] /\ m[2] = Made(i)[2][k]
<1> DEFINE h == src.nodes[i][1]
           args == src.nodes[i][2]
           fid == Family(families, h[2])
           new == [k \in DOMAIN args |-> CopyOf(args[k])]
<1>1. SourceFit(i) BY SourceIs DEF CopySound, CopyTyped
<1>2. /\ h \in Heads /\ h = <<h[1], h[2]>> /\ Arity[h] \in Nat
      /\ DOMAIN args = 1 .. Arity[h]
  BY <1>1 DEF SourceFit, ContentFit
<1>3. fid \in Nat /\ fid <= Len(families) /\ NameOf(families, fid) = NameOf(src.families, h[2])
  BY FamilyIs DEF CopySound
<1>4. Len(families) <= Cardinality(Names) /\ Cardinality(Names) \in Nat /\ Len(families) \in Nat
  BY FamilyRoom DEF CopySound, DestSound, FamiliesSound
<1>5. fid \in 0 .. Cardinality(Names) BY <1>3, <1>4
<1>6. \A k \in DOMAIN args : \E m \in memo : m[1] = args[k] /\ m[2] = CopyOf(args[k])
  BY CopyIs
<1>7. \A k \in DOMAIN args : CopyOf(args[k]) \in Ids
  <2>1. memo \subseteq (DOMAIN src.nodes) \X Ids BY DEF CopySound, CopyTyped
  <2>2. \A m \in memo : m[2] \in Ids BY <2>1
  <2> QED BY <1>6, <2>2
<1> HIDE DEF h, args, fid
<1>8. <<h[1], fid>> \in Heads /\ Arity[<<h[1], fid>>] = Arity[h]
  BY <1>2, <1>5, TranslationAssumption
<1>9. new \in [1 .. Arity[h] -> Ids] BY <1>2, <1>7
<1>10. Made(i) = <<<<h[1], fid>>, new>> BY DEF Made, h, args, fid
<1>11. \A k \in DOMAIN args : new[k] = CopyOf(args[k]) OBVIOUS
<1> HIDE DEF new
<1>12. Made(i) \in Contents
  <2>1. new \in [1 .. Arity[<<h[1], fid>>] -> 1 .. Len(nodes)] BY <1>8, <1>9 DEF Ids
  <2> QED BY <1>8, <1>10, <2>1 DEF Contents, ContentsUpTo
<1>13. Made(i)[1][2] = fid /\ Made(i)[2] = new BY <1>10
<1>14. \A k \in DOMAIN args : \E m \in memo : m[1] = args[k] /\ m[2] = Made(i)[2][k]
  BY <1>6, <1>11, <1>13
<1> QED BY <1>3, <1>12, <1>13, <1>14 DEF h, args

LEMMA BuildSound == ASSUME CopySound, Build PROVE CopySound'
<1> DEFINE i == FrameTop[1]
           n == Made(i)
           id == IF Same(n) # {} THEN CHOOSE k \in Same(n) : TRUE ELSE Len(nodes) + 1
<1>1. /\ frames # <<>> /\ FrameTop[2] > Len(src.nodes[i][2]) /\ Interned(n)
      /\ memo' = memo \cup {<<i, id>>}
      /\ answers' = answers \/ answers' = answers \cup {<<i, id>>}
      /\ frames' = FramesBelow /\ families' = families /\ src' = src
  BY DEF Build, Made, Source, Interned
<1>2. CopyTyped /\ AllReady /\ DestSound /\ SameTerm BY DEF CopySound
<1>3. /\ i \in DOMAIN src.nodes /\ FrameTop[2] \in Nat /\ FrameTop = <<i, FrameTop[2]>>
      /\ FrameTop = frames[Len(frames)] /\ Len(frames) \in DOMAIN frames
  BY <1>1, <1>2, FrameIs, PairIs DEF FrameTop
<1>4. SourceFit(i) BY <1>2, <1>3, SourceIs DEF CopyTyped
<1>5. Ready(src, families, memo, <<i, FrameTop[2]>>) BY <1>2, <1>3 DEF AllReady
<1> HIDE DEF i
<1>6. /\ FrameTop[2] >= 1 /\ \A k \in DOMAIN src.nodes[i][2] : k < FrameTop[2]
  <2>1. /\ src.nodes[i][2] \in [1 .. Arity[src.nodes[i][1]] -> 1 .. i - 1] /\ Arity[src.nodes[i][1]] \in Nat
        /\ DOMAIN src.nodes[i][2] = 1 .. Arity[src.nodes[i][1]]
    BY <1>4 DEF SourceFit, ContentFit
  <2>2. Len(src.nodes[i][2]) = Arity[src.nodes[i][1]] BY <2>1, FunSeq
  <2> QED BY <1>1, <1>3, <2>1, <2>2
<1>7. /\ src.nodes[i][1][2] = 0 \/ Position(families, src.families[src.nodes[i][1][2]]) # {}
      /\ \A k \in DOMAIN src.nodes[i][2] : \E m \in memo : m[1] = src.nodes[i][2][k]
  BY <1>5, <1>6 DEF Ready
<1>8. /\ n \in Contents /\ n[1][2] <= Len(families)
      /\ NameOf(families, n[1][2]) = NameOf(src.families, src.nodes[i][1][2])
      /\ \A k \in DOMAIN src.nodes[i][2] : \E m \in memo : m[1] = src.nodes[i][2][k] /\ m[2] = n[2][k]
  BY <1>3, <1>7, MadeIs
<1>9. n[1][1] = src.nodes[i][1][1] /\ DOMAIN n[2] = DOMAIN src.nodes[i][2]
  BY DEF Made
<1> HIDE DEF n
<1>10. /\ DestSound' /\ Keeps(nodes, families, nodes', families') /\ Ids \subseteq Ids'
       /\ \A k \in Same(n) : k \in Ids' /\ nodes'[k] = n
       /\ Same(n) = {} => Len(nodes) + 1 \in Ids' /\ nodes'[Len(nodes) + 1] = n
  BY <1>1, <1>2, <1>8, NodeAdded
<1>11. id \in Ids' /\ nodes'[id] = n BY <1>10
<1> HIDE DEF id
<1> DEFINE T == Term(nodes', families')
           U == Term(src.nodes, src.families)
<1>12. \A m \in memo \cup answers : T[m[2]] = U[m[1]]
  BY <1>1, <1>2, <1>10, TermsCarry
<1>13. T[id] = U[i]
  <2>1. Rooted(nodes') /\ DOMAIN nodes' = Ids'
    <3>1. nodes' \in Seq(ContentsUpTo(MaxNodes)) /\ \A k \in 1 .. Len(nodes') : nodes'[k] \in ContentsUpTo(k - 1)
      BY <1>10 DEF DestSound, TableSound, TableTyped, Grounded, Ids
    <3> QED BY <3>1, GroundedRooted DEF Ids
  <2>2. T[id] = Say(nodes', families', id, T) BY <1>11, <2>1, TermIs
  <2>3. U[i] = Say(src.nodes, src.families, i, U) BY <1>2, <1>3, SourceIs, TermIs DEF CopyTyped
  <2> HIDE DEF T, U
  <2>4. T[id] = <<n[1][1], NameOf(families, n[1][2]), [k \in DOMAIN n[2] |-> T[n[2][k]]]>>
    BY <1>1, <1>11, <2>2 DEF Say
  <2>5. \A k \in DOMAIN src.nodes[i][2] : T[n[2][k]] = U[src.nodes[i][2][k]]
    BY <1>8, <1>12
  <2>6. [k \in DOMAIN n[2] |-> T[n[2][k]]] = [k \in DOMAIN src.nodes[i][2] |-> U[src.nodes[i][2][k]]]
    BY <1>9, <2>5
  <2>7. U[i] = <<src.nodes[i][1][1], NameOf(src.families, src.nodes[i][1][2]),
                 [k \in DOMAIN src.nodes[i][2] |-> U[src.nodes[i][2][k]]]>>
    BY <2>3 DEF Say
  <2> QED BY <1>8, <1>9, <2>4, <2>6, <2>7
<1>14. SameTerm'
  <2>1. \A m \in memo' \cup answers' : m \in memo \cup answers \/ m = <<i, id>> BY <1>1
  <2>2. \A m \in memo' \cup answers' : T[m[2]] = U[m[1]]
    <3> HIDE DEF T, U
    <3> QED BY <1>12, <1>13, <2>1
  <2> QED BY <1>1, <2>2 DEF SameTerm
<1>15. /\ frames' \in Seq((DOMAIN src.nodes) \X Nat) /\ DOMAIN frames' = 1 .. Len(frames) - 1
       /\ \A l \in 1 .. Len(frames) - 1 : l \in DOMAIN frames /\ frames'[l] = frames[l]
  BY <1>1, <1>2, FrameIs
<1>16. CopyTyped'
  <2>1. memo \subseteq (DOMAIN src.nodes) \X Ids /\ answers \subseteq (DOMAIN src.nodes) \X Ids
    BY <1>2 DEF CopyTyped
  <2>2. <<i, id>> \in (DOMAIN src.nodes) \X Ids' BY <1>3, <1>11
  <2>3. (DOMAIN src.nodes) \X Ids \subseteq (DOMAIN src.nodes) \X Ids' BY <1>10
  <2>4. memo' \subseteq (DOMAIN src.nodes) \X Ids' BY <1>1, <2>1, <2>2, <2>3
  <2>5. answers' \subseteq (DOMAIN src.nodes) \X Ids' BY <1>1, <2>1, <2>2, <2>3
  <2> QED BY <1>1, <1>2, <1>15, <2>4, <2>5 DEF CopyTyped
<1>17. AllReady'
  <2>1. memo \subseteq memo' BY <1>1
  <2>2. ASSUME NEW l \in DOMAIN frames' PROVE Ready(src, families, memo', frames'[l])
    <3>1. frames'[l] = frames[l] /\ Ready(src, families, memo, frames[l]) BY <1>2, <1>15 DEF AllReady
    <3> QED BY <2>1, <3>1, ReadyStays
  <2> QED BY <1>1, <2>2 DEF AllReady
<1> QED BY <1>10, <1>14, <1>16, <1>17 DEF CopySound

LEMMA ElsewhereSound == ASSUME CopySound, Elsewhere PROVE CopySound'
<1>1. /\ frames = <<>> /\ frames' = <<>> /\ src' = src /\ memo' = memo /\ answers' = answers
  BY DEF Elsewhere, copy
<1>2. DestSound' /\ Keeps(nodes, families, nodes', families') /\ Ids \subseteq Ids'
  <2>1. CASE \E n \in Own : /\ n[1][2] <= Len(families) /\ \A k \in DOMAIN n[2] : n[2][k] \in Ids
                            /\ Intern(n) /\ UNCHANGED families
    <3>1. PICK n \in Own : /\ n[1][2] <= Len(families) /\ \A k \in DOMAIN n[2] : n[2][k] \in Ids
                           /\ Intern(n) /\ UNCHANGED families
      BY <2>1
    <3>2. n \in ContentsUpTo(MaxNodes) BY TranslationAssumption
    <3>3. n = <<n[1], n[2]>> /\ n[1] \in Heads /\ n[2] \in [1 .. Arity[n[1]] -> 1 .. MaxNodes]
      BY <3>2, ContentIs DEF ContentFit
    <3>4. n[2] \in [1 .. Arity[n[1]] -> 1 .. Len(nodes)]
      <4> DEFINE a == n[2]
                 D == 1 .. Arity[n[1]]
      <4>1. a \in [D -> 1 .. MaxNodes] /\ \A k \in DOMAIN a : a[k] \in 1 .. Len(nodes)
        BY <3>1, <3>3 DEF Ids
      <4> HIDE DEF a, D
      <4>2. a \in [D -> 1 .. Len(nodes)] BY <4>1
      <4> QED BY <4>2 DEF a, D
    <3>5. n \in Contents BY <3>3, <3>4 DEF Contents, ContentsUpTo
    <3>6. Interned(n) BY <3>1 DEF Intern, Interned
    <3> QED BY <3>1, <3>5, <3>6, NodeAdded DEF CopySound
  <2>2. CASE \E name \in Names : Position(families, name) = {} /\ families' = Append(families, name)
                                 /\ UNCHANGED vars
    <3>1. PICK name \in Names : Position(families, name) = {} /\ families' = Append(families, name)
                                /\ UNCHANGED vars
      BY <2>2
    <3>2. UNCHANGED table /\ Ids' = Ids BY <3>1 DEF vars, table, Ids
    <3> QED BY <3>1, <3>2, FamilyAdded DEF CopySound
  <2> QED BY <2>1, <2>2 DEF Elsewhere
<1>3. CopyTyped'
  <2>1. memo \subseteq (DOMAIN src.nodes) \X Ids /\ answers \subseteq (DOMAIN src.nodes) \X Ids
        /\ src \in Sources /\ frames \in Seq((DOMAIN src.nodes) \X Nat)
    BY DEF CopySound, CopyTyped
  <2>2. (DOMAIN src.nodes) \X Ids \subseteq (DOMAIN src.nodes) \X Ids' BY <1>2
  <2> QED BY <1>1, <2>1, <2>2 DEF CopyTyped
<1>4. AllReady' BY <1>1 DEF AllReady
<1>5. SameTerm'
  <2>1. \A m \in memo \cup answers : Term(nodes', families')[m[2]] = Term(src.nodes, src.families)[m[1]]
    BY <1>1, <1>2, TermsCarry DEF CopySound
  <2> QED BY <1>1, <2>1 DEF SameTerm
<1> QED BY <1>2, <1>3, <1>4, <1>5 DEF CopySound

LEMMA CopyInitSound == TranslateInit => CopySound
<1> SUFFICES ASSUME NEW source \in Sources, TranslateStart(source) PROVE CopySound
  BY DEF TranslateInit
<1>1. /\ Init /\ families = <<"basic">> /\ src = source /\ frames = <<>> /\ memo = {} /\ answers = {}
  BY DEF TranslateStart
<1>2. TableSound BY <1>1, InitSound
<1>3. Ids = {} BY <1>1 DEF Init, Ids
<1>4. FamiliesSound
  <2>1. "basic" \in Names BY TranslationAssumption
  <2>2. families \in Seq(Names) BY <1>1, <2>1, OneSeq
  <2>3. Len(families) = 1 /\ DOMAIN families = {1} BY <1>1
  <2> QED BY <1>3, <2>2, <2>3 DEF FamiliesSound
<1>5. DestSound BY <1>2, <1>3, <1>4 DEF DestSound, Grounded
<1>6. CopyTyped BY <1>1 DEF CopyTyped
<1> QED BY <1>1, <1>5, <1>6 DEF CopySound, AllReady, SameTerm

LEMMA CopyNextSound == CopySound /\ [TranslateNext]_allVars => CopySound'
<1> SUFFICES ASSUME CopySound, [TranslateNext]_allVars PROVE CopySound'
  OBVIOUS
<1>1. ASSUME NEW i \in DOMAIN src.nodes, Translate(i) PROVE CopySound'
  BY <1>1, TranslateSound
<1>2. CASE Register BY <1>2, RegisterSound
<1>3. CASE Known BY <1>3, KnownSound
<1>4. CASE Descend BY <1>4, DescendSound
<1>5. CASE Build BY <1>5, BuildSound
<1>6. CASE Elsewhere BY <1>6, ElsewhereSound
<1>7. CASE UNCHANGED allVars
  <2>1. UNCHANGED <<vars, families, src, memo, answers>> /\ frames' = frames /\ answers' = answers
    BY <1>7 DEF allVars, copy
  <2>2. DestSound' /\ SameTerm' /\ Ids' = Ids /\ families' = families /\ src' = src /\ memo' = memo
    BY <2>1, SameStays
  <2> QED BY <2>1, <2>2 DEF CopySound, CopyTyped, AllReady
<1> QED BY <1>1, <1>2, <1>3, <1>4, <1>5, <1>6, <1>7 DEF TranslateNext

\* A source term has one copy and a copy one source: a term of a manager is one node.
LEMMA OneCopyEach == ASSUME CopySound PROVE OneCopy
<1> SUFFICES ASSUME NEW m \in memo \cup answers, NEW n \in memo \cup answers PROVE m[1] = n[1] <=> m[2] = n[2]
  BY DEF OneCopy
<1>1. /\ m[1] \in DOMAIN src.nodes /\ n[1] \in DOMAIN src.nodes /\ m[2] \in Ids /\ n[2] \in Ids
  BY DEF CopySound, CopyTyped
<1>2. /\ Term(nodes, families)[m[2]] = Term(src.nodes, src.families)[m[1]]
      /\ Term(nodes, families)[n[2]] = Term(src.nodes, src.families)[n[1]]
  BY DEF CopySound, SameTerm
<1>3. WellMade(nodes, families) /\ DOMAIN nodes = Ids BY DestMade DEF CopySound
<1>4. WellMade(src.nodes, src.families) BY SourceIs DEF CopySound, CopyTyped
<1>5. ASSUME m[1] = n[1] PROVE m[2] = n[2]
  <2>1. Term(nodes, families)[m[2]] = Term(nodes, families)[n[2]] BY <1>2, <1>5
  <2> QED BY <1>1, <1>3, <2>1, TermsApart
<1>6. ASSUME m[2] = n[2] PROVE m[1] = n[1]
  <2>1. Term(src.nodes, src.families)[m[1]] = Term(src.nodes, src.families)[n[1]] BY <1>2, <1>6
  <2> QED BY <1>1, <1>4, <2>1, TermsApart
<1> QED BY <1>5, <1>6

\* translate (translation.rs): a copy says what its source says and shares what its
\* source shares, whatever family ids the managers gave out, whatever the
\* destination held before and made of its own between the calls.
THEOREM CopiesAreRight == TranslateSpec => []CopiesRight
<1>1. TranslateSpec => []CopySound
  BY CopyInitSound, CopyNextSound, PTL DEF TranslateSpec
<1>2. CopySound => CopiesRight
  BY OneCopyEach DEF CopySound, CopiesRight
<1> QED BY <1>1, <1>2, PTL

=============================================================================
