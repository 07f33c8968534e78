---------------------------- MODULE BitGates_proofs ----------------------------
(***************************************************************************)
(* The gates are exact and leave the inputs free, for any number of        *)
(* variables; and the circuits built of them compute the operations of     *)
(* SMT-LIB at every width.  The second half argues with Low(a)[k], the     *)
(* number of the k lowest bits of a: each circuit is a recursion on its    *)
(* bits or its stages, and a lemma per circuit gives the number of what it *)
(* returns.                                                                *)
(***************************************************************************)
EXTENDS BitGates, BitBlast, FiniteSetTheorems, SequenceTheorems, WellFoundedInduction, TLAPS

Sat(v, cs) == \A c \in cs : \E l \in c : LitTrue(v, l)
LitsTo(n) == {l \in -n .. n : l # 0}
Shorter(v, n) == [i \in 1 .. n |-> v[i]]
Longer(v, n, p) == [i \in 1 .. n + 1 |-> IF i = n + 1 THEN p ELSE v[i]]

TrueAsserted == {TrueLit} \in clauses

\* Every entry of the cache defines its gate.
CacheDefined ==
    \A e \in gateCache :
        /\ Key(e.key.tag, e.key.a, e.key.b) = e.key
        /\ Folded(e.key.tag, e.key.a, e.key.b) = 0
        /\ Defining(e.key.tag, e.key.a, e.key.b, e.out) \subseteq clauses
CacheFunctional == \A d, e \in gateCache : d.key = e.key => d.out = e.out

\* A gate asked for was folded, or is in the cache.
BuiltCached ==
    \A g \in built :
        \/ Folded(g.tag, g.a, g.b) # 0 /\ g.out = Folded(g.tag, g.a, g.b)
        \/ /\ Folded(g.tag, g.a, g.b) = 0
           /\ \E e \in gateCache : e.key = Key(g.tag, g.a, g.b) /\ e.out = g.out

IInv == /\ TypeOK /\ TrueAsserted /\ CacheDefined /\ CacheFunctional /\ BuiltCached
        /\ GatesExact /\ InputsFree

-----------------------------------------------------------------------------
(* Valuations and literals *)

LEMMA LitTrueBoolean ==
    ASSUME NEW n \in Nat, NEW v \in Valuations(n), NEW l \in LitsTo(n)
    PROVE  LitTrue(v, l) \in BOOLEAN /\ -l \in LitsTo(n) /\ LitTrue(v, -l) = ~LitTrue(v, l)
  <1>1. -l \in LitsTo(n) /\ l # 0 /\ l \in Int
    BY DEF LitsTo
  <1>2. CASE l > 0
    <2>1. l \in 1 .. n /\ ~(-l > 0) /\ -(-l) = l
      BY <1>1, <1>2 DEF LitsTo
    <2>. QED BY <1>1, <1>2, <2>1 DEF LitTrue, Valuations
  <1>3. CASE ~(l > 0)
    <2>1. -l \in 1 .. n /\ -l > 0
      BY <1>1, <1>3 DEF LitsTo
    <2>. QED BY <1>1, <1>3, <2>1 DEF LitTrue, Valuations
  <1>. QED BY <1>2, <1>3

LEMMA ShorterSame ==
    ASSUME NEW n \in Nat, NEW v \in Valuations(n + 1)
    PROVE  /\ Shorter(v, n) \in Valuations(n)
           /\ \A l \in LitsTo(n) : LitTrue(Shorter(v, n), l) = LitTrue(v, l)
  <1>1. 1 .. n \subseteq 1 .. n + 1
    OBVIOUS
  <1>2. Shorter(v, n) \in Valuations(n)
    BY <1>1 DEF Shorter, Valuations
  <1>3. ASSUME NEW l \in LitsTo(n)
        PROVE  LitTrue(Shorter(v, n), l) = LitTrue(v, l)
    <2>1. (l > 0 => l \in 1 .. n) /\ (~(l > 0) => -l \in 1 .. n)
      BY DEF LitsTo
    <2>. QED BY <2>1 DEF LitTrue, Shorter
  <1>. QED BY <1>2, <1>3

LEMMA LongerSame ==
    ASSUME NEW n \in Nat, NEW v \in Valuations(n), NEW p \in BOOLEAN
    PROVE  /\ Longer(v, n, p) \in Valuations(n + 1)
           /\ Longer(v, n, p)[n + 1] = p
           /\ \A i \in 1 .. n : Longer(v, n, p)[i] = v[i]
           /\ \A l \in LitsTo(n) : LitTrue(Longer(v, n, p), l) = LitTrue(v, l)
  <1>1. \A i \in 1 .. n + 1 : i # n + 1 => i \in 1 .. n
    OBVIOUS
  <1>2. Longer(v, n, p) \in Valuations(n + 1)
    BY <1>1 DEF Longer, Valuations
  <1>3. n + 1 \in 1 .. n + 1 /\ \A i \in 1 .. n : i \in 1 .. n + 1 /\ i # n + 1
    OBVIOUS
  <1>4. Longer(v, n, p)[n + 1] = p /\ \A i \in 1 .. n : Longer(v, n, p)[i] = v[i]
    BY <1>3 DEF Longer
  <1>5. ASSUME NEW l \in LitsTo(n)
        PROVE  LitTrue(Longer(v, n, p), l) = LitTrue(v, l)
    <2>1. (l > 0 => l \in 1 .. n) /\ (~(l > 0) => -l \in 1 .. n)
      BY DEF LitsTo
    <2>. QED BY <2>1, <1>4 DEF LitTrue
  <1>. QED BY <1>2, <1>4, <1>5

\* A model of more variables is one of fewer.
LEMMA ShorterSat ==
    ASSUME NEW n \in Nat, NEW v \in Valuations(n + 1),
           NEW cs \in SUBSET (SUBSET LitsTo(n)), Sat(v, cs)
    PROVE  Sat(Shorter(v, n), cs)
  BY ShorterSame DEF Sat

LEMMA LongerSat ==
    ASSUME NEW n \in Nat, NEW v \in Valuations(n), NEW p \in BOOLEAN,
           NEW cs \in SUBSET (SUBSET LitsTo(n)), Sat(v, cs)
    PROVE  Sat(Longer(v, n, p), cs)
  BY LongerSame DEF Sat

-----------------------------------------------------------------------------
(* The gates *)

\* Folding is exact where the true literal is true, and does not depend on the
\* order of the inputs.
LEMMA FoldedExact ==
    ASSUME NEW n \in Nat, NEW v \in Valuations(n), NEW tag \in Tags,
           NEW a \in LitsTo(n), NEW b \in LitsTo(n), 1 <= n, v[1] = TRUE,
           Folded(tag, a, b) # 0
    PROVE  /\ Folded(tag, a, b) \in LitsTo(n)
           /\ LitTrue(v, Folded(tag, a, b)) = Value(tag, LitTrue(v, a), LitTrue(v, b))
  <1>1. /\ TrueLit \in LitsTo(n) /\ -TrueLit \in LitsTo(n)
        /\ LitTrue(v, TrueLit) = TRUE /\ LitTrue(v, -TrueLit) = FALSE
    <2>1. TrueLit \in LitsTo(n) /\ LitTrue(v, TrueLit) = TRUE
      BY DEF LitsTo, LitTrue, TrueLit
    <2>. QED BY <2>1, LitTrueBoolean
  <1>2. /\ LitTrue(v, a) \in BOOLEAN /\ LitTrue(v, b) \in BOOLEAN
        /\ -a \in LitsTo(n) /\ -b \in LitsTo(n)
        /\ LitTrue(v, -a) = ~LitTrue(v, a) /\ LitTrue(v, -b) = ~LitTrue(v, b)
    BY LitTrueBoolean
  <1>3. CASE tag = "and"
    <2>1. CASE a = TrueLit \/ a = b
      BY <1>1, <1>2, <1>3, <2>1 DEF Folded, FoldedAnd, FoldedOr, FoldedXor, Value
    <2>2. CASE ~(a = TrueLit \/ a = b) /\ b = TrueLit
      BY <1>1, <1>2, <1>3, <2>2 DEF Folded, FoldedAnd, FoldedOr, FoldedXor, Value
    <2>3. CASE ~(a = TrueLit \/ a = b) /\ b # TrueLit
               /\ (a = -TrueLit \/ b = -TrueLit \/ a = -b)
      <3>1. Folded(tag, a, b) = -TrueLit
        BY <1>3, <2>3 DEF Folded, FoldedAnd, FoldedOr, FoldedXor
      <3>2. ~(LitTrue(v, a) /\ LitTrue(v, b))
        BY <1>1, <1>2, <2>3
      <3>. QED BY <1>1, <1>2, <1>3, <3>1, <3>2 DEF Value
    <2>. QED BY <1>3, <2>1, <2>2, <2>3 DEF Folded, FoldedAnd, FoldedOr, FoldedXor
  <1>4. CASE tag = "or"
    <2>1. CASE a = -TrueLit \/ a = b
      BY <1>1, <1>2, <1>4, <2>1 DEF Folded, FoldedAnd, FoldedOr, FoldedXor, Value
    <2>2. CASE ~(a = -TrueLit \/ a = b) /\ b = -TrueLit
      BY <1>1, <1>2, <1>4, <2>2 DEF Folded, FoldedAnd, FoldedOr, FoldedXor, Value
    <2>3. CASE ~(a = -TrueLit \/ a = b) /\ b # -TrueLit
               /\ (a = TrueLit \/ b = TrueLit \/ a = -b)
      <3>1. Folded(tag, a, b) = TrueLit
        BY <1>4, <2>3 DEF Folded, FoldedAnd, FoldedOr, FoldedXor
      <3>2. LitTrue(v, a) \/ LitTrue(v, b)
        BY <1>1, <1>2, <2>3
      <3>. QED BY <1>1, <1>2, <1>4, <3>1, <3>2 DEF Value
    <2>. QED BY <1>4, <2>1, <2>2, <2>3 DEF Folded, FoldedAnd, FoldedOr, FoldedXor
  <1>5. CASE tag = "xor"
    <2>1. CASE a = -TrueLit
      BY <1>1, <1>2, <1>5, <2>1 DEF Folded, FoldedAnd, FoldedOr, FoldedXor, Value
    <2>2. CASE a # -TrueLit /\ b = -TrueLit
      BY <1>1, <1>2, <1>5, <2>2 DEF Folded, FoldedAnd, FoldedOr, FoldedXor, Value
    <2>3. CASE a # -TrueLit /\ b # -TrueLit /\ a = TrueLit
      BY <1>1, <1>2, <1>5, <2>3 DEF Folded, FoldedAnd, FoldedOr, FoldedXor, Value
    <2>4. CASE a # -TrueLit /\ b # -TrueLit /\ a # TrueLit /\ b = TrueLit
      BY <1>1, <1>2, <1>5, <2>4 DEF Folded, FoldedAnd, FoldedOr, FoldedXor, Value
    <2>5. CASE a # -TrueLit /\ b # -TrueLit /\ a # TrueLit /\ b # TrueLit /\ a = b
      BY <1>1, <1>2, <1>5, <2>5 DEF Folded, FoldedAnd, FoldedOr, FoldedXor, Value
    <2>6. CASE a # -TrueLit /\ b # -TrueLit /\ a # TrueLit /\ b # TrueLit /\ a # b /\ a = -b
      BY <1>1, <1>2, <1>5, <2>6 DEF Folded, FoldedAnd, FoldedOr, FoldedXor, Value
    <2>. QED BY <1>5, <2>1, <2>2, <2>3, <2>4, <2>5, <2>6 DEF Folded, FoldedAnd, FoldedOr, FoldedXor
  <1>. QED BY <1>3, <1>4, <1>5 DEF Tags

LEMMA FoldedSymmetric ==
    ASSUME NEW tag \in Tags, NEW a \in Int, NEW b \in Int
    PROVE  Folded(tag, a, b) = Folded(tag, b, a)
  <1>1. (a = -b) <=> (b = -a)
    OBVIOUS
  <1>2. CASE tag = "and" BY <1>1, <1>2 DEF Folded, FoldedAnd, FoldedOr, FoldedXor, TrueLit
  <1>3. CASE tag = "or" BY <1>1, <1>3 DEF Folded, FoldedAnd, FoldedOr, FoldedXor, TrueLit
  <1>4. CASE tag = "xor" BY <1>1, <1>4 DEF Folded, FoldedAnd, FoldedOr, FoldedXor, TrueLit
  <1>. QED BY <1>2, <1>3, <1>4 DEF Tags

\* The clauses of a gate say exactly that its output has its value.
LEMMA DefiningExact ==
    ASSUME NEW n \in Nat, NEW v \in Valuations(n), NEW tag \in Tags,
           NEW a \in LitsTo(n), NEW b \in LitsTo(n), NEW c \in LitsTo(n)
    PROVE  Sat(v, Defining(tag, a, b, c))
           <=> LitTrue(v, c) = Value(tag, LitTrue(v, a), LitTrue(v, b))
  <1>1. /\ LitTrue(v, a) \in BOOLEAN /\ LitTrue(v, b) \in BOOLEAN /\ LitTrue(v, c) \in BOOLEAN
        /\ LitTrue(v, -a) = ~LitTrue(v, a) /\ LitTrue(v, -b) = ~LitTrue(v, b)
        /\ LitTrue(v, -c) = ~LitTrue(v, c)
    BY LitTrueBoolean
  <1>2. CASE tag = "and"
    <2>1. Sat(v, Defining(tag, a, b, c)) <=>
             /\ LitTrue(v, -c) \/ LitTrue(v, a)
             /\ LitTrue(v, -c) \/ LitTrue(v, b)
             /\ LitTrue(v, c) \/ LitTrue(v, -a) \/ LitTrue(v, -b)
      BY <1>2, Zenon DEF Sat, Defining
    <2>. QED BY <1>1, <1>2, <2>1 DEF Value
  <1>3. CASE tag = "or"
    <2>1. Sat(v, Defining(tag, a, b, c)) <=>
             /\ LitTrue(v, c) \/ LitTrue(v, -a)
             /\ LitTrue(v, c) \/ LitTrue(v, -b)
             /\ LitTrue(v, -c) \/ LitTrue(v, a) \/ LitTrue(v, b)
      BY <1>3, Zenon DEF Sat, Defining
    <2>. QED BY <1>1, <1>3, <2>1 DEF Value
  <1>4. CASE tag = "xor"
    <2>1. Sat(v, Defining(tag, a, b, c)) <=>
             /\ LitTrue(v, -c) \/ LitTrue(v, a) \/ LitTrue(v, b)
             /\ LitTrue(v, -c) \/ LitTrue(v, -a) \/ LitTrue(v, -b)
             /\ LitTrue(v, c) \/ LitTrue(v, -a) \/ LitTrue(v, b)
             /\ LitTrue(v, c) \/ LitTrue(v, a) \/ LitTrue(v, -b)
      BY <1>4, Zenon DEF Sat, Defining
    <2>. QED BY <1>1, <1>4, <2>1 DEF Value
  <1>. QED BY <1>2, <1>3, <1>4 DEF Tags

LEMMA KeyFacts ==
    ASSUME NEW tag \in Tags, NEW a \in Int, NEW b \in Int
    PROVE  /\ Key(tag, a, b).tag = tag
           /\ \/ Key(tag, a, b).a = a /\ Key(tag, a, b).b = b
              \/ Key(tag, a, b).a = b /\ Key(tag, a, b).b = a
           /\ Key(tag, a, b) = Key(tag, b, a)
           /\ Key(tag, Key(tag, a, b).a, Key(tag, a, b).b) = Key(tag, a, b)
  BY DEF Key

LEMMA DefiningSymmetric ==
    ASSUME NEW tag, NEW a, NEW b, NEW c
    PROVE  Defining(tag, a, b, c) = Defining(tag, b, a, c)
  <1>1. CASE tag = "and" BY <1>1, Zenon DEF Defining
  <1>2. CASE tag # "and" /\ tag = "or" BY <1>2, Zenon DEF Defining
  <1>3. CASE tag # "and" /\ tag # "or" BY <1>3, Zenon DEF Defining
  <1>. QED BY <1>1, <1>2, <1>3

LEMMA ValueSymmetric ==
    ASSUME NEW tag \in Tags, NEW p \in BOOLEAN, NEW q \in BOOLEAN
    PROVE  Value(tag, p, q) = Value(tag, q, p) /\ Value(tag, p, q) \in BOOLEAN
  BY DEF Value

-----------------------------------------------------------------------------
(* The invariant *)

LEMMA InitIInv == Init => IInv
  <1>. SUFFICES ASSUME Init PROVE IInv
    OBVIOUS
  <1>. USE MaxVarsAssumption DEF Init
  <1>1. TypeOK
    <2>1. TrueLit \in Lits
      BY DEF TrueLit, Lits
    <2>. QED BY <2>1 DEF TypeOK
  <1>2. TrueAsserted /\ CacheDefined /\ CacheFunctional /\ BuiltCached /\ GatesExact
    BY DEF TrueAsserted, CacheDefined, CacheFunctional, BuiltCached, GatesExact
  <1>3. InputsFree
    <2>. SUFFICES ASSUME NEW f \in [inputs -> BOOLEAN]
                  PROVE  \E v \in Valuations(numVars) :
                             Satisfies(v) /\ \A i \in inputs : v[i] = f[i]
      BY DEF InputsFree
    <2>. DEFINE v == [i \in 1 .. 1 |-> TRUE]
    <2>1. v \in Valuations(numVars) /\ v[1] = TRUE
      BY DEF Valuations
    <2>2. Satisfies(v)
      BY <2>1 DEF Satisfies, LitTrue, TrueLit
    <2>. QED BY <2>1, <2>2
  <1>. QED BY <1>1, <1>2, <1>3 DEF IInv

\* In a model of the clauses the cache's outputs have their gates' values.
LEMMA CacheExact ==
    ASSUME IInv, NEW v \in Valuations(numVars), Sat(v, clauses), NEW e \in gateCache
    PROVE  LitTrue(v, e.out) = Value(e.key.tag, LitTrue(v, e.key.a), LitTrue(v, e.key.b))
  <1>1. /\ numVars \in Nat /\ e.key.tag \in Tags /\ e.key.a \in LitsTo(numVars)
        /\ e.key.b \in LitsTo(numVars) /\ e.out \in LitsTo(numVars)
    BY DEF IInv, TypeOK, Lits, LitsTo
  <1>2. Sat(v, Defining(e.key.tag, e.key.a, e.key.b, e.out))
    BY DEF IInv, CacheDefined, Sat
  <1>. QED BY <1>1, <1>2, DefiningExact

\* A step that adds a variable, and clauses about it, keeps what the others are.
LEMMA OldGatesExact ==
    ASSUME IInv, numVars' = numVars + 1, clauses \subseteq clauses',
           NEW v \in Valuations(numVars'), Sat(v, clauses'), NEW g \in built
    PROVE  LitTrue(v, g.out) = Value(g.tag, LitTrue(v, g.a), LitTrue(v, g.b))
  <1>. DEFINE w == Shorter(v, numVars)
  <1>1. numVars \in Nat /\ clauses \in SUBSET (SUBSET LitsTo(numVars))
    BY DEF IInv, TypeOK, Lits, LitsTo
  <1>2. Sat(v, clauses)
    BY DEF Sat
  <1>3. w \in Valuations(numVars) /\ Sat(w, clauses)
    BY <1>1, <1>2, ShorterSame, ShorterSat
  <1>4. LitTrue(w, g.out) = Value(g.tag, LitTrue(w, g.a), LitTrue(w, g.b))
    BY <1>3 DEF IInv, GatesExact, Satisfies, Sat
  <1>5. g.a \in LitsTo(numVars) /\ g.b \in LitsTo(numVars) /\ g.out \in LitsTo(numVars)
    BY DEF IInv, TypeOK, Lits, LitsTo
  <1>. QED BY <1>1, <1>4, <1>5, ShorterSame

LEMMA FreshKeeps == IInv /\ Fresh => IInv'
  <1>. SUFFICES ASSUME IInv, Fresh PROVE IInv'
    OBVIOUS
  <1>. USE DEF Fresh
  <1>0. numVars \in Nat /\ clauses \in SUBSET (SUBSET LitsTo(numVars)) /\ inputs \subseteq 1 .. numVars
        /\ Lits \subseteq Lits' /\ MaxVars \in Nat
    BY MaxVarsAssumption DEF IInv, TypeOK, Lits, LitsTo
  <1>1. TypeOK'
    <2>1. numVars' \in 1 .. MaxVars /\ inputs' \subseteq 2 .. numVars'
      BY <1>0 DEF IInv, TypeOK
    <2>2. clauses' \subseteq SUBSET Lits'
      BY <1>0 DEF IInv, TypeOK
    <2>3. gateCache' \subseteq [key : [tag : Tags, a : Lits', b : Lits'], out : Lits']
      BY <1>0 DEF IInv, TypeOK
    <2>4. built' \subseteq [tag : Tags, a : Lits', b : Lits', out : Lits']
      BY <1>0 DEF IInv, TypeOK
    <2>. QED BY <2>1, <2>2, <2>3, <2>4 DEF TypeOK
  <1>2. TrueAsserted' /\ CacheDefined' /\ CacheFunctional' /\ BuiltCached'
    BY DEF IInv, TrueAsserted, CacheDefined, CacheFunctional, BuiltCached
  <1>3. GatesExact'
    BY OldGatesExact DEF GatesExact, Satisfies, Sat
  <1>4. InputsFree'
    <2>. SUFFICES ASSUME NEW f \in [inputs' -> BOOLEAN]
                  PROVE  \E v \in Valuations(numVars') :
                             Sat(v, clauses') /\ \A i \in inputs' : v[i] = f[i]
      BY DEF InputsFree, Satisfies, Sat
    <2>1. [i \in inputs |-> f[i]] \in [inputs -> BOOLEAN] /\ f[numVars + 1] \in BOOLEAN
      OBVIOUS
    <2>2. PICK v \in Valuations(numVars) : Sat(v, clauses) /\ \A i \in inputs : v[i] = f[i]
      BY <2>1 DEF IInv, InputsFree, Satisfies, Sat
    <2>. DEFINE w == Longer(v, numVars, f[numVars + 1])
    <2>3. w \in Valuations(numVars') /\ Sat(w, clauses')
      BY <1>0, <2>1, <2>2, LongerSame, LongerSat
    <2>4. \A i \in inputs' : w[i] = f[i]
      BY <1>0, <2>1, <2>2, LongerSame
    <2>. QED BY <2>3, <2>4
  <1>. QED BY <1>1, <1>2, <1>3, <1>4 DEF IInv

\* A gate that is folded or shared: only what was built changes.
LEMMA OldGateKeeps ==
    ASSUME IInv, NEW tag \in Tags, NEW a \in Lits, NEW b \in Lits,
           Fold(tag, a, b) \/ Share(tag, a, b)
    PROVE  IInv'
  <1>0. /\ numVars \in Nat /\ 1 <= numVars /\ a \in LitsTo(numVars) /\ b \in LitsTo(numVars)
        /\ a \in Int /\ b \in Int /\ Lits = LitsTo(numVars)
    BY DEF IInv, TypeOK, Lits, LitsTo
  <1>1. UNCHANGED <<numVars, clauses, gateCache, inputs>>
    BY DEF Fold, Share
  <1>2. ASSUME NEW v \in Valuations(numVars), Sat(v, clauses)
        PROVE  v[1] = TRUE
    BY <1>2 DEF IInv, TrueAsserted, TrueLit, Sat, LitTrue, Valuations
  <1>3. PICK c : /\ built' = built \cup {[tag |-> tag, a |-> a, b |-> b, out |-> c]}
                 /\ \/ Folded(tag, a, b) # 0 /\ c = Folded(tag, a, b)
                    \/ /\ Folded(tag, a, b) = 0
                       /\ \E e \in gateCache : e.key = Key(tag, a, b) /\ e.out = c
    BY DEF Fold, Share, Returned, Cached
  <1>. DEFINE Right(d) ==
           /\ d \in Lits
           /\ \A v \in Valuations(numVars) :
                 Sat(v, clauses) => LitTrue(v, d) = Value(tag, LitTrue(v, a), LitTrue(v, b))
  <1>4. Right(c)
    <2>1. CASE Folded(tag, a, b) # 0 /\ c = Folded(tag, a, b)
      <3>1. \E v \in Valuations(numVars) : Sat(v, clauses)
        <4>1. \E f : f \in [inputs -> BOOLEAN]
          <5>1. [i \in inputs |-> TRUE] \in [inputs -> BOOLEAN]
            OBVIOUS
          <5>. QED BY <5>1
        <4>. QED BY <4>1 DEF IInv, InputsFree, Satisfies, Sat
      <3>. QED BY <1>0, <1>2, <2>1, <3>1, FoldedExact
    <2>2. ASSUME Folded(tag, a, b) = 0, NEW e \in gateCache, e.key = Key(tag, a, b), e.out = c
          PROVE  Right(c)
      <3>1. e.out \in Lits
        BY DEF IInv, TypeOK
      <3>2. ASSUME NEW v \in Valuations(numVars), Sat(v, clauses)
            PROVE  LitTrue(v, c) = Value(tag, LitTrue(v, a), LitTrue(v, b))
        <4>1. LitTrue(v, c) = Value(tag, LitTrue(v, e.key.a), LitTrue(v, e.key.b))
          BY <1>0, <2>2, <3>2, CacheExact, KeyFacts
        <4>2. LitTrue(v, a) \in BOOLEAN /\ LitTrue(v, b) \in BOOLEAN
          BY <1>0, LitTrueBoolean
        <4>3. \/ e.key.a = a /\ e.key.b = b
              \/ e.key.a = b /\ e.key.b = a
          BY <1>0, <2>2, KeyFacts
        <4>4. Value(tag, LitTrue(v, a), LitTrue(v, b)) = Value(tag, LitTrue(v, b), LitTrue(v, a))
          BY <4>2, ValueSymmetric
        <4>. QED BY <4>1, <4>3, <4>4
      <3>. QED BY <2>2, <3>1, <3>2
    <2>. HIDE DEF Right
    <2>. QED BY <1>3, <2>1, <2>2
  <1>5. TypeOK'
    <2>1. built' \subseteq [tag : Tags, a : Lits', b : Lits', out : Lits']
      BY <1>1, <1>3, <1>4 DEF IInv, TypeOK, Lits
    <2>. QED BY <1>1, <2>1 DEF IInv, TypeOK, Lits
  <1>6. TrueAsserted' /\ CacheDefined' /\ CacheFunctional'
    BY <1>1 DEF IInv, TrueAsserted, CacheDefined, CacheFunctional
  <1>7. BuiltCached'
    <2>. SUFFICES ASSUME NEW g \in built'
                  PROVE  \/ Folded(g.tag, g.a, g.b) # 0 /\ g.out = Folded(g.tag, g.a, g.b)
                         \/ /\ Folded(g.tag, g.a, g.b) = 0
                            /\ \E e \in gateCache : e.key = Key(g.tag, g.a, g.b) /\ e.out = g.out
      BY <1>1 DEF BuiltCached
    <2>1. CASE g \in built
      BY <2>1 DEF IInv, BuiltCached
    <2>2. CASE g = [tag |-> tag, a |-> a, b |-> b, out |-> c]
      <3>1. g.tag = tag /\ g.a = a /\ g.b = b /\ g.out = c
        BY <2>2
      <3>. QED BY <1>3, <3>1
    <2>. QED BY <1>3, <2>1, <2>2
  <1>8. GatesExact'
    <2>. SUFFICES ASSUME NEW v \in Valuations(numVars), Sat(v, clauses), NEW g \in built'
                  PROVE  LitTrue(v, g.out) = Value(g.tag, LitTrue(v, g.a), LitTrue(v, g.b))
      BY <1>1 DEF GatesExact, Satisfies, Sat
    <2>1. CASE g \in built
      BY <2>1 DEF IInv, GatesExact, Satisfies, Sat
    <2>2. CASE g = [tag |-> tag, a |-> a, b |-> b, out |-> c]
      <3>1. g.tag = tag /\ g.a = a /\ g.b = b /\ g.out = c
        BY <2>2
      <3>. QED BY <1>4, <3>1
    <2>. QED BY <1>3, <2>1, <2>2
  <1>9. InputsFree'
    BY <1>1 DEF IInv, InputsFree, Satisfies
  <1>. QED BY <1>5, <1>6, <1>7, <1>8, <1>9 DEF IInv

LEMMA DefineKeeps ==
    ASSUME IInv, NEW tag \in Tags, NEW a \in Lits, NEW b \in Lits, Define(tag, a, b)
    PROVE  IInv'
  <1>. DEFINE n == numVars  c == numVars + 1
  <1>0. /\ n \in Nat /\ 1 <= n /\ a \in LitsTo(n) /\ b \in LitsTo(n) /\ a \in Int /\ b \in Int
        /\ Lits = LitsTo(n) /\ Lits' = LitsTo(n + 1) /\ LitsTo(n) \subseteq LitsTo(n + 1)
        /\ c \in LitsTo(n + 1) /\ -c \in LitsTo(n + 1) /\ MaxVars \in Nat
        /\ clauses \in SUBSET (SUBSET LitsTo(n)) /\ inputs \subseteq 1 .. n
    BY MaxVarsAssumption DEF IInv, TypeOK, Lits, LitsTo, Define
  <1>00. -a \in LitsTo(n + 1) /\ -b \in LitsTo(n + 1) /\ a \in LitsTo(n + 1) /\ b \in LitsTo(n + 1)
    BY <1>0 DEF LitsTo
  <1>1. /\ numVars' = n + 1 /\ clauses' = clauses \cup Defining(tag, a, b, c)
        /\ gateCache' = gateCache \cup {[key |-> Key(tag, a, b), out |-> c]}
        /\ built' = built \cup {[tag |-> tag, a |-> a, b |-> b, out |-> c]}
        /\ inputs' = inputs /\ n < MaxVars
        /\ Folded(tag, a, b) = 0 /\ \A e \in gateCache : e.key # Key(tag, a, b)
    BY DEF Define, Returned, Cached
  <1>2. Defining(tag, a, b, c) \subseteq SUBSET LitsTo(n + 1)
    BY <1>0, <1>00 DEF Defining
  <1>3. TypeOK'
    <2>1. numVars' \in 1 .. MaxVars /\ inputs' \subseteq 2 .. numVars'
      BY <1>0, <1>1 DEF IInv, TypeOK
    <2>2. clauses' \subseteq SUBSET Lits'
      BY <1>0, <1>1, <1>2
    <2>3. Key(tag, a, b) \in [tag : Tags, a : Lits', b : Lits']
      BY <1>0, <1>00 DEF Key
    <2>4. gateCache \subseteq [key : [tag : Tags, a : Lits', b : Lits'], out : Lits']
      BY <1>0 DEF IInv, TypeOK
    <2>5. gateCache' \subseteq [key : [tag : Tags, a : Lits', b : Lits'], out : Lits']
      BY <1>0, <1>1, <2>3, <2>4
    <2>6. built' \subseteq [tag : Tags, a : Lits', b : Lits', out : Lits']
      BY <1>0, <1>00, <1>1 DEF IInv, TypeOK
    <2>. QED BY <2>1, <2>2, <2>5, <2>6 DEF TypeOK
  <1>4. TrueAsserted'
    BY <1>1 DEF IInv, TrueAsserted
  <1>5. CacheDefined'
    <2>. SUFFICES ASSUME NEW e \in gateCache'
                  PROVE  /\ Key(e.key.tag, e.key.a, e.key.b) = e.key
                         /\ Folded(e.key.tag, e.key.a, e.key.b) = 0
                         /\ Defining(e.key.tag, e.key.a, e.key.b, e.out) \subseteq clauses'
      BY DEF CacheDefined
    <2>1. CASE e \in gateCache
      BY <1>1, <2>1 DEF IInv, CacheDefined
    <2>2. CASE e = [key |-> Key(tag, a, b), out |-> c]
      <3>1. e.key = Key(tag, a, b) /\ e.out = c
        BY <2>2
      <3>2. /\ e.key.tag = tag
            /\ \/ e.key.a = a /\ e.key.b = b
               \/ e.key.a = b /\ e.key.b = a
        BY <1>0, <3>1, KeyFacts
      <3>3. Folded(tag, b, a) = 0 /\ Defining(tag, b, a, c) = Defining(tag, a, b, c)
        BY <1>0, <1>1, FoldedSymmetric, DefiningSymmetric
      <3>4. Key(e.key.tag, e.key.a, e.key.b) = e.key
        BY <1>0, <3>1, KeyFacts
      <3>. QED BY <1>1, <3>1, <3>2, <3>3, <3>4
    <2>. QED BY <1>1, <2>1, <2>2
  <1>6. CacheFunctional'
    BY <1>1 DEF IInv, CacheFunctional
  <1>7. BuiltCached'
    <2>. SUFFICES ASSUME NEW g \in built'
                  PROVE  \/ Folded(g.tag, g.a, g.b) # 0 /\ g.out = Folded(g.tag, g.a, g.b)
                         \/ /\ Folded(g.tag, g.a, g.b) = 0
                            /\ \E e \in gateCache' : e.key = Key(g.tag, g.a, g.b) /\ e.out = g.out
      BY DEF BuiltCached
    <2>1. CASE g \in built
      BY <1>1, <2>1 DEF IInv, BuiltCached
    <2>2. CASE g = [tag |-> tag, a |-> a, b |-> b, out |-> c]
      <3>1. g.tag = tag /\ g.a = a /\ g.b = b /\ g.out = c
        BY <2>2
      <3>2. [key |-> Key(tag, a, b), out |-> c] \in gateCache'
        BY <1>1
      <3>3. \E e \in gateCache' : e.key = Key(tag, a, b) /\ e.out = c
        BY <3>2
      <3>. QED BY <1>1, <3>1, <3>3
    <2>. QED BY <1>1, <2>1, <2>2
  <1>8. GatesExact'
    <2>. SUFFICES ASSUME NEW v \in Valuations(numVars'), Sat(v, clauses'), NEW g \in built'
                  PROVE  LitTrue(v, g.out) = Value(g.tag, LitTrue(v, g.a), LitTrue(v, g.b))
      BY DEF GatesExact, Satisfies, Sat
    <2>1. CASE g \in built
      BY <1>1, <2>1, OldGatesExact
    <2>2. CASE g = [tag |-> tag, a |-> a, b |-> b, out |-> c]
      <3>1. g.tag = tag /\ g.a = a /\ g.b = b /\ g.out = c
        BY <2>2
      <3>2. Sat(v, Defining(tag, a, b, c))
        BY <1>1 DEF Sat
      <3>3. n + 1 \in Nat
        BY <1>0
      <3>4. LitTrue(v, c) = Value(tag, LitTrue(v, a), LitTrue(v, b))
        BY <1>0, <1>00, <1>1, <3>2, <3>3, DefiningExact
      <3>. QED BY <3>1, <3>4
    <2>. QED BY <1>1, <2>1, <2>2
  <1>9. InputsFree'
    <2>. SUFFICES ASSUME NEW f \in [inputs -> BOOLEAN]
                  PROVE  \E v \in Valuations(n + 1) :
                             Sat(v, clauses') /\ \A i \in inputs : v[i] = f[i]
      BY <1>1 DEF InputsFree, Satisfies, Sat
    <2>1. PICK v \in Valuations(n) : Sat(v, clauses) /\ \A i \in inputs : v[i] = f[i]
      BY DEF IInv, InputsFree, Satisfies, Sat
    <2>. DEFINE p == Value(tag, LitTrue(v, a), LitTrue(v, b))
                w == Longer(v, n, p)
    <2>2. p \in BOOLEAN
      BY <1>0, LitTrueBoolean, ValueSymmetric
    <2>3. /\ w \in Valuations(n + 1) /\ Sat(w, clauses) /\ w[n + 1] = p
          /\ \A i \in 1 .. n : w[i] = v[i]
          /\ LitTrue(w, a) = LitTrue(v, a) /\ LitTrue(w, b) = LitTrue(v, b)
      BY <1>0, <2>1, <2>2, LongerSame, LongerSat
    <2>4. LitTrue(w, c) = p
      <3>1. c > 0
        BY <1>0
      <3>. QED BY <2>3, <3>1 DEF LitTrue
    <2>5. Sat(w, Defining(tag, a, b, c))
      <3>1. n + 1 \in Nat
        BY <1>0
      <3>2. LitTrue(w, c) = Value(tag, LitTrue(w, a), LitTrue(w, b))
        BY <2>3, <2>4
      <3>. HIDE DEF w
      <3>. QED BY <1>0, <1>00, <2>3, <3>1, <3>2, DefiningExact
    <2>6. Sat(w, clauses')
      BY <1>1, <2>3, <2>5 DEF Sat
    <2>7. \A i \in inputs : w[i] = f[i]
      BY <1>0, <2>1, <2>3
    <2>. QED BY <2>3, <2>6, <2>7
  <1>. QED BY <1>3, <1>4, <1>5, <1>6, <1>7, <1>8, <1>9 DEF IInv

LEMMA Inductive == Spec => []IInv
  <1>1. Init => IInv
    BY InitIInv
  <1>2. IInv /\ [Next]_vars => IInv'
    <2>. SUFFICES ASSUME IInv, [Next]_vars PROVE IInv'
      OBVIOUS
    <2>1. CASE Fresh
      BY <2>1, FreshKeeps
    <2>2. ASSUME NEW tag \in Tags, NEW a \in Lits, NEW b \in Lits, Gate(tag, a, b)
          PROVE  IInv'
      BY <2>2, OldGateKeeps, DefineKeeps DEF Gate
    <2>3. CASE UNCHANGED vars
      BY <2>3 DEF vars, IInv, TypeOK, TrueAsserted, CacheDefined, CacheFunctional, BuiltCached,
                  GatesExact, InputsFree, Satisfies, Lits
    <2>. QED BY <2>1, <2>2, <2>3 DEF Next
  <1>. QED BY <1>1, <1>2, PTL DEF Spec

\* Every literal a gate returned has the value of the gate in every model of the
\* clauses, whatever was built before and since (and2, or2, xor2).
THEOREM GatesAreExact == Spec => []GatesExact
  <1>1. IInv => GatesExact
    BY DEF IInv
  <1>. QED BY <1>1, Inductive, PTL

\* The circuit leaves every choice of the formula's bits possible.
THEOREM InputsStayFree == Spec => []InputsFree
  <1>1. IInv => InputsFree
    BY DEF IInv
  <1>. QED BY <1>1, Inductive, PTL

\* Gates asked for twice, in either order, are one literal.
THEOREM GatesAreShared == Spec => []Shared
  <1>1. IInv => Shared
    <2>. SUFFICES ASSUME IInv, NEW g \in built, NEW h \in built,
                         g.tag = h.tag, {g.a, g.b} = {h.a, h.b}
                  PROVE  g.out = h.out
      BY DEF Shared
    <2>1. /\ g.tag \in Tags /\ g.a \in Int /\ g.b \in Int /\ h.a \in Int /\ h.b \in Int
      BY DEF IInv, TypeOK, Lits
    <2>2. \/ g.a = h.a /\ g.b = h.b
          \/ g.a = h.b /\ g.b = h.a
      OBVIOUS
    <2>3. /\ Folded(g.tag, g.a, g.b) = Folded(h.tag, h.a, h.b)
          /\ Key(g.tag, g.a, g.b) = Key(h.tag, h.a, h.b)
      BY <2>1, <2>2, FoldedSymmetric, KeyFacts
    <2>. QED BY <2>3 DEF IInv, BuiltCached, CacheFunctional
  <1>. QED BY <1>1, Inductive, PTL

\* What the bit-blaster relies on: a gate returns exactly its function, once, and
\* at no cost to the formula.
THEOREM GatesAreRight == Spec => []GatesRight
  <1>1. GatesExact /\ InputsFree /\ Shared => GatesRight
    BY DEF GatesRight
  <1>. QED BY <1>1, GatesAreExact, InputsStayFree, GatesAreShared, PTL

-----------------------------------------------------------------------------
(* The circuits *)

\* What holds of 0, and of n + 1 when of n, holds of Nat.
LEMMA NatInductive ==
    ASSUME NEW T, 0 \in T, \A n \in Nat : n \in T => n + 1 \in T
    PROVE  Nat \subseteq T
<1> SUFFICES ASSUME NEW m \in Nat, m \notin T PROVE FALSE
  OBVIOUS
<1> DEFINE F == {0 .. k : k \in Nat \ T}
           R == StrictSubsetOrdering(Nat)
<1>1. IsWellFoundedOn(R, FiniteSubsetsOf(Nat))
  BY FS_StrictSubsetOrderingWellFounded
<1>2. F \subseteq FiniteSubsetsOf(Nat) /\ F # {}
  <2>1. ASSUME NEW k \in Nat \ T PROVE 0 .. k \in FiniteSubsetsOf(Nat)
    <3>1. IsFiniteSet(0 .. k) BY FS_Interval
    <3>2. 0 .. k \in SUBSET Nat OBVIOUS
    <3> QED BY <3>1, <3>2 DEF FiniteSubsetsOf
  <2>2. 0 .. m \in F OBVIOUS
  <2> QED BY <2>1, <2>2
<1>3. \E x \in F : \A y \in F : <<y, x>> \notin R
  <2> HIDE DEF R, F
  <2> QED BY <1>1, <1>2, WFMin
<1>4. PICK k \in Nat \ T : \A j \in Nat \ T : <<0 .. j, 0 .. k>> \notin R
  BY <1>3
<1>5. k # 0 /\ k - 1 \in Nat \ T
  <2>1. k # 0 OBVIOUS
  <2> QED BY <2>1
<1>6. 0 .. (k - 1) \subseteq 0 .. k /\ k \in 0 .. k /\ k \notin 0 .. (k - 1)
  BY <1>5
<1>7. <<0 .. (k - 1), 0 .. k>> \in R
  BY <1>5, <1>6 DEF StrictSubsetOrdering
<1> QED BY <1>4, <1>5, <1>7

LEMMA FunSeq ==
    ASSUME NEW S, NEW n \in Nat, NEW f \in [1 .. n -> S]
    PROVE  f \in Seq(S) /\ Len(f) = n
<1>1. f \in Seq(S) BY SeqDef
<1>2. DOMAIN f = 1 .. n /\ DOMAIN f = 1 .. Len(f) /\ Len(f) \in Nat BY <1>1, LenProperties
<1> QED BY <1>1, <1>2

\* A function with a first value and a step from each value to the next exists.
Steps(n, V, base, step, f) ==
    /\ f \in [0 .. n -> V] /\ f[0] = base
    /\ \A i \in 1 .. n : f[i] = step[i][f[i - 1]]

LEMMA StepsExist ==
    ASSUME NEW V, NEW base \in V, NEW n \in Nat, NEW step \in [1 .. n -> [V -> V]]
    PROVE  \E f : Steps(n, V, base, step, f)
<1> DEFINE T == {m \in Nat : m <= n => \E f : Steps(m, V, base, step, f)}
<1>1. 0 \in T
  <2> DEFINE f == [i \in 0 .. 0 |-> base]
  <2>1. f \in [0 .. 0 -> V] /\ f[0] = base OBVIOUS
  <2>2. \A i \in 1 .. 0 : FALSE OBVIOUS
  <2>3. Steps(0, V, base, step, f) BY <2>1, <2>2 DEF Steps
  <2> QED BY <2>3
<1>2. ASSUME NEW m \in Nat, m \in T PROVE m + 1 \in T
  <2> SUFFICES ASSUME m + 1 <= n PROVE \E f : Steps(m + 1, V, base, step, f) OBVIOUS
  <2>1. PICK f : Steps(m, V, base, step, f) BY <1>2
  <2> DEFINE g == [i \in 0 .. m + 1 |-> IF i = m + 1 THEN step[m + 1][f[m]] ELSE f[i]]
  <2>2. f \in [0 .. m -> V] /\ f[0] = base /\ m \in 0 .. m BY <2>1 DEF Steps
  <2>3. m + 1 \in 1 .. n OBVIOUS
  <2>4. step[m + 1] \in [V -> V] BY <2>3
  <2>5. step[m + 1][f[m]] \in V BY <2>2, <2>4
  <2>6. \A i \in 0 .. m + 1 : i = m + 1 \/ i \in 0 .. m OBVIOUS
  <2>7. g \in [0 .. m + 1 -> V] BY <2>2, <2>5, <2>6
  <2>8. g[0] = base BY <2>2
  <2>9. ASSUME NEW i \in 1 .. m + 1 PROVE g[i] = step[i][g[i - 1]]
    <3>1. i \in 0 .. m + 1 /\ i - 1 \in 0 .. m + 1 /\ i - 1 \in 0 .. m /\ i - 1 # m + 1 OBVIOUS
    <3>2. g[i - 1] = f[i - 1] BY <3>1
    <3>3. CASE i = m + 1
      <4>1. i - 1 = m BY <3>3
      <4> QED BY <3>1, <3>2, <3>3, <4>1
    <3>4. CASE i # m + 1
      <4>1. i \in 1 .. m BY <3>4
      <4>2. f[i] = step[i][f[i - 1]] BY <2>1, <4>1 DEF Steps
      <4>3. g[i] = f[i] BY <3>1, <3>4
      <4> QED BY <3>2, <4>2, <4>3
    <3> QED BY <3>3, <3>4
  <2>10. Steps(m + 1, V, base, step, g)
    <3> HIDE DEF g
    <3> QED BY <2>7, <2>8, <2>9 DEF Steps
  <2> QED BY <2>10
<1>3. Nat \subseteq T
  <2> HIDE DEF T
  <2> QED BY <1>1, <1>2, NatInductive
<1>4. n \in T BY <1>3
<1> QED BY <1>4

-----------------------------------------------------------------------------
(* Powers of two *)

Pow(n) == 2 ^ n

LEMMA PowOfSubsets == ASSUME NEW n \in Nat PROVE Pow(n) = Cardinality(SUBSET (1 .. n))
<1>1. IsFiniteSet(1 .. n) /\ Cardinality(1 .. n) = n BY FS_Interval
<1> QED BY <1>1, FS_SUBSET DEF Pow

LEMMA PowNext == ASSUME NEW n \in Nat PROVE Pow(n) \in Nat \ {0} /\ Pow(n + 1) = 2 * Pow(n)
<1> DEFINE A == SUBSET (1 .. n)
           F == [s \in A |-> s \cup {n + 1}]
           B == {s \cup {n + 1} : s \in A}
<1>1. IsFiniteSet(1 .. n) BY FS_Interval
<1>2. IsFiniteSet(A) BY <1>1, FS_SUBSET
<1>3. \A s \in A : n + 1 \notin s OBVIOUS
<1>4. F \in [A -> B] OBVIOUS
<1>5. ASSUME NEW s \in A, NEW t \in A, F[s] = F[t] PROVE s = t
  <2>1. s \cup {n + 1} = t \cup {n + 1} BY <1>5
  <2> QED BY <1>3, <2>1
<1>6. \A u \in B : \E s \in A : F[s] = u OBVIOUS
<1>7. F \in Bijection(A, B)
  <2> HIDE DEF F, A, B
  <2> QED BY <1>4, <1>5, <1>6 DEF Bijection, Injection, Surjection, IsInjective
<1>8. ExistsBijection(A, B)
  <2> HIDE DEF F, A, B
  <2> QED BY <1>7 DEF ExistsBijection
<1>9. IsFiniteSet(B) /\ Cardinality(B) = Cardinality(A)
  <2> HIDE DEF A, B
  <2> QED BY <1>2, <1>8, FS_Bijection
<1>10. SUBSET (1 .. n + 1) = A \cup B
  <2>1. ASSUME NEW s \in SUBSET (1 .. n + 1) PROVE s \in A \cup B
    <3>1. CASE n + 1 \in s
      <4>1. s \ {n + 1} \in A OBVIOUS
      <4>2. s = (s \ {n + 1}) \cup {n + 1} BY <3>1
      <4> QED BY <4>1, <4>2
    <3>2. CASE n + 1 \notin s
      <4>1. s \in A BY <3>2
      <4> QED BY <4>1
    <3> QED BY <3>1, <3>2
  <2>2. ASSUME NEW s \in A PROVE s \in SUBSET (1 .. n + 1) /\ s \cup {n + 1} \in SUBSET (1 .. n + 1)
    OBVIOUS
  <2>3. \A u \in B : u \in SUBSET (1 .. n + 1) BY <2>2
  <2>4. \A u \in A : u \in SUBSET (1 .. n + 1) BY <2>2
  <2> HIDE DEF A, B
  <2> QED BY <2>1, <2>3, <2>4
<1>11. A \cap B = {}
  <2>1. \A u \in B : n + 1 \in u OBVIOUS
  <2> HIDE DEF B, A
  <2> QED BY <1>3, <2>1
<1>12. Cardinality(A \cup B) = Cardinality(A) + Cardinality(B) - Cardinality(A \cap B)
  <2> HIDE DEF A, B
  <2> QED BY <1>2, <1>9, FS_Union
<1>13. Cardinality(A \cap B) = 0 BY <1>11, FS_EmptySet, Zenon
<1>14. Cardinality(A) \in Nat
  <2> HIDE DEF A
  <2> QED BY <1>2, FS_CardinalityType
<1>15. Cardinality(A) # 0
  <2>1. {} \in A OBVIOUS
  <2> HIDE DEF A
  <2> QED BY <1>2, <2>1, FS_EmptySet
<1>16. Cardinality(A \cup B) = 2 * Cardinality(A)
  <2> HIDE DEF A, B
  <2> QED BY <1>9, <1>12, <1>13, <1>14
<1>17. Pow(n) = Cardinality(A) BY PowOfSubsets
<1>18. Pow(n + 1) = Cardinality(A \cup B)
  <2>1. n + 1 \in Nat OBVIOUS
  <2>2. Pow(n + 1) = Cardinality(SUBSET (1 .. n + 1)) BY <2>1, PowOfSubsets
  <2> QED BY <1>10, <2>2
<1> HIDE DEF A, B
<1> QED BY <1>14, <1>15, <1>16, <1>17, <1>18

LEMMA PowZero == Pow(0) = 1 BY DEF Pow

LEMMA PowOne == Pow(1) = 2 BY PowZero, PowNext

LEMMA TimesAssoc ==
    ASSUME NEW a \in Int, NEW b \in Int, NEW c \in Int
    PROVE  (a * b) * c = a * (b * c) /\ a * b = b * a /\ a * b \in Int /\ a * (b + c) = a * b + a * c
OBVIOUS

LEMMA PowSum == ASSUME NEW m \in Nat, NEW n \in Nat PROVE Pow(m + n) = Pow(m) * Pow(n)
<1> DEFINE T == {k \in Nat : Pow(m + k) = Pow(m) * Pow(k)}
<1>1. 0 \in T BY PowZero, PowNext
<1>2. ASSUME NEW k \in Nat, k \in T PROVE k + 1 \in T
  <2>1. Pow(m + k + 1) = 2 * Pow(m + k) /\ Pow(k + 1) = 2 * Pow(k) BY PowNext
  <2>2. Pow(m) \in Int /\ Pow(k) \in Int BY PowNext
  <2>3. Pow(m) * (2 * Pow(k)) = 2 * (Pow(m) * Pow(k)) BY <2>2
  <2>4. m + (k + 1) = m + k + 1 OBVIOUS
  <2> QED BY <1>2, <2>1, <2>3, <2>4
<1>3. Nat \subseteq T
  <2> HIDE DEF T
  <2> QED BY <1>1, <1>2, NatInductive
<1> QED BY <1>3

\* Opaque in what follows.
LEMMA PowType == \A n \in Nat : Pow(n) \in Nat \ {0} /\ Pow(n) >= 1 BY PowNext

-----------------------------------------------------------------------------
(* The number of the low bits of a vector *)

Vec(w) == [1 .. w -> BOOLEAN]

LEMMA VecSeq ==
    ASSUME NEW w \in Nat, NEW a \in Vec(w)
    PROVE  a \in Seq(BOOLEAN) /\ Len(a) = w /\ DOMAIN a = 1 .. w
BY FunSeq DEF Vec

LowRun(w, a, L) ==
    /\ L \in [0 .. w -> Nat] /\ L[0] = 0
    /\ \A i \in 1 .. w : L[i] = L[i - 1] + Truth(a[i]) * Pow(i - 1)
Low(a) == CHOOSE L : LowRun(Len(a), a, L)

LEMMA TruthType == \A p : Truth(p) \in {0, 1} /\ Truth(FALSE) = 0 /\ Truth(TRUE) = 1
BY DEF Truth

LEMMA LowRuns == ASSUME NEW w \in Nat, NEW a PROVE \E L : LowRun(w, a, L)
<1> DEFINE step == [i \in 1 .. w |-> [x \in Nat |-> x + Truth(a[i]) * Pow(i - 1)]]
<1>1. ASSUME NEW i \in 1 .. w, NEW x \in Nat PROVE x + Truth(a[i]) * Pow(i - 1) \in Nat
  <2>1. Pow(i - 1) \in Nat BY PowType
  <2>2. Truth(a[i]) = 0 \/ Truth(a[i]) = 1 BY TruthType
  <2> QED BY <2>1, <2>2
<1>2. step \in [1 .. w -> [Nat -> Nat]] BY <1>1
<1>3. 0 \in Nat OBVIOUS
<1>4. PICK f : Steps(w, Nat, 0, step, f)
  <2> HIDE DEF step
  <2> QED BY <1>2, <1>3, StepsExist
<1>5. f \in [0 .. w -> Nat] /\ f[0] = 0 BY <1>4 DEF Steps
<1>6. ASSUME NEW i \in 1 .. w PROVE f[i] = f[i - 1] + Truth(a[i]) * Pow(i - 1)
  <2>1. f[i] = step[i][f[i - 1]]
    <3> HIDE DEF step
    <3> QED BY <1>4 DEF Steps
  <2>2. i - 1 \in 0 .. w OBVIOUS
  <2>3. f[i - 1] \in Nat BY <1>5, <2>2
  <2> QED BY <2>1, <2>3
<1> QED BY <1>5, <1>6 DEF LowRun

LEMMA LowIs ==
    ASSUME NEW w \in Nat, NEW a \in Vec(w)
    PROVE  /\ Low(a) \in [0 .. w -> Nat] /\ Low(a)[0] = 0
           /\ \A i \in 0 .. w : Low(a)[i] \in Nat
           /\ \A i \in 1 .. w : Low(a)[i] = Low(a)[i - 1] + Truth(a[i]) * Pow(i - 1)
<1>1. Len(a) = w BY VecSeq
<1>2. LowRun(w, a, Low(a)) BY <1>1, LowRuns DEF Low
<1> QED BY <1>2 DEF LowRun

LEMMA LowRange ==
    ASSUME NEW w \in Nat, NEW a \in Vec(w), NEW k \in 0 .. w
    PROVE  Low(a)[k] \in 0 .. Pow(k) - 1
<1> DEFINE T == {i \in Nat : i <= w => Low(a)[i] \in 0 .. Pow(i) - 1}
<1>1. 0 \in T BY LowIs, PowZero
<1>2. ASSUME NEW i \in Nat, i \in T PROVE i + 1 \in T
  <2> SUFFICES ASSUME i + 1 <= w PROVE Low(a)[i + 1] \in 0 .. Pow(i + 1) - 1 OBVIOUS
  <2>1. Low(a)[i] \in 0 .. Pow(i) - 1 BY <1>2
  <2>2. i + 1 \in 1 .. w /\ i + 1 - 1 = i OBVIOUS
  <2>3. Low(a)[i + 1] = Low(a)[i] + Truth(a[i + 1]) * Pow(i) BY <2>2, LowIs
  <2>4. Pow(i) \in Nat /\ Pow(i + 1) = 2 * Pow(i) BY PowNext
  <2>5. Truth(a[i + 1]) = 0 \/ Truth(a[i + 1]) = 1 BY TruthType
  <2>6. Truth(a[i + 1]) * Pow(i) = 0 \/ Truth(a[i + 1]) * Pow(i) = Pow(i) BY <2>4, <2>5
  <2> QED BY <2>1, <2>3, <2>4, <2>6
<1>3. Nat \subseteq T
  <2> HIDE DEF T
  <2> QED BY <1>1, <1>2, NatInductive
<1> QED BY <1>3

\* The low bits alone decide it.
LEMMA LowSame ==
    ASSUME NEW w \in Nat, NEW a \in Vec(w), NEW v \in Nat, NEW b \in Vec(v),
           NEW k \in 0 .. w, k <= v, \A i \in 1 .. k : a[i] = b[i]
    PROVE  Low(a)[k] = Low(b)[k]
<1> DEFINE T == {i \in Nat : i <= k => Low(a)[i] = Low(b)[i]}
<1>1. 0 \in T BY LowIs
<1>2. ASSUME NEW i \in Nat, i \in T PROVE i + 1 \in T
  <2> SUFFICES ASSUME i + 1 <= k PROVE Low(a)[i + 1] = Low(b)[i + 1] OBVIOUS
  <2>1. Low(a)[i] = Low(b)[i] BY <1>2
  <2>2. i + 1 \in 1 .. w /\ i + 1 \in 1 .. v /\ i + 1 \in 1 .. k /\ i + 1 - 1 = i OBVIOUS
  <2>3. Low(a)[i + 1] = Low(a)[i] + Truth(a[i + 1]) * Pow(i) BY <2>2, LowIs
  <2>4. Low(b)[i + 1] = Low(b)[i] + Truth(b[i + 1]) * Pow(i) BY <2>2, LowIs
  <2>5. a[i + 1] = b[i + 1] BY <2>2
  <2> QED BY <2>1, <2>3, <2>4, <2>5
<1>3. Nat \subseteq T
  <2> HIDE DEF T
  <2> QED BY <1>1, <1>2, NatInductive
<1> QED BY <1>3

\* The bits above the k-th, as a vector.
Above(a, k) == [j \in 1 .. Len(a) - k |-> a[j + k]]

LEMMA AboveIs ==
    ASSUME NEW w \in Nat, NEW a \in Vec(w), NEW k \in 0 .. w
    PROVE  /\ Above(a, k) \in Vec(w - k) /\ w - k \in Nat
           /\ \A j \in 1 .. w - k : Above(a, k)[j] = a[j + k]
<1>1. Len(a) = w BY VecSeq
<1>2. \A j \in 1 .. w - k : j + k \in 1 .. w OBVIOUS
<1> QED BY <1>1, <1>2 DEF Above, Vec

\* The low k bits, and those above.
LEMMA Split ==
    ASSUME NEW w \in Nat, NEW a \in Vec(w), NEW k \in 0 .. w,
           NEW v \in Nat, NEW u \in Vec(v), NEW m \in 0 .. v, k + m <= w,
           \A j \in 1 .. m : u[j] = a[j + k]
    PROVE  Low(a)[k + m] = Low(a)[k] + Pow(k) * Low(u)[m]
<1> DEFINE T == {i \in Nat : i <= m => Low(a)[k + i] = Low(a)[k] + Pow(k) * Low(u)[i]}
<1>00. k \in Nat OBVIOUS
<1>0. Low(a)[k] \in Nat /\ Pow(k) \in Nat BY <1>00, LowIs, PowType
<1>1. 0 \in T
  <2>1. Low(u)[0] = 0 BY LowIs
  <2>2. k + 0 = k OBVIOUS
  <2> QED BY <1>0, <2>1, <2>2
<1>2. ASSUME NEW i \in Nat, i \in T PROVE i + 1 \in T
  <2> SUFFICES ASSUME i + 1 <= m
               PROVE  Low(a)[k + (i + 1)] = Low(a)[k] + Pow(k) * Low(u)[i + 1]
    OBVIOUS
  <2>1. Low(a)[k + i] = Low(a)[k] + Pow(k) * Low(u)[i] BY <1>2
  <2>2. /\ i + 1 \in 1 .. v /\ i + 1 \in 1 .. m /\ i + 1 - 1 = i /\ i \in 0 .. v
        /\ k + (i + 1) \in 1 .. w /\ k + (i + 1) - 1 = k + i /\ i + 1 + k = k + (i + 1)
    OBVIOUS
  <2>3. Low(a)[k + (i + 1)] = Low(a)[k + i] + Truth(a[k + (i + 1)]) * Pow(k + i) BY <2>2, LowIs
  <2>4. Low(u)[i + 1] = Low(u)[i] + Truth(u[i + 1]) * Pow(i) /\ Low(u)[i] \in Nat BY <2>2, LowIs
  <2>5. u[i + 1] = a[k + (i + 1)] BY <2>2
  <2>6. Pow(k + i) = Pow(k) * Pow(i) /\ Pow(i) \in Nat BY <1>00, PowSum, PowType
  <2>7. Truth(u[i + 1]) = 0 \/ Truth(u[i + 1]) = 1 BY TruthType
  <2>8. CASE Truth(u[i + 1]) = 0
    <3>1. Low(a)[k + (i + 1)] = Low(a)[k] + Pow(k) * Low(u)[i] BY <1>0, <2>1, <2>3, <2>4, <2>5, <2>6, <2>8
    <3>2. Low(u)[i + 1] = Low(u)[i] BY <2>4, <2>6, <2>8
    <3> QED BY <3>1, <3>2
  <2>9. CASE Truth(u[i + 1]) = 1
    <3>1. Low(a)[k + (i + 1)] = Low(a)[k] + Pow(k) * Low(u)[i] + Pow(k) * Pow(i)
      BY <1>0, <2>1, <2>3, <2>4, <2>5, <2>6, <2>9
    <3>2. Low(u)[i + 1] = Low(u)[i] + Pow(i) BY <2>4, <2>6, <2>9
    <3>3. Pow(k) * (Low(u)[i] + Pow(i)) = Pow(k) * Low(u)[i] + Pow(k) * Pow(i)
      BY <1>0, <2>4, <2>6, TimesAssoc
    <3> QED BY <1>0, <2>4, <2>6, <3>1, <3>2, <3>3
  <2> QED BY <2>7, <2>8, <2>9
<1>3. Nat \subseteq T
  <2> HIDE DEF T
  <2> QED BY <1>1, <1>2, NatInductive
<1> QED BY <1>3

LEMMA SplitAbove ==
    ASSUME NEW w \in Nat, NEW a \in Vec(w), NEW k \in 0 .. w
    PROVE  Low(a)[w] = Low(a)[k] + Pow(k) * Low(Above(a, k))[w - k]
<1>1. Above(a, k) \in Vec(w - k) /\ w - k \in Nat /\ \A j \in 1 .. w - k : Above(a, k)[j] = a[j + k]
  BY AboveIs
<1>2. w - k \in 0 .. w - k /\ k + (w - k) = w OBVIOUS
<1>3. k + (w - k) <= w OBVIOUS
<1>4. Low(a)[k + (w - k)] = Low(a)[k] + Pow(k) * Low(Above(a, k))[w - k]
  BY <1>1, <1>2, <1>3, Split
<1> QED BY <1>2, <1>4

-----------------------------------------------------------------------------
(* Quotients and remainders *)

LEMMA ProductNat == ASSUME NEW x \in Nat, NEW y \in Nat PROVE x * y \in Nat
OBVIOUS

LEMMA DivMod ==
    ASSUME NEW p \in Nat \ {0}, NEW q \in Int, NEW r \in 0 .. p - 1
    PROVE  ((p * q) + r) % p = r /\ ((p * q) + r) \div p = q
<1> DEFINE y == (p * q) + r
           d == y \div p
           m == y % p
<1>1. y \in Int OBVIOUS
<1>2. d \in Int /\ m \in 0 .. p - 1 /\ y = (p * d) + m
  <2> HIDE DEF y
  <2> QED BY <1>1
<1>3. p * (q - d) = (p * q) - (p * d) BY <1>2
<1>4. p * (q - d) = m - r
  <2> HIDE DEF d, m
  <2> QED BY <1>2, <1>3
<1>5. CASE q - d >= 1
  <2>1. p * (q - d) = p + p * (q - d - 1)
    <3> HIDE DEF d
    <3> QED BY <1>2
  <2>2. q - d - 1 \in Nat
    <3> HIDE DEF d
    <3> QED BY <1>2, <1>5
  <2>3. p * (q - d - 1) \in Nat
    <3> HIDE DEF d
    <3> QED BY <2>2, ProductNat
  <2> HIDE DEF d, m, y
  <2> QED BY <1>2, <1>4, <2>1, <2>3
<1>6. CASE q - d <= -1
  <2>1. p * (q - d) = -p - p * (d - q - 1)
    <3> HIDE DEF d
    <3> QED BY <1>2
  <2>2. d - q - 1 \in Nat
    <3> HIDE DEF d
    <3> QED BY <1>2, <1>6
  <2>3. p * (d - q - 1) \in Nat
    <3> HIDE DEF d
    <3> QED BY <2>2, ProductNat
  <2> HIDE DEF d, m, y
  <2> QED BY <1>2, <1>4, <2>1, <2>3
<1>7. CASE q - d = 0
  <2> HIDE DEF d, m, y
  <2>1. p * (q - d) = 0 BY <1>7
  <2> QED BY <1>2, <1>4, <1>7, <2>1 DEF d, m, y
<1> QED
  <2>1. q - d \in Int
    <3> HIDE DEF d
    <3> QED BY <1>2
  <2> HIDE DEF d, m, y
  <2> QED BY <1>5, <1>6, <1>7, <2>1

LEMMA ModIs ==
    ASSUME NEW p \in Nat \ {0}, NEW q \in Int, NEW r \in 0 .. p - 1, NEW y, y = (p * q) + r
    PROVE  y % p = r /\ y \div p = q
BY DivMod

LEMMA DivNext ==
    ASSUME NEW x \in Int, NEW b \in Nat \ {0}, NEW c \in Nat \ {0}
    PROVE  (x \div b) \div c = x \div (b * c)
OBVIOUS

-----------------------------------------------------------------------------
(* The value read off the bits *)

NumberStep(a, i, g) == IF i = 0 THEN 0 ELSE 2 * g[i - 1] + Truth(a[Len(a) - i + 1])
NumberRun(a, w, g) == g = [i \in 0 .. w |-> NumberStep(a, i, g)]

LEMMA NumberRuns == ASSUME NEW a, NEW w \in Nat PROVE \E g : NumberRun(a, w, g)
<1> DEFINE step == [i \in 1 .. w |-> [x \in Nat |-> 2 * x + Truth(a[Len(a) - i + 1])]]
<1>1. ASSUME NEW i \in 1 .. w, NEW x \in Nat PROVE 2 * x + Truth(a[Len(a) - i + 1]) \in Nat
  BY TruthType
<1>2. step \in [1 .. w -> [Nat -> Nat]] BY <1>1
<1>3. 0 \in Nat OBVIOUS
<1>4. PICK f : Steps(w, Nat, 0, step, f)
  <2> HIDE DEF step
  <2> QED BY <1>2, <1>3, StepsExist
<1>5. f \in [0 .. w -> Nat] /\ f[0] = 0 BY <1>4 DEF Steps
<1>6. ASSUME NEW i \in 0 .. w PROVE f[i] = NumberStep(a, i, f)
  <2>1. CASE i = 0 BY <1>5, <2>1 DEF NumberStep
  <2>2. CASE i # 0
    <3>1. i \in 1 .. w /\ i - 1 \in 0 .. w BY <2>2
    <3>2. f[i] = step[i][f[i - 1]]
      <4> HIDE DEF step
      <4> QED BY <1>4, <3>1 DEF Steps
    <3>3. f[i - 1] \in Nat BY <1>5, <3>1
    <3>4. f[i] = 2 * f[i - 1] + Truth(a[Len(a) - i + 1]) BY <3>1, <3>2, <3>3
    <3> QED BY <2>2, <3>4 DEF NumberStep
  <2> QED BY <2>1, <2>2
<1>7. f = [i \in 0 .. w |-> f[i]] BY <1>5
<1>8. f = [i \in 0 .. w |-> NumberStep(a, i, f)] BY <1>6, <1>7
<1> QED BY <1>8 DEF NumberRun

\* Number reads the bits from the top, Low from the bottom.
LEMMA NumberIs ==
    ASSUME NEW w \in Nat, NEW a \in Vec(w) PROVE Number(a) = Low(a)[w]
<1>0. Len(a) = w BY VecSeq
<1> DEFINE G == CHOOSE g : g = [i \in 0 .. Len(a) |-> NumberStep(a, i, g)]
<1>1. Number(a) = G[w] BY <1>0 DEF Number, NumberStep, Truth
<1>2. G = [i \in 0 .. w |-> NumberStep(a, i, G)]
  <2>1. \E g : g = [i \in 0 .. Len(a) |-> NumberStep(a, i, g)]
    BY <1>0, NumberRuns DEF NumberRun
  <2>2. G = [i \in 0 .. Len(a) |-> NumberStep(a, i, G)] BY <2>1
  <2> QED BY <1>0, <2>2
<1> HIDE DEF G
<1>3. \A i \in 0 .. w : G[i] = NumberStep(a, i, G) BY <1>2
<1> DEFINE T == {i \in Nat : i <= w => /\ G[i] \in Nat
                                       /\ G[i] * Pow(w - i) + Low(a)[w - i] = Low(a)[w]}
<1>4. 0 \in T
  <2>1. G[0] = 0 BY <1>3 DEF NumberStep
  <2>2. w - 0 = w /\ Pow(w) \in Nat /\ Low(a)[w] \in Nat BY LowIs, PowType
  <2> QED BY <2>1, <2>2
<1>5. ASSUME NEW i \in Nat, i \in T PROVE i + 1 \in T
  <2> SUFFICES ASSUME i + 1 <= w
               PROVE  /\ G[i + 1] \in Nat
                      /\ G[i + 1] * Pow(w - (i + 1)) + Low(a)[w - (i + 1)] = Low(a)[w]
    OBVIOUS
  <2>1. G[i] \in Nat /\ G[i] * Pow(w - i) + Low(a)[w - i] = Low(a)[w] BY <1>5
  <2> DEFINE k == w - (i + 1)
  <2>2. /\ k \in Nat /\ k \in 0 .. w /\ w - i = k + 1 /\ k + 1 \in 1 .. w /\ (k + 1) - 1 = k
        /\ i + 1 \in 0 .. w /\ i + 1 # 0 /\ (i + 1) - 1 = i /\ w - (i + 1) + 1 = k + 1
    OBVIOUS
  <2> HIDE DEF k
  <2>3. G[i + 1] = 2 * G[i] + Truth(a[k + 1]) BY <1>0, <1>3, <2>2 DEF NumberStep
  <2>4. Low(a)[k + 1] = Low(a)[k] + Truth(a[k + 1]) * Pow(k) /\ Low(a)[k] \in Nat BY <2>2, LowIs
  <2>5. Pow(k + 1) = 2 * Pow(k) /\ Pow(k) \in Nat BY <2>2, PowNext
  <2>6. Truth(a[k + 1]) = 0 \/ Truth(a[k + 1]) = 1 BY TruthType
  <2>7. G[i] * (2 * Pow(k)) = (2 * G[i]) * Pow(k) BY <2>1, <2>5
  <2>8. G[i + 1] * Pow(k) + Low(a)[k] = Low(a)[w]
    <3>1. (2 * G[i]) * Pow(k) + Low(a)[k + 1] = Low(a)[w] BY <2>1, <2>2, <2>5, <2>7
    <3>2. CASE Truth(a[k + 1]) = 0 BY <2>3, <2>4, <2>5, <2>1, <3>1, <3>2
    <3>3. CASE Truth(a[k + 1]) = 1
      <4>1. (2 * G[i] + 1) * Pow(k) = (2 * G[i]) * Pow(k) + Pow(k) BY <2>1, <2>5
      <4>2. Low(a)[k + 1] = Low(a)[k] + Pow(k) BY <2>4, <2>5, <3>3
      <4>3. G[i + 1] = 2 * G[i] + 1 BY <2>3, <3>3
      <4>4. (2 * G[i]) * Pow(k) \in Nat BY <2>1, <2>5, ProductNat
      <4> QED BY <2>4, <2>5, <3>1, <4>1, <4>2, <4>3, <4>4
    <3> QED BY <2>6, <3>2, <3>3
  <2>9. G[i + 1] \in Nat BY <2>1, <2>3, <2>6
  <2> QED BY <2>8, <2>9 DEF k
<1>6. Nat \subseteq T
  <2> HIDE DEF T
  <2> QED BY <1>4, <1>5, NatInductive
<1>7. G[w] \in Nat /\ G[w] * Pow(w - w) + Low(a)[w - w] = Low(a)[w] BY <1>6
<1>8. w - w = 0 OBVIOUS
<1> QED BY <1>1, <1>7, <1>8, LowIs, PowZero

LEMMA BitIs ==
    ASSUME NEW w \in Nat, NEW a \in Vec(w), NEW i \in 0 .. w - 1
    PROVE  Bit(Low(a)[w], i) = Truth(a[i + 1])
<1> DEFINE u == Above(a, i)
           t == Above(u, 1)
<1>0. i \in 0 .. w /\ i \in Nat /\ w - i \in Nat /\ 1 \in 0 .. w - i /\ 1 \in 1 .. w - i OBVIOUS
<1>1. u \in Vec(w - i) /\ \A j \in 1 .. w - i : u[j] = a[j + i] BY <1>0, AboveIs
<1>2. Low(a)[w] = Low(a)[i] + Pow(i) * Low(u)[w - i] BY <1>0, SplitAbove
<1> HIDE DEF u
<1>3. t \in Vec(w - i - 1) /\ w - i - 1 \in Nat BY <1>0, <1>1, AboveIs
<1>4. Low(u)[w - i] = Low(u)[1] + Pow(1) * Low(t)[w - i - 1] BY <1>0, <1>1, SplitAbove
<1> HIDE DEF t
<1>5. Low(u)[1] = Truth(u[1])
  <2>1. Low(u)[1] = Low(u)[1 - 1] + Truth(u[1]) * Pow(1 - 1) BY <1>0, <1>1, LowIs
  <2>2. 1 - 1 = 0 OBVIOUS
  <2>3. Low(u)[0] = 0 BY <1>0, <1>1, LowIs
  <2>4. Truth(u[1]) * 1 = Truth(u[1]) /\ Truth(u[1]) \in Nat BY TruthType
  <2> QED BY <2>1, <2>2, <2>3, <2>4, PowZero
<1>6. u[1] = a[i + 1] BY <1>0, <1>1
<1>7. Low(t)[w - i - 1] \in Nat /\ Low(u)[w - i] \in Nat /\ Low(a)[i] \in 0 .. Pow(i) - 1
  BY <1>0, <1>1, <1>3, LowIs, LowRange
<1>8. Low(a)[w] \div Pow(i) = Low(u)[w - i]
  <2>1. Pow(i) \in Nat \ {0} /\ Low(u)[w - i] \in Int BY <1>0, <1>7, PowType
  <2>2. Pow(i) * Low(u)[w - i] \in Int BY <2>1
  <2>3. Low(a)[w] = (Pow(i) * Low(u)[w - i]) + Low(a)[i] BY <1>2, <1>7, <2>2
  <2> QED BY <1>7, <2>1, <2>3, ModIs
<1>9. Low(u)[w - i] % 2 = Truth(a[i + 1])
  BY <1>4, <1>5, <1>6, <1>7, PowOne, TruthType
<1> QED BY <1>8, <1>9 DEF Bit, Pow

\* Equal numbers have equal bits.
LEMMA LowInjective ==
    ASSUME NEW w \in Nat, NEW a \in Vec(w), NEW b \in Vec(w), Low(a)[w] = Low(b)[w]
    PROVE  a = b
<1>1. ASSUME NEW i \in 1 .. w PROVE a[i] = b[i]
  <2>1. i - 1 \in 0 .. w - 1 /\ (i - 1) + 1 = i OBVIOUS
  <2>2. Truth(a[i]) = Truth(b[i]) BY <2>1, BitIs
  <2>3. a[i] \in BOOLEAN /\ b[i] \in BOOLEAN BY DEF Vec
  <2> QED BY <2>2, <2>3 DEF Truth
<1>2. a = [i \in 1 .. w |-> a[i]] /\ b = [i \in 1 .. w |-> b[i]] BY DEF Vec
<1> QED BY <1>1, <1>2

-----------------------------------------------------------------------------
(* Constants, complements and single bits *)

LEMMA ConstantIs ==
    ASSUME NEW w \in Nat, NEW p \in BOOLEAN
    PROVE  /\ Constant(w, p) \in Vec(w)
           /\ \A k \in 0 .. w : Low(Constant(w, p))[k] = Truth(p) * (Pow(k) - 1)
<1> DEFINE c == Constant(w, p)
<1>1. c \in Vec(w) /\ \A i \in 1 .. w : c[i] = p BY DEF Constant, Vec
<1> HIDE DEF c
<1> DEFINE T == {k \in Nat : k <= w => Low(c)[k] = Truth(p) * (Pow(k) - 1)}
<1>2. 0 \in T BY <1>1, LowIs, PowZero, TruthType
<1>3. ASSUME NEW k \in Nat, k \in T PROVE k + 1 \in T
  <2> SUFFICES ASSUME k + 1 <= w PROVE Low(c)[k + 1] = Truth(p) * (Pow(k + 1) - 1) OBVIOUS
  <2>1. k + 1 \in 1 .. w /\ (k + 1) - 1 = k /\ k \in 0 .. w OBVIOUS
  <2>2. Low(c)[k + 1] = Low(c)[k] + Truth(c[k + 1]) * Pow(k) /\ Low(c)[k] \in Nat BY <1>1, <2>1, LowIs
  <2>3. c[k + 1] = p BY <1>1, <2>1
  <2>4. Pow(k + 1) = 2 * Pow(k) /\ Pow(k) \in Nat BY PowNext
  <2>5. Truth(p) = 0 \/ Truth(p) = 1 BY TruthType
  <2>6. Low(c)[k] = Truth(p) * (Pow(k) - 1) BY <1>3
  <2> QED BY <2>2, <2>3, <2>4, <2>5, <2>6
<1>4. Nat \subseteq T
  <2> HIDE DEF T
  <2> QED BY <1>2, <1>3, NatInductive
<1> QED BY <1>1, <1>4 DEF c

LEMMA ZerosIs ==
    ASSUME NEW w \in Nat
    PROVE  Constant(w, FALSE) \in Vec(w) /\ \A k \in 0 .. w : Low(Constant(w, FALSE))[k] = 0
<1> DEFINE z == Constant(w, FALSE)
<1>1. z \in Vec(w) /\ \A i \in 1 .. w : z[i] = FALSE BY DEF Constant, Vec
<1> HIDE DEF z
<1>2. \A i \in 1 .. w : Truth(z[i]) = 0 BY <1>1, TruthType
<1> DEFINE T == {k \in Nat : k <= w => Low(z)[k] = 0}
<1>3. 0 \in T BY <1>1, LowIs
<1>4. ASSUME NEW k \in Nat, k \in T PROVE k + 1 \in T
  <2> SUFFICES ASSUME k + 1 <= w PROVE Low(z)[k + 1] = 0 OBVIOUS
  <2>1. k + 1 \in 1 .. w /\ (k + 1) - 1 = k OBVIOUS
  <2>2. Low(z)[k + 1] = Low(z)[k] + Truth(z[k + 1]) * Pow(k) BY <1>1, <2>1, LowIs
  <2>3. Low(z)[k] = 0 /\ Truth(z[k + 1]) = 0 BY <1>2, <1>4, <2>1
  <2>4. 0 * Pow(k) = 0 BY PowType
  <2> QED BY <2>2, <2>3, <2>4
<1>5. Nat \subseteq T
  <2> HIDE DEF T
  <2> QED BY <1>3, <1>4, NatInductive
<1>6. \A k \in 0 .. w : Low(z)[k] = 0 BY <1>5
<1> QED BY <1>1, <1>6 DEF z

LEMMA InvertedIs ==
    ASSUME NEW w \in Nat, NEW a \in Vec(w)
    PROVE  /\ Inverted(a) \in Vec(w)
           /\ \A k \in 0 .. w : Low(Inverted(a))[k] = Pow(k) - 1 - Low(a)[k]
<1> DEFINE c == Inverted(a)
<1>1. c \in Vec(w) /\ \A i \in 1 .. w : c[i] = ~a[i]
  <2>1. DOMAIN a = 1 .. w BY DEF Vec
  <2> QED BY <2>1 DEF Inverted, Vec
<1> HIDE DEF c
<1> DEFINE T == {k \in Nat : k <= w => Low(c)[k] = Pow(k) - 1 - Low(a)[k]}
<1>2. 0 \in T BY <1>1, LowIs, PowZero
<1>3. ASSUME NEW k \in Nat, k \in T PROVE k + 1 \in T
  <2> SUFFICES ASSUME k + 1 <= w PROVE Low(c)[k + 1] = Pow(k + 1) - 1 - Low(a)[k + 1] OBVIOUS
  <2>1. k + 1 \in 1 .. w /\ (k + 1) - 1 = k /\ k \in 0 .. w OBVIOUS
  <2>2. Low(c)[k + 1] = Low(c)[k] + Truth(c[k + 1]) * Pow(k) /\ Low(c)[k] \in Nat BY <1>1, <2>1, LowIs
  <2>3. Low(a)[k + 1] = Low(a)[k] + Truth(a[k + 1]) * Pow(k) /\ Low(a)[k] \in Nat BY <2>1, LowIs
  <2>4. c[k + 1] = ~a[k + 1] BY <1>1, <2>1
  <2>5. Pow(k + 1) = 2 * Pow(k) /\ Pow(k) \in Nat BY PowNext
  <2>6. (Truth(c[k + 1]) = 0 /\ Truth(a[k + 1]) = 1) \/ (Truth(c[k + 1]) = 1 /\ Truth(a[k + 1]) = 0)
    BY <2>4 DEF Truth
  <2>7. Low(c)[k] = Pow(k) - 1 - Low(a)[k] BY <1>3
  <2> QED BY <2>2, <2>3, <2>5, <2>6, <2>7
<1>4. Nat \subseteq T
  <2> HIDE DEF T
  <2> QED BY <1>2, <1>3, NatInductive
<1> QED BY <1>1, <1>4 DEF c

\* One bit among the others.
LEMMA LowAround ==
    ASSUME NEW w \in Nat, NEW a \in Vec(w), NEW k \in 1 .. w
    PROVE  Low(a)[w] = Low(a)[k - 1] + Truth(a[k]) * Pow(k - 1) + Pow(k) * Low(Above(a, k))[w - k]
<1>1. k \in 0 .. w /\ k - 1 \in 0 .. w OBVIOUS
<1>2. Low(a)[w] = Low(a)[k] + Pow(k) * Low(Above(a, k))[w - k] BY <1>1, SplitAbove
<1>3. Low(a)[k] = Low(a)[k - 1] + Truth(a[k]) * Pow(k - 1) BY LowIs
<1> QED BY <1>2, <1>3

\* Changing one bit.
LEMMA ChangedBit ==
    ASSUME NEW w \in Nat, NEW a \in Vec(w), NEW k \in 1 .. w, NEW p \in BOOLEAN
    PROVE  LET c == [a EXCEPT ![k] = p]
           IN  /\ c \in Vec(w)
               /\ Low(c)[w] = Low(a)[w] + (Truth(p) - Truth(a[k])) * Pow(k - 1)
<1> DEFINE c == [a EXCEPT ![k] = p]
<1>1. c \in Vec(w) /\ c[k] = p /\ \A i \in 1 .. w : i # k => c[i] = a[i] BY DEF Vec
<1> HIDE DEF c
<1>2. k \in 0 .. w /\ k - 1 \in 0 .. w /\ k - 1 \in Nat /\ k - 1 <= w OBVIOUS
<1>3. Low(c)[k - 1] = Low(a)[k - 1]
  <2>1. \A i \in 1 .. k - 1 : c[i] = a[i] BY <1>1
  <2> QED BY <1>1, <1>2, <2>1, LowSame
<1>4. Above(c, k) = Above(a, k)
  <2>1. Len(c) = w /\ Len(a) = w BY <1>1, VecSeq
  <2>2. \A j \in 1 .. w - k : c[j + k] = a[j + k] BY <1>1
  <2> QED BY <2>1, <2>2 DEF Above
<1>5. Low(c)[w] = Low(c)[k - 1] + Truth(c[k]) * Pow(k - 1) + Pow(k) * Low(Above(c, k))[w - k]
  BY <1>1, LowAround
<1>6. Low(a)[w] = Low(a)[k - 1] + Truth(a[k]) * Pow(k - 1) + Pow(k) * Low(Above(a, k))[w - k]
  BY LowAround
<1>7. Low(a)[k - 1] \in Nat /\ Pow(k - 1) \in Nat /\ Pow(k) * Low(Above(a, k))[w - k] \in Nat
  <2>1. Above(a, k) \in Vec(w - k) /\ w - k \in Nat /\ w - k \in 0 .. w - k BY <1>2, AboveIs
  <2>2. Low(Above(a, k))[w - k] \in Nat /\ Pow(k) \in Nat BY <1>2, <2>1, LowIs, PowType
  <2>3. Pow(k) * Low(Above(a, k))[w - k] \in Nat BY <2>2, ProductNat
  <2> QED BY <1>2, <2>3, LowIs, PowType
<1>8. Truth(p) = 0 \/ Truth(p) = 1 BY TruthType
<1>9. Truth(a[k]) = 0 \/ Truth(a[k]) = 1 BY TruthType
<1>10. Low(c)[w] = Low(a)[w] + (Truth(p) - Truth(a[k])) * Pow(k - 1)
  <2> DEFINE H == Pow(k) * Low(Above(a, k))[w - k]
  <2>1. Low(c)[w] = Low(a)[k - 1] + Truth(p) * Pow(k - 1) + H BY <1>1, <1>3, <1>4, <1>5
  <2>2. Low(a)[w] = Low(a)[k - 1] + Truth(a[k]) * Pow(k - 1) + H BY <1>6
  <2>3. H \in Nat BY <1>7
  <2> HIDE DEF H
  <2> QED BY <1>7, <1>8, <1>9, <2>1, <2>2, <2>3
<1> QED BY <1>1, <1>10 DEF c

-----------------------------------------------------------------------------
(* The adder *)

CarryStep(a, b, cin, i, g) == IF i = 1 THEN cin ELSE Carry(a[i - 1], b[i - 1], g[i - 1])

CarryRun(w, a, b, cin, c) ==
    /\ c \in [1 .. w + 1 -> BOOLEAN] /\ c[1] = cin
    /\ \A i \in 1 .. w : c[i + 1] = Carry(a[i], b[i], c[i])

LEMMA CarriesIs ==
    ASSUME NEW w \in Nat, NEW a \in Vec(w), NEW b \in Vec(w), NEW cin \in BOOLEAN
    PROVE  CarryRun(w, a, b, cin, Carries(a, b, cin))
<1>0. Len(a) = w BY VecSeq
<1> DEFINE G == CHOOSE g : g = [i \in 1 .. Len(a) + 1 |-> CarryStep(a, b, cin, i, g)]
           step == [i \in 1 .. w |-> [x \in BOOLEAN |-> Carry(a[i], b[i], x)]]
<1>1. Carries(a, b, cin) = G BY DEF Carries, CarryStep
<1>2. PICK f : Steps(w, BOOLEAN, cin, step, f)
  <2>1. \A i \in 1 .. w, x \in BOOLEAN : Carry(a[i], b[i], x) \in BOOLEAN BY DEF Carry, Xor, Vec
  <2>2. step \in [1 .. w -> [BOOLEAN -> BOOLEAN]] BY <2>1
  <2> HIDE DEF step
  <2> QED BY <2>2, StepsExist
<1>3. f \in [0 .. w -> BOOLEAN] /\ f[0] = cin BY <1>2 DEF Steps
<1>4. ASSUME NEW i \in 1 .. w PROVE f[i] = Carry(a[i], b[i], f[i - 1])
  <2>1. f[i] = step[i][f[i - 1]]
    <3> HIDE DEF step
    <3> QED BY <1>2 DEF Steps
  <2>2. f[i - 1] \in BOOLEAN BY <1>3
  <2> QED BY <2>1, <2>2
<1> DEFINE h == [i \in 1 .. w + 1 |-> f[i - 1]]
<1>5. h = [i \in 1 .. w + 1 |-> CarryStep(a, b, cin, i, h)]
  <2>1. ASSUME NEW i \in 1 .. w + 1 PROVE f[i - 1] = CarryStep(a, b, cin, i, h)
    <3>1. CASE i = 1 BY <1>3, <3>1 DEF CarryStep
    <3>2. CASE i # 1
      <4>1. i - 1 \in 1 .. w /\ i - 1 \in 1 .. w + 1 BY <3>2
      <4>2. h[i - 1] = f[(i - 1) - 1] BY <4>1
      <4>3. f[i - 1] = Carry(a[i - 1], b[i - 1], h[i - 1]) BY <1>4, <4>1, <4>2
      <4> QED BY <3>2, <4>3 DEF CarryStep
    <3> QED BY <3>1, <3>2
  <2> QED BY <2>1
<1>6. G = [i \in 1 .. w + 1 |-> CarryStep(a, b, cin, i, G)]
  <2>1. \E g : g = [i \in 1 .. Len(a) + 1 |-> CarryStep(a, b, cin, i, g)]
    <3> HIDE DEF h
    <3> QED BY <1>0, <1>5
  <2>2. G = [i \in 1 .. Len(a) + 1 |-> CarryStep(a, b, cin, i, G)] BY <2>1
  <2> QED BY <1>0, <2>2
<1> HIDE DEF G
<1>7. \A i \in 1 .. w + 1 : G[i] = CarryStep(a, b, cin, i, G) BY <1>6
<1>8. DOMAIN G = 1 .. w + 1 BY <1>6
<1>9. G[1] = cin BY <1>7 DEF CarryStep
<1>10. ASSUME NEW i \in 1 .. w PROVE G[i + 1] = Carry(a[i], b[i], G[i])
  <2>1. i + 1 \in 1 .. w + 1 /\ i + 1 # 1 /\ (i + 1) - 1 = i OBVIOUS
  <2> QED BY <1>7, <2>1 DEF CarryStep
<1>11. \A i \in 1 .. w + 1 : G[i] \in BOOLEAN
  <2>1. ASSUME NEW i \in 1 .. w + 1 PROVE G[i] \in BOOLEAN
    <3>1. CASE i = 1 BY <1>9, <3>1
    <3>2. CASE i # 1
      <4>1. i - 1 \in 1 .. w /\ (i - 1) + 1 = i BY <3>2
      <4>2. G[i] = Carry(a[i - 1], b[i - 1], G[i - 1]) BY <1>10, <4>1
      <4> QED BY <4>2 DEF Carry
    <3> QED BY <3>1, <3>2
  <2> QED BY <2>1
<1>12. G = [i \in 1 .. w + 1 |-> G[i]] BY <1>6
<1>13. G \in [1 .. w + 1 -> BOOLEAN] BY <1>11, <1>12
<1> QED BY <1>1, <1>9, <1>10, <1>13 DEF CarryRun

LEMMA FullAdder ==
    ASSUME NEW p \in BOOLEAN, NEW q \in BOOLEAN, NEW c \in BOOLEAN
    PROVE  /\ Truth(Sum(p, q, c)) + 2 * Truth(Carry(p, q, c)) = Truth(p) + Truth(q) + Truth(c)
           /\ Sum(p, q, c) \in BOOLEAN /\ Carry(p, q, c) \in BOOLEAN
BY DEF Truth, Sum, Carry, Xor

\* Sum and carry out of the low bits are the sum of the low bits.
LEMMA AdderIs ==
    ASSUME NEW w \in Nat, NEW a \in Vec(w), NEW b \in Vec(w), NEW cin \in BOOLEAN
    PROVE  /\ RippleAdd(a, b, cin) \in Vec(w)
           /\ Carries(a, b, cin)[w + 1] \in BOOLEAN
           /\ Low(RippleAdd(a, b, cin))[w] + Pow(w) * Truth(Carries(a, b, cin)[w + 1])
                  = Low(a)[w] + Low(b)[w] + Truth(cin)
<1> DEFINE c == Carries(a, b, cin)
           s == RippleAdd(a, b, cin)
<1>0. CarryRun(w, a, b, cin, c) BY CarriesIs
<1> HIDE DEF c
<1>1. /\ c \in [1 .. w + 1 -> BOOLEAN] /\ c[1] = cin
      /\ \A i \in 1 .. w : c[i + 1] = Carry(a[i], b[i], c[i])
  BY <1>0 DEF CarryRun
<1>2. s = [i \in 1 .. w |-> Sum(a[i], b[i], c[i])]
  <2>1. DOMAIN a = 1 .. w BY VecSeq
  <2> QED BY <2>1 DEF RippleAdd, c
<1> HIDE DEF s
<1>3. \A i \in 1 .. w : c[i] \in BOOLEAN /\ a[i] \in BOOLEAN /\ b[i] \in BOOLEAN BY <1>1 DEF Vec
<1>4. \A i \in 1 .. w : s[i] = Sum(a[i], b[i], c[i]) /\ s[i] \in BOOLEAN BY <1>2, <1>3, FullAdder
<1>5. s \in Vec(w)
  <2>1. s = [i \in 1 .. w |-> s[i]] BY <1>2
  <2> QED BY <1>4, <2>1 DEF Vec
<1> DEFINE T == {i \in Nat : i <= w =>
                     Low(s)[i] + Pow(i) * Truth(c[i + 1]) = Low(a)[i] + Low(b)[i] + Truth(cin)}
<1>6. 0 \in T
  <2>1. Low(s)[0] = 0 /\ Low(a)[0] = 0 /\ Low(b)[0] = 0 BY <1>5, LowIs
  <2>2. 0 + 1 = 1 /\ Truth(cin) \in Nat BY TruthType
  <2>3. 1 * Truth(cin) = Truth(cin) BY <2>2
  <2> QED BY <1>1, <2>1, <2>2, <2>3, PowZero
<1>7. ASSUME NEW i \in Nat, i \in T PROVE i + 1 \in T
  <2> SUFFICES ASSUME i + 1 <= w
               PROVE  Low(s)[i + 1] + Pow(i + 1) * Truth(c[(i + 1) + 1])
                          = Low(a)[i + 1] + Low(b)[i + 1] + Truth(cin)
    OBVIOUS
  <2> DEFINE k == i + 1
  <2>1. k \in 1 .. w /\ k - 1 = i /\ i \in 0 .. w OBVIOUS
  <2> HIDE DEF k
  <2>2. Low(s)[k] = Low(s)[i] + Truth(s[k]) * Pow(i) /\ Low(s)[i] \in Nat BY <1>5, <2>1, LowIs
  <2>3. Low(a)[k] = Low(a)[i] + Truth(a[k]) * Pow(i) /\ Low(a)[i] \in Nat BY <2>1, LowIs
  <2>4. Low(b)[k] = Low(b)[i] + Truth(b[k]) * Pow(i) /\ Low(b)[i] \in Nat BY <2>1, LowIs
  <2>5. Low(s)[i] + Pow(i) * Truth(c[k]) = Low(a)[i] + Low(b)[i] + Truth(cin) BY <1>7 DEF k
  <2>6. Truth(s[k]) + 2 * Truth(c[k + 1]) = Truth(a[k]) + Truth(b[k]) + Truth(c[k])
    BY <1>1, <1>3, <1>4, <2>1, FullAdder
  <2>7. Pow(k) = 2 * Pow(i) /\ Pow(i) \in Nat BY PowNext DEF k
  <2>8. /\ Truth(s[k]) \in {0, 1} /\ Truth(c[k + 1]) \in {0, 1} /\ Truth(a[k]) \in {0, 1}
        /\ Truth(b[k]) \in {0, 1} /\ Truth(c[k]) \in {0, 1} /\ Truth(cin) \in {0, 1}
    BY TruthType
  <2>9. Low(s)[k] + Pow(k) * Truth(c[k + 1]) = Low(a)[k] + Low(b)[k] + Truth(cin)
    <3> DEFINE P == Pow(i)
               A == Truth(a[k])
               B == Truth(b[k])
               C == Truth(c[k])
               S == Truth(s[k])
               D == Truth(c[k + 1])
    <3>1. P * (S + 2 * D) = P * (A + B + C) BY <2>6
    <3>2. P * (S + 2 * D) = P * S + (2 * P) * D BY <2>7, <2>8
    <3>3. P * (A + B + C) = P * A + P * B + P * C BY <2>7, <2>8
    <3>4. P * S + (2 * P) * D = P * A + P * B + P * C BY <3>1, <3>2, <3>3
    <3>5. /\ P * S = S * P /\ P * A = A * P /\ P * B = B * P /\ P * C \in Int /\ A * P \in Int
          /\ B * P \in Int /\ S * P \in Int /\ (2 * P) * D \in Int
      BY <2>7, <2>8
    <3> HIDE DEF P, A, B, C, S, D
    <3>6. Low(s)[k] + (2 * P) * D = Low(a)[k] + Low(b)[k] + Truth(cin)
      <4>1. Low(s)[k] = Low(s)[i] + S * P /\ Low(a)[k] = Low(a)[i] + A * P /\ Low(b)[k] = Low(b)[i] + B * P
        BY <2>2, <2>3, <2>4 DEF S, A, B, P
      <4>2. Low(s)[i] + P * C = Low(a)[i] + Low(b)[i] + Truth(cin) BY <2>5 DEF P, C
      <4> DEFINE x1 == S * P
                 x2 == A * P
                 x3 == B * P
                 x4 == P * C
                 x5 == (2 * P) * D
      <4>3. x1 + x5 = x2 + x3 + x4 BY <3>4, <3>5
      <4>4. x1 \in Int /\ x2 \in Int /\ x3 \in Int /\ x4 \in Int /\ x5 \in Int BY <3>5
      <4>5. Low(s)[k] = Low(s)[i] + x1 /\ Low(a)[k] = Low(a)[i] + x2 /\ Low(b)[k] = Low(b)[i] + x3
        BY <4>1
      <4>6. Low(s)[i] + x4 = Low(a)[i] + Low(b)[i] + Truth(cin) BY <4>2
      <4>7. Low(s)[k] + x5 = Low(a)[k] + Low(b)[k] + Truth(cin)
        <5> HIDE DEF x1, x2, x3, x4, x5
        <5> QED BY <2>2, <2>3, <2>4, <2>8, <4>3, <4>4, <4>5, <4>6
      <4> QED BY <4>7
    <3> QED BY <2>7, <3>6 DEF P, D
  <2> QED BY <2>9 DEF k
<1>8. Nat \subseteq T
  <2> HIDE DEF T
  <2> QED BY <1>6, <1>7, NatInductive
<1>9. c[w + 1] \in BOOLEAN BY <1>1
<1>10. Low(s)[w] + Pow(w) * Truth(c[w + 1]) = Low(a)[w] + Low(b)[w] + Truth(cin) BY <1>8
<1> QED BY <1>5, <1>9, <1>10 DEF s, c

-----------------------------------------------------------------------------
(* Sums, differences and comparisons *)

LEMMA LowTop ==
    ASSUME NEW w \in Nat, NEW a \in Vec(w)
    PROVE  /\ Low(a)[w] \in 0 .. Pow(w) - 1 /\ Low(a)[w] \in Nat
           /\ Pow(w) \in Nat \ {0}
<1>1. w \in 0 .. w OBVIOUS
<1> QED BY <1>1, LowIs, LowRange, PowType

CarryOut(w, a, b, cin) == Truth(Carries(a, b, cin)[w + 1])

LEMMA AdderOut ==
    ASSUME NEW w \in Nat, NEW a \in Vec(w), NEW b \in Vec(w), NEW cin \in BOOLEAN,
           NEW x, x = Truth(cin)
    PROVE  /\ RippleAdd(a, b, cin) \in Vec(w)
           /\ CarryOut(w, a, b, cin) \in {0, 1}
           /\ Carries(a, b, cin)[w + 1] <=> CarryOut(w, a, b, cin) = 1
           /\ Low(RippleAdd(a, b, cin))[w] + Pow(w) * CarryOut(w, a, b, cin) = Low(a)[w] + Low(b)[w] + x
<1>1. Carries(a, b, cin)[w + 1] \in BOOLEAN BY AdderIs
<1>2. Carries(a, b, cin)[w + 1] <=> CarryOut(w, a, b, cin) = 1 BY <1>1 DEF CarryOut, Truth
<1>3. Low(RippleAdd(a, b, cin))[w] + Pow(w) * CarryOut(w, a, b, cin) = Low(a)[w] + Low(b)[w] + x
  BY AdderIs DEF CarryOut
<1> QED BY <1>2, <1>3, AdderIs, TruthType DEF CarryOut

LEMMA TruthConstants == 0 = Truth(FALSE) /\ 1 = Truth(TRUE) BY DEF Truth

LEMMA AdderOne ==
    ASSUME NEW w \in Nat, NEW a \in Vec(w), NEW b \in Vec(w)
    PROVE  /\ RippleAdd(a, b, TRUE) \in Vec(w)
           /\ CarryOut(w, a, b, TRUE) \in {0, 1}
           /\ Carries(a, b, TRUE)[w + 1] <=> CarryOut(w, a, b, TRUE) = 1
           /\ Low(RippleAdd(a, b, TRUE))[w] + Pow(w) * CarryOut(w, a, b, TRUE) = Low(a)[w] + Low(b)[w] + 1
<1>1. TRUE \in BOOLEAN /\ 1 = Truth(TRUE) BY TruthConstants
<1> DEFINE t == TRUE
<1>2. t \in BOOLEAN /\ 1 = Truth(t) BY <1>1
<1> HIDE DEF t
<1>3. /\ RippleAdd(a, b, t) \in Vec(w)
      /\ CarryOut(w, a, b, t) \in {0, 1}
      /\ Carries(a, b, t)[w + 1] <=> CarryOut(w, a, b, t) = 1
      /\ Low(RippleAdd(a, b, t))[w] + Pow(w) * CarryOut(w, a, b, t) = Low(a)[w] + Low(b)[w] + 1
  BY <1>2, AdderOut
<1> QED BY <1>3 DEF t

LEMMA AddRight ==
    ASSUME NEW w \in Nat, NEW a \in Vec(w), NEW b \in Vec(w)
    PROVE  /\ RippleAdd(a, b, FALSE) \in Vec(w)
           /\ Low(RippleAdd(a, b, FALSE))[w] = (Low(a)[w] + Low(b)[w]) % Pow(w)
<1> DEFINE s == RippleAdd(a, b, FALSE)
           c == CarryOut(w, a, b, FALSE)
<1>1. s \in Vec(w) /\ c \in {0, 1} /\ Low(s)[w] + Pow(w) * c = Low(a)[w] + Low(b)[w] + 0
  BY TruthConstants, AdderOut
<1>2. c = 0 \/ c = 1 BY <1>1
<1> HIDE DEF s, c
<1>3. /\ Low(s)[w] \in 0 .. Pow(w) - 1 /\ Pow(w) \in Nat \ {0}
      /\ Low(a)[w] \in Nat /\ Low(b)[w] \in Nat
  BY <1>1, LowTop
<1>4. Low(a)[w] + Low(b)[w] = (Pow(w) * c) + Low(s)[w]
  <2>1. Pow(w) * c \in Int BY <1>2, <1>3
  <2> QED BY <1>1, <1>2, <1>3, <2>1
<1>5. (Low(a)[w] + Low(b)[w]) % Pow(w) = Low(s)[w]
  <2>1. c \in Int BY <1>2
  <2> QED BY <1>3, <1>4, <2>1, ModIs
<1> QED BY <1>1, <1>5 DEF s

\* a - b is a plus the complement of b, and one; the carry says there was no borrow.
LEMMA DifferenceIs ==
    ASSUME NEW w \in Nat, NEW a \in Vec(w), NEW b \in Vec(w)
    PROVE  LET s == RippleAdd(a, Inverted(b), TRUE)
               c == CarryOut(w, a, Inverted(b), TRUE)
           IN  /\ s \in Vec(w) /\ c \in {0, 1}
               /\ Low(s)[w] + Pow(w) * c = Low(a)[w] + Pow(w) - Low(b)[w]
               /\ Carries(a, Inverted(b), TRUE)[w + 1] <=> c = 1
               /\ c = 1 <=> Low(a)[w] >= Low(b)[w]
<1> DEFINE nb == Inverted(b)
           s == RippleAdd(a, nb, TRUE)
           c == CarryOut(w, a, nb, TRUE)
<1>0. w \in 0 .. w OBVIOUS
<1>1. nb \in Vec(w) /\ Low(nb)[w] = Pow(w) - 1 - Low(b)[w] BY <1>0, InvertedIs
<1> HIDE DEF nb
<1>2. /\ s \in Vec(w) /\ c \in {0, 1} /\ Low(s)[w] + Pow(w) * c = Low(a)[w] + Low(nb)[w] + 1
      /\ Carries(a, nb, TRUE)[w + 1] <=> c = 1
  BY <1>1, AdderOne
<1> HIDE DEF s, c
<1>3. /\ Low(s)[w] \in 0 .. Pow(w) - 1 /\ Pow(w) \in Nat \ {0}
      /\ Low(a)[w] \in 0 .. Pow(w) - 1 /\ Low(b)[w] \in 0 .. Pow(w) - 1
  BY <1>2, LowTop
<1>4. Low(s)[w] + Pow(w) * c = Low(a)[w] + Pow(w) - Low(b)[w]
  <2>1. Low(a)[w] + Low(nb)[w] + 1 = Low(a)[w] + Pow(w) - Low(b)[w] BY <1>1, <1>3
  <2> QED BY <1>2, <2>1
<1>5. c = 1 <=> Low(a)[w] >= Low(b)[w]
  <2>1. CASE c = 1
    <3>1. Pow(w) * c = Pow(w) BY <1>3, <2>1
    <3> QED BY <1>3, <1>4, <2>1, <3>1
  <2>2. CASE c = 0
    <3>1. Pow(w) * c = 0 BY <1>3, <2>2
    <3> QED BY <1>3, <1>4, <2>2, <3>1
  <2> QED BY <1>2, <2>1, <2>2
<1> QED BY <1>2, <1>4, <1>5 DEF s, c, nb

LEMMA SubRight ==
    ASSUME NEW w \in Nat, NEW a \in Vec(w), NEW b \in Vec(w)
    PROVE  /\ RippleAdd(a, Inverted(b), TRUE) \in Vec(w)
           /\ Low(RippleAdd(a, Inverted(b), TRUE))[w] = (Low(a)[w] - Low(b)[w]) % Pow(w)
<1> DEFINE s == RippleAdd(a, Inverted(b), TRUE)
           c == CarryOut(w, a, Inverted(b), TRUE)
<1>1. s \in Vec(w) /\ c \in {0, 1} /\ Low(s)[w] + Pow(w) * c = Low(a)[w] + Pow(w) - Low(b)[w]
  BY DifferenceIs
<1> HIDE DEF s, c
<1>2. /\ Low(s)[w] \in 0 .. Pow(w) - 1 /\ Pow(w) \in Nat \ {0}
      /\ Low(a)[w] \in Nat /\ Low(b)[w] \in Nat
  BY <1>1, LowTop
<1>3. Low(a)[w] - Low(b)[w] = (Pow(w) * (c - 1)) + Low(s)[w]
  <2>1. CASE c = 0 BY <1>1, <1>2, <2>1
  <2>2. CASE c = 1
    <3>1. Pow(w) * c = Pow(w) /\ Pow(w) * (c - 1) = 0 BY <1>2, <2>2
    <3> QED BY <1>1, <1>2, <3>1
  <2> QED BY <1>1, <2>1, <2>2
<1>4. (Low(a)[w] - Low(b)[w]) % Pow(w) = Low(s)[w]
  <2>1. c - 1 \in Int BY <1>1
  <2>2. Low(a)[w] - Low(b)[w] \in Int BY <1>2
  <2> DEFINE y == Low(a)[w] - Low(b)[w]
             q == c - 1
  <2>3. y = (Pow(w) * q) + Low(s)[w] /\ q \in Int BY <1>3, <2>1
  <2> HIDE DEF y, q
  <2>4. y % Pow(w) = Low(s)[w] BY <1>2, <2>3, ModIs
  <2> QED BY <2>4 DEF y
<1> QED BY <1>1, <1>4 DEF s

LEMMA NegRight ==
    ASSUME NEW w \in Nat, NEW a \in Vec(w)
    PROVE  /\ RippleAdd(Inverted(a), Constant(w, FALSE), TRUE) \in Vec(w)
           /\ Low(RippleAdd(Inverted(a), Constant(w, FALSE), TRUE))[w] = (Pow(w) - Low(a)[w]) % Pow(w)
<1> DEFINE na == Inverted(a)
           z == Constant(w, FALSE)
           s == RippleAdd(na, z, TRUE)
           c == CarryOut(w, na, z, TRUE)
<1>0. w \in 0 .. w OBVIOUS
<1>1. na \in Vec(w) /\ Low(na)[w] = Pow(w) - 1 - Low(a)[w] BY <1>0, InvertedIs
<1>2. z \in Vec(w) /\ Low(z)[w] = 0 BY <1>0, ZerosIs
<1> HIDE DEF na, z
<1>3. s \in Vec(w) /\ c \in {0, 1} /\ Low(s)[w] + Pow(w) * c = Low(na)[w] + Low(z)[w] + 1
  BY <1>1, <1>2, AdderOne
<1> HIDE DEF s, c
<1>4. /\ Low(s)[w] \in 0 .. Pow(w) - 1 /\ Pow(w) \in Nat \ {0} /\ Low(a)[w] \in Nat
  BY <1>3, LowTop
<1>5. Pow(w) - Low(a)[w] = (Pow(w) * c) + Low(s)[w]
  <2>1. CASE c = 0 BY <1>1, <1>2, <1>3, <1>4, <2>1
  <2>2. CASE c = 1 BY <1>1, <1>2, <1>3, <1>4, <2>2
  <2> QED BY <1>3, <2>1, <2>2
<1>6. (Pow(w) - Low(a)[w]) % Pow(w) = Low(s)[w]
  <2>1. c \in Int BY <1>3
  <2> QED BY <1>4, <1>5, <2>1, ModIs
<1> QED BY <1>3, <1>6 DEF s, na, z

LEMMA UltRight ==
    ASSUME NEW w \in Nat, NEW a \in Vec(w), NEW b \in Vec(w)
    PROVE  UltBits(a, b) \in BOOLEAN /\ (UltBits(a, b) <=> Low(a)[w] < Low(b)[w])
<1>1. Len(a) = w BY VecSeq
<1>2. Carries(a, Inverted(b), TRUE)[w + 1] <=> Low(a)[w] >= Low(b)[w] BY DifferenceIs, Zenon
<1>3. UltBits(a, b) <=> ~(Low(a)[w] >= Low(b)[w]) BY <1>1, <1>2 DEF UltBits
<1>4. Low(a)[w] \in Nat /\ Low(b)[w] \in Nat BY LowTop
<1>5. UltBits(a, b) \in BOOLEAN BY DEF UltBits
<1> QED BY <1>3, <1>4, <1>5

LEMMA EqRight ==
    ASSUME NEW w \in Nat, NEW a \in Vec(w), NEW b \in Vec(w)
    PROVE  EqBits(a, b) \in BOOLEAN /\ (EqBits(a, b) <=> Low(a)[w] = Low(b)[w])
<1>1. DOMAIN a = 1 .. w BY VecSeq
<1>2. EqBits(a, b) \in BOOLEAN BY DEF EqBits
<1>3. \A i \in 1 .. w : a[i] \in BOOLEAN /\ b[i] \in BOOLEAN BY DEF Vec
<1>4. ASSUME EqBits(a, b) PROVE a = b
  <2>1. \A i \in 1 .. w : a[i] = b[i] BY <1>1, <1>3, <1>4 DEF EqBits, Xor
  <2>2. a = [i \in 1 .. w |-> a[i]] /\ b = [i \in 1 .. w |-> b[i]] BY DEF Vec
  <2> QED BY <2>1, <2>2
<1>5. ASSUME a = b PROVE EqBits(a, b) BY <1>5 DEF EqBits, Xor
<1>6. Low(a)[w] = Low(b)[w] => a = b BY LowInjective
<1> QED BY <1>2, <1>4, <1>5, <1>6

\* The signed value of a vector, with its sign bit p.
LEMMA SignedIs ==
    ASSUME NEW w \in Nat \ {0}, NEW a \in Vec(w)
    PROVE  /\ Signed(Low(a)[w], w) = Low(a)[w] - Truth(a[w]) * Pow(w)
           /\ Signed(Low(a)[w], w) \in Int
           /\ Low(a)[w] = Low(a)[w - 1] + Truth(a[w]) * Pow(w - 1)
           /\ Pow(w) = 2 * Pow(w - 1) /\ Pow(w - 1) \in Nat
<1>1. w \in 1 .. w /\ w - 1 \in 0 .. w /\ w - 1 \in Nat /\ (w - 1) + 1 = w OBVIOUS
<1>2. Low(a)[w] = Low(a)[w - 1] + Truth(a[w]) * Pow(w - 1) BY <1>1, LowIs
<1>3. Low(a)[w - 1] \in 0 .. Pow(w - 1) - 1 BY <1>1, LowRange
<1>4. Pow(w) = 2 * Pow(w - 1) /\ Pow(w - 1) \in Nat BY <1>1, PowNext
<1>5. a[w] \in BOOLEAN BY <1>1 DEF Vec
<1>6. Signed(Low(a)[w], w) = IF Low(a)[w] >= Pow(w - 1) THEN Low(a)[w] - Pow(w) ELSE Low(a)[w]
  BY DEF Signed, Pow
<1>7. CASE a[w]
  <2>1. Truth(a[w]) = 1 BY <1>7 DEF Truth
  <2>2. Truth(a[w]) * Pow(w - 1) = Pow(w - 1) /\ Truth(a[w]) * Pow(w) = Pow(w) BY <1>4, <2>1
  <2>3. Low(a)[w] >= Pow(w - 1) BY <1>2, <1>3, <1>4, <2>2
  <2> QED BY <1>2, <1>3, <1>4, <1>6, <2>2, <2>3
<1>8. CASE ~a[w]
  <2>1. Truth(a[w]) = 0 BY <1>8 DEF Truth
  <2>2. Truth(a[w]) * Pow(w - 1) = 0 /\ Truth(a[w]) * Pow(w) = 0 BY <1>4, <2>1
  <2>3. ~(Low(a)[w] >= Pow(w - 1)) BY <1>2, <1>3, <1>4, <2>2
  <2> QED BY <1>2, <1>3, <1>4, <1>6, <2>2, <2>3
<1> QED BY <1>5, <1>7, <1>8

\* The top bit flipped adds half the range to the signed value.
LEMMA FlippedIs ==
    ASSUME NEW w \in Nat \ {0}, NEW a \in Vec(w)
    PROVE  TopFlipped(a) \in Vec(w) /\ Low(TopFlipped(a))[w] = Signed(Low(a)[w], w) + Pow(w - 1)
<1>0. Len(a) = w /\ w \in 1 .. w BY VecSeq
<1>1. a[w] \in BOOLEAN BY <1>0 DEF Vec
<1> DEFINE p == ~a[w]
           c == [a EXCEPT ![w] = p]
<1>2. TopFlipped(a) = c BY <1>0 DEF TopFlipped
<1>3. c \in Vec(w) /\ Low(c)[w] = Low(a)[w] + (Truth(p) - Truth(a[w])) * Pow(w - 1)
  BY <1>0, <1>1, ChangedBit
<1>4. Signed(Low(a)[w], w) = Low(a)[w] - Truth(a[w]) * Pow(w) /\ Pow(w) = 2 * Pow(w - 1) /\ Pow(w - 1) \in Nat
  BY SignedIs
<1>5. Low(a)[w] \in Nat BY LowTop
<1>6. (Truth(p) = 0 /\ Truth(a[w]) = 1) \/ (Truth(p) = 1 /\ Truth(a[w]) = 0) BY <1>1 DEF Truth
<1> HIDE DEF c, p
<1>7. Low(c)[w] = Signed(Low(a)[w], w) + Pow(w - 1) BY <1>3, <1>4, <1>5, <1>6
<1> QED BY <1>2, <1>3, <1>7

LEMMA SltRight ==
    ASSUME NEW w \in Nat \ {0}, NEW a \in Vec(w), NEW b \in Vec(w)
    PROVE  /\ SltBits(a, b) \in BOOLEAN
           /\ SltBits(a, b) <=> Signed(Low(a)[w], w) < Signed(Low(b)[w], w)
<1> DEFINE c == TopFlipped(a)
           d == TopFlipped(b)
<1>1. c \in Vec(w) /\ Low(c)[w] = Signed(Low(a)[w], w) + Pow(w - 1) BY FlippedIs
<1>2. d \in Vec(w) /\ Low(d)[w] = Signed(Low(b)[w], w) + Pow(w - 1) BY FlippedIs
<1>3. SltBits(a, b) = UltBits(c, d) BY DEF SltBits
<1> HIDE DEF c, d
<1>4. UltBits(c, d) \in BOOLEAN /\ (UltBits(c, d) <=> Low(c)[w] < Low(d)[w]) BY <1>1, <1>2, UltRight
<1>5. Signed(Low(a)[w], w) \in Int /\ Signed(Low(b)[w], w) \in Int /\ Pow(w - 1) \in Nat BY SignedIs
<1>6. Low(c)[w] < Low(d)[w] <=> Signed(Low(a)[w], w) < Signed(Low(b)[w], w) BY <1>1, <1>2, <1>5
<1> QED BY <1>3, <1>4, <1>6

LEMMA SignedInjective ==
    ASSUME NEW w \in Nat \ {0}, NEW a \in Vec(w), NEW b \in Vec(w)
    PROVE  Signed(Low(a)[w], w) = Signed(Low(b)[w], w) <=> Low(a)[w] = Low(b)[w]
<1>1. Low(a)[w] \in 0 .. Pow(w) - 1 /\ Low(b)[w] \in 0 .. Pow(w) - 1 /\ Pow(w) \in Nat BY LowTop
<1>2. Signed(Low(a)[w], w) = Low(a)[w] - Truth(a[w]) * Pow(w) BY SignedIs
<1>3. Signed(Low(b)[w], w) = Low(b)[w] - Truth(b[w]) * Pow(w) BY SignedIs
<1>4. (Truth(a[w]) = 0 \/ Truth(a[w]) = 1) /\ (Truth(b[w]) = 0 \/ Truth(b[w]) = 1) BY TruthType
<1> QED BY <1>1, <1>2, <1>3, <1>4

-----------------------------------------------------------------------------
(* Numbers that differ by a multiple of p *)

Same(p, x, y) == \E q \in Int : x = y + p * q

LEMMA SameRefl == ASSUME NEW p \in Int, NEW x \in Int PROVE Same(p, x, x)
<1>1. x = x + p * 0 OBVIOUS
<1> QED BY <1>1 DEF Same

LEMMA SameSum ==
    ASSUME NEW p \in Int, NEW x \in Int, NEW y \in Int, NEW u \in Int, NEW v \in Int,
           Same(p, x, y), Same(p, u, v)
    PROVE  Same(p, x + u, y + v)
<1>1. PICK q \in Int : x = y + p * q BY DEF Same
<1>2. PICK r \in Int : u = v + p * r BY DEF Same
<1>3. p * (q + r) = p * q + p * r /\ p * q \in Int /\ p * r \in Int /\ q + r \in Int OBVIOUS
<1>4. x + u = (y + v) + p * (q + r)
  <2> DEFINE m == p * q
             n == p * r
  <2>1. x = y + m /\ u = v + n /\ m \in Int /\ n \in Int /\ p * (q + r) = m + n BY <1>1, <1>2, <1>3
  <2> HIDE DEF m, n
  <2> QED BY <2>1
<1> QED BY <1>3, <1>4 DEF Same

LEMMA SameScaled ==
    ASSUME NEW p \in Int, NEW x \in Int, NEW y \in Int, NEW k \in Int, Same(p, x, y)
    PROVE  Same(p, x * k, y * k)
<1>1. PICK q \in Int : x = y + p * q BY DEF Same
<1>2. p * q \in Int /\ q * k \in Int OBVIOUS
<1>3. (y + p * q) * k = y * k + (p * q) * k BY <1>2
<1>4. (p * q) * k = p * (q * k) BY TimesAssoc
<1>5. x * k = y * k + p * (q * k) BY <1>1, <1>3, <1>4
<1> QED BY <1>2, <1>5 DEF Same

LEMMA SameTrans ==
    ASSUME NEW p \in Int, NEW x \in Int, NEW y \in Int, NEW z \in Int, Same(p, x, y), Same(p, y, z)
    PROVE  Same(p, x, z)
<1>1. PICK q \in Int : x = y + p * q BY DEF Same
<1>2. PICK r \in Int : y = z + p * r BY DEF Same
<1>3. p * (q + r) = p * q + p * r /\ p * q \in Int /\ p * r \in Int /\ q + r \in Int OBVIOUS
<1>4. x = z + p * (q + r)
  <2> DEFINE m == p * q
             n == p * r
  <2>1. x = y + m /\ y = z + n /\ m \in Int /\ n \in Int /\ p * (q + r) = m + n BY <1>1, <1>2, <1>3
  <2> HIDE DEF m, n
  <2> QED BY <2>1
<1> QED BY <1>3, <1>4 DEF Same

LEMMA SameMod ==
    ASSUME NEW p \in Nat \ {0}, NEW x \in Int, NEW y \in 0 .. p - 1, Same(p, x, y)
    PROVE  x % p = y
<1>1. PICK q \in Int : x = y + p * q BY DEF Same
<1>2. p * q \in Int OBVIOUS
<1>3. x = (p * q) + y BY <1>1, <1>2
<1> QED BY <1>3, ModIs

\* Sums wrap.
LEMMA AddSame ==
    ASSUME NEW w \in Nat, NEW a \in Vec(w), NEW b \in Vec(w)
    PROVE  /\ RippleAdd(a, b, FALSE) \in Vec(w)
           /\ Same(Pow(w), Low(a)[w] + Low(b)[w], Low(RippleAdd(a, b, FALSE))[w])
<1> DEFINE s == RippleAdd(a, b, FALSE)
           c == CarryOut(w, a, b, FALSE)
<1>1. s \in Vec(w) /\ c \in {0, 1} /\ Low(s)[w] + Pow(w) * c = Low(a)[w] + Low(b)[w] + 0
  BY TruthConstants, AdderOut
<1> HIDE DEF s, c
<1>2. Low(a)[w] \in Nat /\ Low(b)[w] \in Nat BY LowTop
<1>3. Low(a)[w] + Low(b)[w] = Low(s)[w] + Pow(w) * c /\ c \in Int BY <1>1, <1>2
<1>4. Same(Pow(w), Low(a)[w] + Low(b)[w], Low(s)[w]) BY <1>3 DEF Same
<1> QED BY <1>1, <1>4 DEF s

-----------------------------------------------------------------------------
(* Shifts by a constant *)

\* Up by s: the top s bits are lost.
LEMMA UpIs ==
    ASSUME NEW w \in Nat, NEW a \in Vec(w), NEW s \in 0 .. w, NEW v \in Vec(w),
           \A j \in 1 .. s : v[j] = FALSE,
           \A j \in 1 .. w - s : v[j + s] = a[j]
    PROVE  /\ Low(v)[w] = Pow(s) * Low(a)[w - s]
           /\ Same(Pow(w), Low(a)[w] * Pow(s), Low(v)[w])
<1>0. s \in Nat /\ w - s \in Nat /\ s <= w /\ w - s \in 0 .. w - s /\ s + (w - s) = w /\ w - s <= w /\ w - s \in 0 .. w
  OBVIOUS
<1>1. Low(v)[s] = 0
  <2> DEFINE z == Constant(w, FALSE)
  <2>1. z \in Vec(w) /\ Low(z)[s] = 0 BY ZerosIs
  <2>2. \A j \in 1 .. s : z[j] = FALSE BY DEF Constant
  <2> HIDE DEF z
  <2>3. \A j \in 1 .. s : v[j] = z[j] BY <2>2
  <2> QED BY <1>0, <2>1, <2>3, LowSame
<1> DEFINE u == Above(v, s)
<1>2. u \in Vec(w - s) /\ \A j \in 1 .. w - s : u[j] = v[j + s] BY AboveIs
<1>3. Low(v)[w] = Low(v)[s] + Pow(s) * Low(u)[w - s] BY SplitAbove
<1> HIDE DEF u
<1>4. Low(u)[w - s] = Low(a)[w - s]
  <2>1. \A j \in 1 .. w - s : u[j] = a[j] BY <1>2
  <2> QED BY <1>0, <1>2, <2>1, LowSame
<1>5. Low(a)[w - s] \in Nat /\ Pow(s) \in Nat /\ Pow(s) * Low(a)[w - s] \in Nat BY <1>0, LowIs, PowType, ProductNat
<1>6. Low(v)[w] = Pow(s) * Low(a)[w - s] BY <1>1, <1>3, <1>4, <1>5
<1> DEFINE t == Above(a, w - s)
<1>7. t \in Vec(w - (w - s)) /\ w - (w - s) = s BY <1>0, AboveIs
<1>8. Low(a)[w] = Low(a)[w - s] + Pow(w - s) * Low(t)[w - (w - s)] BY <1>0, SplitAbove
<1> HIDE DEF t
<1>9. Low(t)[s] \in Nat
  <2>1. s \in 0 .. s BY <1>0
  <2> QED BY <1>0, <1>7, <2>1, LowIs
<1>10. Pow(w) = Pow(w - s) * Pow(s) /\ Pow(w - s) \in Nat
  <2>1. (w - s) + s = w BY <1>0
  <2> QED BY <1>0, <2>1, PowSum, PowType
<1>11. Low(a)[w] * Pow(s) = Low(v)[w] + Pow(w) * Low(t)[s]
  <2> DEFINE A == Low(a)[w - s]
             U == Low(t)[s]
             P == Pow(s)
             Q == Pow(w - s)
  <2>1. A \in Int /\ U \in Int /\ P \in Int /\ Q \in Int BY <1>5, <1>9, <1>10
  <2>2. Low(a)[w] = A + Q * U BY <1>7, <1>8
  <2>3. Low(v)[w] = P * A BY <1>6
  <2>4. Pow(w) = Q * P BY <1>10
  <2> HIDE DEF A, U, P, Q
  <2>5. (A + Q * U) * P = A * P + (Q * U) * P BY <2>1
  <2>6. (Q * U) * P = (Q * P) * U /\ A * P = P * A BY <2>1
  <2>7. (A + Q * U) * P = P * A + (Q * P) * U BY <2>5, <2>6
  <2>8. Low(a)[w] * P = Low(v)[w] + Pow(w) * U BY <2>2, <2>3, <2>4, <2>7
  <2> QED BY <2>8 DEF P, U
<1>12. Same(Pow(w), Low(a)[w] * Pow(s), Low(v)[w])
  <2>1. Low(t)[s] \in Int BY <1>9
  <2> QED BY <1>11, <2>1 DEF Same
<1> QED BY <1>6, <1>12

LEMMA UpShift ==
    ASSUME NEW w \in Nat, NEW a \in Vec(w), NEW s \in Nat
    PROVE  LET v == Shifted(a, s, TRUE, FALSE)
           IN  v \in Vec(w) /\ Same(Pow(w), Low(a)[w] * Pow(s), Low(v)[w])
<1> DEFINE v == Shifted(a, s, TRUE, FALSE)
<1>0. Len(a) = w /\ DOMAIN a = 1 .. w BY VecSeq
<1>1. CASE s >= w
  <2>1. v = Constant(w, FALSE) BY <1>0, <1>1 DEF Shifted
  <2>2. w \in 0 .. w OBVIOUS
  <2>3. v \in Vec(w) /\ Low(v)[w] = 0 BY <2>1, <2>2, ZerosIs
  <2>4. s - w \in Nat /\ w + (s - w) = s BY <1>1
  <2>5. Pow(s) = Pow(w) * Pow(s - w) /\ Pow(w) \in Int /\ Pow(s - w) \in Int
    <3>1. Pow(w + (s - w)) = Pow(w) * Pow(s - w) BY <2>4, PowSum
    <3> QED BY <2>4, <3>1, PowType
  <2>6. Low(a)[w] \in Int BY LowTop
  <2>7. Low(a)[w] * (Pow(w) * Pow(s - w)) = Pow(w) * (Low(a)[w] * Pow(s - w))
        /\ Low(a)[w] * Pow(s - w) \in Int
    BY <2>5, <2>6
  <2>8. Low(a)[w] * Pow(s) = 0 + Pow(w) * (Low(a)[w] * Pow(s - w))
    <3>1. Pow(w) * (Low(a)[w] * Pow(s - w)) \in Int BY <2>5, <2>7
    <3> QED BY <2>5, <2>7, <3>1
  <2>9. Same(Pow(w), Low(a)[w] * Pow(s), 0) BY <2>7, <2>8 DEF Same
  <2> QED BY <2>3, <2>9
<1>2. CASE ~(s >= w)
  <2>1. s \in 0 .. w BY <1>2
  <2>2. v = [j \in 1 .. w |-> IF j > s THEN a[j - s] ELSE FALSE] BY <1>0, <1>2 DEF Shifted
  <2>3. v \in Vec(w)
    <3>1. \A j \in 1 .. w : j > s => j - s \in 1 .. w OBVIOUS
    <3>2. \A j \in 1 .. w : j > s => a[j - s] \in BOOLEAN BY <3>1 DEF Vec
    <3> QED BY <2>2, <3>2 DEF Vec
  <2>4. \A j \in 1 .. s : v[j] = FALSE
    <3>1. \A j \in 1 .. s : j \in 1 .. w /\ ~(j > s) BY <2>1
    <3> QED BY <2>2, <3>1
  <2>5. \A j \in 1 .. w - s : v[j + s] = a[j]
    <3>1. \A j \in 1 .. w - s : j + s \in 1 .. w /\ j + s > s /\ (j + s) - s = j BY <2>1
    <3> QED BY <2>2, <3>1
  <2> HIDE DEF v
  <2>6. Same(Pow(w), Low(a)[w] * Pow(s), Low(v)[w]) BY <2>1, <2>3, <2>4, <2>5, UpIs
  <2> QED BY <2>3, <2>6 DEF v
<1> QED BY <1>1, <1>2

\* The value of a vector that the bit p continues without end.
Filled(w, a, p) == Low(a)[w] - Truth(p) * Pow(w)

LEMMA FilledIs ==
    ASSUME NEW w \in Nat, NEW a \in Vec(w), NEW p \in BOOLEAN
    PROVE  Filled(w, a, p) \in Int /\ Filled(w, a, p) % Pow(w) = Low(a)[w]
<1> DEFINE t == Truth(p)
<1>1. t = 0 \/ t = 1 BY TruthType
<1>2. Filled(w, a, p) = Low(a)[w] - t * Pow(w) BY DEF Filled
<1> HIDE DEF t
<1>3. Low(a)[w] \in 0 .. Pow(w) - 1 /\ Low(a)[w] \in Nat /\ Pow(w) \in Nat \ {0} BY LowTop
<1>4. Filled(w, a, p) \in Int BY <1>1, <1>2, <1>3
<1>5. Filled(w, a, p) = Low(a)[w] + Pow(w) * (-t) /\ -t \in Int BY <1>1, <1>2, <1>3
<1>6. Same(Pow(w), Filled(w, a, p), Low(a)[w]) BY <1>5 DEF Same
<1> QED BY <1>3, <1>4, <1>6, SameMod

\* Down by s, filled with p: division by the power of two.
LEMMA DownShift ==
    ASSUME NEW w \in Nat, NEW a \in Vec(w), NEW s \in Nat, NEW p \in BOOLEAN
    PROVE  LET v == Shifted(a, s, FALSE, p)
           IN  v \in Vec(w) /\ Filled(w, v, p) = Filled(w, a, p) \div Pow(s)
<1> DEFINE v == Shifted(a, s, FALSE, p)
           t == Truth(p)
<1>0. Len(a) = w /\ DOMAIN a = 1 .. w BY VecSeq
<1>1. t = 0 \/ t = 1 BY TruthType
<1>2. \A x : Filled(w, x, p) = Low(x)[w] - t * Pow(w) BY DEF Filled
<1>3. Low(a)[w] \in 0 .. Pow(w) - 1 /\ Low(a)[w] \in Nat /\ Pow(w) \in Nat \ {0} /\ Pow(s) \in Nat \ {0}
  BY LowTop, PowType
<1>4. CASE s >= w
  <2>1. v = Constant(w, p) BY <1>0, <1>4 DEF Shifted
  <2>2. w \in 0 .. w OBVIOUS
  <2>3. v \in Vec(w) /\ Low(v)[w] = t * (Pow(w) - 1) BY <2>1, <2>2, ConstantIs
  <2> HIDE DEF v, t
  <2>4. Pow(s) >= Pow(w)
    <3>1. s - w \in Nat /\ w + (s - w) = s BY <1>4
    <3>2. Pow(s) = Pow(w) * Pow(s - w) /\ Pow(s - w) \in Nat /\ Pow(s - w) >= 1
      BY <3>1, PowSum, PowType
    <3>3. Pow(w) * Pow(s - w) = Pow(w) + Pow(w) * (Pow(s - w) - 1) BY <1>3, <3>2
    <3>4. Pow(s - w) - 1 \in Nat BY <3>2
    <3>5. Pow(w) * (Pow(s - w) - 1) \in Nat BY <1>3, <3>4, ProductNat
    <3> QED BY <1>3, <3>2, <3>3, <3>5
  <2>5. Filled(w, v, p) = 0 - t
    <3>1. CASE t = 0 BY <1>2, <1>3, <2>3, <3>1
    <3>2. CASE t = 1 BY <1>2, <1>3, <2>3, <3>2
    <3> QED BY <1>1, <3>1, <3>2
  <2>6. Filled(w, a, p) \div Pow(s) = 0 - t
    <3>1. CASE t = 0
      <4>1. Filled(w, a, p) = Low(a)[w] BY <1>2, <1>3, <3>1
      <4> DEFINE q == 0 - t
      <4>2. q \in Int /\ q = 0 /\ Filled(w, a, p) = (Pow(s) * q) + Low(a)[w]
        <5>1. q \in Int /\ q = 0 BY <3>1
        <5> HIDE DEF q
        <5>2. Pow(s) * q = 0 BY <1>3, <5>1
        <5> QED BY <1>3, <4>1, <5>1, <5>2
      <4>3. Low(a)[w] \in 0 .. Pow(s) - 1 BY <1>3, <2>4
      <4> HIDE DEF q
      <4>4. Filled(w, a, p) \div Pow(s) = q BY <1>3, <4>2, <4>3, ModIs
      <4> QED BY <4>4 DEF q
    <3>2. CASE t = 1
      <4>1. Filled(w, a, p) = Low(a)[w] - Pow(w) BY <1>2, <1>3, <3>2
      <4> DEFINE r == Low(a)[w] - Pow(w) + Pow(s)
      <4>2. r \in 0 .. Pow(s) - 1 BY <1>3, <2>4
      <4>3. Filled(w, a, p) = (Pow(s) * (-1)) + r BY <1>3, <4>1
      <4> HIDE DEF r
      <4> QED BY <1>3, <3>2, <4>2, <4>3, ModIs
    <3> QED BY <1>1, <3>1, <3>2
  <2> QED BY <2>3, <2>5, <2>6 DEF v
<1>5. CASE ~(s >= w)
  <2>0. s \in 0 .. w /\ w - s \in Nat /\ w - s \in 0 .. w /\ w - s \in 0 .. w - s /\ w - s <= w BY <1>5
  <2>1. v = [j \in 1 .. w |-> IF j + s <= w THEN a[j + s] ELSE p] BY <1>0, <1>5 DEF Shifted
  <2>2. v \in Vec(w)
    <3>1. \A j \in 1 .. w : j + s <= w => j + s \in 1 .. w OBVIOUS
    <3>2. \A j \in 1 .. w : j + s <= w => a[j + s] \in BOOLEAN BY <3>1 DEF Vec
    <3> QED BY <2>1, <3>2 DEF Vec
  <2>3. \A j \in 1 .. w - s : v[j] = a[j + s]
    <3>1. \A j \in 1 .. w - s : j \in 1 .. w /\ j + s <= w BY <2>0
    <3> QED BY <2>1, <3>1
  <2>4. \A j \in 1 .. s : v[j + (w - s)] = p
    <3>1. \A j \in 1 .. s : j + (w - s) \in 1 .. w /\ ~(j + (w - s) + s <= w) BY <2>0
    <3> QED BY <2>1, <3>1
  <2> HIDE DEF v
  <2> DEFINE u == Above(a, s)
             c == Constant(s, p)
             U == Low(u)[w - s]
             Q == Pow(w - s)
             P == Pow(s)
  <2>5. u \in Vec(w - s) /\ \A j \in 1 .. w - s : u[j] = a[j + s] BY <2>0, AboveIs
  <2>6. Low(a)[w] = Low(a)[s] + P * U BY <2>0, SplitAbove
  <2>7. Low(v)[w - s] = U
    <3> HIDE DEF u
    <3>1. \A j \in 1 .. w - s : v[j] = u[j] BY <2>3, <2>5
    <3> QED BY <2>0, <2>2, <2>5, <3>1, LowSame
  <2>8. c \in Vec(s) /\ Low(c)[s] = t * (P - 1) /\ \A j \in 1 .. s : c[j] = p
    <3>1. s \in 0 .. s OBVIOUS
    <3> QED BY <3>1, ConstantIs DEF Constant
  <2>9. Low(v)[w] = Low(v)[w - s] + Q * Low(c)[s]
    <3> HIDE DEF c
    <3>1. \A j \in 1 .. s : c[j] = v[j + (w - s)] BY <2>4, <2>8
    <3>2. s \in 0 .. s /\ (w - s) + s = w /\ (w - s) + s <= w BY <2>0
    <3>3. Low(v)[(w - s) + s] = Low(v)[w - s] + Pow(w - s) * Low(c)[s]
      BY <2>0, <2>2, <2>8, <3>1, <3>2, Split
    <3> QED BY <3>2, <3>3
  <2>10. Low(v)[w] = U + Q * (t * (P - 1)) BY <2>7, <2>8, <2>9
  <2>11. Pow(w) = Q * P /\ Q \in Nat /\ P \in Nat \ {0}
    <3>1. (w - s) + s = w BY <2>0
    <3> QED BY <2>0, <3>1, PowSum, PowType
  <2>12. U \in Nat /\ Low(a)[s] \in 0 .. P - 1 BY <2>0, <2>5, LowIs, LowRange
  <2> HIDE DEF u, c, U, Q, P, t
  <2>13. Filled(w, v, p) = U - t * Q
    <3>1. CASE t = 0
      <4>1. Low(v)[w] = U BY <2>10, <2>11, <2>12, <3>1
      <4> QED BY <1>2, <1>3, <2>12, <3>1, <4>1, <2>11
    <3>2. CASE t = 1
      <4>1. Q * (1 * (P - 1)) = Q * P - Q BY <2>11
      <4>2. Low(v)[w] = U + (Pow(w) - Q) BY <2>10, <2>11, <3>2, <4>1
      <4>3. Filled(w, v, p) = Low(v)[w] - Pow(w) BY <1>2, <1>3, <3>2
      <4> QED BY <1>3, <2>11, <2>12, <3>2, <4>2, <4>3
    <3> QED BY <1>1, <3>1, <3>2
  <2>14. Filled(w, a, p) = (P * (U - t * Q)) + Low(a)[s]
    <3>1. CASE t = 0
      <4>1. P * (U - 0 * Q) = P * U /\ P * U \in Int BY <2>11, <2>12
      <4> QED BY <1>2, <1>3, <2>6, <2>12, <3>1, <4>1
    <3>2. CASE t = 1
      <4>1. P * (U - 1 * Q) = P * U - P * Q /\ P * U \in Int /\ P * Q = Q * P BY <2>11, <2>12
      <4>2. Filled(w, a, p) = Low(a)[w] - Pow(w) BY <1>2, <1>3, <3>2
      <4> QED BY <1>3, <2>6, <2>11, <2>12, <3>2, <4>1, <4>2
    <3> QED BY <1>1, <3>1, <3>2
  <2>15. U - t * Q \in Int BY <1>1, <2>11, <2>12
  <2>16. Filled(w, a, p) \div P = U - t * Q
    <3> DEFINE q == U - t * Q
    <3>1. Filled(w, a, p) = (P * q) + Low(a)[s] /\ q \in Int BY <2>14, <2>15
    <3> HIDE DEF q
    <3>2. Filled(w, a, p) \div P = q BY <2>11, <2>12, <3>1, ModIs
    <3> QED BY <3>2 DEF q
  <2> QED BY <2>2, <2>13, <2>16 DEF v, P
<1> QED BY <1>4, <1>5

-----------------------------------------------------------------------------
(* Multiplication *)

Partial(a, b, i) == [j \in DOMAIN a |-> j >= i /\ a[j - i + 1] /\ b[i]]
MulStep(a, b, i, g) ==
    IF i = 0 THEN Constant(Len(a), FALSE) ELSE RippleAdd(g[i - 1], Partial(a, b, i), FALSE)

LEMMA PartialIs ==
    ASSUME NEW w \in Nat, NEW a \in Vec(w), NEW b \in Vec(w), NEW i \in 1 .. w
    PROVE  /\ Partial(a, b, i) \in Vec(w)
           /\ Same(Pow(w), Low(a)[w] * (Truth(b[i]) * Pow(i - 1)), Low(Partial(a, b, i))[w])
<1> DEFINE v == Partial(a, b, i)
           P == Pow(i - 1)
<1>0. i - 1 \in 0 .. w /\ i - 1 \in Nat /\ w \in 0 .. w OBVIOUS
<1>1. v = [j \in 1 .. w |-> j >= i /\ a[j - i + 1] /\ b[i]]
  <2>1. DOMAIN a = 1 .. w BY VecSeq
  <2> QED BY <2>1 DEF Partial
<1>2. v \in Vec(w) BY <1>1 DEF Vec
<1>3. Low(a)[w] \in Int /\ P \in Int /\ Pow(w) \in Int BY <1>0, LowTop, PowType
<1>4. CASE b[i]
  <2>1. \A j \in 1 .. i - 1 : v[j] = FALSE
    <3>1. \A j \in 1 .. i - 1 : j \in 1 .. w /\ ~(j >= i) OBVIOUS
    <3> QED BY <1>1, <3>1
  <2>2. \A j \in 1 .. w - (i - 1) : v[j + (i - 1)] = a[j]
    <3>1. ASSUME NEW j \in 1 .. w - (i - 1) PROVE v[j + (i - 1)] = a[j]
      <4>1. /\ j + (i - 1) \in 1 .. w /\ j + (i - 1) >= i /\ (j + (i - 1)) - i + 1 = j
            /\ j \in 1 .. w
        OBVIOUS
      <4>2. a[j] \in BOOLEAN BY <4>1 DEF Vec
      <4>3. v[j + (i - 1)] = (j + (i - 1) >= i /\ a[(j + (i - 1)) - i + 1] /\ b[i]) BY <1>1, <4>1
      <4> HIDE DEF v
      <4> QED BY <1>4, <4>1, <4>2, <4>3
    <3> QED BY <3>1
  <2> HIDE DEF v
  <2>3. Same(Pow(w), Low(a)[w] * P, Low(v)[w]) BY <1>0, <1>2, <2>1, <2>2, UpIs
  <2>4. Truth(b[i]) = 1 BY <1>4 DEF Truth
  <2>5. Truth(b[i]) * P = P BY <1>3, <2>4
  <2> QED BY <1>2, <2>3, <2>5 DEF v
<1>5. CASE ~b[i]
  <2>1. \A j \in 1 .. w : v[j] = FALSE BY <1>1, <1>5
  <2> HIDE DEF v
  <2>2. Low(v)[w] = 0
    <3> DEFINE z == Constant(w, FALSE)
    <3>1. z \in Vec(w) /\ Low(z)[w] = 0 BY <1>0, ZerosIs
    <3>2. \A j \in 1 .. w : z[j] = FALSE BY DEF Constant
    <3> HIDE DEF z
    <3>3. \A j \in 1 .. w : v[j] = z[j] BY <2>1, <3>2
    <3> QED BY <1>0, <1>2, <3>1, <3>3, LowSame
  <2>3. Truth(b[i]) = 0 BY <1>5 DEF Truth
  <2>4. Truth(b[i]) * P = 0 BY <1>3, <2>3
  <2>5. Low(a)[w] * (Truth(b[i]) * P) = 0 BY <1>3, <2>4
  <2>6. 0 \in Int OBVIOUS
  <2>7. Same(Pow(w), Low(a)[w] * (Truth(b[i]) * P), Low(v)[w]) BY <1>3, <2>2, <2>5, <2>6, SameRefl
  <2> QED BY <1>2, <2>7 DEF v
<1>6. b[i] \in BOOLEAN BY DEF Vec
<1> QED BY <1>4, <1>5, <1>6

LEMMA MulRuns ==
    ASSUME NEW w \in Nat, NEW a \in Vec(w), NEW b \in Vec(w)
    PROVE  \E g : g = [i \in 0 .. w |-> MulStep(a, b, i, g)]
<1>0. Len(a) = w BY VecSeq
<1> DEFINE z == Constant(w, FALSE)
           step == [i \in 1 .. w |-> [x \in Vec(w) |-> RippleAdd(x, Partial(a, b, i), FALSE)]]
<1>1. z \in Vec(w) BY ZerosIs
<1>2. \A i \in 1 .. w, x \in Vec(w) : RippleAdd(x, Partial(a, b, i), FALSE) \in Vec(w)
  BY PartialIs, AddSame
<1>3. step \in [1 .. w -> [Vec(w) -> Vec(w)]] BY <1>2
<1>4. PICK f : Steps(w, Vec(w), z, step, f)
  <2> HIDE DEF step, z
  <2> QED BY <1>1, <1>3, StepsExist
<1>5. f \in [0 .. w -> Vec(w)] /\ f[0] = z BY <1>4 DEF Steps
<1>6. ASSUME NEW i \in 0 .. w PROVE f[i] = MulStep(a, b, i, f)
  <2>1. CASE i = 0 BY <1>0, <1>5, <2>1 DEF MulStep
  <2>2. CASE i # 0
    <3>1. i \in 1 .. w /\ i - 1 \in 0 .. w BY <2>2
    <3>2. f[i] = step[i][f[i - 1]]
      <4> HIDE DEF step
      <4> QED BY <1>4, <3>1 DEF Steps
    <3>3. f[i - 1] \in Vec(w) BY <1>5, <3>1
    <3>4. f[i] = RippleAdd(f[i - 1], Partial(a, b, i), FALSE) BY <3>1, <3>2, <3>3
    <3> QED BY <2>2, <3>4 DEF MulStep
  <2> QED BY <2>1, <2>2
<1>7. f = [i \in 0 .. w |-> f[i]] BY <1>5
<1>8. f = [i \in 0 .. w |-> MulStep(a, b, i, f)] BY <1>6, <1>7
<1> QED BY <1>8

LEMMA MulRight ==
    ASSUME NEW w \in Nat, NEW a \in Vec(w), NEW b \in Vec(w)
    PROVE  Multiply(a, b) \in Vec(w) /\ Low(Multiply(a, b))[w] = (Low(a)[w] * Low(b)[w]) % Pow(w)
<1>0. Len(a) = w BY VecSeq
<1> DEFINE G == CHOOSE g : g = [i \in 0 .. Len(a) |-> MulStep(a, b, i, g)]
           X == Low(a)[w]
           M == Pow(w)
<1>1. Multiply(a, b) = G[w] BY <1>0 DEF Multiply, MulStep, Partial
<1>2. G = [i \in 0 .. w |-> MulStep(a, b, i, G)]
  <2>1. \E g : g = [i \in 0 .. Len(a) |-> MulStep(a, b, i, g)] BY <1>0, MulRuns
  <2>2. G = [i \in 0 .. Len(a) |-> MulStep(a, b, i, G)] BY <2>1
  <2> QED BY <1>0, <2>2
<1> HIDE DEF G
<1>3. \A i \in 0 .. w : G[i] = MulStep(a, b, i, G) BY <1>2
<1>4. X \in Nat /\ M \in Nat \ {0} BY LowTop
<1> HIDE DEF X, M
<1> DEFINE T == {i \in Nat : i <= w => G[i] \in Vec(w) /\ Same(M, X * Low(b)[i], Low(G[i])[w])}
<1>5. 0 \in T
  <2>0. 0 \in 0 .. w OBVIOUS
  <2>1. G[0] = Constant(w, FALSE) BY <1>0, <1>3, <2>0 DEF MulStep
  <2>2. w \in 0 .. w OBVIOUS
  <2>3. G[0] \in Vec(w) /\ Low(G[0])[w] = 0 BY <2>1, <2>2, ZerosIs
  <2>4. Low(b)[0] = 0 BY LowIs
  <2>5. X * Low(b)[0] = 0 BY <1>4, <2>4
  <2>6. Same(M, 0, 0) BY <1>4, SameRefl
  <2> QED BY <2>3, <2>5, <2>6
<1>6. ASSUME NEW i \in Nat, i \in T PROVE i + 1 \in T
  <2> SUFFICES ASSUME i + 1 <= w
               PROVE  G[i + 1] \in Vec(w) /\ Same(M, X * Low(b)[i + 1], Low(G[i + 1])[w])
    OBVIOUS
  <2> DEFINE k == i + 1
             v == Partial(a, b, k)
             d == Truth(b[k]) * Pow(k - 1)
  <2>1. k \in 1 .. w /\ k - 1 = i /\ k # 0 /\ k \in 0 .. w /\ i \in 0 .. w OBVIOUS
  <2> HIDE DEF k
  <2>2. G[i] \in Vec(w) /\ Same(M, X * Low(b)[i], Low(G[i])[w]) BY <1>6, <2>1
  <2>3. v \in Vec(w) /\ Same(M, X * d, Low(v)[w]) BY <2>1, PartialIs DEF X, M
  <2>4. G[k] = RippleAdd(G[i], v, FALSE) BY <1>3, <2>1 DEF MulStep
  <2>5. Low(b)[k] = Low(b)[i] + d /\ Low(b)[i] \in Nat BY <2>1, LowIs
  <2>6. d \in Nat
    <3>1. Pow(k - 1) \in Nat BY <2>1, PowType
    <3>2. Truth(b[k]) = 0 \/ Truth(b[k]) = 1 BY TruthType
    <3> QED BY <3>1, <3>2
  <2> HIDE DEF v, d
  <2>7. G[k] \in Vec(w) /\ Same(M, Low(G[i])[w] + Low(v)[w], Low(G[k])[w]) BY <2>2, <2>3, <2>4, AddSame DEF M
  <2>8. Low(G[i])[w] \in Int /\ Low(v)[w] \in Int /\ Low(G[k])[w] \in Int BY <2>2, <2>3, <2>7, LowTop
  <2>9. X * Low(b)[i] \in Int /\ X * d \in Int /\ M \in Int BY <1>4, <2>5, <2>6
  <2>10. Same(M, X * Low(b)[i] + X * d, Low(G[i])[w] + Low(v)[w]) BY <2>2, <2>3, <2>8, <2>9, SameSum
  <2>11. X * Low(b)[k] = X * Low(b)[i] + X * d BY <1>4, <2>5, <2>6
  <2>12. X * Low(b)[i] + X * d \in Int /\ Low(G[i])[w] + Low(v)[w] \in Int BY <2>8, <2>9
  <2>13. Same(M, X * Low(b)[k], Low(G[k])[w]) BY <2>7, <2>8, <2>9, <2>10, <2>11, <2>12, SameTrans
  <2> QED BY <2>7, <2>13 DEF k
<1>7. Nat \subseteq T
  <2> HIDE DEF T
  <2> QED BY <1>5, <1>6, NatInductive
<1>8. G[w] \in Vec(w) /\ Same(M, X * Low(b)[w], Low(G[w])[w]) BY <1>7
<1>9. Low(G[w])[w] \in 0 .. M - 1 /\ Low(b)[w] \in Nat BY <1>8, LowTop DEF M
<1>10. X * Low(b)[w] \in Int BY <1>4, <1>9
<1>11. (X * Low(b)[w]) % M = Low(G[w])[w] BY <1>4, <1>8, <1>9, <1>10, SameMod
<1> QED BY <1>1, <1>8, <1>11 DEF X, M

-----------------------------------------------------------------------------
(* The barrel shifter *)

ShiftStep(a, b, left, fill, i, g) ==
    IF i = 0 THEN a ELSE Mux(b[i], Shifted(g[i - 1], 2 ^ (i - 1), left, fill), g[i - 1])

LEMMA MuxIs ==
    ASSUME NEW w \in Nat, NEW p \in BOOLEAN, NEW a \in Vec(w), NEW b \in Vec(w)
    PROVE  /\ Mux(p, a, b) \in Vec(w)
           /\ p => Mux(p, a, b) = a
           /\ ~p => Mux(p, a, b) = b
<1>1. DOMAIN a = 1 .. w BY VecSeq
<1>2. \A i \in 1 .. w : a[i] \in BOOLEAN /\ b[i] \in BOOLEAN BY DEF Vec
<1>3. a = [i \in 1 .. w |-> a[i]] /\ b = [i \in 1 .. w |-> b[i]] BY DEF Vec
<1>4. Mux(p, a, b) = [i \in 1 .. w |-> (p /\ a[i]) \/ (~p /\ b[i])] BY <1>1 DEF Mux
<1>5. CASE p
  <2>1. Mux(p, a, b) = [i \in 1 .. w |-> a[i]] BY <1>2, <1>4, <1>5
  <2> QED BY <1>3, <1>5, <2>1
<1>6. CASE ~p
  <2>1. Mux(p, a, b) = [i \in 1 .. w |-> b[i]] BY <1>2, <1>4, <1>6
  <2> QED BY <1>3, <1>6, <2>1
<1> QED BY <1>5, <1>6

LEMMA ShiftedVec ==
    ASSUME NEW w \in Nat, NEW a \in Vec(w), NEW s \in Nat, NEW left \in BOOLEAN, NEW fill \in BOOLEAN,
           left => fill = FALSE
    PROVE  Shifted(a, s, left, fill) \in Vec(w)
<1>1. CASE left
  <2>1. left = TRUE /\ fill = FALSE BY <1>1
  <2> QED BY <2>1, UpShift
<1>2. CASE ~left
  <2>1. left = FALSE BY <1>2
  <2> QED BY <2>1, DownShift
<1> QED BY <1>1, <1>2

ShiftRec(w, a, b, left, fill, g) == g = [i \in 0 .. w |-> ShiftStep(a, b, left, fill, i, g)]

LEMMA ShiftRuns ==
    ASSUME NEW w \in Nat, NEW a \in Vec(w), NEW b \in Vec(w), NEW left \in BOOLEAN, NEW fill \in BOOLEAN,
           left => fill = FALSE
    PROVE  \E g : ShiftRec(w, a, b, left, fill, g)
<1> DEFINE next(i, x) == Mux(b[i], Shifted(x, 2 ^ (i - 1), left, fill), x)
           step == [i \in 1 .. w |-> [x \in Vec(w) |-> next(i, x)]]
<1>1. ASSUME NEW i \in 1 .. w, NEW x \in Vec(w) PROVE next(i, x) \in Vec(w)
  <2>1. 2 ^ (i - 1) \in Nat BY PowType DEF Pow
  <2>2. Shifted(x, 2 ^ (i - 1), left, fill) \in Vec(w) BY <2>1, ShiftedVec
  <2>3. b[i] \in BOOLEAN BY DEF Vec
  <2> QED BY <2>2, <2>3, MuxIs
<1>2. step \in [1 .. w -> [Vec(w) -> Vec(w)]]
  <2> HIDE DEF next
  <2> QED BY <1>1
<1>3. PICK f : Steps(w, Vec(w), a, step, f)
  <2> HIDE DEF step
  <2> QED BY <1>2, StepsExist
<1>4. f \in [0 .. w -> Vec(w)] /\ f[0] = a BY <1>3 DEF Steps
<1>5. ASSUME NEW i \in 0 .. w PROVE f[i] = ShiftStep(a, b, left, fill, i, f)
  <2>1. CASE i = 0 BY <1>4, <2>1 DEF ShiftStep
  <2>2. CASE i # 0
    <3>1. i \in 1 .. w /\ i - 1 \in 0 .. w BY <2>2
    <3>2. f[i] = step[i][f[i - 1]]
      <4> HIDE DEF step
      <4> QED BY <1>3, <3>1 DEF Steps
    <3>3. f[i - 1] \in Vec(w) BY <1>4, <3>1
    <3>4. f[i] = next(i, f[i - 1])
      <4> HIDE DEF next
      <4> QED BY <3>1, <3>2, <3>3
    <3> QED BY <2>2, <3>4 DEF ShiftStep
  <2> QED BY <2>1, <2>2
<1>6. f = [i \in 0 .. w |-> f[i]] BY <1>4
<1>7. f = [i \in 0 .. w |-> ShiftStep(a, b, left, fill, i, f)] BY <1>5, <1>6
<1> QED BY <1>7 DEF ShiftRec

\* The stages of a shift.
ShiftRun(w, a, b, left, fill, g) ==
    /\ BarrelShift(a, b, left, fill) = g[w]
    /\ g[0] = a
    /\ \A i \in 1 .. w : g[i] = Mux(b[i], Shifted(g[i - 1], Pow(i - 1), left, fill), g[i - 1])

LEMMA ShiftStages ==
    ASSUME NEW w \in Nat, NEW a \in Vec(w), NEW b \in Vec(w), NEW left \in BOOLEAN, NEW fill \in BOOLEAN,
           left => fill = FALSE
    PROVE  \E g : ShiftRun(w, a, b, left, fill, g)
<1>0. Len(b) = w BY VecSeq
<1> DEFINE G == CHOOSE g : g = [i \in 0 .. Len(b) |-> ShiftStep(a, b, left, fill, i, g)]
<1>1. BarrelShift(a, b, left, fill) = G[w] BY <1>0 DEF BarrelShift, ShiftStep
<1>2. G = [i \in 0 .. w |-> ShiftStep(a, b, left, fill, i, G)]
  <2>0. \E g : ShiftRec(w, a, b, left, fill, g) BY ShiftRuns
  <2>1. \E g : g = [i \in 0 .. Len(b) |-> ShiftStep(a, b, left, fill, i, g)]
    BY <1>0, <2>0 DEF ShiftRec
  <2>2. G = [i \in 0 .. Len(b) |-> ShiftStep(a, b, left, fill, i, G)] BY <2>1
  <2> QED BY <1>0, <2>2
<1> HIDE DEF G
<1>3. \A i \in 0 .. w : G[i] = ShiftStep(a, b, left, fill, i, G) BY <1>2
<1>4. G[0] = a
  <2>1. 0 \in 0 .. w OBVIOUS
  <2> QED BY <1>3, <2>1 DEF ShiftStep
<1>5. ASSUME NEW i \in 1 .. w
      PROVE  G[i] = Mux(b[i], Shifted(G[i - 1], Pow(i - 1), left, fill), G[i - 1])
  <2>1. i \in 0 .. w /\ i # 0 OBVIOUS
  <2> QED BY <1>3, <2>1 DEF ShiftStep, Pow
<1>6. ShiftRun(w, a, b, left, fill, G) BY <1>1, <1>4, <1>5 DEF ShiftRun
<1> QED BY <1>6

\* Up: multiplication by the power of two.
LEMMA UpRight ==
    ASSUME NEW w \in Nat, NEW a \in Vec(w), NEW b \in Vec(w)
    PROVE  LET v == BarrelShift(a, b, TRUE, FALSE)
           IN  v \in Vec(w) /\ Low(v)[w] = (Low(a)[w] * Pow(Low(b)[w])) % Pow(w)
<1> DEFINE X == Low(a)[w]
           M == Pow(w)
<1>1. PICK g : ShiftRun(w, a, b, TRUE, FALSE, g) BY ShiftStages
<1>2. /\ BarrelShift(a, b, TRUE, FALSE) = g[w] /\ g[0] = a
      /\ \A i \in 1 .. w : g[i] = Mux(b[i], Shifted(g[i - 1], Pow(i - 1), TRUE, FALSE), g[i - 1])
  BY <1>1 DEF ShiftRun
<1>3. X \in Nat /\ M \in Nat \ {0} BY LowTop
<1> HIDE DEF X, M
<1> DEFINE T == {i \in Nat : i <= w => g[i] \in Vec(w) /\ Same(M, X * Pow(Low(b)[i]), Low(g[i])[w])}
<1>4. 0 \in T
  <2>1. Low(b)[0] = 0 BY LowIs
  <2>2. X * Pow(Low(b)[0]) = X BY <1>3, <2>1, PowZero
  <2>3. Same(M, X, X) BY <1>3, SameRefl
  <2>4. Low(g[0])[w] = X BY <1>2 DEF X
  <2> QED BY <1>2, <2>2, <2>3, <2>4
<1>5. ASSUME NEW i \in Nat, i \in T PROVE i + 1 \in T
  <2> SUFFICES ASSUME i + 1 <= w
               PROVE  g[i + 1] \in Vec(w) /\ Same(M, X * Pow(Low(b)[i + 1]), Low(g[i + 1])[w])
    OBVIOUS
  <2> DEFINE k == i + 1
             L == Low(b)[i]
             s == Pow(k - 1)
             v == Shifted(g[i], s, TRUE, FALSE)
  <2>1. k \in 1 .. w /\ k - 1 = i /\ i \in 0 .. w /\ k - 1 \in Nat OBVIOUS
  <2> HIDE DEF k
  <2>2. g[i] \in Vec(w) /\ Same(M, X * Pow(L), Low(g[i])[w]) BY <1>5, <2>1
  <2>3. s \in Nat BY <2>1, PowType
  <2>4. g[k] = Mux(b[k], v, g[i]) BY <1>2, <2>1
  <2>5. L \in Nat /\ Low(b)[k] = L + Truth(b[k]) * s BY <2>1, LowIs
  <2>6. b[k] \in BOOLEAN BY <2>1 DEF Vec
  <2> HIDE DEF s, L
  <2>7. v \in Vec(w) /\ Same(M, Low(g[i])[w] * Pow(s), Low(v)[w]) BY <2>2, <2>3, UpShift DEF M
  <2> HIDE DEF v
  <2>8. CASE b[k]
    <3>1. g[k] = v BY <2>2, <2>4, <2>6, <2>7, <2>8, MuxIs
    <3>2. Truth(b[k]) = 1 BY <2>8 DEF Truth
    <3>3. Low(b)[k] = L + s BY <2>3, <2>5, <3>2
    <3>4. Pow(L + s) = Pow(L) * Pow(s) /\ Pow(L) \in Int /\ Pow(s) \in Int BY <2>3, <2>5, PowSum, PowType
    <3>5. Low(g[i])[w] \in Int /\ Low(v)[w] \in Int BY <2>2, <2>7, LowTop
    <3>6. X * Pow(L) \in Int /\ X \in Int /\ M \in Int BY <1>3, <3>4
    <3>7. Same(M, (X * Pow(L)) * Pow(s), Low(g[i])[w] * Pow(s)) BY <2>2, <3>4, <3>5, <3>6, SameScaled
    <3>8. (X * Pow(L)) * Pow(s) = X * Pow(Low(b)[k]) BY <3>3, <3>4, <3>6, TimesAssoc
    <3>9. (X * Pow(L)) * Pow(s) \in Int /\ Low(g[i])[w] * Pow(s) \in Int BY <3>4, <3>5, <3>6
    <3>10. Same(M, (X * Pow(L)) * Pow(s), Low(v)[w]) BY <2>7, <3>5, <3>6, <3>7, <3>9, SameTrans
    <3> QED BY <2>7, <3>1, <3>8, <3>10 DEF k
  <2>9. CASE ~b[k]
    <3>1. g[k] = g[i] BY <2>2, <2>4, <2>6, <2>7, <2>9, MuxIs
    <3>2. Truth(b[k]) = 0 BY <2>9 DEF Truth
    <3>3. Low(b)[k] = L BY <2>3, <2>5, <3>2
    <3> QED BY <2>2, <3>1, <3>3 DEF k
  <2> QED BY <2>6, <2>8, <2>9
<1>6. Nat \subseteq T
  <2> HIDE DEF T
  <2> QED BY <1>4, <1>5, NatInductive
<1>7. g[w] \in Vec(w) /\ Same(M, X * Pow(Low(b)[w]), Low(g[w])[w]) BY <1>6
<1>8. Low(g[w])[w] \in 0 .. M - 1 BY <1>7, LowTop DEF M
<1>9. X * Pow(Low(b)[w]) \in Int
  <2>1. Low(b)[w] \in Nat BY LowTop
  <2>2. Pow(Low(b)[w]) \in Int BY <2>1, PowType
  <2> QED BY <1>3, <2>2
<1>10. (X * Pow(Low(b)[w])) % M = Low(g[w])[w] BY <1>3, <1>7, <1>8, <1>9, SameMod
<1> QED BY <1>2, <1>7, <1>10 DEF X, M

\* Down: division by the power of two, of the value the fill continues.
LEMMA DownRight ==
    ASSUME NEW w \in Nat, NEW a \in Vec(w), NEW b \in Vec(w), NEW p \in BOOLEAN
    PROVE  LET v == BarrelShift(a, b, FALSE, p)
           IN  v \in Vec(w) /\ Filled(w, v, p) = Filled(w, a, p) \div Pow(Low(b)[w])
<1> DEFINE X == Filled(w, a, p)
<1>1. PICK g : ShiftRun(w, a, b, FALSE, p, g) BY ShiftStages
<1>2. /\ BarrelShift(a, b, FALSE, p) = g[w] /\ g[0] = a
      /\ \A i \in 1 .. w : g[i] = Mux(b[i], Shifted(g[i - 1], Pow(i - 1), FALSE, p), g[i - 1])
  BY <1>1 DEF ShiftRun
<1>3. X \in Int BY FilledIs
<1> DEFINE T == {i \in Nat : i <= w => g[i] \in Vec(w) /\ Filled(w, g[i], p) = X \div Pow(Low(b)[i])}
<1>4. 0 \in T
  <2>1. Low(b)[0] = 0 BY LowIs
  <2>2. X \div Pow(Low(b)[0]) = X
    <3> HIDE DEF X
    <3>1. X \div 1 = X BY <1>3
    <3> QED BY <2>1, <3>1, PowZero
  <2> QED BY <1>2, <2>2
<1> HIDE DEF X
<1>5. ASSUME NEW i \in Nat, i \in T PROVE i + 1 \in T
  <2> SUFFICES ASSUME i + 1 <= w
               PROVE  g[i + 1] \in Vec(w) /\ Filled(w, g[i + 1], p) = X \div Pow(Low(b)[i + 1])
    OBVIOUS
  <2> DEFINE k == i + 1
             L == Low(b)[i]
             s == Pow(k - 1)
             v == Shifted(g[i], s, FALSE, p)
  <2>1. k \in 1 .. w /\ k - 1 = i /\ i \in 0 .. w /\ k - 1 \in Nat OBVIOUS
  <2> HIDE DEF k
  <2>2. g[i] \in Vec(w) /\ Filled(w, g[i], p) = X \div Pow(L) BY <1>5, <2>1
  <2>3. s \in Nat BY <2>1, PowType
  <2>4. g[k] = Mux(b[k], v, g[i]) BY <1>2, <2>1
  <2>5. L \in Nat /\ Low(b)[k] = L + Truth(b[k]) * s BY <2>1, LowIs
  <2>6. b[k] \in BOOLEAN BY <2>1 DEF Vec
  <2> HIDE DEF s, L
  <2>7. v \in Vec(w) /\ Filled(w, v, p) = Filled(w, g[i], p) \div Pow(s) BY <2>2, <2>3, DownShift
  <2> HIDE DEF v
  <2>8. CASE b[k]
    <3>1. g[k] = v BY <2>2, <2>4, <2>6, <2>7, <2>8, MuxIs
    <3>2. Truth(b[k]) = 1 BY <2>8 DEF Truth
    <3>3. Low(b)[k] = L + s BY <2>3, <2>5, <3>2
    <3>4. Pow(L + s) = Pow(L) * Pow(s) BY <2>3, <2>5, PowSum
    <3>5. Pow(L) \in Nat \ {0} /\ Pow(s) \in Nat \ {0} BY <2>3, <2>5, PowType
    <3>6. (X \div Pow(L)) \div Pow(s) = X \div (Pow(L) * Pow(s)) BY <1>3, <3>5, DivNext
    <3> QED BY <2>2, <2>7, <3>1, <3>3, <3>4, <3>6 DEF k
  <2>9. CASE ~b[k]
    <3>1. g[k] = g[i] BY <2>2, <2>4, <2>6, <2>7, <2>9, MuxIs
    <3>2. Truth(b[k]) = 0 BY <2>9 DEF Truth
    <3>3. Low(b)[k] = L BY <2>3, <2>5, <3>2
    <3> QED BY <2>2, <3>1, <3>3 DEF k
  <2> QED BY <2>6, <2>8, <2>9
<1>6. Nat \subseteq T
  <2> HIDE DEF T
  <2> QED BY <1>4, <1>5, NatInductive
<1>7. g[w] \in Vec(w) /\ Filled(w, g[w], p) = X \div Pow(Low(b)[w]) BY <1>6
<1> QED BY <1>2, <1>7 DEF X

LEMMA LshrRight ==
    ASSUME NEW w \in Nat, NEW a \in Vec(w), NEW b \in Vec(w)
    PROVE  LET v == BarrelShift(a, b, FALSE, FALSE)
           IN  v \in Vec(w) /\ Low(v)[w] = Low(a)[w] \div Pow(Low(b)[w])
<1> DEFINE v == BarrelShift(a, b, FALSE, FALSE)
<1>1. v \in Vec(w) /\ Filled(w, v, FALSE) = Filled(w, a, FALSE) \div Pow(Low(b)[w]) BY DownRight
<1> HIDE DEF v
<1>2. ASSUME NEW x \in Vec(w) PROVE Filled(w, x, FALSE) = Low(x)[w]
  <2> DEFINE t == Truth(FALSE)
  <2>1. t = 0 BY TruthConstants
  <2>2. Filled(w, x, FALSE) = Low(x)[w] - t * Pow(w) BY DEF Filled
  <2> DEFINE f == Filled(w, x, FALSE)
  <2>3. f = Low(x)[w] - t * Pow(w) BY <2>2
  <2> HIDE DEF t, f
  <2>4. Low(x)[w] \in Nat /\ Pow(w) \in Nat BY LowTop
  <2>5. f = Low(x)[w] BY <2>1, <2>3, <2>4
  <2> QED BY <2>5 DEF f
<1> QED BY <1>1, <1>2 DEF v

LEMMA AshrRight ==
    ASSUME NEW w \in Nat \ {0}, NEW a \in Vec(w), NEW b \in Vec(w)
    PROVE  LET v == BarrelShift(a, b, FALSE, a[w])
           IN  v \in Vec(w) /\ Low(v)[w] = (Signed(Low(a)[w], w) \div Pow(Low(b)[w])) % Pow(w)
<1> DEFINE v == BarrelShift(a, b, FALSE, a[w])
<1>0. w \in 1 .. w /\ w \in Nat OBVIOUS
<1>1. a[w] \in BOOLEAN BY <1>0 DEF Vec
<1>2. v \in Vec(w) /\ Filled(w, v, a[w]) = Filled(w, a, a[w]) \div Pow(Low(b)[w]) BY <1>0, <1>1, DownRight
<1> HIDE DEF v
<1>3. Filled(w, a, a[w]) = Signed(Low(a)[w], w) BY SignedIs DEF Filled
<1>4. Filled(w, v, a[w]) % Pow(w) = Low(v)[w] BY <1>0, <1>1, <1>2, FilledIs
<1> QED BY <1>2, <1>3, <1>4 DEF v

-----------------------------------------------------------------------------
(* Vectors joined and cut *)

LEMMA SeqVec ==
    ASSUME NEW a \in Seq(BOOLEAN) PROVE Len(a) \in Nat /\ a \in Vec(Len(a)) /\ DOMAIN a = 1 .. Len(a)
BY LenProperties DEF Vec

LEMMA JoinedIs ==
    ASSUME NEW m \in Nat, NEW n \in Nat, NEW a \in Vec(m), NEW b \in Vec(n)
    PROVE  /\ a \o b \in Vec(m + n)
           /\ \A i \in 1 .. m : (a \o b)[i] = a[i]
           /\ \A i \in 1 .. n : (a \o b)[i + m] = b[i]
           /\ Low(a \o b)[m + n] = Low(a)[m] + Pow(m) * Low(b)[n]
<1>1. a \in Seq(BOOLEAN) /\ Len(a) = m /\ b \in Seq(BOOLEAN) /\ Len(b) = n BY VecSeq
<1> DEFINE c == a \o b
<1>2. /\ c \in Seq(BOOLEAN) /\ Len(c) = m + n
      /\ \A i \in 1 .. m + n : c[i] = IF i <= m THEN a[i] ELSE b[i - m]
  BY <1>1, ConcatProperties
<1> HIDE DEF c
<1>3. c \in Vec(m + n) BY <1>2, SeqVec
<1>4. \A i \in 1 .. m : c[i] = a[i]
  <2>1. \A i \in 1 .. m : i \in 1 .. m + n /\ i <= m OBVIOUS
  <2> QED BY <1>2, <2>1
<1>5. \A i \in 1 .. n : c[i + m] = b[i]
  <2>1. \A i \in 1 .. n : i + m \in 1 .. m + n /\ ~(i + m <= m) /\ (i + m) - m = i OBVIOUS
  <2> QED BY <1>2, <2>1
<1>6. Low(c)[m] = Low(a)[m]
  <2>1. m + n \in Nat /\ m \in 0 .. m + n /\ m <= m OBVIOUS
  <2> QED BY <1>3, <1>4, <2>1, LowSame
<1>7. Low(c)[m + n] = Low(c)[m] + Pow(m) * Low(b)[n]
  <2>1. m + n \in Nat /\ m \in 0 .. m + n /\ n \in 0 .. n /\ m + n <= m + n OBVIOUS
  <2>2. \A i \in 1 .. n : b[i] = c[i + m] BY <1>5
  <2> QED BY <1>3, <2>1, <2>2, Split
<1> QED BY <1>3, <1>4, <1>5, <1>6, <1>7 DEF c

LEMMA CutIs ==
    ASSUME NEW w \in Nat, NEW a \in Vec(w), NEW k \in Nat, NEW m \in Nat, k + m <= w
    PROVE  /\ SubSeq(a, k + 1, k + m) \in Vec(m)
           /\ \A i \in 1 .. m : SubSeq(a, k + 1, k + m)[i] = a[i + k]
<1> DEFINE c == SubSeq(a, k + 1, k + m)
<1>1. \A i \in k + 1 .. k + m : i \in 1 .. w OBVIOUS
<1>2. \A i \in k + 1 .. k + m : a[i] \in BOOLEAN BY <1>1 DEF Vec
<1>3. k + 1 \in Int /\ k + m \in Int /\ (k + m) - (k + 1) + 1 = m OBVIOUS
<1>4. /\ c \in Seq(BOOLEAN)
      /\ Len(c) = IF k + 1 <= k + m THEN (k + m) - (k + 1) + 1 ELSE 0
      /\ \A i \in 1 .. (k + m) - (k + 1) + 1 : c[i] = a[k + 1 + i - 1]
  BY <1>2, <1>3, SubSeqProperties
<1> HIDE DEF c
<1>5. Len(c) = m BY <1>4
<1>6. c \in Vec(m) BY <1>4, <1>5, SeqVec
<1>7. \A i \in 1 .. m : c[i] = a[i + k]
  <2>1. \A i \in 1 .. m : k + 1 + i - 1 = i + k OBVIOUS
  <2> QED BY <1>3, <1>4, <2>1
<1> QED BY <1>6, <1>7 DEF c

LEMMA SingleIs ==
    ASSUME NEW p \in BOOLEAN PROVE <<p>> \in Vec(1) /\ <<p>>[1] = p /\ Low(<<p>>)[1] = Truth(p)
<1> DEFINE c == <<p>>
<1>1. c \in Vec(1) /\ c[1] = p BY DEF Vec
<1> HIDE DEF c
<1>2. 1 \in Nat /\ 1 \in 1 .. 1 /\ 1 - 1 = 0 OBVIOUS
<1>3. Low(c)[1] = Low(c)[1 - 1] + Truth(c[1]) * Pow(1 - 1) BY <1>1, <1>2, LowIs
<1>4. Low(c)[0] = 0 BY <1>1, <1>2, LowIs
<1> DEFINE t == Truth(p)
<1>5. t = 0 \/ t = 1 BY TruthType
<1>6. Truth(c[1]) = t BY <1>1
<1> HIDE DEF t
<1>7. Low(c)[1] = t
  <2>1. t * 1 = t /\ 0 + t = t BY <1>5
  <2> QED BY <1>2, <1>3, <1>4, <1>6, <2>1, PowZero
<1> QED BY <1>1, <1>7 DEF c, t

\* A leading bit.
LEMMA LedIs ==
    ASSUME NEW w \in Nat, NEW p \in BOOLEAN, NEW r \in Vec(w)
    PROVE  <<p>> \o r \in Vec(w + 1) /\ Low(<<p>> \o r)[w + 1] = Truth(p) + 2 * Low(r)[w]
<1>1. <<p>> \in Vec(1) /\ Low(<<p>>)[1] = Truth(p) /\ 1 \in Nat BY SingleIs
<1>2. <<p>> \o r \in Vec(1 + w) /\ Low(<<p>> \o r)[1 + w] = Low(<<p>>)[1] + Pow(1) * Low(r)[w]
  BY <1>1, JoinedIs
<1>3. 1 + w = w + 1 OBVIOUS
<1> QED BY <1>1, <1>2, <1>3, PowOne

\* A bit that is false at the top.
LEMMA WidenedIs ==
    ASSUME NEW w \in Nat, NEW b \in Vec(w)
    PROVE  /\ Append(b, FALSE) \in Vec(w + 1) /\ Len(Append(b, FALSE)) = w + 1
           /\ Low(Append(b, FALSE))[w + 1] = Low(b)[w]
<1> DEFINE c == Append(b, FALSE)
<1>1. b \in Seq(BOOLEAN) /\ Len(b) = w BY VecSeq
<1>2. c \in Seq(BOOLEAN) /\ Len(c) = w + 1 /\ c[w + 1] = FALSE /\ \A i \in 1 .. w : c[i] = b[i]
  <2> DEFINE p == FALSE
  <2>1. p \in BOOLEAN /\ c = Append(b, p) OBVIOUS
  <2> HIDE DEF p, c
  <2>2. c \in Seq(BOOLEAN) /\ Len(c) = w + 1 /\ c[w + 1] = p /\ \A i \in 1 .. w : c[i] = b[i]
    BY <1>1, <2>1, AppendProperties
  <2> QED BY <2>2 DEF p
<1> HIDE DEF c
<1>3. c \in Vec(w + 1) BY <1>2, SeqVec
<1>4. w + 1 \in Nat /\ w \in 0 .. w + 1 /\ w \in 0 .. w /\ w <= w /\ w + 1 \in 1 .. w + 1 /\ (w + 1) - 1 = w OBVIOUS
<1>5. Low(c)[w] = Low(b)[w] BY <1>2, <1>3, <1>4, LowSame
<1>6. Low(c)[w + 1] = Low(c)[w] + Truth(c[w + 1]) * Pow(w) BY <1>3, <1>4, LowIs
<1>7. Truth(c[w + 1]) = 0 BY <1>2, TruthType
<1>8. Low(b)[w] \in Nat /\ Pow(w) \in Nat BY LowTop
<1>9. Low(c)[w + 1] = Low(b)[w] BY <1>5, <1>6, <1>7, <1>8
<1> QED BY <1>2, <1>3, <1>9 DEF c

\* The top bit dropped from a number small enough not to need it.
LEMMA NarrowedIs ==
    ASSUME NEW w \in Nat, NEW c \in Vec(w + 1), Low(c)[w + 1] < Pow(w)
    PROVE  Low(SubSeq(c, 1, w))[w] = Low(c)[w + 1]
<1> DEFINE d == SubSeq(c, 1, w)
<1>0. /\ w + 1 \in Nat /\ 0 \in Nat /\ 0 + w <= w + 1 /\ 0 + 1 = 1 /\ 0 + w = w /\ w \in 0 .. w
      /\ w \in 0 .. w + 1 /\ w <= w + 1 /\ w + 1 \in 1 .. w + 1 /\ (w + 1) - 1 = w
  OBVIOUS
<1>1. d \in Vec(w) /\ \A i \in 1 .. w : d[i] = c[i + 0] BY <1>0, CutIs
<1> HIDE DEF d
<1>2. \A i \in 1 .. w : d[i] = c[i] BY <1>1
<1>3. Low(d)[w] = Low(c)[w] BY <1>0, <1>1, <1>2, LowSame
<1>4. Low(c)[w + 1] = Low(c)[w] + Truth(c[w + 1]) * Pow(w) /\ Low(c)[w] \in Nat BY <1>0, LowIs
<1>5. Truth(c[w + 1]) = 0 \/ Truth(c[w + 1]) = 1 BY TruthType
<1>6. Pow(w) \in Nat BY PowType
<1>7. Low(c)[w] = Low(c)[w + 1] BY <1>4, <1>5, <1>6
<1> QED BY <1>3, <1>7 DEF d

-----------------------------------------------------------------------------
(* Division *)

DivNextRec(a, b, k, x) ==
    LET shifted == <<a[k]>> \o x.rem
        sub == Subtracted(shifted, Append(b, FALSE))
    IN  [rem |-> SubSeq(Mux(sub.ge, sub.diff, shifted), 1, Len(a)),
         quot |-> [x.quot EXCEPT ![k] = sub.ge]]
Zeros(w) == [rem |-> Constant(w, FALSE), quot |-> Constant(w, FALSE)]
DivStep(a, b, i, g) == IF i = 0 THEN Zeros(Len(a)) ELSE DivNextRec(a, b, Len(a) - i + 1, g[i - 1])
DivRec(w, a, b, g) == g = [i \in 0 .. w |-> DivStep(a, b, i, g)]
Pairs(w) == [rem : Vec(w), quot : Vec(w)]

\* One step: subtract when the divisor fits.
LEMMA DivNextIs ==
    ASSUME NEW w \in Nat, NEW a \in Vec(w), NEW b \in Vec(w), NEW k \in 1 .. w, NEW x \in Pairs(w)
    PROVE  LET y == DivNextRec(a, b, k, x)
               n == Truth(a[k]) + 2 * Low(x.rem)[w]
           IN  /\ y \in Pairs(w)
               /\ \E ge \in BOOLEAN :
                      /\ y.quot = [x.quot EXCEPT ![k] = ge]
                      /\ ge <=> n >= Low(b)[w]
                      /\ ge /\ n - Low(b)[w] < Pow(w) => Low(y.rem)[w] = n - Low(b)[w]
                      /\ ~ge /\ n < Pow(w) => Low(y.rem)[w] = n
<1> DEFINE y == DivNextRec(a, b, k, x)
           n == Truth(a[k]) + 2 * Low(x.rem)[w]
           sh == <<a[k]>> \o x.rem
           bb == Append(b, FALSE)
           diff == RippleAdd(sh, Inverted(bb), TRUE)
           ge == Carries(sh, Inverted(bb), TRUE)[w + 1 + 1]
           mx == Mux(ge, diff, sh)
           c == CarryOut(w + 1, sh, Inverted(bb), TRUE)
<1>0. x.rem \in Vec(w) /\ x.quot \in Vec(w) /\ a[k] \in BOOLEAN /\ Len(a) = w /\ w + 1 \in Nat
  BY VecSeq DEF Pairs, Vec
<1>1. sh \in Vec(w + 1) /\ Low(sh)[w + 1] = n BY <1>0, LedIs
<1>2. bb \in Vec(w + 1) /\ Len(bb) = w + 1 /\ Low(bb)[w + 1] = Low(b)[w] BY WidenedIs
<1>3. y = [rem |-> SubSeq(mx, 1, w), quot |-> [x.quot EXCEPT ![k] = ge]]
  BY <1>0, <1>2 DEF DivNextRec, Subtracted
<1> HIDE DEF y, n, sh, bb
<1>4. /\ diff \in Vec(w + 1) /\ c \in {0, 1}
      /\ Low(diff)[w + 1] + Pow(w + 1) * c = Low(sh)[w + 1] + Pow(w + 1) - Low(bb)[w + 1]
      /\ ge <=> c = 1
      /\ c = 1 <=> Low(sh)[w + 1] >= Low(bb)[w + 1]
  BY <1>0, <1>1, <1>2, DifferenceIs
<1>5. ge \in BOOLEAN
  <2>1. Inverted(bb) \in Vec(w + 1) BY <1>0, <1>2, InvertedIs
  <2>2. CarryRun(w + 1, sh, Inverted(bb), TRUE, Carries(sh, Inverted(bb), TRUE))
    BY <1>0, <1>1, <2>1, CarriesIs
  <2>3. w + 1 + 1 \in 1 .. w + 1 + 1 OBVIOUS
  <2> QED BY <2>2, <2>3 DEF CarryRun
<1> HIDE DEF diff, ge, c
<1>6. mx \in Vec(w + 1) /\ (ge => mx = diff) /\ (~ge => mx = sh) BY <1>0, <1>1, <1>4, <1>5, MuxIs
<1> HIDE DEF mx
<1>7. SubSeq(mx, 1, w) \in Vec(w)
  <2>1. 0 \in Nat /\ 0 + w <= w + 1 /\ 0 + 1 = 1 /\ 0 + w = w OBVIOUS
  <2> QED BY <1>0, <1>6, <2>1, CutIs
<1>8. y.rem = SubSeq(mx, 1, w) /\ y.quot = [x.quot EXCEPT ![k] = ge] BY <1>3
<1>9. y \in Pairs(w)
  <2>1. [x.quot EXCEPT ![k] = ge] \in Vec(w) BY <1>0, <1>5 DEF Vec
  <2> QED BY <1>3, <1>7, <2>1 DEF Pairs
<1>10. n \in Nat /\ Low(b)[w] \in Nat /\ Pow(w + 1) \in Nat
  <2>1. Low(sh)[w + 1] \in Nat BY <1>0, <1>1, LowTop
  <2> QED BY <1>0, <1>1, <2>1, LowTop, PowType
<1>11. ge <=> n >= Low(b)[w] BY <1>1, <1>2, <1>4
<1>12. ASSUME ge, n - Low(b)[w] < Pow(w) PROVE Low(y.rem)[w] = n - Low(b)[w]
  <2>1. c = 1 /\ mx = diff BY <1>4, <1>6, <1>12
  <2>2. Pow(w + 1) * c = Pow(w + 1) BY <1>10, <2>1
  <2>3. Low(diff)[w + 1] \in Nat BY <1>0, <1>4, LowTop
  <2>4. Low(diff)[w + 1] = n - Low(b)[w] BY <1>1, <1>2, <1>4, <1>10, <2>2, <2>3
  <2> QED BY <1>6, <1>8, <1>12, <2>1, <2>4, NarrowedIs
<1>13. ASSUME ~ge, n < Pow(w) PROVE Low(y.rem)[w] = n
  <2>1. mx = sh BY <1>6, <1>13
  <2> QED BY <1>1, <1>6, <1>8, <1>13, <2>1, NarrowedIs
<1>14. \E h \in BOOLEAN :
           /\ y.quot = [x.quot EXCEPT ![k] = h]
           /\ h <=> n >= Low(b)[w]
           /\ h /\ n - Low(b)[w] < Pow(w) => Low(y.rem)[w] = n - Low(b)[w]
           /\ ~h /\ n < Pow(w) => Low(y.rem)[w] = n
  BY <1>5, <1>8, <1>11, <1>12, <1>13
<1> QED BY <1>9, <1>14 DEF y, n

LEMMA DivRuns ==
    ASSUME NEW w \in Nat, NEW a \in Vec(w), NEW b \in Vec(w)
    PROVE  \E g : DivRec(w, a, b, g)
<1>0. Len(a) = w BY VecSeq
<1> DEFINE z == Zeros(w)
           step == [i \in 1 .. w |-> [x \in Pairs(w) |-> DivNextRec(a, b, w - i + 1, x)]]
<1>1. z \in Pairs(w) BY ZerosIs DEF Zeros, Pairs
<1>2. ASSUME NEW i \in 1 .. w, NEW x \in Pairs(w) PROVE DivNextRec(a, b, w - i + 1, x) \in Pairs(w)
  <2>1. w - i + 1 \in 1 .. w OBVIOUS
  <2> QED BY <2>1, DivNextIs
<1>3. step \in [1 .. w -> [Pairs(w) -> Pairs(w)]] BY <1>2
<1>4. PICK f : Steps(w, Pairs(w), z, step, f)
  <2> HIDE DEF step, z
  <2> QED BY <1>1, <1>3, StepsExist
<1>5. f \in [0 .. w -> Pairs(w)] /\ f[0] = z BY <1>4 DEF Steps
<1>6. ASSUME NEW i \in 0 .. w PROVE f[i] = DivStep(a, b, i, f)
  <2>1. CASE i = 0 BY <1>0, <1>5, <2>1 DEF DivStep
  <2>2. CASE i # 0
    <3>1. i \in 1 .. w /\ i - 1 \in 0 .. w BY <2>2
    <3>2. f[i] = step[i][f[i - 1]]
      <4> HIDE DEF step
      <4> QED BY <1>4, <3>1 DEF Steps
    <3>3. f[i - 1] \in Pairs(w) BY <1>5, <3>1
    <3>4. f[i] = DivNextRec(a, b, w - i + 1, f[i - 1]) BY <3>1, <3>2, <3>3
    <3> QED BY <1>0, <2>2, <3>4 DEF DivStep
  <2> QED BY <2>1, <2>2
<1>7. f = [i \in 0 .. w |-> f[i]] BY <1>5
<1>8. f = [i \in 0 .. w |-> DivStep(a, b, i, f)] BY <1>6, <1>7
<1> QED BY <1>8 DEF DivRec

\* The arithmetic of one step: what is divided so far, and the bits still to come.
DivSplit(X, Q, Y, P, r, rest) == X = (Q * Y) + (P * r) + rest

LEMMA DivSplitNext ==
    ASSUME NEW X \in Int, NEW Q \in Int, NEW Y \in Int, NEW P \in Int, NEW r \in Int,
           NEW t \in Int, NEW rest \in Int, NEW h \in {0, 1},
           DivSplit(X, Q, Y, 2 * P, r, rest + t * P)
    PROVE  DivSplit(X, Q + h * P, Y, P, (t + 2 * r) - h * Y, rest)
<1>1. (2 * P) * r = P * (2 * r) /\ t * P = P * t /\ P * (t + 2 * r) = P * t + P * (2 * r) OBVIOUS
<1>2. Q * Y \in Int /\ P * (t + 2 * r) \in Int /\ P * t \in Int /\ P * (2 * r) \in Int /\ P * Y \in Int OBVIOUS
<1>3. X = (Q * Y) + (P * (t + 2 * r)) + rest
  <2> DEFINE m == Q * Y
             n == P * t
             k == P * (2 * r)
  <2>1. X = m + k + (rest + n) BY <1>1 DEF DivSplit
  <2>2. P * (t + 2 * r) = n + k /\ m \in Int /\ n \in Int /\ k \in Int BY <1>1, <1>2
  <2> HIDE DEF m, n, k
  <2>3. X = m + (n + k) + rest BY <2>1, <2>2
  <2> QED BY <2>2, <2>3 DEF m
<1>4. CASE h = 0
  <2>1. Q + h * P = Q /\ (t + 2 * r) - h * Y = t + 2 * r BY <1>4
  <2> QED BY <1>3, <2>1 DEF DivSplit
<1>5. CASE h = 1
  <2>1. Q + h * P = Q + P /\ (t + 2 * r) - h * Y = (t + 2 * r) - Y BY <1>5
  <2>2. (Q + P) * Y = Q * Y + P * Y OBVIOUS
  <2>3. P * ((t + 2 * r) - Y) = P * (t + 2 * r) - P * Y OBVIOUS
  <2>4. X = ((Q + P) * Y) + (P * ((t + 2 * r) - Y)) + rest
    <3> DEFINE m == Q * Y
               n == P * Y
               k == P * (t + 2 * r)
    <3>1. X = m + k + rest /\ (Q + P) * Y = m + n /\ P * ((t + 2 * r) - Y) = k - n BY <1>3, <2>2, <2>3
    <3>2. m \in Int /\ n \in Int /\ k \in Int BY <1>2
    <3> HIDE DEF m, n, k
    <3> QED BY <3>1, <3>2
  <2> QED BY <2>1, <2>4 DEF DivSplit
<1> QED BY <1>4, <1>5

\* After the steps for the bits above the k-th.
DivState(w, a, Y, k, x) ==
    /\ x \in Pairs(w)
    /\ \A j \in 1 .. k : x.quot[j] = FALSE
    /\ Low(x.rem)[w] < Y
    /\ DivSplit(Low(a)[w], Low(x.quot)[w], Y, Pow(k), Low(x.rem)[w], Low(a)[k])

LEMMA DivStateNext ==
    ASSUME NEW w \in Nat, NEW a \in Vec(w), NEW b \in Vec(w), NEW k \in 1 .. w, NEW x,
           DivState(w, a, Low(b)[w], k, x)
    PROVE  DivState(w, a, Low(b)[w], k - 1, DivNextRec(a, b, k, x))
<1> DEFINE y == DivNextRec(a, b, k, x)
           Y == Low(b)[w]
           t == Truth(a[k])
           r == Low(x.rem)[w]
           n == t + 2 * r
           P == Pow(k - 1)
<1>0. k \in 0 .. w /\ k - 1 \in 0 .. w /\ k - 1 \in Nat /\ (k - 1) + 1 = k OBVIOUS
<1>1. /\ x \in Pairs(w) /\ \A j \in 1 .. k : x.quot[j] = FALSE
      /\ r < Y /\ DivSplit(Low(a)[w], Low(x.quot)[w], Y, Pow(k), r, Low(a)[k])
  BY DEF DivState
<1>2. PICK ge \in BOOLEAN :
           /\ y.quot = [x.quot EXCEPT ![k] = ge]
           /\ ge <=> n >= Low(b)[w]
           /\ ge /\ n - Low(b)[w] < Pow(w) => Low(y.rem)[w] = n - Low(b)[w]
           /\ ~ge /\ n < Pow(w) => Low(y.rem)[w] = n
  BY <1>1, DivNextIs
<1>3. y \in Pairs(w) BY <1>1, DivNextIs
<1> HIDE DEF y
<1>4. x.rem \in Vec(w) /\ x.quot \in Vec(w) /\ y.rem \in Vec(w) /\ y.quot \in Vec(w) BY <1>1, <1>3 DEF Pairs
<1>5. Low(a)[k] = Low(a)[k - 1] + t * P BY LowIs
<1>6. Pow(k) = 2 * P /\ P \in Nat BY <1>0, PowNext
<1>7. t = 0 \/ t = 1 BY TruthType
<1>8. r \in Nat /\ Y \in Nat /\ Y < Pow(w) /\ Pow(w) \in Nat /\ Low(a)[w] \in Nat /\ Low(x.quot)[w] \in Nat
  <2>1. Y \in 0 .. Pow(w) - 1 /\ Pow(w) \in Nat BY LowTop
  <2>2. r \in Nat /\ Low(a)[w] \in Nat /\ Low(x.quot)[w] \in Nat BY <1>4, LowTop
  <2> HIDE DEF Y, r
  <2> QED BY <2>1, <2>2
<1>9. Low(a)[k - 1] \in Nat BY <1>0, LowIs
<1> DEFINE h == Truth(ge)
<1>10. h \in {0, 1} /\ (ge <=> h = 1) BY DEF Truth
<1>11. Low(y.quot)[w] = Low(x.quot)[w] + h * P
  <2>1. LET c == [x.quot EXCEPT ![k] = ge]
        IN  c \in Vec(w) /\ Low(c)[w] = Low(x.quot)[w] + (Truth(ge) - Truth(x.quot[k])) * Pow(k - 1)
    BY <1>4, ChangedBit
  <2>2. Low(y.quot)[w] = Low(x.quot)[w] + (h - Truth(x.quot[k])) * P BY <1>2, <2>1
  <2>3. k \in 1 .. k OBVIOUS
  <2>4. x.quot[k] = FALSE BY <1>1, <2>3
  <2>5. Truth(x.quot[k]) = 0 BY <2>4, TruthType
  <2> HIDE DEF h, P
  <2>6. (h - 0) * P = h * P BY <1>6, <1>10
  <2> QED BY <2>2, <2>5, <2>6
<1>12. \A j \in 1 .. k - 1 : y.quot[j] = FALSE
  <2>1. \A j \in 1 .. k - 1 : j \in 1 .. k /\ j # k /\ j \in 1 .. w OBVIOUS
  <2>2. x.quot = [j \in 1 .. w |-> x.quot[j]] BY <1>4 DEF Vec
  <2>3. \A j \in 1 .. k - 1 : y.quot[j] = x.quot[j] BY <1>2, <2>1, <2>2
  <2> QED BY <1>1, <2>1, <2>3
<1> HIDE DEF Y, t, r, P, h
<1>13. Low(y.rem)[w] = n - h * Y /\ Low(y.rem)[w] < Y
  <2> HIDE DEF n
  <2>0. n = t + 2 * r /\ n \in Nat BY <1>7, <1>8 DEF n
  <2>1. CASE ge
    <3>1. h = 1 /\ n >= Y BY <1>2, <1>10, <2>1 DEF Y
    <3>2. n - Y < Y BY <1>1, <1>7, <1>8, <2>0
    <3>3. n - Y < Pow(w) BY <1>8, <2>0, <3>2
    <3>4. Low(y.rem)[w] = n - Y BY <1>2, <2>1, <3>3 DEF Y
    <3>5. h * Y = Y BY <1>8, <3>1
    <3> QED BY <3>2, <3>4, <3>5
  <2>2. CASE ~ge
    <3>1. h = 0 /\ ~(n >= Y) BY <1>2, <1>10, <2>2 DEF Y
    <3>2. n < Y /\ n < Pow(w) BY <1>8, <2>0, <3>1
    <3>3. Low(y.rem)[w] = n BY <1>2, <2>2, <3>2
    <3>4. h * Y = 0 BY <1>8, <3>1
    <3> QED BY <2>0, <3>2, <3>3, <3>4
  <2> QED BY <2>1, <2>2
<1>14. DivSplit(Low(a)[w], Low(x.quot)[w], Y, 2 * P, r, Low(a)[k - 1] + t * P) BY <1>1, <1>5, <1>6
<1>15. DivSplit(Low(a)[w], Low(x.quot)[w] + h * P, Y, P, (t + 2 * r) - h * Y, Low(a)[k - 1])
  <2>1. t \in Int /\ r \in Int /\ Y \in Int /\ P \in Int BY <1>6, <1>7, <1>8
  <2> DEFINE X == Low(a)[w]
             Q == Low(x.quot)[w]
             rest == Low(a)[k - 1]
  <2>2. X \in Int /\ Q \in Int /\ rest \in Int /\ h \in {0, 1} BY <1>8, <1>9, <1>10
  <2>3. DivSplit(X, Q, Y, 2 * P, r, rest + t * P) BY <1>14
  <2> HIDE DEF X, Q, rest
  <2>4. DivSplit(X, Q + h * P, Y, P, (t + 2 * r) - h * Y, rest) BY <2>1, <2>2, <2>3, DivSplitNext
  <2> QED BY <2>4 DEF X, Q, rest
<1>16. DivSplit(Low(a)[w], Low(y.quot)[w], Y, P, Low(y.rem)[w], Low(a)[k - 1]) BY <1>11, <1>13, <1>15
<1>17. DivState(w, a, Y, k - 1, y) BY <1>3, <1>12, <1>13, <1>16 DEF DivState, P
<1> QED BY <1>17 DEF Y, y

\* Quotient and remainder; by zero, all ones and the dividend.
LEMMA DivRight ==
    ASSUME NEW w \in Nat, NEW a \in Vec(w), NEW b \in Vec(w)
    PROVE  LET d == UDivRem(a, b)
               X == Low(a)[w]
               Y == Low(b)[w]
           IN  /\ d.quot \in Vec(w) /\ d.rem \in Vec(w)
               /\ Y = 0 => Low(d.quot)[w] = Pow(w) - 1 /\ Low(d.rem)[w] = X
               /\ Y # 0 => X = (Low(d.quot)[w] * Y) + Low(d.rem)[w] /\ Low(d.rem)[w] < Y
<1>0. Len(a) = w /\ DOMAIN b = 1 .. w BY VecSeq
<1> DEFINE d == UDivRem(a, b)
           X == Low(a)[w]
           Y == Low(b)[w]
           G == CHOOSE g : g = [i \in 0 .. Len(a) |-> DivStep(a, b, i, g)]
           isZero == \A i \in DOMAIN b : ~b[i]
<1>1. d = [quot |-> Mux(isZero, Constant(w, TRUE), G[w].quot), rem |-> Mux(isZero, a, G[w].rem)]
  BY <1>0 DEF UDivRem, DivStep, Zeros, DivNextRec
<1>2. G = [i \in 0 .. w |-> DivStep(a, b, i, G)]
  <2>1. \E g : g = [i \in 0 .. Len(a) |-> DivStep(a, b, i, g)] BY <1>0, DivRuns DEF DivRec
  <2>2. G = [i \in 0 .. Len(a) |-> DivStep(a, b, i, G)] BY <2>1
  <2> QED BY <1>0, <2>2
<1> HIDE DEF G
<1>3. \A i \in 0 .. w : G[i] = DivStep(a, b, i, G) BY <1>2
<1>4. G[0] = Zeros(w)
  <2>1. 0 \in 0 .. w OBVIOUS
  <2> QED BY <1>0, <1>3, <2>1 DEF DivStep
<1>5. ASSUME NEW i \in Nat, i + 1 <= w PROVE G[i + 1] = DivNextRec(a, b, w - i, G[i]) /\ w - i \in 1 .. w
  <2>1. i + 1 \in 0 .. w /\ i + 1 # 0 /\ (i + 1) - 1 = i /\ w - (i + 1) + 1 = w - i /\ w - i \in 1 .. w BY <1>5
  <2> QED BY <1>0, <1>3, <2>1 DEF DivStep
<1>6. Zeros(w) \in Pairs(w) BY ZerosIs DEF Zeros, Pairs
<1>7. G[w] \in Pairs(w)
  <2> DEFINE T == {i \in Nat : i <= w => G[i] \in Pairs(w)}
  <2>1. 0 \in T BY <1>4, <1>6
  <2>2. ASSUME NEW i \in Nat, i \in T PROVE i + 1 \in T BY <1>5, <2>2, DivNextIs
  <2>3. Nat \subseteq T
    <3> HIDE DEF T
    <3> QED BY <2>1, <2>2, NatInductive
  <2> QED BY <2>3
<1>8. isZero \in BOOLEAN /\ (isZero <=> Y = 0)
  <2> DEFINE z == Constant(w, FALSE)
  <2>1. w \in 0 .. w OBVIOUS
  <2>2. z \in Vec(w) /\ Low(z)[w] = 0 BY <2>1, ZerosIs
  <2>3. \A i \in 1 .. w : z[i] = FALSE BY DEF Constant
  <2> HIDE DEF z
  <2>4. isZero => Y = 0
    <3>1. ASSUME isZero PROVE \A i \in 1 .. w : b[i] = z[i]
      <4>1. \A i \in 1 .. w : b[i] \in BOOLEAN BY DEF Vec
      <4> QED BY <1>0, <2>3, <3>1, <4>1
    <3> QED BY <2>1, <2>2, <3>1, LowSame
  <2>5. Y = 0 => isZero
    <3>1. Y = 0 => b = z BY <2>2, LowInjective
    <3> QED BY <1>0, <2>3, <3>1
  <2> QED BY <2>4, <2>5
<1> HIDE DEF isZero
<1>9. Constant(w, TRUE) \in Vec(w) /\ Low(Constant(w, TRUE))[w] = Pow(w) - 1
  <2> DEFINE t == Truth(TRUE)
             z == Constant(w, TRUE)
  <2>1. w \in 0 .. w OBVIOUS
  <2>2. z \in Vec(w) /\ Low(z)[w] = t * (Pow(w) - 1) BY <2>1, ConstantIs
  <2>3. t = 1 BY TruthConstants
  <2>4. Pow(w) \in Nat BY PowType
  <2> HIDE DEF z, t
  <2>5. Low(z)[w] = Pow(w) - 1 BY <2>2, <2>3, <2>4
  <2> QED BY <2>2, <2>5 DEF z
<1>10. G[w].quot \in Vec(w) /\ G[w].rem \in Vec(w) BY <1>7 DEF Pairs
<1> DEFINE ones == Constant(w, TRUE)
<1> HIDE DEF ones
<1>11. ones \in Vec(w) /\ Low(ones)[w] = Pow(w) - 1 BY <1>9 DEF ones
<1>12. d.quot = Mux(isZero, ones, G[w].quot) /\ d.rem = Mux(isZero, a, G[w].rem) BY <1>1 DEF ones
<1> HIDE DEF d
<1>13. d.quot \in Vec(w) /\ d.rem \in Vec(w) BY <1>8, <1>10, <1>11, <1>12, MuxIs
<1>14. CASE Y = 0
  <2>1. d.quot = ones /\ d.rem = a BY <1>8, <1>10, <1>11, <1>12, <1>14, MuxIs
  <2> QED BY <1>11, <1>13, <1>14, <2>1 DEF d
<1>15. CASE Y # 0
  <2>1. d.quot = G[w].quot /\ d.rem = G[w].rem BY <1>8, <1>10, <1>11, <1>12, <1>15, MuxIs
  <2>2. Y \in Nat /\ X \in Nat /\ X = Low(a)[w] BY LowTop
  <2> HIDE DEF X, Y
  <2> DEFINE T == {i \in Nat : i <= w => DivState(w, a, Y, w - i, G[i])}
  <2>3. 0 \in T
    <3> DEFINE z == Constant(w, FALSE)
    <3>1. w \in 0 .. w OBVIOUS
    <3>2. z \in Vec(w) /\ Low(z)[w] = 0 BY <3>1, ZerosIs
    <3>3. \A i \in 1 .. w : z[i] = FALSE BY DEF Constant
    <3>4. G[0].rem = z /\ G[0].quot = z BY <1>4 DEF Zeros
    <3> HIDE DEF z
    <3>5. Low(a)[w] = (0 * Y) + (Pow(w) * 0) + Low(a)[w] BY <2>2, PowType
    <3>6. DivSplit(Low(a)[w], 0, Y, Pow(w), 0, Low(a)[w]) BY <3>5 DEF DivSplit
    <3>7. DivState(w, a, Y, w, G[0]) BY <1>4, <1>6, <1>15, <2>2, <3>2, <3>3, <3>4, <3>6 DEF DivState
    <3>8. w - 0 = w OBVIOUS
    <3> QED BY <3>7, <3>8
  <2>4. ASSUME NEW i \in Nat, i \in T PROVE i + 1 \in T
    <3> SUFFICES ASSUME i + 1 <= w PROVE DivState(w, a, Y, w - (i + 1), G[i + 1]) OBVIOUS
    <3> DEFINE k == w - i
    <3>1. DivState(w, a, Y, k, G[i]) BY <2>4
    <3>2. G[i + 1] = DivNextRec(a, b, k, G[i]) /\ k \in 1 .. w BY <1>5
    <3>3. w - (i + 1) = k - 1 OBVIOUS
    <3> HIDE DEF k
    <3>4. DivState(w, a, Y, k - 1, DivNextRec(a, b, k, G[i])) BY <3>1, <3>2, DivStateNext DEF Y
    <3> QED BY <3>2, <3>3, <3>4
  <2>5. Nat \subseteq T
    <3> HIDE DEF T
    <3> QED BY <2>3, <2>4, NatInductive
  <2>6. DivState(w, a, Y, 0, G[w])
    <3>1. DivState(w, a, Y, w - w, G[w]) BY <2>5
    <3>2. w - w = 0 OBVIOUS
    <3> QED BY <3>1, <3>2
  <2>7. Low(d.rem)[w] < Y /\ X = (Low(d.quot)[w] * Y) + (Pow(0) * Low(d.rem)[w]) + Low(a)[0]
    BY <2>1, <2>2, <2>6 DEF DivState, DivSplit
  <2>8. Low(a)[0] = 0 /\ Pow(0) = 1 /\ Low(d.rem)[w] \in Nat /\ Low(d.quot)[w] \in Nat BY <1>13, LowIs, LowTop, PowZero
  <2>9. X = (Low(d.quot)[w] * Y) + Low(d.rem)[w]
    <3> DEFINE m == Low(d.quot)[w] * Y
               r == Low(d.rem)[w]
    <3>1. X = m + (1 * r) + 0 /\ r \in Nat /\ m \in Nat BY <2>2, <2>7, <2>8
    <3> HIDE DEF m, r
    <3>2. X = m + r BY <3>1
    <3> QED BY <3>2 DEF m, r
  <2> QED BY <1>13, <1>15, <2>7, <2>9 DEF d, X, Y
<1> QED BY <1>14, <1>15

-----------------------------------------------------------------------------
(* Bit by bit *)

SumStep(F, i, g) == IF i = 0 THEN 0 ELSE g[i - 1] + F[i - 1] * 2 ^ (i - 1)

SumFit(w, v, F) == \A i \in 0 .. w - 1 : F[i] = Truth(v[i + 1])

\* A sum over the bits is the number whose bits they are.
LEMMA SumIs ==
    ASSUME NEW w \in Nat, NEW v \in Vec(w), NEW F, SumFit(w, v, F),
           NEW g, g = [i \in 0 .. w |-> SumStep(F, i, g)]
    PROVE  g[w] = Low(v)[w]
<1>1. \A i \in 0 .. w : g[i] = SumStep(F, i, g) OBVIOUS
<1> DEFINE T == {i \in Nat : i <= w => g[i] = Low(v)[i]}
<1>2. 0 \in T
  <2>1. 0 \in 0 .. w OBVIOUS
  <2>2. g[0] = 0 BY <1>1, <2>1 DEF SumStep
  <2> QED BY <2>2, LowIs
<1>3. ASSUME NEW i \in Nat, i \in T PROVE i + 1 \in T
  <2> SUFFICES ASSUME i + 1 <= w PROVE g[i + 1] = Low(v)[i + 1] OBVIOUS
  <2>1. i + 1 \in 0 .. w /\ i + 1 # 0 /\ (i + 1) - 1 = i /\ i \in 0 .. w - 1 /\ i + 1 \in 1 .. w OBVIOUS
  <2>2. g[i + 1] = g[i] + F[i] * Pow(i) BY <1>1, <2>1 DEF SumStep, Pow
  <2>3. Low(v)[i + 1] = Low(v)[i] + Truth(v[i + 1]) * Pow(i) BY <2>1, LowIs
  <2>4. F[i] = Truth(v[i + 1]) /\ g[i] = Low(v)[i] BY <1>3, <2>1 DEF SumFit
  <2> QED BY <2>2, <2>3, <2>4
<1>4. Nat \subseteq T
  <2> HIDE DEF T
  <2> QED BY <1>2, <1>3, NatInductive
<1>5. w \in T BY <1>4
<1> QED BY <1>5

LEMMA SumRuns ==
    ASSUME NEW w \in Nat, NEW v \in Vec(w), NEW F, SumFit(w, v, F)
    PROVE  \E g : g = [i \in 0 .. w |-> SumStep(F, i, g)]
<1> DEFINE g == Low(v)
<1>1. ASSUME NEW i \in 0 .. w PROVE g[i] = SumStep(F, i, g)
  <2>1. CASE i = 0 BY <2>1, LowIs DEF SumStep
  <2>2. CASE i # 0
    <3>1. i \in 1 .. w /\ i - 1 \in 0 .. w - 1 /\ (i - 1) + 1 = i BY <2>2
    <3>2. Low(v)[i] = Low(v)[i - 1] + Truth(v[i]) * Pow(i - 1) BY <3>1, LowIs
    <3>3. F[i - 1] = Truth(v[i]) BY <3>1 DEF SumFit
    <3> QED BY <2>2, <3>2, <3>3 DEF SumStep, Pow
  <2> QED BY <2>1, <2>2
<1>2. g \in [0 .. w -> Nat] BY LowIs
<1> HIDE DEF g
<1>3. g = [i \in 0 .. w |-> g[i]] BY <1>2
<1>4. g = [i \in 0 .. w |-> SumStep(F, i, g)] BY <1>1, <1>3
<1> QED BY <1>4

AndBits(x, y, w) == BitSum(w, LAMBDA i : Bit(x, i) * Bit(y, i))
OrBits(x, y, w) == BitSum(w, LAMBDA i : Truth(Bit(x, i) + Bit(y, i) > 0))
XorBits(x, y, w) == BitSum(w, LAMBDA i : (Bit(x, i) + Bit(y, i)) % 2)

AndStep(x, y, i, g) == IF i = 0 THEN 0 ELSE g[i - 1] + (Bit(x, i - 1) * Bit(y, i - 1)) * 2 ^ (i - 1)
OrStep(x, y, i, g) == IF i = 0 THEN 0 ELSE g[i - 1] + Truth(Bit(x, i - 1) + Bit(y, i - 1) > 0) * 2 ^ (i - 1)
XorStep(x, y, i, g) == IF i = 0 THEN 0 ELSE g[i - 1] + ((Bit(x, i - 1) + Bit(y, i - 1)) % 2) * 2 ^ (i - 1)

LEMMA AndUnfolds ==
    ASSUME NEW w, NEW x, NEW y
    PROVE  AndBits(x, y, w) = (CHOOSE g : g = [i \in 0 .. w |-> AndStep(x, y, i, g)])[w]
BY DEF AndBits, BitSum, AndStep

LEMMA OrUnfolds ==
    ASSUME NEW w, NEW x, NEW y
    PROVE  OrBits(x, y, w) = (CHOOSE g : g = [i \in 0 .. w |-> OrStep(x, y, i, g)])[w]
BY DEF OrBits, BitSum, OrStep

LEMMA XorUnfolds ==
    ASSUME NEW w, NEW x, NEW y
    PROVE  XorBits(x, y, w) = (CHOOSE g : g = [i \in 0 .. w |-> XorStep(x, y, i, g)])[w]
BY DEF XorBits, BitSum, XorStep

LEMMA AndRight ==
    ASSUME NEW w \in Nat, NEW a \in Vec(w), NEW b \in Vec(w)
    PROVE  LET v == [i \in DOMAIN a |-> a[i] /\ b[i]]
           IN  v \in Vec(w) /\ AndBits(Low(a)[w], Low(b)[w], w) = Low(v)[w]
<1> DEFINE v == [i \in DOMAIN a |-> a[i] /\ b[i]]
           x == Low(a)[w]
           y == Low(b)[w]
           F == [i \in 0 .. w - 1 |-> Bit(x, i) * Bit(y, i)]
           G == CHOOSE g : g = [i \in 0 .. w |-> AndStep(x, y, i, g)]
<1>0. DOMAIN a = 1 .. w BY VecSeq
<1>1. v \in Vec(w) /\ \A i \in 1 .. w : v[i] = (a[i] /\ b[i]) BY <1>0 DEF Vec, Xor
<1> HIDE DEF v
<1>2. ASSUME NEW i \in 0 .. w - 1 PROVE F[i] = Truth(v[i + 1])
  <2>1. i + 1 \in 1 .. w OBVIOUS
  <2>2. Bit(x, i) = Truth(a[i + 1]) /\ Bit(y, i) = Truth(b[i + 1]) BY BitIs
  <2>3. a[i + 1] \in BOOLEAN /\ b[i + 1] \in BOOLEAN BY <2>1 DEF Vec
  <2>4. v[i + 1] = (a[i + 1] /\ b[i + 1]) BY <1>1, <2>1
  <2> DEFINE p == Bit(x, i)
             q == Bit(y, i)
  <2> HIDE DEF x, y
  <2>5. F[i] = p * q OBVIOUS
  <2> HIDE DEF F, p, q
  <2>6. p = Truth(a[i + 1]) /\ q = Truth(b[i + 1]) BY <2>2 DEF p, q
  <2>7. CASE a[i + 1] /\ b[i + 1]
    <3>1. p = 1 /\ q = 1 BY <2>6, <2>7 DEF Truth
    <3>2. F[i] = 1 BY <2>5, <3>1 DEF Truth
    <3>3. v[i + 1] BY <2>3, <2>4, <2>7 DEF Xor
    <3>4. Truth(v[i + 1]) = 1 BY <3>3 DEF Truth
    <3> QED BY <3>2, <3>4
  <2>8. CASE a[i + 1] /\ ~b[i + 1]
    <3>1. p = 1 /\ q = 0 BY <2>6, <2>8 DEF Truth
    <3>2. F[i] = 0 BY <2>5, <3>1 DEF Truth
    <3>3. ~v[i + 1] BY <2>3, <2>4, <2>8 DEF Xor
    <3>4. Truth(v[i + 1]) = 0 BY <3>3 DEF Truth
    <3> QED BY <3>2, <3>4
  <2>9. CASE ~a[i + 1] /\ b[i + 1]
    <3>1. p = 0 /\ q = 1 BY <2>6, <2>9 DEF Truth
    <3>2. F[i] = 0 BY <2>5, <3>1 DEF Truth
    <3>3. ~v[i + 1] BY <2>3, <2>4, <2>9 DEF Xor
    <3>4. Truth(v[i + 1]) = 0 BY <3>3 DEF Truth
    <3> QED BY <3>2, <3>4
  <2>10. CASE ~a[i + 1] /\ ~b[i + 1]
    <3>1. p = 0 /\ q = 0 BY <2>6, <2>10 DEF Truth
    <3>2. F[i] = 0 BY <2>5, <3>1 DEF Truth
    <3>3. ~v[i + 1] BY <2>3, <2>4, <2>10 DEF Xor
    <3>4. Truth(v[i + 1]) = 0 BY <3>3 DEF Truth
    <3> QED BY <3>2, <3>4
  <2> QED BY <2>7, <2>8, <2>9, <2>10
<1>2a. SumFit(w, v, F)
  <2> HIDE DEF F
  <2> QED BY <1>2 DEF SumFit
<1>3. ASSUME NEW g PROVE [i \in 0 .. w |-> AndStep(x, y, i, g)] = [i \in 0 .. w |-> SumStep(F, i, g)]
  <2>1. ASSUME NEW i \in 0 .. w PROVE AndStep(x, y, i, g) = SumStep(F, i, g)
    <3>1. CASE i = 0 BY <3>1 DEF AndStep, SumStep
    <3>2. CASE i # 0
      <4>1. i - 1 \in 0 .. w - 1 BY <3>2
      <4>2. F[i - 1] = Bit(x, i - 1) * Bit(y, i - 1) BY <4>1
      <4> HIDE DEF F, x, y
      <4> QED BY <3>2, <4>2 DEF AndStep, SumStep
    <3> QED BY <3>1, <3>2
  <2> HIDE DEF F, x, y
  <2> QED BY <2>1
<1>4. AndBits(x, y, w) = G[w] BY AndUnfolds
<1> HIDE DEF F, x, y
<1>5. \E g : g = [i \in 0 .. w |-> AndStep(x, y, i, g)]
  <2>1. PICK g : g = [i \in 0 .. w |-> SumStep(F, i, g)] BY <1>1, <1>2a, SumRuns
  <2>2. g = [i \in 0 .. w |-> AndStep(x, y, i, g)] BY <1>3, <2>1
  <2> QED BY <2>2
<1>6. G = [i \in 0 .. w |-> AndStep(x, y, i, G)] BY <1>5
<1> HIDE DEF G
<1>7. G = [i \in 0 .. w |-> SumStep(F, i, G)] BY <1>3, <1>6
<1>8. G[w] = Low(v)[w] BY <1>1, <1>2a, <1>7, SumIs
<1> QED BY <1>1, <1>4, <1>8 DEF v, x, y

LEMMA OrRight ==
    ASSUME NEW w \in Nat, NEW a \in Vec(w), NEW b \in Vec(w)
    PROVE  LET v == [i \in DOMAIN a |-> a[i] \/ b[i]]
           IN  v \in Vec(w) /\ OrBits(Low(a)[w], Low(b)[w], w) = Low(v)[w]
<1> DEFINE v == [i \in DOMAIN a |-> a[i] \/ b[i]]
           x == Low(a)[w]
           y == Low(b)[w]
           F == [i \in 0 .. w - 1 |-> Truth(Bit(x, i) + Bit(y, i) > 0)]
           G == CHOOSE g : g = [i \in 0 .. w |-> OrStep(x, y, i, g)]
<1>0. DOMAIN a = 1 .. w BY VecSeq
<1>1. v \in Vec(w) /\ \A i \in 1 .. w : v[i] = (a[i] \/ b[i]) BY <1>0 DEF Vec, Xor
<1> HIDE DEF v
<1>2. ASSUME NEW i \in 0 .. w - 1 PROVE F[i] = Truth(v[i + 1])
  <2>1. i + 1 \in 1 .. w OBVIOUS
  <2>2. Bit(x, i) = Truth(a[i + 1]) /\ Bit(y, i) = Truth(b[i + 1]) BY BitIs
  <2>3. a[i + 1] \in BOOLEAN /\ b[i + 1] \in BOOLEAN BY <2>1 DEF Vec
  <2>4. v[i + 1] = (a[i + 1] \/ b[i + 1]) BY <1>1, <2>1
  <2> DEFINE p == Bit(x, i)
             q == Bit(y, i)
  <2> HIDE DEF x, y
  <2>5. F[i] = Truth(p + q > 0) OBVIOUS
  <2> HIDE DEF F, p, q
  <2>6. p = Truth(a[i + 1]) /\ q = Truth(b[i + 1]) BY <2>2 DEF p, q
  <2>7. CASE a[i + 1] /\ b[i + 1]
    <3>1. p = 1 /\ q = 1 BY <2>6, <2>7 DEF Truth
    <3>2. F[i] = 1 BY <2>5, <3>1 DEF Truth
    <3>3. v[i + 1] BY <2>3, <2>4, <2>7 DEF Xor
    <3>4. Truth(v[i + 1]) = 1 BY <3>3 DEF Truth
    <3> QED BY <3>2, <3>4
  <2>8. CASE a[i + 1] /\ ~b[i + 1]
    <3>1. p = 1 /\ q = 0 BY <2>6, <2>8 DEF Truth
    <3>2. F[i] = 1 BY <2>5, <3>1 DEF Truth
    <3>3. v[i + 1] BY <2>3, <2>4, <2>8 DEF Xor
    <3>4. Truth(v[i + 1]) = 1 BY <3>3 DEF Truth
    <3> QED BY <3>2, <3>4
  <2>9. CASE ~a[i + 1] /\ b[i + 1]
    <3>1. p = 0 /\ q = 1 BY <2>6, <2>9 DEF Truth
    <3>2. F[i] = 1 BY <2>5, <3>1 DEF Truth
    <3>3. v[i + 1] BY <2>3, <2>4, <2>9 DEF Xor
    <3>4. Truth(v[i + 1]) = 1 BY <3>3 DEF Truth
    <3> QED BY <3>2, <3>4
  <2>10. CASE ~a[i + 1] /\ ~b[i + 1]
    <3>1. p = 0 /\ q = 0 BY <2>6, <2>10 DEF Truth
    <3>2. F[i] = 0 BY <2>5, <3>1 DEF Truth
    <3>3. ~v[i + 1] BY <2>3, <2>4, <2>10 DEF Xor
    <3>4. Truth(v[i + 1]) = 0 BY <3>3 DEF Truth
    <3> QED BY <3>2, <3>4
  <2> QED BY <2>7, <2>8, <2>9, <2>10
<1>2a. SumFit(w, v, F)
  <2> HIDE DEF F
  <2> QED BY <1>2 DEF SumFit
<1>3. ASSUME NEW g PROVE [i \in 0 .. w |-> OrStep(x, y, i, g)] = [i \in 0 .. w |-> SumStep(F, i, g)]
  <2>1. ASSUME NEW i \in 0 .. w PROVE OrStep(x, y, i, g) = SumStep(F, i, g)
    <3>1. CASE i = 0 BY <3>1 DEF OrStep, SumStep
    <3>2. CASE i # 0
      <4>1. i - 1 \in 0 .. w - 1 BY <3>2
      <4>2. F[i - 1] = Truth(Bit(x, i - 1) + Bit(y, i - 1) > 0) BY <4>1
      <4> HIDE DEF F, x, y
      <4> QED BY <3>2, <4>2 DEF OrStep, SumStep
    <3> QED BY <3>1, <3>2
  <2> HIDE DEF F, x, y
  <2> QED BY <2>1
<1>4. OrBits(x, y, w) = G[w] BY OrUnfolds
<1> HIDE DEF F, x, y
<1>5. \E g : g = [i \in 0 .. w |-> OrStep(x, y, i, g)]
  <2>1. PICK g : g = [i \in 0 .. w |-> SumStep(F, i, g)] BY <1>1, <1>2a, SumRuns
  <2>2. g = [i \in 0 .. w |-> OrStep(x, y, i, g)] BY <1>3, <2>1
  <2> QED BY <2>2
<1>6. G = [i \in 0 .. w |-> OrStep(x, y, i, G)] BY <1>5
<1> HIDE DEF G
<1>7. G = [i \in 0 .. w |-> SumStep(F, i, G)] BY <1>3, <1>6
<1>8. G[w] = Low(v)[w] BY <1>1, <1>2a, <1>7, SumIs
<1> QED BY <1>1, <1>4, <1>8 DEF v, x, y

LEMMA XorRight ==
    ASSUME NEW w \in Nat, NEW a \in Vec(w), NEW b \in Vec(w)
    PROVE  LET v == [i \in DOMAIN a |-> Xor(a[i], b[i])]
           IN  v \in Vec(w) /\ XorBits(Low(a)[w], Low(b)[w], w) = Low(v)[w]
<1> DEFINE v == [i \in DOMAIN a |-> Xor(a[i], b[i])]
           x == Low(a)[w]
           y == Low(b)[w]
           F == [i \in 0 .. w - 1 |-> (Bit(x, i) + Bit(y, i)) % 2]
           G == CHOOSE g : g = [i \in 0 .. w |-> XorStep(x, y, i, g)]
<1>0. DOMAIN a = 1 .. w BY VecSeq
<1>1. v \in Vec(w) /\ \A i \in 1 .. w : v[i] = (Xor(a[i], b[i])) BY <1>0 DEF Vec, Xor
<1> HIDE DEF v
<1>2. ASSUME NEW i \in 0 .. w - 1 PROVE F[i] = Truth(v[i + 1])
  <2>1. i + 1 \in 1 .. w OBVIOUS
  <2>2. Bit(x, i) = Truth(a[i + 1]) /\ Bit(y, i) = Truth(b[i + 1]) BY BitIs
  <2>3. a[i + 1] \in BOOLEAN /\ b[i + 1] \in BOOLEAN BY <2>1 DEF Vec
  <2>4. v[i + 1] = (Xor(a[i + 1], b[i + 1])) BY <1>1, <2>1
  <2> DEFINE p == Bit(x, i)
             q == Bit(y, i)
  <2> HIDE DEF x, y
  <2>5. F[i] = (p + q) % 2 OBVIOUS
  <2> HIDE DEF F, p, q
  <2>6. p = Truth(a[i + 1]) /\ q = Truth(b[i + 1]) BY <2>2 DEF p, q
  <2>7. CASE a[i + 1] /\ b[i + 1]
    <3>1. p = 1 /\ q = 1 BY <2>6, <2>7 DEF Truth
    <3>2. F[i] = 0 BY <2>5, <3>1 DEF Truth
    <3>3. ~v[i + 1] BY <2>3, <2>4, <2>7 DEF Xor
    <3>4. Truth(v[i + 1]) = 0 BY <3>3 DEF Truth
    <3> QED BY <3>2, <3>4
  <2>8. CASE a[i + 1] /\ ~b[i + 1]
    <3>1. p = 1 /\ q = 0 BY <2>6, <2>8 DEF Truth
    <3>2. F[i] = 1 BY <2>5, <3>1 DEF Truth
    <3>3. v[i + 1] BY <2>3, <2>4, <2>8 DEF Xor
    <3>4. Truth(v[i + 1]) = 1 BY <3>3 DEF Truth
    <3> QED BY <3>2, <3>4
  <2>9. CASE ~a[i + 1] /\ b[i + 1]
    <3>1. p = 0 /\ q = 1 BY <2>6, <2>9 DEF Truth
    <3>2. F[i] = 1 BY <2>5, <3>1 DEF Truth
    <3>3. v[i + 1] BY <2>3, <2>4, <2>9 DEF Xor
    <3>4. Truth(v[i + 1]) = 1 BY <3>3 DEF Truth
    <3> QED BY <3>2, <3>4
  <2>10. CASE ~a[i + 1] /\ ~b[i + 1]
    <3>1. p = 0 /\ q = 0 BY <2>6, <2>10 DEF Truth
    <3>2. F[i] = 0 BY <2>5, <3>1 DEF Truth
    <3>3. ~v[i + 1] BY <2>3, <2>4, <2>10 DEF Xor
    <3>4. Truth(v[i + 1]) = 0 BY <3>3 DEF Truth
    <3> QED BY <3>2, <3>4
  <2> QED BY <2>7, <2>8, <2>9, <2>10
<1>2a. SumFit(w, v, F)
  <2> HIDE DEF F
  <2> QED BY <1>2 DEF SumFit
<1>3. ASSUME NEW g PROVE [i \in 0 .. w |-> XorStep(x, y, i, g)] = [i \in 0 .. w |-> SumStep(F, i, g)]
  <2>1. ASSUME NEW i \in 0 .. w PROVE XorStep(x, y, i, g) = SumStep(F, i, g)
    <3>1. CASE i = 0 BY <3>1 DEF XorStep, SumStep
    <3>2. CASE i # 0
      <4>1. i - 1 \in 0 .. w - 1 BY <3>2
      <4>2. F[i - 1] = (Bit(x, i - 1) + Bit(y, i - 1)) % 2 BY <4>1
      <4> HIDE DEF F, x, y
      <4> QED BY <3>2, <4>2 DEF XorStep, SumStep
    <3> QED BY <3>1, <3>2
  <2> HIDE DEF F, x, y
  <2> QED BY <2>1
<1>4. XorBits(x, y, w) = G[w] BY XorUnfolds
<1> HIDE DEF F, x, y
<1>5. \E g : g = [i \in 0 .. w |-> XorStep(x, y, i, g)]
  <2>1. PICK g : g = [i \in 0 .. w |-> SumStep(F, i, g)] BY <1>1, <1>2a, SumRuns
  <2>2. g = [i \in 0 .. w |-> XorStep(x, y, i, g)] BY <1>3, <2>1
  <2> QED BY <2>2
<1>6. G = [i \in 0 .. w |-> XorStep(x, y, i, G)] BY <1>5
<1> HIDE DEF G
<1>7. G = [i \in 0 .. w |-> SumStep(F, i, G)] BY <1>3, <1>6
<1>8. G[w] = Low(v)[w] BY <1>1, <1>2a, <1>7, SumIs
<1> QED BY <1>1, <1>4, <1>8 DEF v, x, y

-----------------------------------------------------------------------------
(* Terms *)

AnyVec == UNION {Vec(w) : w \in Nat}

\* A term's bits are its value.
Fits(w, a, x) == a \in Vec(w) /\ x = Low(a)[w]
TermFit(a, x) == \E w \in Nat \ {0} : Fits(w, a, x)

LEMMA FitsValue ==
    ASSUME NEW w \in Nat \ {0}, NEW a, NEW x, Fits(w, a, x)
    PROVE  TermFit(a, x) /\ a \in AnyVec /\ x \in Nat /\ Number(a) = x /\ Len(a) = w
<1>1. a \in Vec(w) /\ x = Low(a)[w] /\ w \in Nat BY DEF Fits
<1> QED BY <1>1, LowTop, NumberIs, VecSeq DEF TermFit, AnyVec

LEMMA BoolFits ==
    ASSUME NEW p \in BOOLEAN, NEW q \in BOOLEAN, p <=> q
    PROVE  Fits(1, Bool(p), Truth(q))
<1>1. Bool(p) \in Vec(1) /\ Low(Bool(p))[1] = Truth(p) BY SingleIs DEF Bool
<1>2. Truth(p) = Truth(q) BY DEF Truth
<1> QED BY <1>1, <1>2 DEF Fits

LEMMA NotFits ==
    ASSUME NEW w \in Nat \ {0}, NEW a \in Vec(w)
    PROVE  Fits(w, Blast1("bvnot", a), Meaning1("bvnot", Low(a)[w], w))
<1>1. w \in Nat /\ w \in 0 .. w OBVIOUS
<1>2. Blast1("bvnot", a) = Inverted(a) BY DEF Blast1
<1>3. Meaning1("bvnot", Low(a)[w], w) = Pow(w) - 1 - Low(a)[w] BY DEF Meaning1, Pow
<1>4. Inverted(a) \in Vec(w) /\ Low(Inverted(a))[w] = Pow(w) - 1 - Low(a)[w] BY <1>1, InvertedIs
<1> QED BY <1>2, <1>3, <1>4 DEF Fits

LEMMA NegFits ==
    ASSUME NEW w \in Nat \ {0}, NEW a \in Vec(w)
    PROVE  Fits(w, Blast1("bvneg", a), Meaning1("bvneg", Low(a)[w], w))
<1>0. Len(a) = w /\ w \in Nat BY VecSeq
<1>1. Blast1("bvneg", a) = RippleAdd(Inverted(a), Constant(w, FALSE), TRUE) BY <1>0 DEF Blast1
<1>2. Meaning1("bvneg", Low(a)[w], w) = (Pow(w) - Low(a)[w]) % Pow(w) BY DEF Meaning1, Pow
<1> DEFINE s == RippleAdd(Inverted(a), Constant(w, FALSE), TRUE)
<1>3. s \in Vec(w) /\ Low(s)[w] = (Pow(w) - Low(a)[w]) % Pow(w) BY <1>0, NegRight
<1> HIDE DEF s
<1> QED BY <1>1, <1>2, <1>3 DEF Fits, s

LEMMA AndFits ==
    ASSUME NEW w \in Nat \ {0}, NEW a \in Vec(w), NEW b \in Vec(w)
    PROVE  Fits(w, Blast2("bvand", a, b), Meaning2("bvand", Low(a)[w], Low(b)[w], w))
<1> DEFINE v == [i \in DOMAIN a |-> a[i] /\ b[i]]
<1>1. v \in Vec(w) /\ AndBits(Low(a)[w], Low(b)[w], w) = Low(v)[w] BY AndRight
<1>2. Blast2("bvand", a, b) = v BY DEF Blast2
<1>3. Meaning2("bvand", Low(a)[w], Low(b)[w], w) = AndBits(Low(a)[w], Low(b)[w], w) BY DEF Meaning2, AndBits
<1> HIDE DEF v
<1> QED BY <1>1, <1>2, <1>3 DEF Fits

LEMMA OrFits ==
    ASSUME NEW w \in Nat \ {0}, NEW a \in Vec(w), NEW b \in Vec(w)
    PROVE  Fits(w, Blast2("bvor", a, b), Meaning2("bvor", Low(a)[w], Low(b)[w], w))
<1> DEFINE v == [i \in DOMAIN a |-> a[i] \/ b[i]]
<1>1. v \in Vec(w) /\ OrBits(Low(a)[w], Low(b)[w], w) = Low(v)[w] BY OrRight
<1>2. Blast2("bvor", a, b) = v BY DEF Blast2
<1>3. Meaning2("bvor", Low(a)[w], Low(b)[w], w) = OrBits(Low(a)[w], Low(b)[w], w) BY DEF Meaning2, OrBits
<1> HIDE DEF v
<1> QED BY <1>1, <1>2, <1>3 DEF Fits

LEMMA XorFits ==
    ASSUME NEW w \in Nat \ {0}, NEW a \in Vec(w), NEW b \in Vec(w)
    PROVE  Fits(w, Blast2("bvxor", a, b), Meaning2("bvxor", Low(a)[w], Low(b)[w], w))
<1> DEFINE v == [i \in DOMAIN a |-> Xor(a[i], b[i])]
<1>1. v \in Vec(w) /\ XorBits(Low(a)[w], Low(b)[w], w) = Low(v)[w] BY XorRight
<1>2. Blast2("bvxor", a, b) = v BY DEF Blast2
<1>3. Meaning2("bvxor", Low(a)[w], Low(b)[w], w) = XorBits(Low(a)[w], Low(b)[w], w) BY DEF Meaning2, XorBits
<1> HIDE DEF v
<1> QED BY <1>1, <1>2, <1>3 DEF Fits

LEMMA AddFits ==
    ASSUME NEW w \in Nat \ {0}, NEW a \in Vec(w), NEW b \in Vec(w)
    PROVE  Fits(w, Blast2("bvadd", a, b), Meaning2("bvadd", Low(a)[w], Low(b)[w], w))
<1>1. Blast2("bvadd", a, b) = RippleAdd(a, b, FALSE) BY DEF Blast2
<1>2. Meaning2("bvadd", Low(a)[w], Low(b)[w], w) = (Low(a)[w] + Low(b)[w]) % Pow(w) BY DEF Meaning2, Pow
<1> DEFINE s == RippleAdd(a, b, FALSE)
<1>3. s \in Vec(w) /\ Low(s)[w] = (Low(a)[w] + Low(b)[w]) % Pow(w) BY AddRight
<1> HIDE DEF s
<1> QED BY <1>1, <1>2, <1>3 DEF Fits, s

LEMMA SubFits ==
    ASSUME NEW w \in Nat \ {0}, NEW a \in Vec(w), NEW b \in Vec(w)
    PROVE  Fits(w, Blast2("bvsub", a, b), Meaning2("bvsub", Low(a)[w], Low(b)[w], w))
<1>1. Blast2("bvsub", a, b) = RippleAdd(a, Inverted(b), TRUE) BY DEF Blast2
<1>2. Meaning2("bvsub", Low(a)[w], Low(b)[w], w) = (Low(a)[w] - Low(b)[w]) % Pow(w) BY DEF Meaning2, Pow
<1> DEFINE s == RippleAdd(a, Inverted(b), TRUE)
<1>3. s \in Vec(w) /\ Low(s)[w] = (Low(a)[w] - Low(b)[w]) % Pow(w) BY SubRight
<1> HIDE DEF s
<1> QED BY <1>1, <1>2, <1>3 DEF Fits, s

LEMMA MulFits ==
    ASSUME NEW w \in Nat \ {0}, NEW a \in Vec(w), NEW b \in Vec(w)
    PROVE  Fits(w, Blast2("bvmul", a, b), Meaning2("bvmul", Low(a)[w], Low(b)[w], w))
<1>1. Blast2("bvmul", a, b) = Multiply(a, b) BY DEF Blast2
<1>2. Meaning2("bvmul", Low(a)[w], Low(b)[w], w) = (Low(a)[w] * Low(b)[w]) % Pow(w) BY DEF Meaning2, Pow
<1>3. Multiply(a, b) \in Vec(w) /\ Low(Multiply(a, b))[w] = (Low(a)[w] * Low(b)[w]) % Pow(w) BY MulRight
<1> QED BY <1>1, <1>2, <1>3 DEF Fits

\* The circuit's quotient and remainder are those of the numbers.
LEMMA QuotientIs ==
    ASSUME NEW w \in Nat, NEW a \in Vec(w), NEW b \in Vec(w), Low(b)[w] # 0
    PROVE  /\ Low(UDivRem(a, b).quot)[w] = Low(a)[w] \div Low(b)[w]
           /\ Low(UDivRem(a, b).rem)[w] = Low(a)[w] % Low(b)[w]
<1> DEFINE d == UDivRem(a, b)
           q == Low(d.quot)[w]
           r == Low(d.rem)[w]
           X == Low(a)[w]
           Y == Low(b)[w]
<1>1. d.quot \in Vec(w) /\ d.rem \in Vec(w) /\ X = (q * Y) + r /\ r < Y BY DivRight
<1> HIDE DEF d
<1>2. q \in Nat /\ r \in Nat /\ X \in Nat /\ Y \in Nat /\ Y # 0 BY <1>1, LowTop
<1> HIDE DEF q, r, X, Y
<1>3. q * Y = Y * q BY <1>2
<1>4. X = (Y * q) + r /\ Y \in Nat \ {0} /\ q \in Int /\ r \in 0 .. Y - 1 BY <1>1, <1>2, <1>3
<1>5. X % Y = r /\ X \div Y = q BY <1>4, ModIs
<1> QED BY <1>5 DEF d, q, r, X, Y

LEMMA DivFits ==
    ASSUME NEW w \in Nat \ {0}, NEW a \in Vec(w), NEW b \in Vec(w)
    PROVE  Fits(w, Blast2("bvudiv", a, b), Meaning2("bvudiv", Low(a)[w], Low(b)[w], w))
<1> DEFINE X == Low(a)[w]
           Y == Low(b)[w]
           v == UDivRem(a, b).quot
<1>1. Blast2("bvudiv", a, b) = v BY DEF Blast2
<1>2. Meaning2("bvudiv", X, Y, w) = IF Y = 0 THEN Pow(w) - 1 ELSE X \div Y BY DEF Meaning2, Pow
<1>3. v \in Vec(w) /\ (Y = 0 => Low(v)[w] = Pow(w) - 1) BY DivRight
<1>4. Y # 0 => Low(v)[w] = X \div Y BY QuotientIs
<1> HIDE DEF X, Y, v
<1>5. Fits(w, Blast2("bvudiv", a, b), Meaning2("bvudiv", X, Y, w)) BY <1>1, <1>2, <1>3, <1>4 DEF Fits
<1> QED BY <1>5 DEF X, Y

LEMMA RemFits ==
    ASSUME NEW w \in Nat \ {0}, NEW a \in Vec(w), NEW b \in Vec(w)
    PROVE  Fits(w, Blast2("bvurem", a, b), Meaning2("bvurem", Low(a)[w], Low(b)[w], w))
<1> DEFINE X == Low(a)[w]
           Y == Low(b)[w]
           v == UDivRem(a, b).rem
<1>1. Blast2("bvurem", a, b) = v BY DEF Blast2
<1>2. Meaning2("bvurem", X, Y, w) = IF Y = 0 THEN X ELSE X % Y BY DEF Meaning2
<1>3. v \in Vec(w) /\ (Y = 0 => Low(v)[w] = X) BY DivRight
<1>4. Y # 0 => Low(v)[w] = X % Y BY QuotientIs
<1> HIDE DEF X, Y, v
<1>5. Fits(w, Blast2("bvurem", a, b), Meaning2("bvurem", X, Y, w)) BY <1>1, <1>2, <1>3, <1>4 DEF Fits
<1> QED BY <1>5 DEF X, Y

LEMMA ShlFits ==
    ASSUME NEW w \in Nat \ {0}, NEW a \in Vec(w), NEW b \in Vec(w)
    PROVE  Fits(w, Blast2("bvshl", a, b), Meaning2("bvshl", Low(a)[w], Low(b)[w], w))
<1> DEFINE v == BarrelShift(a, b, TRUE, FALSE)
<1>1. Blast2("bvshl", a, b) = v BY DEF Blast2
<1>2. Meaning2("bvshl", Low(a)[w], Low(b)[w], w) = (Low(a)[w] * Pow(Low(b)[w])) % Pow(w) BY DEF Meaning2, Pow
<1>3. v \in Vec(w) /\ Low(v)[w] = (Low(a)[w] * Pow(Low(b)[w])) % Pow(w) BY UpRight
<1> HIDE DEF v
<1> QED BY <1>1, <1>2, <1>3 DEF Fits

LEMMA LshrFits ==
    ASSUME NEW w \in Nat \ {0}, NEW a \in Vec(w), NEW b \in Vec(w)
    PROVE  Fits(w, Blast2("bvlshr", a, b), Meaning2("bvlshr", Low(a)[w], Low(b)[w], w))
<1> DEFINE v == BarrelShift(a, b, FALSE, FALSE)
<1>1. Blast2("bvlshr", a, b) = v BY DEF Blast2
<1>2. Meaning2("bvlshr", Low(a)[w], Low(b)[w], w) = Low(a)[w] \div Pow(Low(b)[w]) BY DEF Meaning2, Pow
<1>3. v \in Vec(w) /\ Low(v)[w] = Low(a)[w] \div Pow(Low(b)[w]) BY LshrRight
<1> HIDE DEF v
<1> QED BY <1>1, <1>2, <1>3 DEF Fits

LEMMA AshrFits ==
    ASSUME NEW w \in Nat \ {0}, NEW a \in Vec(w), NEW b \in Vec(w)
    PROVE  Fits(w, Blast2("bvashr", a, b), Meaning2("bvashr", Low(a)[w], Low(b)[w], w))
<1>0. Len(a) = w BY VecSeq
<1> DEFINE v == BarrelShift(a, b, FALSE, a[w])
           z == (Signed(Low(a)[w], w) \div Pow(Low(b)[w])) % Pow(w)
<1>1. Blast2("bvashr", a, b) = v BY <1>0 DEF Blast2
<1>2. Meaning2("bvashr", Low(a)[w], Low(b)[w], w) = z BY DEF Meaning2, Pow
<1>3. v \in Vec(w) /\ Low(v)[w] = z BY AshrRight
<1> HIDE DEF v, z
<1> QED BY <1>1, <1>2, <1>3 DEF Fits

LEMMA CompareFits ==
    ASSUME NEW w \in Nat \ {0}, NEW a \in Vec(w), NEW b \in Vec(w),
           NEW op \in {"bvult", "bvule", "bvslt", "bvsle", "="}
    PROVE  Fits(1, Blast2(op, a, b), Meaning2(op, Low(a)[w], Low(b)[w], w))
<1> DEFINE X == Low(a)[w]
           Y == Low(b)[w]
           x == Signed(X, w)
           y == Signed(Y, w)
           lt == UltBits(a, b)
           sl == SltBits(a, b)
           eq == EqBits(a, b)
<1>0. w \in Nat OBVIOUS
<1>1. lt \in BOOLEAN /\ (lt <=> X < Y) BY UltRight
<1>2. sl \in BOOLEAN /\ (sl <=> x < y) BY SltRight
<1>3. eq \in BOOLEAN /\ (eq <=> X = Y) BY EqRight
<1>4. x = y <=> X = Y BY SignedInjective
<1>5. X \in Nat /\ Y \in Nat /\ x \in Int /\ y \in Int BY LowTop, SignedIs
<1>6. CASE op = "bvult"
  <2>1. Blast2(op, a, b) = Bool(lt) BY <1>6 DEF Blast2
  <2>2. Meaning2(op, X, Y, w) = Truth(X < Y) BY <1>6 DEF Meaning2
  <2> HIDE DEF X, Y, lt
  <2> DEFINE q == X < Y
  <2>3. q \in BOOLEAN /\ (lt <=> q) BY <1>1, <1>5
  <2>4. Meaning2(op, X, Y, w) = Truth(q) BY <2>2
  <2> HIDE DEF q
  <2>5. Fits(1, Bool(lt), Truth(q)) BY <1>1, <2>3, BoolFits
  <2> QED BY <2>1, <2>4, <2>5 DEF X, Y
<1>7. CASE op = "bvule"
  <2> DEFINE p == lt \/ eq
             q == X <= Y
  <2>1. Blast2(op, a, b) = Bool(p) BY <1>7 DEF Blast2
  <2>2. Meaning2(op, X, Y, w) = Truth(q) BY <1>7 DEF Meaning2
  <2> HIDE DEF X, Y, lt, eq
  <2>3. p \in BOOLEAN /\ q \in BOOLEAN /\ (p <=> q) BY <1>1, <1>3, <1>5
  <2> HIDE DEF p, q
  <2>4. Fits(1, Bool(p), Truth(q)) BY <2>3, BoolFits
  <2> QED BY <2>1, <2>2, <2>4 DEF X, Y
<1>8. CASE op = "bvslt"
  <2> DEFINE q == x < y
  <2>1. Blast2(op, a, b) = Bool(sl) BY <1>8 DEF Blast2
  <2>2. Meaning2(op, X, Y, w) = Truth(q) BY <1>8 DEF Meaning2
  <2> HIDE DEF X, Y, x, y, sl
  <2>3. q \in BOOLEAN /\ (sl <=> q) BY <1>2, <1>5
  <2> HIDE DEF q
  <2>4. Fits(1, Bool(sl), Truth(q)) BY <1>2, <2>3, BoolFits
  <2> QED BY <2>1, <2>2, <2>4 DEF X, Y
<1>9. CASE op = "bvsle"
  <2> DEFINE p == sl \/ eq
             q == x <= y
  <2>1. Blast2(op, a, b) = Bool(p) BY <1>9 DEF Blast2
  <2>2. Meaning2(op, X, Y, w) = Truth(q) BY <1>9 DEF Meaning2
  <2> HIDE DEF X, Y, x, y, sl, eq
  <2>3. p \in BOOLEAN /\ q \in BOOLEAN /\ (p <=> q) BY <1>2, <1>3, <1>4, <1>5
  <2> HIDE DEF p, q
  <2>4. Fits(1, Bool(p), Truth(q)) BY <2>3, BoolFits
  <2> QED BY <2>1, <2>2, <2>4 DEF X, Y
<1>10. CASE op = "="
  <2> DEFINE q == X = Y
  <2>1. Blast2(op, a, b) = Bool(eq) BY <1>10 DEF Blast2
  <2>2. Meaning2(op, X, Y, w) = Truth(q) BY <1>10 DEF Meaning2
  <2> HIDE DEF X, Y, eq
  <2>3. q \in BOOLEAN /\ (eq <=> q) BY <1>3
  <2> HIDE DEF q
  <2>4. Fits(1, Bool(eq), Truth(q)) BY <1>3, <2>3, BoolFits
  <2> QED BY <2>1, <2>2, <2>4 DEF X, Y
<1> QED BY <1>6, <1>7, <1>8, <1>9, <1>10

\* A vector of one bit.
LEMMA OneBit ==
    ASSUME NEW a \in Vec(1)
    PROVE  /\ a[1] \in BOOLEAN /\ Low(a)[1] \in {0, 1} /\ (a[1] <=> Low(a)[1] = 1)
           /\ Low(a)[1] = Truth(a[1])
<1>1. a[1] \in BOOLEAN BY DEF Vec
<1>2. 1 \in 1 .. 1 /\ 1 - 1 = 0 /\ 1 \in Nat OBVIOUS
<1>3. Low(a)[1] = Low(a)[1 - 1] + Truth(a[1]) * Pow(1 - 1) /\ Low(a)[0] = 0 BY <1>2, LowIs
<1>4. (a[1] /\ Truth(a[1]) = 1) \/ (~a[1] /\ Truth(a[1]) = 0) BY <1>1 DEF Truth
<1>5. Low(a)[1] = Truth(a[1]) BY <1>2, <1>3, <1>4, PowZero
<1> QED BY <1>1, <1>4, <1>5

LEMMA ImpliesFits ==
    ASSUME NEW a \in Vec(1), NEW b \in Vec(1)
    PROVE  Fits(1, Blast2("=>", a, b), Meaning2("=>", Low(a)[1], Low(b)[1], 1))
<1> DEFINE p == ~a[1] \/ b[1]
           q == Low(a)[1] <= Low(b)[1]
<1>1. Blast2("=>", a, b) = Bool(p) BY DEF Blast2
<1>2. Meaning2("=>", Low(a)[1], Low(b)[1], 1) = Truth(q) BY DEF Meaning2
<1>3. a[1] \in BOOLEAN /\ Low(a)[1] \in {0, 1} /\ (a[1] <=> Low(a)[1] = 1) BY OneBit
<1>4. b[1] \in BOOLEAN /\ Low(b)[1] \in {0, 1} /\ (b[1] <=> Low(b)[1] = 1) BY OneBit
<1>5. p \in BOOLEAN /\ q \in BOOLEAN /\ (p <=> q) BY <1>3, <1>4
<1> HIDE DEF p, q
<1>6. Fits(1, Bool(p), Truth(q)) BY <1>5, BoolFits
<1> QED BY <1>1, <1>2, <1>6

LEMMA ConcatFits ==
    ASSUME NEW m \in Nat \ {0}, NEW n \in Nat \ {0}, NEW a \in Vec(m), NEW b \in Vec(n)
    PROVE  Fits(n + m, Concat(a, b), Low(a)[m] * Pow(n) + Low(b)[n])
<1>1. m \in Nat /\ n \in Nat OBVIOUS
<1> DEFINE X == Low(a)[m]
           Y == Low(b)[n]
           c == b \o a
<1>2. c \in Vec(n + m) /\ Low(c)[n + m] = Y + Pow(n) * X BY <1>1, JoinedIs
<1>3. X \in Nat /\ Y \in Nat /\ Pow(n) \in Nat BY <1>1, LowTop
<1>4. Concat(a, b) = c BY DEF Concat
<1> HIDE DEF X, Y, c
<1>5. Y + Pow(n) * X = X * Pow(n) + Y BY <1>3
<1>6. Fits(n + m, Concat(a, b), X * Pow(n) + Y) BY <1>2, <1>4, <1>5 DEF Fits
<1> QED BY <1>6 DEF X, Y

LEMMA ExtractFits ==
    ASSUME NEW w \in Nat \ {0}, NEW a \in Vec(w), NEW high \in 0 .. w - 1, NEW low \in 0 .. high
    PROVE  Fits(high - low + 1, Extract(a, high, low), (Low(a)[w] \div Pow(low)) % Pow(high - low + 1))
<1> DEFINE m == high - low + 1
           u == Above(a, low)
           t == Above(u, m)
           c == SubSeq(a, low + 1, low + m)
           n == w - low
<1>1. /\ w \in Nat /\ low \in 0 .. w /\ low \in Nat /\ m \in Nat /\ low + m <= w /\ low + m = high + 1
      /\ n \in Nat /\ m \in 0 .. n /\ m \in 0 .. m /\ m <= m
  OBVIOUS
<1>2. Extract(a, high, low) = c BY <1>1 DEF Extract
<1>3. c \in Vec(m) /\ \A i \in 1 .. m : c[i] = a[i + low] BY <1>1, CutIs
<1>4. u \in Vec(n) /\ \A i \in 1 .. n : u[i] = a[i + low] BY <1>1, AboveIs
<1>5. Low(a)[w] = Low(a)[low] + Pow(low) * Low(u)[n] BY <1>1, SplitAbove
<1> HIDE DEF c, u
<1>6. Low(u)[n] = Low(u)[m] + Pow(m) * Low(t)[n - m] BY <1>1, <1>4, SplitAbove
<1>7. t \in Vec(n - m) /\ n - m \in Nat BY <1>1, <1>4, AboveIs
<1>8. Low(c)[m] = Low(u)[m]
  <2>1. \A i \in 1 .. m : c[i] = u[i]
    <3>1. \A i \in 1 .. m : i \in 1 .. n BY <1>1
    <3> QED BY <1>3, <1>4, <3>1
  <2> HIDE DEF m, n
  <2> QED BY <1>1, <1>3, <1>4, <2>1, LowSame
<1>9. /\ Low(a)[low] \in 0 .. Pow(low) - 1 /\ Low(u)[n] \in Nat /\ Low(u)[m] \in 0 .. Pow(m) - 1
      /\ Low(t)[n - m] \in Nat /\ Pow(low) \in Nat \ {0} /\ Pow(m) \in Nat \ {0}
  <2> HIDE DEF m, n, t
  <2> QED BY <1>1, <1>4, <1>7, LowRange, LowTop, PowType
<1> DEFINE X == Low(a)[w]
           U == Low(u)[n]
           A == Low(a)[low]
           B == Low(u)[m]
           D == Low(t)[n - m]
           P == Pow(low)
           Q == Pow(m)
<1>10. X \div P = U
  <2>1. X = A + P * U BY <1>5
  <2>2. A \in 0 .. P - 1 /\ U \in Nat /\ P \in Nat \ {0} BY <1>9
  <2> HIDE DEF X, A, P, U
  <2>3. X = (P * U) + A /\ U \in Int BY <2>1, <2>2
  <2> QED BY <2>2, <2>3, ModIs
<1>11. U % Q = B
  <2>1. U = B + Q * D BY <1>6
  <2>2. B \in 0 .. Q - 1 /\ D \in Nat /\ Q \in Nat \ {0} BY <1>9
  <2> HIDE DEF U, B, Q, D
  <2>3. U = (Q * D) + B /\ D \in Int BY <2>1, <2>2
  <2> QED BY <2>2, <2>3, ModIs
<1>12. Fits(m, Extract(a, high, low), (X \div P) % Q)
  <2>1. B = Low(c)[m] BY <1>8
  <2> HIDE DEF m, X, P, Q, U, B
  <2> QED BY <1>2, <1>3, <1>10, <1>11, <2>1 DEF Fits
<1> QED BY <1>12

LEMMA ExtendFits ==
    ASSUME NEW w \in Nat \ {0}, NEW a \in Vec(w), NEW k \in Nat, NEW signed \in BOOLEAN
    PROVE  Fits(w + k, BlastExtended(a, k, signed),
                IF signed THEN Signed(Low(a)[w], w) % Pow(w + k) ELSE Low(a)[w])
<1> DEFINE p == signed /\ a[w]
           z == Constant(k, p)
           c == a \o z
           X == Low(a)[w]
           Z == Low(z)[k]
           P == Pow(w)
           K == Pow(k)
           C == Low(c)[w + k]
           t == Truth(a[w])
           S == Signed(X, w)
           W == Pow(w + k)
<1>0. w \in Nat /\ w + k \in Nat /\ k \in 0 .. k /\ Len(a) = w /\ w \in 1 .. w /\ w \in 0 .. w BY VecSeq
<1>1. a[w] \in BOOLEAN BY <1>0 DEF Vec
<1>2. p \in BOOLEAN BY <1>1
<1>3. BlastExtended(a, k, signed) = c BY <1>0 DEF BlastExtended
<1>4. z \in Vec(k) /\ Z = Truth(p) * (K - 1)
  <2> HIDE DEF p
  <2> QED BY <1>0, <1>2, ConstantIs
<1> HIDE DEF z
<1>5. c \in Vec(w + k) /\ C = X + P * Z
  <2>1. z \in Vec(k) /\ k \in Nat BY <1>4
  <2> QED BY <1>0, <2>1, JoinedIs
<1>6. X \in Nat /\ Z \in Nat /\ P \in Nat \ {0} /\ K \in Nat \ {0} BY <1>0, <1>4, LowTop
<1>7. W = P * K BY <1>0, PowSum
<1>8. C \in 0 .. W - 1 /\ W \in Nat \ {0}
  <2> HIDE DEF c
  <2> QED BY <1>0, <1>5, LowTop
<1>9. S = X - t * P /\ S \in Int BY SignedIs
<1>10. (a[w] => t = 1) /\ (~a[w] => t = 0) BY <1>1 DEF Truth
<1>11. ~p => C = X
  <2> SUFFICES ASSUME ~p PROVE C = X OBVIOUS
  <2>1. Truth(p) = 0 BY DEF Truth
  <2> DEFINE v == Truth(p)
  <2>2. v = 0 /\ Z = v * (K - 1) BY <1>4, <2>1
  <2>3. C = X + P * Z BY <1>5
  <2> HIDE DEF v, C, X, P, Z, K
  <2>4. Z = 0 BY <1>6, <2>2
  <2> QED BY <1>6, <2>3, <2>4
<1>12. ASSUME signed PROVE S % W = C
  <2>1. CASE a[w]
    <3>0. p BY <1>12, <2>1
    <3>1. Truth(p) = 1 BY <3>0 DEF Truth
    <3> DEFINE v == Truth(p)
    <3>2. v = 1 /\ Z = v * (K - 1) /\ t = 1 BY <1>4, <1>10, <2>1, <3>1
    <3>3. C = X + P * Z BY <1>5
    <3>4. S = X - t * P BY <1>9
    <3>5. W = P * K BY <1>7
    <3> HIDE DEF v, C, X, P, Z, K, S, t, W, p
    <3>6. Z = K - 1 BY <1>6, <3>2
    <3>7. P * Z = P * K - P BY <1>6, <3>6
    <3>8. S = C - W BY <1>6, <3>2, <3>3, <3>4, <3>5, <3>7
    <3>9. S = (W * (0 - 1)) + C BY <1>8, <3>8
    <3> DEFINE q == 0 - 1
    <3>10. q \in Int /\ S = (W * q) + C BY <3>9
    <3> HIDE DEF q
    <3> QED BY <1>8, <3>10, ModIs
  <2>2. CASE ~a[w]
    <3>1. ~p BY <2>2
    <3>2. C = X /\ t = 0 BY <1>10, <1>11, <2>2, <3>1
    <3>3. S = X - t * P BY <1>9
    <3> HIDE DEF C, X, P, S, t, W, p
    <3>4. S = C BY <1>6, <3>2, <3>3
    <3> QED BY <1>8, <3>4
  <2> QED BY <1>1, <2>1, <2>2
<1>13. ASSUME ~signed PROVE X = C BY <1>11, <1>13
<1>14. (IF signed THEN S % W ELSE X) = C BY <1>12, <1>13
<1>15. Fits(w + k, BlastExtended(a, k, signed), IF signed THEN S % W ELSE X)
  <2> HIDE DEF S, W, X, c
  <2> QED BY <1>3, <1>5, <1>14 DEF Fits
<1> QED BY <1>15

LEMMA IteFits ==
    ASSUME NEW w \in Nat \ {0}, NEW c \in Vec(1), NEW a \in Vec(w), NEW b \in Vec(w)
    PROVE  Fits(w, Mux(c[1], a, b), IF Low(c)[1] = 1 THEN Low(a)[w] ELSE Low(b)[w])
<1>0. w \in Nat OBVIOUS
<1>1. c[1] \in BOOLEAN /\ (c[1] <=> Low(c)[1] = 1) BY OneBit
<1>2. (c[1] => Mux(c[1], a, b) = a) /\ (~c[1] => Mux(c[1], a, b) = b) BY <1>0, <1>1, MuxIs
<1> QED BY <1>1, <1>2 DEF Fits

Joint(op, p, q) == IF op = "and" THEN p /\ q ELSE IF op = "or" THEN p \/ q ELSE Xor(p, q)
JointStep(op, ps, i, g) == IF i = 1 THEN ps[1] ELSE Joint(op, g[i - 1], ps[i])

LEMMA JunctionIs ==
    ASSUME NEW op, NEW p, NEW q, NEW r
    PROVE  Junction(op, <<p, q, r>>) = Joint(op, Joint(op, p, q), r)
<1> DEFINE ps == <<p, q, r>>
           G == CHOOSE g : g = [i \in 1 .. Len(ps) |-> JointStep(op, ps, i, g)]
           h == [i \in 1 .. 3 |-> IF i = 1 THEN p ELSE IF i = 2 THEN Joint(op, p, q)
                                  ELSE Joint(op, Joint(op, p, q), r)]
<1>1. Len(ps) = 3 /\ ps[1] = p /\ ps[2] = q /\ ps[3] = r OBVIOUS
<1>2. Junction(op, ps) = G[Len(ps)] BY DEF Junction, JointStep, Joint
<1> HIDE DEF ps
<1>3. h[1] = p /\ h[2] = Joint(op, p, q) /\ h[3] = Joint(op, Joint(op, p, q), r) OBVIOUS
<1>4. h = [i \in 1 .. 3 |-> JointStep(op, ps, i, h)]
  <2>1. ASSUME NEW i \in 1 .. 3 PROVE h[i] = JointStep(op, ps, i, h)
    <3>1. CASE i = 1 BY <1>1, <1>3, <3>1 DEF JointStep
    <3>2. CASE i = 2 BY <1>1, <1>3, <3>2 DEF JointStep
    <3>3. CASE i = 3 BY <1>1, <1>3, <3>3 DEF JointStep
    <3> QED BY <3>1, <3>2, <3>3
  <2>2. h = [i \in 1 .. 3 |-> h[i]] OBVIOUS
  <2> HIDE DEF h
  <2> QED BY <2>1, <2>2
<1> HIDE DEF h
<1>5. \E g : g = [i \in 1 .. Len(ps) |-> JointStep(op, ps, i, g)] BY <1>1, <1>4
<1>6. G = [i \in 1 .. Len(ps) |-> JointStep(op, ps, i, G)] BY <1>5
<1> HIDE DEF G
<1>7. \A i \in 1 .. 3 : G[i] = JointStep(op, ps, i, G) BY <1>1, <1>6
<1>8. G[1] = p BY <1>1, <1>7 DEF JointStep
<1>9. G[2] = Joint(op, p, q) BY <1>1, <1>7, <1>8 DEF JointStep
<1>10. G[3] = Joint(op, Joint(op, p, q), r) BY <1>1, <1>7, <1>9 DEF JointStep
<1> QED BY <1>1, <1>2, <1>10 DEF ps

LEMMA JunctionFits ==
    ASSUME NEW op \in {"and", "or", "xor"}, NEW a \in Vec(1), NEW b \in Vec(1), NEW c \in Vec(1),
           NEW sum, sum = Low(a)[1] + Low(b)[1] + Low(c)[1]
    PROVE  Fits(1, Bool(Junction(op, <<a[1], b[1], c[1]>>)),
                IF op = "and" THEN Truth(sum = 3) ELSE IF op = "or" THEN Truth(sum > 0) ELSE sum % 2)
<1> DEFINE x == Low(a)[1]
           y == Low(b)[1]
           z == Low(c)[1]
           j == Junction(op, <<a[1], b[1], c[1]>>)
<1>1. a[1] \in BOOLEAN /\ x \in {0, 1} /\ (a[1] <=> x = 1) BY OneBit
<1>2. b[1] \in BOOLEAN /\ y \in {0, 1} /\ (b[1] <=> y = 1) BY OneBit
<1>3. c[1] \in BOOLEAN /\ z \in {0, 1} /\ (c[1] <=> z = 1) BY OneBit
<1>4. sum = x + y + z OBVIOUS
<1>5. j = Joint(op, Joint(op, a[1], b[1]), c[1]) BY JunctionIs
<1> HIDE DEF x, y, z, j
<1>6. CASE op = "and"
  <2> DEFINE q == sum = 3
  <2>1. q \in BOOLEAN /\ j \in BOOLEAN /\ (j <=> q) BY <1>1, <1>2, <1>3, <1>4, <1>5, <1>6 DEF Joint
  <2> HIDE DEF q
  <2>2. Fits(1, Bool(j), Truth(q)) BY <2>1, BoolFits
  <2> QED BY <1>6, <2>2 DEF q, j
<1>7. CASE op = "or"
  <2> DEFINE q == sum > 0
  <2>1. q \in BOOLEAN /\ j \in BOOLEAN /\ (j <=> q) BY <1>1, <1>2, <1>3, <1>4, <1>5, <1>7 DEF Joint
  <2> HIDE DEF q
  <2>2. Fits(1, Bool(j), Truth(q)) BY <2>1, BoolFits
  <2> QED BY <1>7, <2>2 DEF q, j
<1>8. CASE op = "xor"
  <2> DEFINE q == sum % 2 = 1
  <2>1. q \in BOOLEAN /\ sum % 2 \in {0, 1} BY <1>1, <1>2, <1>3, <1>4
  <2>2. (q => sum % 2 = 1) /\ (~q => sum % 2 = 0) BY <2>1
  <2>3. j \in BOOLEAN /\ (j <=> q)
    <3>1. j = Xor(Xor(a[1], b[1]), c[1]) BY <1>5, <1>8 DEF Joint
    <3>2. sum = 0 \/ sum = 1 \/ sum = 2 \/ sum = 3 BY <1>1, <1>2, <1>3, <1>4
    <3>3. q <=> sum = 1 \/ sum = 3 BY <3>2
    <3> HIDE DEF q
    <3> QED BY <1>1, <1>2, <1>3, <1>4, <3>1, <3>3 DEF Xor
  <2> HIDE DEF q
  <2>4. Fits(1, Bool(j), Truth(q)) BY <2>1, <2>3, BoolFits
  <2>5. Truth(q) = sum % 2 BY <2>2, <2>3 DEF Truth
  <2> QED BY <1>8, <2>4, <2>5 DEF j
<1> QED BY <1>6, <1>7, <1>8

LEMMA UnaryFits ==
    ASSUME NEW w \in Nat \ {0}, NEW a \in Vec(w), NEW op \in Unary
    PROVE  Fits(w, Blast1(op, a), Meaning1(op, Low(a)[w], w))
<1>1. op = "bvnot" \/ op = "bvneg" BY DEF Unary
<1> QED BY <1>1, NotFits, NegFits

LEMMA BinaryFits ==
    ASSUME NEW w \in Nat \ {0}, NEW a \in Vec(w), NEW b \in Vec(w), NEW op \in Binary, op = "=>" => w = 1
    PROVE  TermFit(Blast2(op, a, b), Meaning2(op, Low(a)[w], Low(b)[w], w))
<1>1. CASE op \in {"bvult", "bvule", "bvslt", "bvsle", "="}
  <2>1. Fits(1, Blast2(op, a, b), Meaning2(op, Low(a)[w], Low(b)[w], w)) BY <1>1, CompareFits
  <2>2. 1 \in Nat \ {0} OBVIOUS
  <2> QED BY <2>1, <2>2 DEF TermFit
<1>2. CASE op = "=>"
  <2>1. w = 1 BY <1>2
  <2>2. Fits(1, Blast2("=>", a, b), Meaning2("=>", Low(a)[1], Low(b)[1], 1)) BY <2>1, ImpliesFits
  <2>3. 1 \in Nat \ {0} OBVIOUS
  <2> QED BY <1>2, <2>1, <2>2, <2>3 DEF TermFit
<1>3. CASE op \in {"bvand", "bvor", "bvxor", "bvadd", "bvsub", "bvmul"}
  <2>1. \/ op = "bvand" \/ op = "bvor" \/ op = "bvxor" \/ op = "bvadd" \/ op = "bvsub" \/ op = "bvmul"
    BY <1>3
  <2>2. Fits(w, Blast2(op, a, b), Meaning2(op, Low(a)[w], Low(b)[w], w))
    BY <2>1, AndFits, OrFits, XorFits, AddFits, SubFits, MulFits
  <2> QED BY <2>2 DEF TermFit
<1>4. CASE op \in {"bvudiv", "bvurem", "bvshl", "bvlshr", "bvashr"}
  <2>1. op = "bvudiv" \/ op = "bvurem" \/ op = "bvshl" \/ op = "bvlshr" \/ op = "bvashr" BY <1>4
  <2>2. Fits(w, Blast2(op, a, b), Meaning2(op, Low(a)[w], Low(b)[w], w))
    BY <2>1, DivFits, RemFits, ShlFits, LshrFits, AshrFits
  <2> QED BY <2>2 DEF TermFit
<1> QED BY <1>1, <1>2, <1>3, <1>4 DEF Binary

-----------------------------------------------------------------------------
(* The terms blasted *)

BlastInv ==
    /\ bits \in Seq(AnyVec) /\ value \in Seq(Nat) /\ Len(bits) = Len(value)
    /\ \A i \in 1 .. Len(bits) : TermFit(bits[i], value[i])

LEMMA BlastExactly == ASSUME BlastInv PROVE BlastExact
<1> SUFFICES ASSUME NEW i \in DOMAIN bits PROVE Number(bits[i]) = value[i] BY DEF BlastExact
<1>1. i \in 1 .. Len(bits) BY LenProperties DEF BlastInv
<1>2. PICK w \in Nat \ {0} : Fits(w, bits[i], value[i]) BY <1>1 DEF BlastInv, TermFit
<1> QED BY <1>2, FitsValue

LEMMA BlastBegins == ASSUME BlastAssumption, BlastInit PROVE BlastInv
<1>0. PICK w \in Widths : \E a, b \in [1 .. w -> BOOLEAN] : BlastStart(a, b) BY DEF BlastInit
<1>1. PICK a \in [1 .. w -> BOOLEAN], b \in [1 .. w -> BOOLEAN] : BlastStart(a, b) BY <1>0
<1>2. w \in Nat \ {0} /\ w \in Nat BY DEF BlastAssumption
<1>3. a \in Vec(w) /\ b \in Vec(w) BY DEF Vec
<1>4. Fits(w, a, Number(a)) /\ Fits(w, b, Number(b)) BY <1>2, <1>3, NumberIs DEF Fits
<1>5. /\ TermFit(a, Number(a)) /\ a \in AnyVec /\ Number(a) \in Nat
      /\ TermFit(b, Number(b)) /\ b \in AnyVec /\ Number(b) \in Nat
  BY <1>2, <1>4, FitsValue
<1>6. bits = <<a, b>> /\ value = <<Number(a), Number(b)>> BY <1>1 DEF BlastStart
<1> DEFINE m == Number(a)
           n == Number(b)
<1> HIDE DEF m, n
<1>7. /\ bits \in Seq(AnyVec) /\ value \in Seq(Nat) /\ Len(bits) = 2 /\ Len(value) = 2
      /\ bits[1] = a /\ bits[2] = b /\ value[1] = m /\ value[2] = n
  BY <1>5, <1>6 DEF m, n
<1>8. ASSUME NEW i \in 1 .. 2 PROVE TermFit(bits[i], value[i])
  <2>1. i = 1 \/ i = 2 OBVIOUS
  <2>2. TermFit(a, m) /\ TermFit(b, n) BY <1>5 DEF m, n
  <2> QED BY <1>7, <2>1, <2>2
<1> QED BY <1>7, <1>8 DEF BlastInv

LEMMA AddKeeps ==
    ASSUME BlastInv, NEW b, NEW x, TermFit(b, x), Add(b, x)
    PROVE  BlastInv'
<1>1. PICK w \in Nat \ {0} : Fits(w, b, x) BY DEF TermFit
<1>2. b \in AnyVec /\ x \in Nat BY <1>1, FitsValue
<1>3. bits \in Seq(AnyVec) /\ value \in Seq(Nat) /\ Len(bits) = Len(value) BY DEF BlastInv
<1>4. bits' = Append(bits, b) /\ value' = Append(value, x) BY DEF Add
<1>5. /\ bits' \in Seq(AnyVec) /\ Len(bits') = Len(bits) + 1 /\ bits'[Len(bits) + 1] = b
      /\ \A i \in 1 .. Len(bits) : bits'[i] = bits[i]
  BY <1>2, <1>3, <1>4, AppendProperties
<1>6. /\ value' \in Seq(Nat) /\ Len(value') = Len(value) + 1 /\ value'[Len(value) + 1] = x
      /\ \A i \in 1 .. Len(value) : value'[i] = value[i]
  BY <1>2, <1>3, <1>4, AppendProperties
<1>7. Len(bits) \in Nat BY <1>3, LenProperties
<1>8. ASSUME NEW i \in 1 .. Len(bits) + 1 PROVE TermFit(bits'[i], value'[i])
  <2>1. CASE i = Len(bits) + 1 BY <1>3, <1>5, <1>6, <2>1
  <2>2. CASE i \in 1 .. Len(bits)
    <3>1. bits'[i] = bits[i] /\ value'[i] = value[i] BY <1>3, <1>5, <1>6, <2>2
    <3> QED BY <2>2, <3>1 DEF BlastInv
  <2> QED BY <1>7, <2>1, <2>2
<1> QED BY <1>3, <1>5, <1>6, <1>8 DEF BlastInv

\* A term is a vector of some width, and its value.
LEMMA TermIs ==
    ASSUME BlastInv, NEW i \in DOMAIN bits
    PROVE  LET w == Len(bits[i])
           IN  w \in Nat \ {0} /\ bits[i] \in Vec(w) /\ value[i] = Low(bits[i])[w]
<1>1. i \in 1 .. Len(bits) BY LenProperties DEF BlastInv
<1>2. PICK w \in Nat \ {0} : Fits(w, bits[i], value[i]) BY <1>1 DEF BlastInv, TermFit
<1>3. Len(bits[i]) = w BY <1>2, FitsValue
<1> QED BY <1>2, <1>3 DEF Fits

LEMMA Term1Keeps == ASSUME BlastInv, Term1 PROVE BlastInv'
<1>1. PICK op \in Unary, i \in DOMAIN bits :
          Add(Blast1(op, bits[i]), Meaning1(op, value[i], Len(bits[i])))
  BY DEF Term1
<1> DEFINE w == Len(bits[i])
<1>2. w \in Nat \ {0} /\ bits[i] \in Vec(w) /\ value[i] = Low(bits[i])[w] BY TermIs
<1>3. Fits(w, Blast1(op, bits[i]), Meaning1(op, value[i], w))
  <2> HIDE DEF w
  <2> QED BY <1>2, UnaryFits
<1>4. TermFit(Blast1(op, bits[i]), Meaning1(op, value[i], w)) BY <1>2, <1>3 DEF TermFit
<1> QED BY <1>1, <1>4, AddKeeps

LEMMA Term2Keeps == ASSUME BlastInv, Term2 PROVE BlastInv'
<1>1. PICK op \in Binary, i \in DOMAIN bits, j \in DOMAIN bits :
          /\ Len(bits[i]) = Len(bits[j]) /\ (op = "=>" => Len(bits[i]) = 1)
          /\ Add(Blast2(op, bits[i], bits[j]), Meaning2(op, value[i], value[j], Len(bits[i])))
  BY DEF Term2
<1> DEFINE w == Len(bits[i])
<1>2. w \in Nat \ {0} /\ bits[i] \in Vec(w) /\ value[i] = Low(bits[i])[w] BY TermIs
<1>3. bits[j] \in Vec(w) /\ value[j] = Low(bits[j])[w] BY <1>1, TermIs
<1>4. op = "=>" => w = 1 BY <1>1
<1>5. TermFit(Blast2(op, bits[i], bits[j]), Meaning2(op, value[i], value[j], w))
  <2> HIDE DEF w
  <2> QED BY <1>2, <1>3, <1>4, BinaryFits
<1> QED BY <1>1, <1>5, AddKeeps

LEMMA ConcatKeeps == ASSUME BlastInv, TermConcat PROVE BlastInv'
<1>1. PICK i \in DOMAIN bits, j \in DOMAIN bits :
          Add(Concat(bits[i], bits[j]), value[i] * 2 ^ Len(bits[j]) + value[j])
  BY DEF TermConcat
<1> DEFINE m == Len(bits[i])
           n == Len(bits[j])
<1>2. m \in Nat \ {0} /\ bits[i] \in Vec(m) /\ value[i] = Low(bits[i])[m] BY TermIs
<1>3. n \in Nat \ {0} /\ bits[j] \in Vec(n) /\ value[j] = Low(bits[j])[n] BY TermIs
<1>4. n + m \in Nat \ {0} BY <1>2, <1>3
<1>5. Add(Concat(bits[i], bits[j]), value[i] * Pow(n) + value[j]) BY <1>1 DEF Pow
<1>6. Fits(n + m, Concat(bits[i], bits[j]), value[i] * Pow(n) + value[j])
  <2> HIDE DEF m, n
  <2> QED BY <1>2, <1>3, ConcatFits
<1>7. TermFit(Concat(bits[i], bits[j]), value[i] * Pow(n) + value[j]) BY <1>4, <1>6 DEF TermFit
<1> QED BY <1>5, <1>7, AddKeeps

LEMMA ExtractKeeps == ASSUME BlastInv, TermExtract PROVE BlastInv'
<1> DEFINE Cut(i, high, low) ==
               Add(Extract(bits[i], high, low), (value[i] \div 2 ^ low) % 2 ^ (high - low + 1))
<1>0. PICK i \in DOMAIN bits : \E high \in 0 .. Len(bits[i]) - 1 : \E low \in 0 .. high : Cut(i, high, low)
  BY DEF TermExtract
<1>00. PICK high \in 0 .. Len(bits[i]) - 1 : \E low \in 0 .. high : Cut(i, high, low) BY <1>0
<1>1. PICK low \in 0 .. high : Cut(i, high, low) BY <1>00
<1> DEFINE w == Len(bits[i])
           m == high - low + 1
<1>2. w \in Nat \ {0} /\ bits[i] \in Vec(w) /\ value[i] = Low(bits[i])[w] BY TermIs
<1>3. m \in Nat \ {0} BY <1>2
<1>4. Add(Extract(bits[i], high, low), (value[i] \div Pow(low)) % Pow(m)) BY <1>1 DEF Pow
<1>5. Fits(m, Extract(bits[i], high, low), (value[i] \div Pow(low)) % Pow(m))
  <2>1. high \in 0 .. w - 1 OBVIOUS
  <2> HIDE DEF w
  <2> QED BY <1>2, <2>1, ExtractFits
<1>6. TermFit(Extract(bits[i], high, low), (value[i] \div Pow(low)) % Pow(m)) BY <1>3, <1>5 DEF TermFit
<1> QED BY <1>4, <1>6, AddKeeps

LEMMA ExtendKeeps == ASSUME BlastInv, TermExtend PROVE BlastInv'
<1>1. PICK i \in DOMAIN bits, k \in 0 .. 2, signed \in BOOLEAN :
          Add(BlastExtended(bits[i], k, signed),
              IF signed THEN Signed(value[i], Len(bits[i])) % 2 ^ (Len(bits[i]) + k) ELSE value[i])
  BY DEF TermExtend
<1> DEFINE w == Len(bits[i])
           x == IF signed THEN Signed(value[i], w) % Pow(w + k) ELSE value[i]
<1>2. w \in Nat \ {0} /\ bits[i] \in Vec(w) /\ value[i] = Low(bits[i])[w] BY TermIs
<1>3. k \in Nat /\ w + k \in Nat \ {0} BY <1>2
<1>4. Add(BlastExtended(bits[i], k, signed), x) BY <1>1 DEF Pow
<1>5. Fits(w + k, BlastExtended(bits[i], k, signed), x)
  <2> HIDE DEF w
  <2> QED BY <1>2, <1>3, ExtendFits
<1> HIDE DEF x
<1>6. TermFit(BlastExtended(bits[i], k, signed), x) BY <1>3, <1>5 DEF TermFit
<1> QED BY <1>4, <1>6, AddKeeps

LEMMA IteKeeps == ASSUME BlastInv, TermIte PROVE BlastInv'
<1>1. PICK c \in DOMAIN bits, i \in DOMAIN bits, j \in DOMAIN bits :
          /\ Len(bits[c]) = 1 /\ Len(bits[i]) = Len(bits[j])
          /\ Add(Mux(bits[c][1], bits[i], bits[j]), IF value[c] = 1 THEN value[i] ELSE value[j])
  BY DEF TermIte
<1> DEFINE w == Len(bits[i])
           x == IF value[c] = 1 THEN value[i] ELSE value[j]
<1>2. w \in Nat \ {0} /\ bits[i] \in Vec(w) /\ value[i] = Low(bits[i])[w] BY TermIs
<1>3. bits[j] \in Vec(w) /\ value[j] = Low(bits[j])[w] BY <1>1, TermIs
<1>4. bits[c] \in Vec(1) /\ value[c] = Low(bits[c])[1] BY <1>1, TermIs
<1>5. Fits(w, Mux(bits[c][1], bits[i], bits[j]), x)
  <2> HIDE DEF w
  <2> QED BY <1>2, <1>3, <1>4, IteFits
<1> HIDE DEF x
<1>6. TermFit(Mux(bits[c][1], bits[i], bits[j]), x) BY <1>2, <1>5 DEF TermFit
<1> QED BY <1>1, <1>6, AddKeeps DEF x

LEMMA JunctionKeeps == ASSUME BlastInv, TermJunction PROVE BlastInv'
<1>1. PICK op \in {"and", "or", "xor"}, i \in DOMAIN bits, j \in DOMAIN bits, k \in DOMAIN bits :
          LET sum == value[i] + value[j] + value[k]
          IN  /\ \A n \in {i, j, k} : Len(bits[n]) = 1
              /\ Add(Bool(Junction(op, <<bits[i][1], bits[j][1], bits[k][1]>>)),
                     IF op = "and" THEN Truth(sum = 3) ELSE IF op = "or" THEN Truth(sum > 0) ELSE sum % 2)
  BY DEF TermJunction
<1> DEFINE sum == value[i] + value[j] + value[k]
           v == Bool(Junction(op, <<bits[i][1], bits[j][1], bits[k][1]>>))
           x == IF op = "and" THEN Truth(sum = 3) ELSE IF op = "or" THEN Truth(sum > 0) ELSE sum % 2
<1>2. Len(bits[i]) = 1 /\ Len(bits[j]) = 1 /\ Len(bits[k]) = 1 BY <1>1
<1>3. Add(v, x) BY <1>1
<1>4. bits[i] \in Vec(1) /\ value[i] = Low(bits[i])[1] BY <1>2, TermIs
<1>5. bits[j] \in Vec(1) /\ value[j] = Low(bits[j])[1] BY <1>2, TermIs
<1>6. bits[k] \in Vec(1) /\ value[k] = Low(bits[k])[1] BY <1>2, TermIs
<1>7. sum = Low(bits[i])[1] + Low(bits[j])[1] + Low(bits[k])[1] BY <1>4, <1>5, <1>6
<1>8. Fits(1, v, x)
  <2> HIDE DEF sum
  <2> QED BY <1>4, <1>5, <1>6, <1>7, JunctionFits
<1> HIDE DEF v, x
<1>9. 1 \in Nat \ {0} OBVIOUS
<1>10. TermFit(v, x) BY <1>8, <1>9 DEF TermFit
<1> QED BY <1>3, <1>10, AddKeeps

LEMMA BlastStepKeeps == ASSUME BlastInv, [BlastNext]_blastVars PROVE BlastInv'
<1>1. CASE UNCHANGED blastVars
  <2>1. bits' = bits /\ value' = value BY <1>1 DEF blastVars
  <2> QED BY <2>1 DEF BlastInv
<1>2. CASE BlastNext
  BY <1>2, Term1Keeps, Term2Keeps, ConcatKeeps, ExtractKeeps, ExtendKeeps, IteKeeps, JunctionKeeps
  DEF BlastNext
<1> QED BY <1>1, <1>2

\* Whatever the widths of the formula's constants and however many terms are built
\* of them, the bits of every term blasted are its value in SMT-LIB.
THEOREM BlastIsExact == BlastSpec => []BlastExact
<1>1. BlastInit => BlastInv BY BlastAssumption, BlastBegins
<1>2. BlastInv /\ [BlastNext]_blastVars => BlastInv' BY BlastStepKeeps
<1>3. BlastInv => BlastExact BY BlastExactly
<1> QED BY <1>1, <1>2, <1>3, PTL DEF BlastSpec

\* The divider's quotient and remainder rebuild the dividend at every width.
THEOREM DivisionIsExact == BlastSpec => []DivisionExact
<1>1. BlastInit => BlastInv BY BlastAssumption, BlastBegins
<1>2. BlastInv /\ [BlastNext]_blastVars => BlastInv' BY BlastStepKeeps
<1>3. BlastInv => DivisionExact
  <2> SUFFICES ASSUME BlastInv, NEW i \in DOMAIN bits, NEW j \in DOMAIN bits,
                      Len(bits[i]) = Len(bits[j]), value[j] # 0
               PROVE  LET d == UDivRem(bits[i], bits[j])
                      IN  /\ Number(d.quot) * value[j] + Number(d.rem) = value[i]
                          /\ Number(d.rem) < value[j]
    BY DEF DivisionExact
  <2> DEFINE w == Len(bits[i])
             d == UDivRem(bits[i], bits[j])
  <2>1. w \in Nat /\ bits[i] \in Vec(w) /\ value[i] = Low(bits[i])[w] BY TermIs
  <2>2. bits[j] \in Vec(w) /\ value[j] = Low(bits[j])[w] BY TermIs
  <2> HIDE DEF w
  <2>3. /\ d.quot \in Vec(w) /\ d.rem \in Vec(w)
        /\ value[i] = (Low(d.quot)[w] * value[j]) + Low(d.rem)[w] /\ Low(d.rem)[w] < value[j]
    BY <2>1, <2>2, DivRight
  <2> HIDE DEF d
  <2>4. Number(d.quot) = Low(d.quot)[w] /\ Number(d.rem) = Low(d.rem)[w] BY <2>1, <2>3, NumberIs
  <2>5. Number(d.quot) * value[j] + Number(d.rem) = value[i] /\ Number(d.rem) < value[j]
    BY <2>3, <2>4
  <2> QED BY <2>5 DEF d
<1> QED BY <1>1, <1>2, <1>3, PTL DEF BlastSpec

\* The unsigned and the signed comparison are one order each at every width.
THEOREM OrdersAreTotal == BlastSpec => []OrdersTotal
<1>1. BlastInit => BlastInv BY BlastAssumption, BlastBegins
<1>2. BlastInv /\ [BlastNext]_blastVars => BlastInv' BY BlastStepKeeps
<1>3. BlastInv => OrdersTotal
  <2> SUFFICES ASSUME BlastInv, NEW i \in DOMAIN bits, NEW j \in DOMAIN bits, Len(bits[i]) = Len(bits[j])
               PROVE  /\ EqBits(bits[i], bits[j]) <=> ~UltBits(bits[i], bits[j]) /\ ~UltBits(bits[j], bits[i])
                      /\ ~(UltBits(bits[i], bits[j]) /\ UltBits(bits[j], bits[i]))
                      /\ EqBits(bits[i], bits[j]) <=> ~SltBits(bits[i], bits[j]) /\ ~SltBits(bits[j], bits[i])
                      /\ ~(SltBits(bits[i], bits[j]) /\ SltBits(bits[j], bits[i]))
    BY DEF OrdersTotal
  <2> DEFINE w == Len(bits[i])
             X == Low(bits[i])[w]
             Y == Low(bits[j])[w]
             x == Signed(X, w)
             y == Signed(Y, w)
  <2>1. w \in Nat \ {0} /\ w \in Nat /\ bits[i] \in Vec(w) BY TermIs
  <2>2. bits[j] \in Vec(w) BY TermIs
  <2> HIDE DEF w
  <2>3. (UltBits(bits[i], bits[j]) <=> X < Y) /\ (UltBits(bits[j], bits[i]) <=> Y < X)
    BY <2>1, <2>2, UltRight
  <2>4. (SltBits(bits[i], bits[j]) <=> x < y) /\ (SltBits(bits[j], bits[i]) <=> y < x)
    BY <2>1, <2>2, SltRight
  <2>5. EqBits(bits[i], bits[j]) <=> X = Y BY <2>1, <2>2, EqRight
  <2>6. x = y <=> X = Y BY <2>1, <2>2, SignedInjective
  <2>7. X \in Nat /\ Y \in Nat /\ x \in Int /\ y \in Int BY <2>1, <2>2, LowTop, SignedIs
  <2> HIDE DEF X, Y, x, y
  <2> QED BY <2>3, <2>4, <2>5, <2>6, <2>7
<1> QED BY <1>1, <1>2, <1>3, PTL DEF BlastSpec
=============================================================================
