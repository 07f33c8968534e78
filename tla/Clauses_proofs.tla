--------------------------- MODULE Clauses_proofs ---------------------------
(***************************************************************************)
(* What the DRAT checker, the Tseitin encoder and Datalog promise of       *)
(* clauses and rules.                                                      *)
(*                                                                         *)
(* The checker certifies what it verifies: for every formula, every proof  *)
(* and every order of propagation, no accepted addition makes a            *)
(* satisfiable formula unsatisfiable, and a verified proof refutes.  The   *)
(* invariant carries the two halves of a check: what propagation made true *)
(* holds in every model that refutes the goal (PropagationSound), and the  *)
(* resolvents before the current one are entailed (ResolventsEntailed).    *)
(*                                                                         *)
(* The encoding is exact for every graph of formulas: the invariant says   *)
(* of the encoder that every cached node has its clauses over the literals *)
(* of its arguments (EncDefined) and that the clauses have one model for   *)
(* each value of the atoms (EncUnique).                                    *)
(*                                                                         *)
(* The evaluation of Datalog computes the least model of its rules, for    *)
(* every program and every set of constants (ModelInv).                    *)
(***************************************************************************)
EXTENDS Drat, Tseitin, Datalog, FiniteSetTheorems, SequenceTheorems, WellFoundedInduction, TLAPS


\* The formula entails a set of literals, read as a clause.
Entails(cs, lits) == \A tau \in Models(cs) : SatLits(tau, lits)

\* The resolvents already checked, and the place in the list.
ResolventsEntailed ==
    phase = "check" /\ target # 0 =>
        /\ clause # << >>
        /\ target \in Pivots(0)
        /\ \A k \in Pivots(0) : k < target => Entails(db, ResolventLits(clause, db[k]))

\* Between two checks the place in the list is forgotten.
IdleForgets == phase = "idle" => target = 0

DerivedRefutes == (derived \/ phase = "verified") => Models(Cnf) = {}

IInv ==
    /\ TypeOK
    /\ KeepsSatisfiable
    /\ DerivedRefutes
    /\ PropagationSound
    /\ ResolventsEntailed
    /\ IdleForgets

-----------------------------------------------------------------------------
(* Literals and clauses *)

\* A valuation makes a literal or its negation true, and not both.
LEMMA NegHolds ==
    ASSUME NEW tau \in Valuations, NEW l \in Lits
    PROVE  Neg(l) \in Lits /\ (Holds(tau, Neg(l)) <=> ~Holds(tau, l))
  BY DEF Valuations, Lits, Neg, Holds

\* Negating twice gives the literal back.
LEMMA NegNeg ==
    ASSUME NEW l \in Lits
    PROVE  Neg(Neg(l)) = l
  BY DEF Lits, Neg

\* The elements of a clause are literals.
LEMMA ClauseLits ==
    ASSUME NEW c \in Seq(Lits), NEW i \in DOMAIN c
    PROVE  c[i] \in Lits
  OBVIOUS

\* The literals of a goal are literals.
LEMMA GoalIn ==
    ASSUME TypeOK, NEW t \in 0 .. Len(db), t # 0 => t \in DOMAIN db
    PROVE  GoalLits(t) \subseteq Lits
  BY ClauseLits DEF GoalLits, ResolventLits, TypeOK

\* A clause and the set of its literals are satisfied together.
LEMMA SatSame ==
    ASSUME NEW tau, NEW c
    PROVE  Sat(tau, c) <=> SatLits(tau, {c[i] : i \in DOMAIN c})
  BY DEF Sat, SatLits

\* Refuting a goal makes the negation of each of its literals true.
LEMMA RefuteSound ==
    ASSUME NEW tau \in Valuations, NEW lits \in SUBSET Lits, ~SatLits(tau, lits)
    PROVE  \A l \in {Neg(k) : k \in lits} : Holds(tau, l)
  BY NegHolds DEF SatLits

\* When the check finds a conflict, its goal is entailed.
LEMMA ConflictEntails ==
    ASSUME TypeOK, PropagationSound, phase = "check", Conflict,
           target # 0 => target \in DOMAIN db
    PROVE  Entails(db, GoalLits(target))
<1> SUFFICES ASSUME NEW tau \in Models(db), ~SatLits(tau, GoalLits(target)) PROVE FALSE
  BY DEF Entails
<1>0. tau \in Valuations /\ \A k \in DOMAIN db : Sat(tau, db[k])
  BY DEF Models
<1>1. GoalLits(target) \subseteq Lits
  BY GoalIn DEF TypeOK
<1>2. CASE Tautology(GoalLits(target))
  BY <1>0, <1>1, <1>2, NegHolds DEF Tautology, SatLits
<1>3. CASE \E k \in DOMAIN db : Falsified(db[k])
  <2>1. PICK k \in DOMAIN db : Falsified(db[k])
    BY <1>3
  <2>2. db[k] \in Seq(Lits)
    BY <2>1 DEF TypeOK
  <2>3. PICK i \in DOMAIN db[k] : Holds(tau, db[k][i])
    BY <1>0, <2>1 DEF Sat
  <2>4. db[k][i] \in Lits /\ Neg(db[k][i]) \in assign
    BY <2>1, <2>2, <2>3, ClauseLits DEF Falsified, FalseLit
  <2>5. Holds(tau, Neg(db[k][i]))
    BY <2>4 DEF PropagationSound
  <2> QED
    BY <1>0, <2>3, <2>4, <2>5, NegHolds
<1> QED
  BY <1>2, <1>3 DEF Conflict

\* A formula with fewer clauses has no fewer models.
LEMMA FewerClauses ==
    ASSUME NEW cs, NEW ds, \A k \in DOMAIN ds : \E j \in DOMAIN cs : ds[k] = cs[j]
    PROVE  Models(cs) \subseteq Models(ds)
  BY DEF Models

\* The models of a formula with a clause more.
LEMMA AppendModels ==
    ASSUME NEW cs \in Seq(Seq(Lits)), NEW c \in Seq(Lits), NEW tau \in Models(cs), Sat(tau, c)
    PROVE  tau \in Models(Append(cs, c))
<1>1. /\ DOMAIN Append(cs, c) = 1 .. Len(cs) + 1
      /\ \A k \in DOMAIN cs : Append(cs, c)[k] = cs[k]
      /\ Append(cs, c)[Len(cs) + 1] = c
      /\ DOMAIN cs = 1 .. Len(cs) /\ Len(cs) \in Nat
  OBVIOUS
<1>2. tau \in Valuations /\ \A k \in DOMAIN cs : Sat(tau, cs[k])
  BY DEF Models
<1>3. ASSUME NEW k \in DOMAIN Append(cs, c)
      PROVE  Sat(tau, Append(cs, c)[k])
  <2>1. k \in DOMAIN cs \/ k = Len(cs) + 1
    BY <1>1
  <2> QED
    BY <1>1, <1>2, <2>1
<1> QED
  BY <1>2, <1>3 DEF Models

\* Two literals of one variable are the same or each other's negation.
LEMMA SameVar ==
    ASSUME NEW l \in Lits, NEW p \in Lits, l.var = p.var
    PROVE  l = p \/ l = Neg(p)
  BY DEF Lits, Neg

\* A clause whose resolvents are all entailed can be made true by flipping its
\* first literal: it leaves a satisfiable formula satisfiable.
LEMMA RatKeeps ==
    ASSUME TypeOK, clause # << >>, Models(db) # {},
           \A k \in Pivots(0) : Entails(db, ResolventLits(clause, db[k]))
    PROVE  Models(Append(db, clause)) # {}
<1> DEFINE p == clause[1]
<1>1. PICK tau \in Models(db) : TRUE
  OBVIOUS
<1>2. /\ tau \in Valuations /\ \A k \in DOMAIN db : Sat(tau, db[k])
      /\ db \in Seq(Seq(Lits)) /\ clause \in Seq(Lits)
  BY <1>1 DEF Models, TypeOK
<1>3. CASE Sat(tau, clause)
  BY <1>1, <1>2, <1>3, AppendModels
<1>4. CASE ~Sat(tau, clause)
  <2> DEFINE sigma == [tau EXCEPT ![p.var] = ~p.sign]
  <2>1. 1 \in DOMAIN clause /\ p \in Lits
    BY <1>2
  <2>2. sigma \in Valuations /\ Holds(sigma, p)
    BY <1>2, <2>1 DEF Valuations, Lits, Holds
  <2>3. ASSUME NEW l \in Lits, Holds(tau, l), l # Neg(p)
        PROVE  Holds(sigma, l)
    <3>1. CASE l.var = p.var
      BY <2>1, <2>2, <2>3, <3>1, SameVar
    <3>2. CASE l.var # p.var
      <4>1. sigma[l.var] = tau[l.var]
        BY <1>2, <2>1, <2>3, <3>2 DEF Valuations, Lits
      <4> QED
        BY <2>3, <4>1 DEF Holds
    <3> QED
      BY <3>1, <3>2
  <2>4. ASSUME NEW k \in DOMAIN db
        PROVE  Sat(sigma, db[k])
    <3>1. db[k] \in Seq(Lits)
      BY <1>2
    <3>2. CASE In(Neg(p), db[k])
      <4>1. k \in Pivots(0)
        BY <1>2, <3>2 DEF Pivots
      <4>2. SatLits(tau, ResolventLits(clause, db[k]))
        BY <1>1, <4>1 DEF Entails
      <4>3. PICK l \in ResolventLits(clause, db[k]) : Holds(tau, l)
        BY <4>2 DEF SatLits
      <4>4. l \notin {clause[i] : i \in DOMAIN clause}
        BY <1>4, <4>3 DEF Sat
      <4>5. PICK i \in DOMAIN db[k] : db[k][i] = l /\ l # Neg(p)
        BY <4>3, <4>4 DEF ResolventLits
      <4>6. Holds(sigma, db[k][i])
        BY <2>3, <3>1, <4>3, <4>5, ClauseLits
      <4> QED
        BY <4>5, <4>6 DEF Sat
    <3>3. CASE ~In(Neg(p), db[k])
      <4>1. PICK i \in DOMAIN db[k] : Holds(tau, db[k][i])
        BY <1>2 DEF Sat
      <4>2. db[k][i] # Neg(p) /\ db[k][i] \in Lits
        BY <3>1, <3>3, <4>1, ClauseLits DEF In
      <4> QED
        BY <2>3, <4>1, <4>2 DEF Sat
    <3> QED
      BY <3>2, <3>3
  <2>5. sigma \in Models(db)
    BY <2>2, <2>4 DEF Models
  <2>6. Sat(sigma, clause)
    BY <2>1, <2>2 DEF Sat
  <2> QED
    BY <1>2, <2>5, <2>6, AppendModels
<1> QED
  BY <1>3, <1>4

\* A clause that is entailed keeps the models there are.
LEMMA RupKeeps ==
    ASSUME TypeOK, Entails(db, {clause[i] : i \in DOMAIN clause}), Models(db) # {}
    PROVE  Models(Append(db, clause)) # {}
<1>1. PICK tau \in Models(db) : TRUE
  OBVIOUS
<1>2. Sat(tau, clause)
  BY <1>1, SatSame DEF Entails
<1> QED
  BY <1>1, <1>2, AppendModels DEF TypeOK

\* The empty clause is entailed by no satisfiable formula.
LEMMA EmptyRefutes ==
    ASSUME Entails(db, {clause[i] : i \in DOMAIN clause}), clause = << >>
    PROVE  Models(db) = {}
  BY DEF Entails, SatLits

-----------------------------------------------------------------------------
(* The invariant *)

\* It holds at the start.
LEMMA InitIInv == Init => IInv
<1> SUFFICES ASSUME Init PROVE IInv
  OBVIOUS
<1>1. TypeOK
  <2>1. db \in Seq(Seq(Lits)) /\ Len(db) \in Nat
    BY DratAssumption DEF Init
  <2>2. clause \in Seq(Lits)
    BY DEF Init
  <2>3. assign \subseteq Lits /\ steps \in 0 .. MaxSteps /\ target \in 0 .. Len(db)
    BY <2>1, DratAssumption DEF Init
  <2> QED
    BY <2>1, <2>2, <2>3 DEF Init, TypeOK
<1>2. /\ KeepsSatisfiable /\ DerivedRefutes /\ PropagationSound
      /\ ResolventsEntailed /\ IdleForgets
  BY DEF Init, KeepsSatisfiable, DerivedRefutes, PropagationSound, ResolventsEntailed, IdleForgets
<1> QED
  BY <1>1, <1>2 DEF IInv

\* Accepting keeps it, when the clause is entailed or its resolvents are.
LEMMA AcceptKeeps ==
    ASSUME IInv, Accept,
           \/ Entails(db, {clause[i] : i \in DOMAIN clause})
           \/ /\ clause # << >>
              /\ \A k \in Pivots(0) : Entails(db, ResolventLits(clause, db[k]))
    PROVE  IInv'
<1>1. TypeOK'
  BY DEF IInv, TypeOK, Accept
<1>2. KeepsSatisfiable'
  BY RatKeeps, RupKeeps DEF IInv, KeepsSatisfiable, Accept
<1>3. DerivedRefutes'
  BY EmptyRefutes DEF IInv, DerivedRefutes, KeepsSatisfiable, Accept
<1>4. PropagationSound' /\ ResolventsEntailed' /\ IdleForgets'
  BY DEF Accept, PropagationSound, ResolventsEntailed, IdleForgets
<1> QED
  BY <1>1, <1>2, <1>3, <1>4 DEF IInv

\* So does going on to the next resolvent, when those before it are entailed.
LEMMA CheckNextKeeps ==
    ASSUME IInv, NEW t \in 0 .. Len(db), CheckNext(t), phase = "check", clause # << >>,
           \A k \in Pivots(0) : k <= t => Entails(db, ResolventLits(clause, db[k]))
    PROVE  IInv'
<1>1. PICK k \in Pivots(t) :
          /\ \A j \in Pivots(t) : k <= j
          /\ target' = k
          /\ assign' = {Neg(l) : l \in ResolventLits(clause, db[k])}
          /\ UNCHANGED <<db, phase, clause, derived, steps>>
  BY DEF CheckNext
<1>2. k \in DOMAIN db /\ k > t /\ k \in 1 .. Len(db) /\ k \in Pivots(0)
  BY <1>1 DEF Pivots, IInv, TypeOK
<1>3. ResolventLits(clause, db[k]) \subseteq Lits
  BY <1>2, ClauseLits DEF IInv, TypeOK, ResolventLits
<1>4. TypeOK'
  <2>1. assign' \subseteq Lits
    BY <1>1, <1>3 DEF Neg, Lits
  <2> QED
    BY <1>1, <1>2, <2>1 DEF IInv, TypeOK
<1>5. KeepsSatisfiable' /\ DerivedRefutes'
  BY <1>1 DEF IInv, KeepsSatisfiable, DerivedRefutes
<1>6. PropagationSound'
  <2>1. GoalLits(target)' = ResolventLits(clause, db[k])
    BY <1>1, <1>2 DEF GoalLits, ResolventLits
  <2> SUFFICES ASSUME NEW tau \in Models(db), ~SatLits(tau, ResolventLits(clause, db[k]))
               PROVE  \A l \in assign' : Holds(tau, l)
    BY <1>1, <2>1 DEF PropagationSound
  <2>2. tau \in Valuations
    BY DEF Models
  <2> QED
    BY <1>1, <1>3, <2>2, RefuteSound
<1>7. ResolventsEntailed'
  <2>1. ASSUME NEW j \in Pivots(0), j < k
        PROVE  Entails(db, ResolventLits(clause, db[j]))
    <3>1. ~(j > t)
      BY <1>1, <1>2, <2>1 DEF Pivots, IInv, TypeOK
    <3>2. j \in Int /\ t \in Int
      BY <2>1 DEF Pivots, IInv, TypeOK
    <3> QED
      BY <2>1, <3>1, <3>2
  <2>2. Pivots(0)' = Pivots(0)
    BY <1>1 DEF Pivots
  <2> QED
    BY <1>1, <1>2, <2>1, <2>2 DEF ResolventsEntailed, Entails
<1>8. IdleForgets'
  BY <1>1 DEF IdleForgets
<1> QED
  BY <1>4, <1>5, <1>6, <1>7, <1>8 DEF IInv

\* Removing a clause leaves clauses that were there.
LEMMA SwapRemoveIn ==
    ASSUME NEW s \in Seq(Seq(Lits)), NEW k \in DOMAIN s
    PROVE  /\ SwapRemove(s, k) \in Seq(Seq(Lits))
           /\ \A i \in DOMAIN SwapRemove(s, k) : \E j \in DOMAIN s : SwapRemove(s, k)[i] = s[j]
<1>1. Len(s) \in Nat /\ DOMAIN s = 1 .. Len(s) /\ Len(s) \in DOMAIN s
  OBVIOUS
<1>2. Len(s) - 1 \in Nat
  BY <1>1
<1>3. \A i \in 1 .. Len(s) - 1 : i \in DOMAIN s
  BY <1>1
<1>4. DOMAIN SwapRemove(s, k) = 1 .. Len(s) - 1
  BY DEF SwapRemove
<1>5. ASSUME NEW i \in 1 .. Len(s) - 1
      PROVE  /\ \E j \in DOMAIN s : SwapRemove(s, k)[i] = s[j]
             /\ SwapRemove(s, k)[i] \in Seq(Lits)
  <2>1. SwapRemove(s, k)[i] = IF i = k THEN s[Len(s)] ELSE s[i]
    BY DEF SwapRemove
  <2>2. i \in DOMAIN s /\ Len(s) \in DOMAIN s
    BY <1>1, <1>3
  <2>3. s[i] \in Seq(Lits) /\ s[Len(s)] \in Seq(Lits)
    BY <2>2
  <2> QED
    BY <2>1, <2>2, <2>3
<1>6. SwapRemove(s, k) \in [1 .. Len(s) - 1 -> Seq(Lits)]
  BY <1>5 DEF SwapRemove
<1>7. SwapRemove(s, k) \in Seq(Seq(Lits))
  <2> DEFINE T == Seq(Lits)
             r == SwapRemove(s, k)
             n == Len(s) - 1
  <2>1. n \in Nat /\ r \in [1 .. n -> T]
    BY <1>2, <1>6
  <2> HIDE DEF T, r, n
  <2>2. r \in Seq(T)
    BY <2>1, SeqDef
  <2> QED
    BY <2>2 DEF T, r
<1> QED
  BY <1>4, <1>5, <1>7

\* A step of a proof begins.
LEMMA AddKeeps ==
    ASSUME IInv, NEW c \in Clauses, Add(c)
    PROVE  IInv'
<1>1. c \in Seq(Lits)
  BY DratAssumption
<1>2. TypeOK'
  <2>1. assign' \subseteq Lits
    BY <1>1, ClauseLits DEF Add, Neg, Lits
  <2>2. steps' \in 0 .. MaxSteps /\ target' \in 0 .. Len(db')
    BY DratAssumption DEF IInv, TypeOK, Add
  <2> QED
    BY <1>1, <2>1, <2>2 DEF IInv, TypeOK, Add
<1>3. KeepsSatisfiable' /\ DerivedRefutes'
  BY DEF IInv, KeepsSatisfiable, DerivedRefutes, Add
<1>4. PropagationSound'
  <2> DEFINE lits == {c[i] : i \in DOMAIN c}
  <2>1. GoalLits(target)' = lits /\ assign' = {Neg(l) : l \in lits}
    BY DEF GoalLits, Add
  <2>2. lits \subseteq Lits
    BY <1>1, ClauseLits
  <2> SUFFICES ASSUME NEW tau \in Models(db), ~SatLits(tau, lits)
               PROVE  \A l \in {Neg(k) : k \in lits} : Holds(tau, l)
    BY <2>1 DEF PropagationSound, Add
  <2>3. tau \in Valuations
    BY DEF Models
  <2> HIDE DEF lits
  <2> QED
    BY <2>2, <2>3, RefuteSound
<1>5. ResolventsEntailed' /\ IdleForgets'
  BY DEF ResolventsEntailed, IdleForgets, Add
<1> QED
  BY <1>2, <1>3, <1>4, <1>5 DEF IInv

\* A deletion removes a clause there is: every model stays one.
LEMMA DeleteKeeps ==
    ASSUME IInv, NEW c \in Clauses, Delete(c)
    PROVE  IInv'
<1>1. /\ db' \in Seq(Seq(Lits))
      /\ \A i \in DOMAIN db' : \E j \in DOMAIN db : db'[i] = db[j]
  <2>1. CASE Matches(c) = {}
    BY <2>1 DEF Delete, IInv, TypeOK
  <2>2. CASE Matches(c) # {}
    <3>1. PICK k \in Matches(c) : db' = SwapRemove(db, k)
      BY <2>2 DEF Delete
    <3> QED
      BY <3>1, SwapRemoveIn DEF Matches, IInv, TypeOK
  <2> QED
    BY <2>1, <2>2
<1>2. phase = "idle" /\ UNCHANGED <<phase, clause, target, assign, derived>>
      /\ steps < MaxSteps /\ steps' = steps + 1
  BY DEF Delete
<1>3. Models(db) \subseteq Models(db')
  BY <1>1, FewerClauses
<1>4. TypeOK'
  <2>1. target' \in 0 .. Len(db') /\ steps' \in 0 .. MaxSteps
    BY <1>1, <1>2, DratAssumption DEF IInv, TypeOK, IdleForgets
  <2> QED
    BY <1>1, <1>2, <2>1 DEF IInv, TypeOK
<1>5. /\ KeepsSatisfiable' /\ DerivedRefutes' /\ PropagationSound'
      /\ ResolventsEntailed' /\ IdleForgets'
  BY <1>2, <1>3 DEF IInv, KeepsSatisfiable, DerivedRefutes, PropagationSound, ResolventsEntailed,
                    IdleForgets
<1> QED
  BY <1>4, <1>5 DEF IInv

\* A unit is true in every model that refutes the goal.
LEMMA PropagateKeeps ==
    ASSUME IInv, Propagate
    PROVE  IInv'
<1>1. PICK k \in DOMAIN db : \E i \in DOMAIN db[k] :
          UnitAt(db[k], i) /\ assign' = assign \cup {db[k][i]}
  BY DEF Propagate
<1>2. PICK i \in DOMAIN db[k] : UnitAt(db[k], i) /\ assign' = assign \cup {db[k][i]}
  BY <1>1
<1>3. db[k] \in Seq(Lits) /\ db[k][i] \in Lits
  BY <1>1, <1>2, ClauseLits DEF IInv, TypeOK
<1>4. phase = "check" /\ UNCHANGED <<db, phase, clause, target, derived, steps>>
  BY DEF Propagate
<1>5. TypeOK'
  BY <1>2, <1>3, <1>4 DEF IInv, TypeOK
<1>6. PropagationSound'
  <2>1. GoalLits(target)' = GoalLits(target)
    BY <1>4 DEF GoalLits
  <2> SUFFICES ASSUME NEW tau \in Models(db), ~SatLits(tau, GoalLits(target))
               PROVE  \A l \in assign' : Holds(tau, l)
    BY <1>4, <2>1 DEF PropagationSound
  <2>2. tau \in Valuations /\ Sat(tau, db[k])
    BY <1>1 DEF Models
  <2>3. \A l \in assign : Holds(tau, l)
    BY <1>4 DEF IInv, PropagationSound
  <2>4. \A j \in DOMAIN db[k] \ {i} : ~Holds(tau, db[k][j])
    <3> SUFFICES ASSUME NEW j \in DOMAIN db[k] \ {i} PROVE ~Holds(tau, db[k][j])
      OBVIOUS
    <3>1. Neg(db[k][j]) \in assign
      BY <1>2 DEF UnitAt, FalseLit
    <3> QED
      BY <1>3, <2>2, <2>3, <3>1, ClauseLits, NegHolds
  <2>5. Holds(tau, db[k][i])
    BY <1>2, <2>2, <2>4 DEF Sat
  <2> QED
    BY <1>2, <2>3, <2>5
<1>7. /\ KeepsSatisfiable' /\ DerivedRefutes' /\ ResolventsEntailed' /\ IdleForgets'
  <2>1. ResolventsEntailed'
    BY <1>4 DEF IInv, ResolventsEntailed, Pivots, Entails
  <2> QED
    BY <1>4, <2>1 DEF IInv, KeepsSatisfiable, DerivedRefutes, IdleForgets
<1> QED
  BY <1>5, <1>6, <1>7 DEF IInv

\* The goal was refuted: the clause is entailed, or one resolvent more is.
LEMMA RedundantKeeps ==
    ASSUME IInv, Redundant
    PROVE  IInv'
<1>1. phase = "check" /\ Conflict
  BY DEF Redundant
<1>2. target # 0 => clause # << >> /\ target \in Pivots(0) /\ target \in DOMAIN db
  BY <1>1 DEF IInv, ResolventsEntailed, Pivots
<1>3. Entails(db, GoalLits(target))
  BY <1>1, <1>2, ConflictEntails DEF IInv
<1>4. CASE target = 0
  <2>1. Accept /\ Entails(db, {clause[i] : i \in DOMAIN clause})
    BY <1>3, <1>4 DEF Redundant, GoalLits
  <2> QED
    BY <2>1, AcceptKeeps
<1>5. CASE target # 0
  <2>1. \A k \in Pivots(0) : k <= target => Entails(db, ResolventLits(clause, db[k]))
    <3> SUFFICES ASSUME NEW k \in Pivots(0), k <= target
                 PROVE  Entails(db, ResolventLits(clause, db[k]))
      OBVIOUS
    <3>1. CASE k = target
      BY <1>3, <1>5, <3>1 DEF GoalLits
    <3>2. CASE k < target
      BY <1>1, <1>5, <3>2 DEF IInv, ResolventsEntailed
    <3> QED
      BY <3>1, <3>2 DEF Pivots, IInv, TypeOK
  <2>2. CASE Pivots(target) = {}
    <3>1. \A k \in Pivots(0) : k <= target
      BY <2>2 DEF Pivots, IInv, TypeOK
    <3>2. Accept
      BY <2>2 DEF Redundant
    <3> QED
      BY <1>2, <1>5, <2>1, <3>1, <3>2, AcceptKeeps
  <2>3. CASE Pivots(target) # {}
    <3>1. CheckNext(target)
      BY <1>5, <2>3 DEF Redundant
    <3> QED
      BY <1>1, <1>2, <1>5, <2>1, <3>1, CheckNextKeeps DEF IInv, TypeOK
  <2> QED
    BY <2>2, <2>3
<1> QED
  BY <1>4, <1>5

\* The goal was not refuted: RAT is tried, or the proof rejected.
LEMMA NotRupKeeps ==
    ASSUME IInv, NotRup
    PROVE  IInv'
<1>1. phase = "check"
  BY DEF NotRup
<1>2. CASE target # 0 \/ clause = << >>
  <2>1. Reject
    BY <1>2 DEF NotRup
  <2>2. TypeOK'
    BY <2>1 DEF IInv, TypeOK, Reject
  <2> QED
    BY <1>1, <2>1, <2>2 DEF IInv, KeepsSatisfiable, DerivedRefutes, PropagationSound,
       ResolventsEntailed, IdleForgets, Reject
<1>3. CASE target = 0 /\ clause # << >>
  <2>1. CASE Pivots(0) = {}
    BY <1>3, <2>1, AcceptKeeps DEF NotRup
  <2>2. CASE Pivots(0) # {}
    <3>1. CheckNext(0)
      BY <1>3, <2>2 DEF NotRup
    <3>2. 0 \in 0 .. Len(db) /\ \A k \in Pivots(0) : ~(k <= 0)
      BY DEF Pivots, IInv, TypeOK
    <3> QED
      BY <1>1, <1>3, <3>1, <3>2, CheckNextKeeps
  <2> QED
    BY <2>1, <2>2
<1> QED
  BY <1>2, <1>3

\* The checker answers.
LEMMA FinishKeeps ==
    ASSUME IInv, Finish
    PROVE  IInv'
<1>1. TypeOK'
  BY DEF IInv, TypeOK, Finish
<1>2. /\ KeepsSatisfiable' /\ DerivedRefutes' /\ PropagationSound'
      /\ ResolventsEntailed' /\ IdleForgets'
  BY DEF IInv, KeepsSatisfiable, DerivedRefutes, PropagationSound, ResolventsEntailed,
         IdleForgets, Finish
<1> QED
  BY <1>1, <1>2 DEF IInv

\* Every step keeps the invariant.
LEMMA NextKeeps == IInv /\ [Next]_vars => IInv'
<1> SUFFICES ASSUME IInv, [Next]_vars PROVE IInv'
  OBVIOUS
<1>1. CASE \E c \in Clauses : Add(c) \/ Delete(c)
  BY <1>1, AddKeeps, DeleteKeeps
<1>2. CASE Propagate
  BY <1>2, PropagateKeeps
<1>3. CASE Redundant
  BY <1>3, RedundantKeeps
<1>4. CASE NotRup
  BY <1>4, NotRupKeeps
<1>5. CASE Finish
  BY <1>5, FinishKeeps
<1>6. CASE UNCHANGED vars
  <2>1. GoalLits(target)' = GoalLits(target) /\ Pivots(0)' = Pivots(0)
    BY <1>6 DEF vars, GoalLits, Pivots
  <2> QED
    BY <1>6, <2>1 DEF vars, IInv, TypeOK, KeepsSatisfiable, DerivedRefutes, PropagationSound,
       ResolventsEntailed, IdleForgets, Entails
<1> QED
  BY <1>1, <1>2, <1>3, <1>4, <1>5, <1>6 DEF Next

-----------------------------------------------------------------------------
(* Theorems *)

\* The invariant holds throughout.
THEOREM Invariance == Spec => []IInv
<1>1. Init => IInv
  BY InitIInv
<1>2. IInv /\ [Next]_vars => IInv'
  BY NextKeeps
<1> QED
  BY <1>1, <1>2, PTL DEF Spec

\* The checker's variables keep their types (drat.rs:181).
THEOREM Typed == Spec => []TypeOK
<1>1. IInv => TypeOK
  BY DEF IInv
<1> QED
  BY <1>1, Invariance, PTL

\* No addition the checker lets through makes a satisfiable formula
\* unsatisfiable (drat.rs:152).
THEOREM Redundancy == Spec => []KeepsSatisfiable
<1>1. IInv => KeepsSatisfiable
  BY DEF IInv
<1> QED
  BY <1>1, Invariance, PTL

\* A verified proof refutes the formula it was given (drat.rs:221).
THEOREM Certifies == Spec => []Certified
<1>1. IInv => Certified
  BY DEF IInv, DerivedRefutes, Certified
<1> QED
  BY <1>1, Invariance, PTL

\* What propagation made true follows from the formula and the refuted goal
\* (drat.rs:93).
THEOREM PropagatesSoundly == Spec => []PropagationSound
<1>1. IInv => PropagationSound
  BY DEF IInv
<1> QED
  BY <1>1, Invariance, PTL

-----------------------------------------------------------------------------
(* The Tseitin encoder.  What holds of 0, and of n + 1 when of n, holds of Nat. *)

LEMMA NatInductive ==
    ASSUME NEW T, 0 \in T, \A n \in Nat : n \in T => n + 1 \in T
    PROVE  Nat \subseteq T
<1> SUFFICES ASSUME NEW m \in Nat, m \notin T PROVE FALSE
  OBVIOUS
<1> DEFINE F == {0 .. k : k \in Nat \ T}
           R == StrictSubsetOrdering(Nat)
<1>1. IsWellFoundedOn(R, FiniteSubsetsOf(Nat))
  BY FS_StrictSubsetOrderingWellFounded
<1>2. F \subseteq FiniteSubsetsOf(Nat) /\ F # {}
  <2>1. ASSUME NEW k \in Nat \ T PROVE 0 .. k \in FiniteSubsetsOf(Nat)
    <3>1. IsFiniteSet(0 .. k) BY FS_Interval
    <3>2. 0 .. k \in SUBSET Nat OBVIOUS
    <3> QED BY <3>1, <3>2 DEF FiniteSubsetsOf
  <2>2. 0 .. m \in F OBVIOUS
  <2> QED BY <2>1, <2>2
<1>3. \E x \in F : \A y \in F : <<y, x>> \notin R
  <2> HIDE DEF R, F
  <2> QED BY <1>1, <1>2, WFMin
<1>4. PICK k \in Nat \ T : \A j \in Nat \ T : <<0 .. j, 0 .. k>> \notin R
  BY <1>3
<1>5. k # 0 /\ k - 1 \in Nat \ T
  <2>1. k # 0 OBVIOUS
  <2> QED BY <2>1
<1>6. 0 .. (k - 1) \subseteq 0 .. k /\ k \in 0 .. k /\ k \notin 0 .. (k - 1)
  BY <1>5
<1>7. <<0 .. (k - 1), 0 .. k>> \in R
  BY <1>5, <1>6 DEF StrictSubsetOrdering
<1> QED BY <1>4, <1>5, <1>7


\* What holds of a number when it holds of those before it holds of all.
LEMMA FromBelow ==
    ASSUME NEW N \in Nat, NEW T, \A f \in 1 .. N : (\A g \in 1 .. f - 1 : g \in T) => f \in T
    PROVE  \A f \in 1 .. N : f \in T
<1> DEFINE S == {m \in Nat : \A f \in 1 .. N : f <= m => f \in T}
<1>1. 0 \in S OBVIOUS
<1>2. ASSUME NEW m \in Nat, m \in S PROVE m + 1 \in S
  <2> SUFFICES ASSUME NEW f \in 1 .. N, f <= m + 1 PROVE f \in T OBVIOUS
  <2>1. \A g \in 1 .. f - 1 : g \in 1 .. N /\ g <= m OBVIOUS
  <2>2. \A g \in 1 .. f - 1 : g \in T BY <2>1, <1>2
  <2> QED BY <2>2
<1>3. Nat \subseteq S
  <2> HIDE DEF S
  <2> QED BY <1>1, <1>2, NatInductive
<1>4. N \in S BY <1>3
<1> QED BY <1>4

LEMMA FunSeq ==
    ASSUME NEW S, NEW n \in Nat, NEW f \in [1 .. n -> S]
    PROVE  f \in Seq(S) /\ Len(f) = n
<1>1. f \in Seq(S) BY SeqDef
<1>2. DOMAIN f = 1 .. n /\ DOMAIN f = 1 .. Len(f) /\ Len(f) \in Nat BY <1>1, LenProperties
<1> QED BY <1>1, <1>2

-----------------------------------------------------------------------------
(* Graphs *)

\* What a node with number f is: its arguments have smaller numbers and are as many
\* as its operator takes.
NodeFit(node, f) ==
    \E k \in Nat :
        /\ node.args \in [1 .. k -> 1 .. f - 1]
        /\ \/ node.op = "atom" /\ k = 0 /\ f <= AtomNodes
           \/ node.op \in OpsOf(k) /\ node.op # "atom" /\ ~(f <= AtomNodes)
GraphFit(gr) == \A f \in 1 .. Nodes : NodeFit(gr[f], f)

LEMMA NodesFit == ASSUME NEW f \in Nat, NEW node \in NodesAt(f) PROVE NodeFit(node, f)
<1>1. CASE f <= AtomNodes
  <2>1. node = Node("atom", << >>) BY <1>1 DEF NodesAt
  <2>2. node.op = "atom" /\ node.args = << >> BY <2>1 DEF Node
  <2>3. << >> \in [1 .. 0 -> 1 .. f - 1] OBVIOUS
  <2> QED BY <1>1, <2>2, <2>3 DEF NodeFit
<1>2. CASE ~(f <= AtomNodes)
  <2>1. PICK k \in DOMAIN Ops : node \in [op : Ops[k], args : [1 .. k -> 1 .. f - 1]]
    BY <1>2 DEF NodesAt
  <2>2. k \in Nat /\ node.op \in OpsOf(k) /\ node.args \in [1 .. k -> 1 .. f - 1]
    BY <2>1, TseitinAssumption
  <2>3. "atom" \notin OpsOf(k) BY DEF OpsOf
  <2> QED BY <1>2, <2>2, <2>3 DEF NodeFit
<1> QED BY <1>1, <1>2

AnyNode == UNION {NodesAt(n) : n \in Nat}
UpStep(n, U) == IF n = 0 THEN {<< >>} ELSE UNION {{Append(g, node) : node \in NodesAt(n)} : g \in U[n - 1]}
UpRun(m, U) == U = [n \in 0 .. m |-> UpStep(n, U)]

LEMMA UpStepSame ==
    ASSUME NEW n, NEW U, NEW V, n # 0 => U[n - 1] = V[n - 1] PROVE UpStep(n, U) = UpStep(n, V)
  BY DEF UpStep

LEMMA UpRuns == ASSUME NEW N \in Nat PROVE \E U : UpRun(N, U)
<1> DEFINE S == {m \in Nat : \E U : UpRun(m, U)}
<1>1. 0 \in S
  <2> DEFINE U == [n \in 0 .. 0 |-> UpStep(n, << >>)]
  <2>1. U = [n \in 0 .. 0 |-> UpStep(n, U)]
    <3>1. 0 .. 0 = {0} OBVIOUS
    <3>2. \A n \in 0 .. 0 : U[n] = UpStep(n, << >>) OBVIOUS
    <3>3. U = [n \in 0 .. 0 |-> U[n]] OBVIOUS
    <3> HIDE DEF U
    <3>4. \A n \in 0 .. 0 : U[n] = UpStep(n, U) BY <3>1, <3>2, UpStepSame
    <3> QED BY <3>3, <3>4
  <2>2. UpRun(0, U)
    <3> HIDE DEF U
    <3> QED BY <2>1 DEF UpRun
  <2> QED BY <2>2
<1>2. ASSUME NEW m \in Nat, m \in S PROVE m + 1 \in S
  <2>1. PICK U : UpRun(m, U) BY <1>2
  <2> DEFINE V == [n \in 0 .. m + 1 |-> IF n = m + 1 THEN UpStep(n, U) ELSE U[n]]
  <2>2. \A n \in 0 .. m : V[n] = U[n] OBVIOUS
  <2>3. \A n \in 0 .. m : U[n] = UpStep(n, U) BY <2>1 DEF UpRun
  <2>4. \A n \in 0 .. m + 1 : V[n] = UpStep(n, U)
    <3>1. \A n \in 0 .. m + 1 : n = m + 1 \/ n \in 0 .. m OBVIOUS
    <3> QED BY <2>3, <3>1
  <2>5. V = [n \in 0 .. m + 1 |-> V[n]] OBVIOUS
  <2> HIDE DEF V
  <2>6. ASSUME NEW n \in 0 .. m + 1 PROVE V[n] = UpStep(n, V)
    <3>1. n # 0 => n - 1 \in 0 .. m OBVIOUS
    <3>2. UpStep(n, U) = UpStep(n, V) BY <3>1, <2>2, UpStepSame
    <3> QED BY <2>4, <3>2
  <2>7. V = [n \in 0 .. m + 1 |-> UpStep(n, V)] BY <2>5, <2>6
  <2>8. UpRun(m + 1, V) BY <2>7 DEF UpRun
  <2> QED BY <2>8
<1>3. Nat \subseteq S
  <2> HIDE DEF S
  <2> QED BY <1>1, <1>2, NatInductive
<1> QED BY <1>3

LEMMA GraphsFit == ASSUME NEW gr \in Graphs PROVE GraphFit(gr)
<1>1. Nodes \in Nat BY TseitinAssumption
<1> DEFINE U == CHOOSE V : V = [n \in 0 .. Nodes |-> UpStep(n, V)]
<1>2. Graphs = U[Nodes] BY DEF Graphs, UpStep
<1>3. U = [n \in 0 .. Nodes |-> UpStep(n, U)]
  <2>1. \E V : V = [n \in 0 .. Nodes |-> UpStep(n, V)] BY <1>1, UpRuns DEF UpRun
  <2> QED BY <2>1
<1> HIDE DEF U
<1>4. \A n \in 0 .. Nodes : U[n] = UpStep(n, U) BY <1>3
<1> DEFINE Fit(g, m) == g \in Seq(AnyNode) /\ Len(g) = m /\ \A f \in 1 .. m : g[f] \in NodesAt(f)
           S == {m \in Nat : m <= Nodes => \A g \in U[m] : Fit(g, m)}
<1>5. 0 \in S
  <2>1. 0 \in 0 .. Nodes BY <1>1
  <2>2. U[0] = UpStep(0, U) BY <1>4, <2>1
  <2>3. U[0] = {<< >>} BY <2>2 DEF UpStep
  <2>4. Fit(<< >>, 0) OBVIOUS
  <2>5. \A g \in U[0] : g = << >> BY <2>3
  <2>6. \A g \in U[0] : Fit(g, 0)
    <3> HIDE DEF Fit
    <3> QED BY <2>4, <2>5
  <2> HIDE DEF Fit
  <2> QED BY <2>6
<1>6. ASSUME NEW m \in Nat, m \in S PROVE m + 1 \in S
  <2> SUFFICES ASSUME m + 1 <= Nodes, NEW g \in U[m + 1] PROVE Fit(g, m + 1) OBVIOUS
  <2>1. U[m + 1] = UpStep(m + 1, U) /\ m + 1 # 0 /\ m + 1 - 1 = m BY <1>1, <1>4
  <2>2. U[m + 1] = UNION {{Append(h, node) : node \in NodesAt(m + 1)} : h \in U[m]}
    BY <2>1 DEF UpStep
  <2>3. PICK h \in U[m], node \in NodesAt(m + 1) : g = Append(h, node) BY <2>2
  <2>4. Fit(h, m) BY <1>1, <1>6, <2>3
  <2>5. node \in AnyNode BY DEF AnyNode
  <2>6. /\ g \in Seq(AnyNode) /\ Len(g) = m + 1 /\ g[m + 1] = node
        /\ \A f \in 1 .. m : g[f] = h[f]
    BY <2>3, <2>4, <2>5
  <2>7. \A f \in 1 .. m + 1 : f = m + 1 \/ f \in 1 .. m OBVIOUS
  <2> QED BY <2>3, <2>4, <2>6, <2>7
<1>7. Nat \subseteq S
  <2> HIDE DEF S
  <2> QED BY <1>5, <1>6, NatInductive
<1>8. Fit(gr, Nodes) BY <1>1, <1>2, <1>7
<1> QED BY <1>8, NodesFit DEF GraphFit

\* The arguments of a node come before it.
LEMMA ArgsBefore ==
    ASSUME NEW gr, GraphFit(gr), NEW f \in 1 .. Nodes, NEW i \in DOMAIN gr[f].args
    PROVE  gr[f].args[i] \in 1 .. f - 1 /\ gr[f].args[i] \in 1 .. Nodes
<1>1. PICK k \in Nat : gr[f].args \in [1 .. k -> 1 .. f - 1] BY DEF GraphFit, NodeFit
<1>2. gr[f].args[i] \in 1 .. f - 1 BY <1>1
<1> QED BY <1>2, TseitinAssumption

LEMMA NotIs ==
    ASSUME NEW gr, GraphFit(gr), NEW f \in 1 .. Nodes, gr[f].op = "not"
    PROVE  DOMAIN gr[f].args = {1} /\ gr[f].args[1] \in 1 .. f - 1 /\ gr[f].args[1] \in 1 .. Nodes
<1>1. PICK k \in Nat : /\ gr[f].args \in [1 .. k -> 1 .. f - 1]
                       /\ gr[f].op \in OpsOf(k)
  BY DEF GraphFit, NodeFit
<1>2. k = 1 BY <1>1 DEF OpsOf
<1>3. DOMAIN gr[f].args = {1} BY <1>1, <1>2
<1> QED BY <1>3, ArgsBefore

\* The literal of a node: the literal it is cached with, or the negation of its
\* argument's.
LitStep(gr, ca, g, T) == IF gr[g].op = "not" THEN -T[gr[g].args[1]] ELSE ca[g]
LitRun(gr, ca, m, T) == T = [g \in 1 .. m |-> LitStep(gr, ca, g, T)]
Lit(gr, ca, f) ==
    LET lit[g \in 1 .. Nodes] == IF gr[g].op = "not" THEN -lit[gr[g].args[1]] ELSE ca[g]
    IN  lit[f]

LEMMA LitStepSame ==
    ASSUME NEW gr, NEW ca, NEW g, NEW T, NEW U,
           gr[g].op = "not" => T[gr[g].args[1]] = U[gr[g].args[1]]
    PROVE  LitStep(gr, ca, g, T) = LitStep(gr, ca, g, U)
  BY DEF LitStep

LEMMA LitRuns ==
    ASSUME NEW gr, GraphFit(gr), NEW ca PROVE \E T : LitRun(gr, ca, Nodes, T)
<1> DEFINE S == {m \in Nat : m <= Nodes => \E T : LitRun(gr, ca, m, T)}
<1>0. Nodes \in Nat BY TseitinAssumption
<1>1. 0 \in S
  <2> DEFINE T == [g \in {} |-> 0]
  <2>1. T = [g \in {} |-> LitStep(gr, ca, g, T)] OBVIOUS
  <2>2. 1 .. 0 = {} OBVIOUS
  <2>3. LitRun(gr, ca, 0, T)
    <3> HIDE DEF T
    <3> QED BY <2>1, <2>2 DEF LitRun
  <2> QED BY <2>3
<1>2. ASSUME NEW m \in Nat, m \in S PROVE m + 1 \in S
  <2> SUFFICES ASSUME m + 1 <= Nodes PROVE \E T : LitRun(gr, ca, m + 1, T) OBVIOUS
  <2>1. PICK T : LitRun(gr, ca, m, T) BY <1>0, <1>2
  <2> DEFINE U == [g \in 1 .. m + 1 |-> IF g = m + 1 THEN LitStep(gr, ca, g, T) ELSE T[g]]
  <2>2. \A g \in 1 .. m : U[g] = T[g] OBVIOUS
  <2>3. \A g \in 1 .. m : T[g] = LitStep(gr, ca, g, T) BY <2>1 DEF LitRun
  <2>4. \A g \in 1 .. m + 1 : U[g] = LitStep(gr, ca, g, T)
    <3>1. \A g \in 1 .. m + 1 : g = m + 1 \/ g \in 1 .. m OBVIOUS
    <3> QED BY <2>3, <3>1
  <2>5. U = [g \in 1 .. m + 1 |-> U[g]] OBVIOUS
  <2> HIDE DEF U
  <2>6. ASSUME NEW g \in 1 .. m + 1 PROVE U[g] = LitStep(gr, ca, g, U)
    <3>1. g \in 1 .. Nodes BY <1>0
    <3>2. gr[g].op = "not" => gr[g].args[1] \in 1 .. m BY <3>1, NotIs
    <3>3. LitStep(gr, ca, g, T) = LitStep(gr, ca, g, U) BY <3>2, <2>2, LitStepSame
    <3> QED BY <2>4, <3>3
  <2>7. U = [g \in 1 .. m + 1 |-> LitStep(gr, ca, g, U)] BY <2>5, <2>6
  <2> QED BY <2>7 DEF LitRun
<1>3. Nat \subseteq S
  <2> HIDE DEF S
  <2> QED BY <1>1, <1>2, NatInductive
<1> QED BY <1>0, <1>3

LEMMA LitIs ==
    ASSUME NEW gr, GraphFit(gr), NEW ca, NEW f \in 1 .. Nodes
    PROVE  Lit(gr, ca, f) = IF gr[f].op = "not" THEN -Lit(gr, ca, gr[f].args[1]) ELSE ca[f]
<1> DEFINE T == CHOOSE U : U = [g \in 1 .. Nodes |-> LitStep(gr, ca, g, U)]
<1>1. \A g : Lit(gr, ca, g) = T[g] BY DEF Lit, LitStep
<1>2. \E U : U = [g \in 1 .. Nodes |-> LitStep(gr, ca, g, U)] BY LitRuns DEF LitRun
<1>3. T = [g \in 1 .. Nodes |-> LitStep(gr, ca, g, T)] BY <1>2
<1> HIDE DEF T
<1>4. T[f] = LitStep(gr, ca, f, T) BY <1>3
<1> QED BY <1>1, <1>4 DEF LitStep

\* A cache of literals gives literals.
Cache(ca, n) == n \in Nat /\ ca \in [1 .. Nodes -> -n .. n]

LEMMA LitTyped ==
    ASSUME NEW gr, GraphFit(gr), NEW n, NEW ca, Cache(ca, n)
    PROVE  \A f \in 1 .. Nodes : Lit(gr, ca, f) \in -n .. n
<1>1. Nodes \in Nat BY TseitinAssumption
<1> DEFINE T == {f \in 1 .. Nodes : Lit(gr, ca, f) \in -n .. n}
<1>2. ASSUME NEW f \in 1 .. Nodes, \A g \in 1 .. f - 1 : g \in T PROVE f \in T
  <2>1. CASE gr[f].op = "not"
    <3>1. Lit(gr, ca, gr[f].args[1]) \in -n .. n BY <1>2, <2>1, NotIs
    <3>2. Lit(gr, ca, f) = -Lit(gr, ca, gr[f].args[1]) BY <2>1, LitIs
    <3>3. Lit(gr, ca, f) \in -n .. n
      <4> DEFINE l == Lit(gr, ca, gr[f].args[1])
      <4>1. n \in Nat /\ l \in -n .. n BY <3>1 DEF Cache
      <4> HIDE DEF l
      <4>2. -l \in -n .. n BY <4>1
      <4> QED BY <3>2, <4>2 DEF l
    <3> QED BY <3>3
  <2>2. CASE gr[f].op # "not"
    <3>1. Lit(gr, ca, f) = ca[f] BY <2>2, LitIs
    <3> QED BY <3>1 DEF Cache
  <2> QED BY <2>1, <2>2
<1>3. \A f \in 1 .. Nodes : f \in T
  <2> HIDE DEF T
  <2> QED BY <1>1, <1>2, FromBelow
<1> QED BY <1>3

\* A node that has a literal keeps it when more nodes are cached.
LEMMA LitStays ==
    ASSUME NEW gr, GraphFit(gr), NEW n, NEW ca, Cache(ca, n), NEW da,
           \A f \in 1 .. Nodes : ca[f] # NoLit => da[f] = ca[f]
    PROVE  \A f \in 1 .. Nodes : Lit(gr, ca, f) # NoLit => Lit(gr, da, f) = Lit(gr, ca, f)
<1>1. Nodes \in Nat BY TseitinAssumption
<1> DEFINE T == {f \in 1 .. Nodes : Lit(gr, ca, f) # NoLit => Lit(gr, da, f) = Lit(gr, ca, f)}
<1>2. ASSUME NEW f \in 1 .. Nodes, \A g \in 1 .. f - 1 : g \in T PROVE f \in T
  <2> SUFFICES ASSUME Lit(gr, ca, f) # NoLit PROVE Lit(gr, da, f) = Lit(gr, ca, f) OBVIOUS
  <2>1. CASE gr[f].op = "not"
    <3>1. /\ Lit(gr, ca, f) = -Lit(gr, ca, gr[f].args[1])
          /\ Lit(gr, da, f) = -Lit(gr, da, gr[f].args[1])
      BY <2>1, LitIs
    <3>2. Lit(gr, ca, gr[f].args[1]) # NoLit BY <3>1 DEF NoLit
    <3> QED BY <1>2, <2>1, <3>1, <3>2, NotIs
  <2>2. CASE gr[f].op # "not" BY <2>2, LitIs
  <2> QED BY <2>1, <2>2
<1>3. \A f \in 1 .. Nodes : f \in T
  <2> HIDE DEF T
  <2> QED BY <1>1, <1>2, FromBelow
<1> QED BY <1>3

-----------------------------------------------------------------------------
(* Valuations and literals *)

LitsTo(n) == {l \in -n .. n : l # 0}
Vals(n) == [1 .. n -> BOOLEAN]
Meets(v, cs) == \A c \in cs : \E l \in c : HoldsIn(v, l)
Longer(v, n, p) == [i \in 1 .. n + 1 |-> IF i = n + 1 THEN p ELSE v[i]]
Shorter(v, n) == [i \in 1 .. n |-> v[i]]

LEMMA LitBoolean ==
    ASSUME NEW n \in Nat, NEW v \in Vals(n), NEW l \in LitsTo(n)
    PROVE  HoldsIn(v, l) \in BOOLEAN /\ -l \in LitsTo(n) /\ HoldsIn(v, -l) = ~HoldsIn(v, l)
<1>1. -l \in LitsTo(n) /\ l # 0 /\ l \in Int BY DEF LitsTo
<1>2. CASE l > 0
  <2>1. l \in 1 .. n /\ ~(-l > 0) /\ -(-l) = l BY <1>1, <1>2 DEF LitsTo
  <2> QED BY <1>1, <1>2, <2>1 DEF HoldsIn, Vals
<1>3. CASE ~(l > 0)
  <2>1. -l \in 1 .. n /\ -l > 0 BY <1>1, <1>3 DEF LitsTo
  <2> QED BY <1>1, <1>3, <2>1 DEF HoldsIn, Vals
<1> QED BY <1>2, <1>3

LEMMA SameHolds ==
    ASSUME NEW n \in Nat, NEW v, NEW w, \A i \in 1 .. n : v[i] = w[i], NEW l \in LitsTo(n)
    PROVE  HoldsIn(v, l) = HoldsIn(w, l)
<1>1. (l > 0 => l \in 1 .. n) /\ (~(l > 0) => -l \in 1 .. n) BY DEF LitsTo
<1> QED BY <1>1 DEF HoldsIn

LEMMA SameSat ==
    ASSUME NEW n \in Nat, NEW v, NEW w, \A i \in 1 .. n : v[i] = w[i],
           NEW cs, \A c \in cs : c \subseteq LitsTo(n)
    PROVE  Meets(v, cs) <=> Meets(w, cs)
<1>1. ASSUME NEW c \in cs, NEW l \in c PROVE HoldsIn(v, l) = HoldsIn(w, l)
  BY <1>1, SameHolds
<1> QED BY <1>1 DEF Meets

LEMMA LongerIs ==
    ASSUME NEW n \in Nat, NEW v \in Vals(n), NEW p \in BOOLEAN
    PROVE  /\ Longer(v, n, p) \in Vals(n + 1) /\ Longer(v, n, p)[n + 1] = p
           /\ \A i \in 1 .. n : Longer(v, n, p)[i] = v[i]
<1>1. \A i \in 1 .. n + 1 : i # n + 1 => i \in 1 .. n OBVIOUS
<1>2. Longer(v, n, p) \in Vals(n + 1) BY <1>1 DEF Longer, Vals
<1>3. n + 1 \in 1 .. n + 1 /\ \A i \in 1 .. n : i \in 1 .. n + 1 /\ i # n + 1 OBVIOUS
<1> QED BY <1>2, <1>3 DEF Longer

LEMMA ShorterIs ==
    ASSUME NEW n \in Nat, NEW v \in Vals(n + 1)
    PROVE  Shorter(v, n) \in Vals(n) /\ \A i \in 1 .. n : Shorter(v, n)[i] = v[i]
<1>1. 1 .. n \subseteq 1 .. n + 1 OBVIOUS
<1> QED BY <1>1 DEF Shorter, Vals

LEMMA SameVals ==
    ASSUME NEW n \in Nat, NEW v \in Vals(n + 1), NEW w \in Vals(n + 1),
           \A i \in 1 .. n : v[i] = w[i], v[n + 1] = w[n + 1]
    PROVE  v = w
<1>1. \A i \in 1 .. n + 1 : i = n + 1 \/ i \in 1 .. n OBVIOUS
<1>2. \A i \in 1 .. n + 1 : v[i] = w[i] BY <1>1
<1> QED BY <1>2 DEF Vals

LEMMA LitsGrow == ASSUME NEW n \in Nat, NEW m \in Nat, n <= m PROVE LitsTo(n) \subseteq LitsTo(m)
  BY DEF LitsTo

-----------------------------------------------------------------------------
(* The clauses of a connective say what it does *)

Values(v, s) == [i \in DOMAIN s |-> HoldsIn(v, s[i])]
Gates(k) == OpsOf(k) \ {"true", "false", "not"}

LEMMA DefineMeans ==
    ASSUME NEW n \in Nat, NEW k \in Nat, NEW op \in Gates(k), NEW y \in LitsTo(n),
           NEW s \in [1 .. k -> LitsTo(n)], NEW v \in Vals(n)
    PROVE  Meets(v, Define(op, y, s)) <=> (HoldsIn(v, y) <=> Applied(op, Values(v, s)))
<1> DEFINE p == Values(v, s)
<1>1. DOMAIN p = 1 .. k /\ DOMAIN s = 1 .. k /\ \A i \in 1 .. k : p[i] = HoldsIn(v, s[i])
  BY DEF Values
<1>2. \A l \in LitsTo(n) : HoldsIn(v, l) \in BOOLEAN /\ HoldsIn(v, -l) = ~HoldsIn(v, l)
  BY LitBoolean
<1>3. \A i \in 1 .. k : s[i] \in LitsTo(n) OBVIOUS
<1> HIDE DEF p
<1>4. CASE op = "and"
  <2>1. Define(op, y, s) = {{-y, l} : l \in Literals(s)} \cup {{y} \cup {-l : l \in Literals(s)}}
    BY <1>4 DEF Define, DefineAnd
  <2>2. Applied(op, p) <=> \A i \in 1 .. k : HoldsIn(v, s[i]) BY <1>1, <1>4 DEF Applied
  <2>3. Literals(s) = {s[i] : i \in 1 .. k} BY <1>1 DEF Literals
  <2>4. ASSUME Meets(v, Define(op, y, s)) PROVE HoldsIn(v, y) <=> Applied(op, p)
    <3>1. ASSUME HoldsIn(v, y), NEW i \in 1 .. k PROVE HoldsIn(v, s[i])
      <4>1. {-y, s[i]} \in Define(op, y, s) BY <2>1, <2>3
      <4>2. HoldsIn(v, -y) \/ HoldsIn(v, s[i]) BY <2>4, <4>1 DEF Meets
      <4> QED BY <1>2, <3>1, <4>2
    <3>2. ASSUME \A i \in 1 .. k : HoldsIn(v, s[i]) PROVE HoldsIn(v, y)
      <4>1. PICK l \in {y} \cup {-m : m \in Literals(s)} : HoldsIn(v, l) BY <2>1, <2>4 DEF Meets
      <4>2. CASE l = y BY <4>1, <4>2
      <4>3. CASE l # y
        <5>1. PICK i \in 1 .. k : l = -s[i] BY <2>3, <4>1, <4>3
        <5> QED BY <1>2, <1>3, <3>2, <4>1, <5>1
      <4> QED BY <4>2, <4>3
    <3> QED BY <2>2, <3>1, <3>2
  <2>5. ASSUME HoldsIn(v, y) <=> Applied(op, p) PROVE Meets(v, Define(op, y, s))
    <3> SUFFICES ASSUME NEW c \in Define(op, y, s) PROVE \E l \in c : HoldsIn(v, l) BY DEF Meets
    <3>1. CASE \E i \in 1 .. k : c = {-y, s[i]} BY <1>2, <1>3, <2>2, <2>5, <3>1
    <3>2. CASE c = {y} \cup {-l : l \in Literals(s)}
      <4>1. CASE HoldsIn(v, y) BY <3>2, <4>1
      <4>2. CASE ~HoldsIn(v, y)
        <5>1. PICK i \in 1 .. k : ~HoldsIn(v, s[i]) BY <2>2, <2>5, <4>2
        <5>2. -s[i] \in c BY <2>3, <3>2
        <5> QED BY <1>2, <1>3, <5>1, <5>2
      <4> QED BY <4>1, <4>2
    <3> QED BY <2>1, <2>3, <3>1, <3>2
  <2> QED BY <2>4, <2>5 DEF p
<1>5. ASSUME NEW k2 \in Nat, NEW t \in [1 .. k2 -> LitsTo(n)]
      PROVE  Meets(v, DefineOr(y, t)) <=> (HoldsIn(v, y) <=> \E i \in 1 .. k2 : HoldsIn(v, t[i]))
  <2>1. DefineOr(y, t) = {{-l, y} : l \in Literals(t)} \cup {{-y} \cup Literals(t)} BY DEF DefineOr
  <2>2. Literals(t) = {t[i] : i \in 1 .. k2} /\ \A i \in 1 .. k2 : t[i] \in LitsTo(n) BY DEF Literals
  <2>4. ASSUME Meets(v, DefineOr(y, t)) PROVE HoldsIn(v, y) <=> \E i \in 1 .. k2 : HoldsIn(v, t[i])
    <3>1. ASSUME NEW i \in 1 .. k2, HoldsIn(v, t[i]) PROVE HoldsIn(v, y)
      <4>1. {-t[i], y} \in DefineOr(y, t) BY <2>1, <2>2
      <4>2. HoldsIn(v, -t[i]) \/ HoldsIn(v, y) BY <2>4, <4>1 DEF Meets
      <4> QED BY <1>2, <2>2, <3>1, <4>2
    <3>2. ASSUME HoldsIn(v, y) PROVE \E i \in 1 .. k2 : HoldsIn(v, t[i])
      <4>1. PICK l \in {-y} \cup Literals(t) : HoldsIn(v, l) BY <2>1, <2>4 DEF Meets
      <4>2. l # -y BY <1>2, <3>2, <4>1
      <4> QED BY <2>2, <4>1, <4>2
    <3> QED BY <3>1, <3>2
  <2>5. ASSUME HoldsIn(v, y) <=> \E i \in 1 .. k2 : HoldsIn(v, t[i]) PROVE Meets(v, DefineOr(y, t))
    <3> SUFFICES ASSUME NEW c \in DefineOr(y, t) PROVE \E l \in c : HoldsIn(v, l) BY DEF Meets
    <3>1. CASE \E i \in 1 .. k2 : c = {-t[i], y} BY <1>2, <2>2, <2>5, <3>1
    <3>2. CASE c = {-y} \cup Literals(t)
      <4>1. CASE ~HoldsIn(v, y) BY <1>2, <3>2, <4>1
      <4>2. CASE HoldsIn(v, y)
        <5>1. PICK i \in 1 .. k2 : HoldsIn(v, t[i]) BY <2>5, <4>2
        <5> QED BY <2>2, <3>2, <5>1
      <4> QED BY <4>1, <4>2
    <3> QED BY <2>1, <2>2, <3>1, <3>2
  <2> QED BY <2>4, <2>5
<1>6. CASE op = "or"
  <2>1. Define(op, y, s) = DefineOr(y, s) BY <1>6 DEF Define
  <2>2. Applied(op, p) <=> \E i \in 1 .. k : HoldsIn(v, s[i]) BY <1>1, <1>6 DEF Applied
  <2> QED BY <1>5, <2>1, <2>2 DEF p
<1>7. CASE op = "implies"
  <2>1. k = 2 BY <1>7 DEF Gates, OpsOf
  <2> DEFINE t == <<-s[1], s[2]>>
  <2>2. s[1] \in LitsTo(n) /\ s[2] \in LitsTo(n) /\ -s[1] \in LitsTo(n) BY <2>1, <1>3, LitBoolean
  <2>3. t \in [1 .. 2 -> LitsTo(n)] BY <2>2
  <2>4. Define(op, y, s) = DefineOr(y, t) BY <1>7 DEF Define
  <2>5. t[1] = -s[1] /\ t[2] = s[2] OBVIOUS
  <2>6. Applied(op, p) <=> (p[1] => p[2]) BY <1>7 DEF Applied
  <2>7. p[1] = HoldsIn(v, s[1]) /\ p[2] = HoldsIn(v, s[2]) BY <1>1, <2>1
  <2> HIDE DEF t
  <2>8. Meets(v, DefineOr(y, t)) <=> (HoldsIn(v, y) <=> \E i \in 1 .. 2 : HoldsIn(v, t[i])) BY <1>5, <2>3
  <2>9. (\E i \in 1 .. 2 : HoldsIn(v, t[i])) <=> (HoldsIn(v, t[1]) \/ HoldsIn(v, t[2]))
    <3>1. \A i \in 1 .. 2 : i = 1 \/ i = 2 OBVIOUS
    <3> QED BY <3>1
  <2> QED BY <1>2, <2>2, <2>4, <2>5, <2>6, <2>7, <2>8, <2>9 DEF p
<1>8. CASE op = "xor"
  <2>1. k = 2 BY <1>8 DEF Gates, OpsOf
  <2>2. s[1] \in LitsTo(n) /\ s[2] \in LitsTo(n) BY <2>1, <1>3
  <2>3. p[1] = HoldsIn(v, s[1]) /\ p[2] = HoldsIn(v, s[2]) BY <1>1, <2>1
  <2>4. Applied(op, p) <=> p[1] # p[2] BY <1>8 DEF Applied
  <2>5. Define(op, y, s) = {{-y, s[1], s[2]}, {-y, -s[1], -s[2]}, {y, -s[1], s[2]}, {y, s[1], -s[2]}}
    BY <1>8 DEF Define, DefineXor
  <2>6. Meets(v, Define(op, y, s)) <=>
          /\ HoldsIn(v, -y) \/ HoldsIn(v, s[1]) \/ HoldsIn(v, s[2])
          /\ HoldsIn(v, -y) \/ HoldsIn(v, -s[1]) \/ HoldsIn(v, -s[2])
          /\ HoldsIn(v, y) \/ HoldsIn(v, -s[1]) \/ HoldsIn(v, s[2])
          /\ HoldsIn(v, y) \/ HoldsIn(v, s[1]) \/ HoldsIn(v, -s[2])
    BY <2>5 DEF Meets
  <2> QED BY <1>2, <2>2, <2>3, <2>4, <2>6 DEF p
<1>9. CASE op = "iff"
  <2>1. k = 2 BY <1>9 DEF Gates, OpsOf
  <2>2. s[1] \in LitsTo(n) /\ s[2] \in LitsTo(n) BY <2>1, <1>3
  <2>3. p[1] = HoldsIn(v, s[1]) /\ p[2] = HoldsIn(v, s[2]) BY <1>1, <2>1
  <2>4. Applied(op, p) <=> p[1] = p[2] BY <1>9 DEF Applied
  <2>5. Define(op, y, s) = {{-y, -s[1], s[2]}, {-y, s[1], -s[2]}, {y, s[1], s[2]}, {y, -s[1], -s[2]}}
    BY <1>9 DEF Define, DefineIff
  <2>6. Meets(v, Define(op, y, s)) <=>
          /\ HoldsIn(v, -y) \/ HoldsIn(v, -s[1]) \/ HoldsIn(v, s[2])
          /\ HoldsIn(v, -y) \/ HoldsIn(v, s[1]) \/ HoldsIn(v, -s[2])
          /\ HoldsIn(v, y) \/ HoldsIn(v, s[1]) \/ HoldsIn(v, s[2])
          /\ HoldsIn(v, y) \/ HoldsIn(v, -s[1]) \/ HoldsIn(v, -s[2])
    BY <2>5 DEF Meets
  <2> QED BY <1>2, <2>2, <2>3, <2>4, <2>6 DEF p
<1>10. CASE op = "ite"
  <2>1. k = 3 BY <1>10 DEF Gates, OpsOf
  <2>2. s[1] \in LitsTo(n) /\ s[2] \in LitsTo(n) /\ s[3] \in LitsTo(n) BY <2>1, <1>3
  <2>3. p[1] = HoldsIn(v, s[1]) /\ p[2] = HoldsIn(v, s[2]) /\ p[3] = HoldsIn(v, s[3]) BY <1>1, <2>1
  <2>4. Applied(op, p) <=> (IF p[1] THEN p[2] ELSE p[3]) BY <1>10 DEF Applied
  <2>5. Define(op, y, s) = {{-y, -s[1], s[2]}, {-y, s[1], s[3]}, {y, -s[1], -s[2]}, {y, s[1], -s[3]}}
    BY <1>10 DEF Define, DefineIte
  <2>6. Meets(v, Define(op, y, s)) <=>
          /\ HoldsIn(v, -y) \/ HoldsIn(v, -s[1]) \/ HoldsIn(v, s[2])
          /\ HoldsIn(v, -y) \/ HoldsIn(v, s[1]) \/ HoldsIn(v, s[3])
          /\ HoldsIn(v, y) \/ HoldsIn(v, -s[1]) \/ HoldsIn(v, -s[2])
          /\ HoldsIn(v, y) \/ HoldsIn(v, s[1]) \/ HoldsIn(v, -s[3])
    BY <2>5 DEF Meets
  <2> QED BY <1>2, <2>2, <2>3, <2>4, <2>6 DEF p
<1>11. op \in {"and", "or", "implies", "xor", "iff", "ite"} BY DEF Gates, OpsOf
<1> QED BY <1>4, <1>6, <1>7, <1>8, <1>9, <1>10, <1>11

LEMMA SameVal ==
    ASSUME NEW n, NEW v \in Vals(n), NEW w \in Vals(n), \A i \in 1 .. n : v[i] = w[i] PROVE v = w
<1>1. v = [i \in 1 .. n |-> v[i]] /\ w = [i \in 1 .. n |-> w[i]] BY DEF Vals
<1>2. [i \in 1 .. n |-> v[i]] = [i \in 1 .. n |-> w[i]] OBVIOUS
<1> QED BY <1>1, <1>2

-----------------------------------------------------------------------------
(* An encoder in order *)

Enc(cl, ca, tl, n) == [clauses |-> cl, cache |-> ca, trueLit |-> tl, numVars |-> n]
LitsOf(gr, ca, f) == [i \in DOMAIN gr[f].args |-> Lit(gr, ca, gr[f].args[i])]
Encoded(gr, ca, f) == \A i \in DOMAIN gr[f].args : Lit(gr, ca, gr[f].args[i]) # NoLit

\* A cached node: its literal, and its clauses over the literals of its arguments.
NodeDefined(gr, cl, ca, tl, f) ==
    /\ gr[f].op # "not"
    /\ gr[f].op = "true" => tl # NoLit /\ ca[f] = tl
    /\ gr[f].op = "false" => tl # NoLit /\ ca[f] = -tl
    /\ gr[f].op = "atom" => ca[f] > 0
    /\ gr[f].op \notin {"true", "false", "not", "atom"} =>
          Encoded(gr, ca, f) /\ Define(gr[f].op, ca[f], LitsOf(gr, ca, f)) \subseteq cl

AtomsOf(ca) == {ca[f] : f \in 1 .. AtomNodes} \ {NoLit}
Agrees(v, at, ca) == \A x \in AtomsOf(ca) : v[x] = at[x]

EncTyped(cl, ca, tl, n) ==
    /\ Cache(ca, n) /\ tl \in 0 .. n /\ \A c \in cl : c \subseteq LitsTo(n)
    /\ tl # NoLit => {tl} \in cl
    /\ AtomsOf(ca) \subseteq 1 .. n
EncDefined(gr, cl, ca, tl) ==
    \A f \in 1 .. Nodes : ca[f] # NoLit => NodeDefined(gr, cl, ca, tl, f)
\* Whatever the atoms are worth there is one model.
OneModel(cl, ca, n, at) ==
    \E v \in Vals(n) :
        /\ Agrees(v, at, ca)
        /\ \A w \in Vals(n) : Agrees(w, at, ca) => (Meets(w, cl) <=> w = v)
EncUnique(cl, ca, n) == \A at \in [AtomsOf(ca) -> BOOLEAN] : OneModel(cl, ca, n, at)

EncRight(gr, cl, ca, tl, n) ==
    EncTyped(cl, ca, tl, n) /\ EncDefined(gr, cl, ca, tl) /\ EncUnique(cl, ca, n)

\* A node that is cached stays defined when the cache and the clauses grow.
LEMMA DefinedStays ==
    ASSUME NEW gr, GraphFit(gr), NEW cl, NEW ca, NEW tl, NEW n, EncTyped(cl, ca, tl, n),
           NEW dl, NEW da, NEW ul, cl \subseteq dl, tl # NoLit => ul = tl,
           \A g \in 1 .. Nodes : ca[g] # NoLit => da[g] = ca[g],
           NEW f \in 1 .. Nodes, ca[f] # NoLit, NodeDefined(gr, cl, ca, tl, f)
    PROVE  NodeDefined(gr, dl, da, ul, f)
<1>1. da[f] = ca[f] OBVIOUS
<1>2. Cache(ca, n) BY DEF EncTyped
<1>3. \A g \in 1 .. Nodes : Lit(gr, ca, g) # NoLit => Lit(gr, da, g) = Lit(gr, ca, g)
  BY <1>2, LitStays
<1>4. ASSUME gr[f].op \notin {"true", "false", "not", "atom"}
      PROVE  Encoded(gr, da, f) /\ Define(gr[f].op, da[f], LitsOf(gr, da, f)) \subseteq dl
  <2>1. Encoded(gr, ca, f) /\ Define(gr[f].op, ca[f], LitsOf(gr, ca, f)) \subseteq cl
    BY <1>4 DEF NodeDefined
  <2>2. \A i \in DOMAIN gr[f].args : Lit(gr, da, gr[f].args[i]) = Lit(gr, ca, gr[f].args[i])
    BY <1>3, <2>1, ArgsBefore DEF Encoded
  <2>3. LitsOf(gr, da, f) = LitsOf(gr, ca, f) BY <2>2 DEF LitsOf
  <2>4. Encoded(gr, da, f) BY <2>1, <2>2 DEF Encoded
  <2> QED BY <1>1, <2>1, <2>3, <2>4
<1> QED BY <1>1, <1>4 DEF NodeDefined

\* One more variable whose value the clauses fix: still one model.  What fixes it may
\* depend on the values before it.
LEMMA OneMore ==
    ASSUME NEW cl, NEW ca, NEW n \in Nat, \A c \in cl : c \subseteq LitsTo(n),
           AtomsOf(ca) \subseteq 1 .. n, NEW at, OneModel(cl, ca, n, at),
           NEW new, NEW val, \A v \in Vals(n) : val[v] \in BOOLEAN,
           \A w \in Vals(n + 1) : Meets(w, new) <=> w[n + 1] = val[Shorter(w, n)]
    PROVE  OneModel(cl \cup new, ca, n + 1, at)
<1>1. PICK v \in Vals(n) :
          Agrees(v, at, ca) /\ \A w \in Vals(n) : Agrees(w, at, ca) => (Meets(w, cl) <=> w = v)
  BY DEF OneModel
<1> DEFINE u == Longer(v, n, val[v])
<1>2. u \in Vals(n + 1) /\ u[n + 1] = val[v] /\ \A i \in 1 .. n : u[i] = v[i] BY LongerIs
<1> HIDE DEF u
<1>3. Agrees(u, at, ca) BY <1>1, <1>2 DEF Agrees
<1>4. ASSUME NEW w \in Vals(n + 1), Agrees(w, at, ca) PROVE Meets(w, cl \cup new) <=> w = u
  <2>1. Shorter(w, n) \in Vals(n) /\ \A i \in 1 .. n : Shorter(w, n)[i] = w[i] BY ShorterIs
  <2>2. Agrees(Shorter(w, n), at, ca) BY <1>4, <2>1 DEF Agrees
  <2>3. Meets(Shorter(w, n), cl) <=> Meets(w, cl) BY <2>1, SameSat
  <2>4. Meets(w, cl \cup new) <=> Meets(w, cl) /\ Meets(w, new) BY DEF Meets
  <2>5. Meets(w, cl) <=> Shorter(w, n) = v BY <1>1, <2>1, <2>2, <2>3
  <2>6. ASSUME Shorter(w, n) = v, w[n + 1] = val[v] PROVE w = u
    BY <1>2, <2>1, <2>6, SameVals
  <2>7. ASSUME w = u PROVE Shorter(w, n) = v /\ w[n + 1] = val[v]
    <3>1. \A i \in 1 .. n : Shorter(w, n)[i] = v[i] BY <1>2, <2>1, <2>7
    <3>2. Shorter(w, n) = v BY <2>1, <3>1, SameVal
    <3> QED BY <1>2, <2>7, <3>2
  <2> QED BY <2>4, <2>5, <2>6, <2>7
<1> QED BY <1>2, <1>3, <1>4 DEF OneModel

\* A new atom: its variable is free.
LEMMA NewAtom ==
    ASSUME NEW gr, GraphFit(gr), NEW cl, NEW ca, NEW tl, NEW n, EncRight(gr, cl, ca, tl, n),
           NEW f \in 1 .. Nodes, gr[f].op = "atom", ca[f] = NoLit
    PROVE  EncRight(gr, cl, [ca EXCEPT ![f] = n + 1], tl, n + 1)
<1> DEFINE da == [ca EXCEPT ![f] = n + 1]
<1>1. n \in Nat /\ ca \in [1 .. Nodes -> -n .. n] /\ tl \in 0 .. n /\ (\A c \in cl : c \subseteq LitsTo(n))
      /\ (tl # NoLit => {tl} \in cl) /\ AtomsOf(ca) \subseteq 1 .. n /\ EncTyped(cl, ca, tl, n)
  BY DEF EncRight, EncTyped, Cache
<1>2. f \in 1 .. AtomNodes
  <2>1. f <= AtomNodes BY DEF GraphFit, NodeFit
  <2> QED BY <2>1, TseitinAssumption
<1>3. da \in [1 .. Nodes -> -(n + 1) .. n + 1] /\ da[f] = n + 1 /\ \A g \in 1 .. Nodes : g # f => da[g] = ca[g]
  BY <1>1
<1>4. \A g \in 1 .. AtomNodes : g \in 1 .. Nodes BY TseitinAssumption
<1> HIDE DEF da
<1>5. AtomsOf(da) = AtomsOf(ca) \cup {n + 1} BY <1>1, <1>2, <1>3, <1>4 DEF AtomsOf, NoLit
<1>6. EncTyped(cl, da, tl, n + 1)
  <2>1. \A c \in cl : c \subseteq LitsTo(n + 1) BY <1>1, LitsGrow
  <2>2. AtomsOf(da) \subseteq 1 .. n + 1 BY <1>1, <1>5
  <2> QED BY <1>1, <1>3, <2>1, <2>2 DEF EncTyped, Cache
<1>7. EncDefined(gr, cl, da, tl)
  <2>1. \A g \in 1 .. Nodes : ca[g] # NoLit => da[g] = ca[g] BY <1>3
  <2>2. ASSUME NEW g \in 1 .. Nodes, da[g] # NoLit PROVE NodeDefined(gr, cl, da, tl, g)
    <3>1. CASE g = f BY <1>1, <1>3, <3>1 DEF NodeDefined
    <3>2. CASE g # f
      <4>1. ca[g] # NoLit BY <1>3, <2>2, <3>2
      <4>2. NodeDefined(gr, cl, ca, tl, g) BY <4>1 DEF EncRight, EncDefined
      <4> QED BY <1>1, <2>1, <4>1, <4>2, DefinedStays
    <3> QED BY <3>1, <3>2
  <2> QED BY <2>2 DEF EncDefined
<1>8. EncUnique(cl, da, n + 1)
  <2> SUFFICES ASSUME NEW at \in [AtomsOf(da) -> BOOLEAN] PROVE OneModel(cl, da, n + 1, at)
    BY DEF EncUnique
  <2> DEFINE b == [x \in AtomsOf(ca) |-> at[x]]
  <2>1. b \in [AtomsOf(ca) -> BOOLEAN] /\ \A x \in AtomsOf(ca) : b[x] = at[x] BY <1>5
  <2> HIDE DEF b
  <2>2. PICK v \in Vals(n) :
            Agrees(v, b, ca) /\ \A w \in Vals(n) : Agrees(w, b, ca) => (Meets(w, cl) <=> w = v)
    BY <2>1 DEF EncRight, EncUnique, OneModel
  <2>3. at[n + 1] \in BOOLEAN BY <1>5
  <2> DEFINE u == Longer(v, n, at[n + 1])
  <2>4. u \in Vals(n + 1) /\ u[n + 1] = at[n + 1] /\ \A i \in 1 .. n : u[i] = v[i] BY <1>1, <2>3, LongerIs
  <2> HIDE DEF u
  <2>5. Agrees(u, at, da) BY <1>1, <1>5, <2>1, <2>2, <2>4 DEF Agrees
  <2>6. ASSUME NEW w \in Vals(n + 1), Agrees(w, at, da) PROVE Meets(w, cl) <=> w = u
    <3>1. Shorter(w, n) \in Vals(n) /\ \A i \in 1 .. n : Shorter(w, n)[i] = w[i] BY <1>1, ShorterIs
    <3>2. Agrees(Shorter(w, n), b, ca) BY <1>1, <1>5, <2>1, <2>6, <3>1 DEF Agrees
    <3>3. Meets(Shorter(w, n), cl) <=> Meets(w, cl) BY <1>1, <3>1, SameSat
    <3>4. w[n + 1] = at[n + 1] BY <1>5, <2>6 DEF Agrees
    <3>5. ASSUME Shorter(w, n) = v PROVE w = u BY <1>1, <2>4, <3>1, <3>4, <3>5, SameVals
    <3>6. ASSUME w = u PROVE Shorter(w, n) = v
      <4>1. \A i \in 1 .. n : Shorter(w, n)[i] = v[i] BY <2>4, <3>1, <3>6
      <4> QED BY <3>1, <4>1, SameVal
    <3> QED BY <2>2, <3>1, <3>2, <3>3, <3>5, <3>6
  <2> QED BY <2>4, <2>5, <2>6 DEF OneModel
<1> QED BY <1>6, <1>7, <1>8 DEF EncRight, da

\* A new gate: its variable is worth what the gate says.
LEMMA NewGate ==
    ASSUME NEW gr, GraphFit(gr), NEW cl, NEW ca, NEW tl, NEW n, EncRight(gr, cl, ca, tl, n),
           NEW f \in 1 .. Nodes, gr[f].op \notin {"true", "false", "not", "atom"}, ca[f] = NoLit,
           Encoded(gr, ca, f)
    PROVE  EncRight(gr, cl \cup Define(gr[f].op, n + 1, LitsOf(gr, ca, f)),
                    [ca EXCEPT ![f] = n + 1], tl, n + 1)
<1> DEFINE da == [ca EXCEPT ![f] = n + 1]
           op == gr[f].op
           s == LitsOf(gr, ca, f)
           new == Define(op, n + 1, s)
<1>1. n \in Nat /\ ca \in [1 .. Nodes -> -n .. n] /\ tl \in 0 .. n /\ (\A c \in cl : c \subseteq LitsTo(n))
      /\ (tl # NoLit => {tl} \in cl) /\ AtomsOf(ca) \subseteq 1 .. n /\ EncTyped(cl, ca, tl, n)
  BY DEF EncRight, EncTyped, Cache
<1>2. PICK k \in Nat : /\ gr[f].args \in [1 .. k -> 1 .. f - 1] /\ op \in OpsOf(k) /\ ~(f <= AtomNodes)
  BY DEF GraphFit, NodeFit
<1>3. op \in Gates(k) BY <1>2 DEF Gates
<1>4. da \in [1 .. Nodes -> -(n + 1) .. n + 1] /\ da[f] = n + 1 /\ \A g \in 1 .. Nodes : g # f => da[g] = ca[g]
  BY <1>1
<1>5. s \in [1 .. k -> LitsTo(n)]
  <2>1. DOMAIN gr[f].args = 1 .. k BY <1>2
  <2>2. \A i \in 1 .. k : Lit(gr, ca, gr[f].args[i]) \in LitsTo(n)
    <3>1. \A i \in 1 .. k : gr[f].args[i] \in 1 .. Nodes BY <2>1, ArgsBefore
    <3>2. \A g \in 1 .. Nodes : Lit(gr, ca, g) \in -n .. n BY <1>1, LitTyped DEF Cache
    <3> QED BY <2>1, <3>1, <3>2 DEF Encoded, LitsTo, NoLit
  <2> QED BY <2>1, <2>2 DEF LitsOf
<1>6. n + 1 \in LitsTo(n + 1) /\ s \in [1 .. k -> LitsTo(n + 1)]
  <2>1. n + 1 \in LitsTo(n + 1) BY <1>1 DEF LitsTo
  <2>2. LitsTo(n) \subseteq LitsTo(n + 1) BY <1>1, LitsGrow
  <2> HIDE DEF s
  <2> QED BY <1>5, <2>1, <2>2
<1> HIDE DEF da, op, s, new
<1>7. AtomsOf(da) = AtomsOf(ca)
  <2>1. \A g \in 1 .. AtomNodes : g \in 1 .. Nodes /\ g # f BY <1>2, TseitinAssumption
  <2> QED BY <1>4, <2>1 DEF AtomsOf
<1>8. \A c \in new : c \subseteq LitsTo(n + 1)
  <2>1. \A l \in LitsTo(n + 1) : -l \in LitsTo(n + 1)
    <3> DEFINE m == n + 1
    <3>1. m \in Nat BY <1>1
    <3> HIDE DEF m
    <3>2. \A l \in LitsTo(m) : -l \in LitsTo(m) BY <3>1 DEF LitsTo
    <3> QED BY <3>2 DEF m
  <2>2. \A i \in 1 .. k : s[i] \in LitsTo(n + 1) /\ -s[i] \in LitsTo(n + 1) BY <1>6, <2>1
  <2>3. DOMAIN s = 1 .. k /\ Literals(s) \subseteq LitsTo(n + 1) /\ \A l \in Literals(s) : -l \in LitsTo(n + 1)
    BY <1>6, <2>1 DEF Literals
  <2>4. n + 1 \in LitsTo(n + 1) /\ -(n + 1) \in LitsTo(n + 1) BY <1>6, <2>1
  <2> DEFINE y == n + 1
  <2>5. y \in LitsTo(n + 1) /\ -y \in LitsTo(n + 1) BY <2>4
  <2>6. new = Define(op, y, s) BY DEF new
  <2> HIDE DEF y
  <2>7. CASE op = "and" BY <2>3, <2>5, <2>6, <2>7 DEF Define, DefineAnd
  <2>8. CASE op = "or" BY <2>3, <2>5, <2>6, <2>8 DEF Define, DefineOr
  <2>9. CASE op = "implies"
    <3>1. k = 2 BY <1>3, <2>9 DEF Gates, OpsOf
    <3>2. Define(op, y, s) = DefineOr(y, <<-s[1], s[2]>>) BY <2>9 DEF Define
    <3>3. Literals(<<-s[1], s[2]>>) = {-s[1], s[2]} BY DEF Literals
    <3>4. s[1] \in LitsTo(n + 1) /\ -s[1] \in LitsTo(n + 1) /\ s[2] \in LitsTo(n + 1) /\ -s[2] \in LitsTo(n + 1)
          /\ -(-s[1]) \in LitsTo(n + 1)
      BY <2>1, <2>2, <3>1
    <3> QED BY <2>5, <2>6, <3>2, <3>3, <3>4 DEF DefineOr
  <2>10. CASE op \in {"xor", "iff", "ite"}
    <3>1. k = 2 \/ k = 3 BY <1>3, <2>10 DEF Gates, OpsOf
    <3>2. op = "ite" => k = 3 BY <1>3, <2>10 DEF Gates, OpsOf
    <3>3. /\ s[1] \in LitsTo(n + 1) /\ -s[1] \in LitsTo(n + 1) /\ s[2] \in LitsTo(n + 1) /\ -s[2] \in LitsTo(n + 1)
          /\ op = "ite" => s[3] \in LitsTo(n + 1) /\ -s[3] \in LitsTo(n + 1)
      BY <2>2, <3>1, <3>2
    <3> QED BY <2>5, <2>6, <2>10, <3>3 DEF Define, DefineXor, DefineIff, DefineIte
  <2>11. op \in {"and", "or", "implies", "xor", "iff", "ite"} BY <1>3 DEF Gates, OpsOf
  <2> QED BY <2>7, <2>8, <2>9, <2>10, <2>11
<1>9. EncTyped(cl \cup new, da, tl, n + 1)
  <2>1. \A c \in cl : c \subseteq LitsTo(n + 1) BY <1>1, LitsGrow
  <2>2. AtomsOf(da) \subseteq 1 .. n + 1 BY <1>1, <1>7
  <2>3. \A c \in cl \cup new : c \subseteq LitsTo(n + 1) BY <1>8, <2>1
  <2> QED BY <1>1, <1>4, <2>2, <2>3 DEF EncTyped, Cache
<1>10. EncDefined(gr, cl \cup new, da, tl)
  <2>1. \A g \in 1 .. Nodes : ca[g] # NoLit => da[g] = ca[g] BY <1>4
  <2>2. ASSUME NEW g \in 1 .. Nodes, da[g] # NoLit PROVE NodeDefined(gr, cl \cup new, da, tl, g)
    <3>1. CASE g = f
      <4>1. Cache(ca, n) BY <1>1 DEF Cache
      <4>2. \A h \in 1 .. Nodes : Lit(gr, ca, h) # NoLit => Lit(gr, da, h) = Lit(gr, ca, h)
        BY <2>1, <4>1, LitStays
      <4>3. \A i \in DOMAIN gr[f].args : Lit(gr, da, gr[f].args[i]) = Lit(gr, ca, gr[f].args[i])
        BY <4>2, ArgsBefore DEF Encoded
      <4>4. LitsOf(gr, da, f) = s BY <4>3 DEF LitsOf, s
      <4>5. Encoded(gr, da, f) BY <4>3 DEF Encoded
      <4> QED BY <1>4, <3>1, <4>4, <4>5 DEF NodeDefined, new, op
    <3>2. CASE g # f
      <4>1. ca[g] # NoLit BY <1>4, <2>2, <3>2
      <4>2. NodeDefined(gr, cl, ca, tl, g) BY <4>1 DEF EncRight, EncDefined
      <4> QED BY <1>1, <2>1, <4>1, <4>2, DefinedStays
    <3> QED BY <3>1, <3>2
  <2> QED BY <2>2 DEF EncDefined
<1>11. EncUnique(cl \cup new, da, n + 1)
  <2> SUFFICES ASSUME NEW at \in [AtomsOf(da) -> BOOLEAN] PROVE OneModel(cl \cup new, da, n + 1, at)
    BY DEF EncUnique
  <2>1. OneModel(cl, ca, n, at) BY <1>7 DEF EncRight, EncUnique
  <2> DEFINE val == [v \in Vals(n) |-> IF Applied(op, Values(v, s)) THEN TRUE ELSE FALSE]
  <2>2. \A v \in Vals(n) : val[v] \in BOOLEAN /\ (val[v] <=> Applied(op, Values(v, s))) OBVIOUS
  <2> HIDE DEF val
  <2>3. ASSUME NEW w \in Vals(n + 1) PROVE Meets(w, new) <=> w[n + 1] = val[Shorter(w, n)]
    <3>1. Shorter(w, n) \in Vals(n) /\ \A i \in 1 .. n : Shorter(w, n)[i] = w[i] BY <1>1, ShorterIs
    <3>2. \A i \in 1 .. k : HoldsIn(Shorter(w, n), s[i]) = HoldsIn(w, s[i])
      <4>1. ASSUME NEW i \in 1 .. k PROVE HoldsIn(Shorter(w, n), s[i]) = HoldsIn(w, s[i])
        <5> DEFINE l == s[i]
                   v == Shorter(w, n)
        <5>1. l \in LitsTo(n) BY <1>5
        <5>2. \A j \in 1 .. n : v[j] = w[j] BY <3>1
        <5>4. n \in Nat BY <1>1
        <5> HIDE DEF l, v
        <5>3. HoldsIn(v, l) = HoldsIn(w, l) BY ONLY <5>4, <5>1, <5>2, SameHolds
        <5> QED BY <5>3 DEF l, v
      <4> QED BY <4>1
    <3>3. Values(Shorter(w, n), s) = Values(w, s)
      <4>1. DOMAIN s = 1 .. k BY <1>5
      <4> QED BY <3>2, <4>1 DEF Values
    <3>4. Meets(w, new) <=> (HoldsIn(w, n + 1) <=> Applied(op, Values(w, s)))
      <4>1. n + 1 \in Nat BY <1>1
      <4> QED BY <1>3, <1>6, <4>1, DefineMeans DEF new
    <3>5. HoldsIn(w, n + 1) = w[n + 1] /\ w[n + 1] \in BOOLEAN
      <4>1. n + 1 > 0 /\ n + 1 \in 1 .. n + 1 BY <1>1
      <4> QED BY <4>1 DEF HoldsIn, Vals
    <3> QED BY <2>2, <3>1, <3>3, <3>4, <3>5
  <2>4. OneModel(cl \cup new, ca, n + 1, at) BY <1>1, <2>1, <2>2, <2>3, OneMore
  <2> QED BY <2>4, <1>7 DEF OneModel, Agrees
<1> QED BY <1>9, <1>10, <1>11 DEF EncRight, da, new, op, s

\* The true literal is made: its clause fixes it.
LEMMA NewTrue ==
    ASSUME NEW gr, GraphFit(gr), NEW cl, NEW ca, NEW n, EncRight(gr, cl, ca, NoLit, n)
    PROVE  EncRight(gr, cl \cup {{n + 1}}, ca, n + 1, n + 1)
<1>1. n \in Nat /\ ca \in [1 .. Nodes -> -n .. n] /\ (\A c \in cl : c \subseteq LitsTo(n))
      /\ AtomsOf(ca) \subseteq 1 .. n /\ EncTyped(cl, ca, NoLit, n)
  BY DEF EncRight, EncTyped, Cache
<1>2. EncTyped(cl \cup {{n + 1}}, ca, n + 1, n + 1)
  <2>1. \A c \in cl : c \subseteq LitsTo(n + 1) BY <1>1, LitsGrow
  <2>2. {n + 1} \subseteq LitsTo(n + 1) BY <1>1 DEF LitsTo
  <2>3. \A c \in cl \cup {{n + 1}} : c \subseteq LitsTo(n + 1) BY <2>1, <2>2
  <2>4. ca \in [1 .. Nodes -> -(n + 1) .. n + 1]
    <3>1. -n .. n \subseteq -(n + 1) .. n + 1 BY <1>1
    <3> QED BY <1>1, <3>1
  <2>5. AtomsOf(ca) \subseteq 1 .. n + 1 BY <1>1
  <2> QED BY <1>1, <2>3, <2>4, <2>5 DEF EncTyped, Cache
<1>3. EncDefined(gr, cl \cup {{n + 1}}, ca, n + 1)
  <2>1. ASSUME NEW g \in 1 .. Nodes, ca[g] # NoLit PROVE NodeDefined(gr, cl \cup {{n + 1}}, ca, n + 1, g)
    <3>1. NodeDefined(gr, cl, ca, NoLit, g) BY <2>1 DEF EncRight, EncDefined
    <3> DEFINE dl == cl \cup {{n + 1}}
               ul == n + 1
    <3>2. cl \subseteq dl /\ EncTyped(cl, ca, NoLit, n) BY <1>1
    <3> HIDE DEF dl, ul
    <3>3. NodeDefined(gr, dl, ca, ul, g) BY <2>1, <3>1, <3>2, DefinedStays
    <3> QED BY <3>3 DEF dl, ul
  <2> QED BY <2>1 DEF EncDefined
<1>4. EncUnique(cl \cup {{n + 1}}, ca, n + 1)
  <2> SUFFICES ASSUME NEW at \in [AtomsOf(ca) -> BOOLEAN] PROVE OneModel(cl \cup {{n + 1}}, ca, n + 1, at)
    BY DEF EncUnique
  <2>1. OneModel(cl, ca, n, at) BY DEF EncRight, EncUnique
  <2> DEFINE val == [v \in Vals(n) |-> TRUE]
             new == {{n + 1}}
  <2>2. \A v \in Vals(n) : val[v] = TRUE /\ val[v] \in BOOLEAN OBVIOUS
  <2> HIDE DEF val
  <2>3. ASSUME NEW w \in Vals(n + 1) PROVE Meets(w, new) <=> w[n + 1] = val[Shorter(w, n)]
    <3>1. Shorter(w, n) \in Vals(n) BY <1>1, ShorterIs
    <3>2. HoldsIn(w, n + 1) = w[n + 1] /\ w[n + 1] \in BOOLEAN
      <4>1. n + 1 > 0 /\ n + 1 \in 1 .. n + 1 BY <1>1
      <4> QED BY <4>1 DEF HoldsIn, Vals
    <3>3. Meets(w, new) <=> HoldsIn(w, n + 1) BY DEF Meets
    <3> QED BY <2>2, <3>1, <3>2, <3>3
  <2> HIDE DEF new
  <2>4. OneModel(cl \cup new, ca, n + 1, at) BY <1>1, <2>1, <2>2, <2>3, OneMore
  <2> QED BY <2>4 DEF new
<1> QED BY <1>2, <1>3, <1>4 DEF EncRight

\* A truth value is cached with the true literal.
LEMMA NewConstant ==
    ASSUME NEW gr, GraphFit(gr), NEW cl, NEW ca, NEW tl, NEW n, EncRight(gr, cl, ca, tl, n), tl # NoLit,
           NEW f \in 1 .. Nodes, ca[f] = NoLit, NEW x,
           \/ gr[f].op = "true" /\ x = tl
           \/ gr[f].op = "false" /\ x = -tl
    PROVE  EncRight(gr, cl, [ca EXCEPT ![f] = x], tl, n) /\ x # NoLit
<1> DEFINE da == [ca EXCEPT ![f] = x]
<1>1. n \in Nat /\ ca \in [1 .. Nodes -> -n .. n] /\ tl \in 0 .. n /\ (\A c \in cl : c \subseteq LitsTo(n))
      /\ (tl # NoLit => {tl} \in cl) /\ AtomsOf(ca) \subseteq 1 .. n /\ EncTyped(cl, ca, tl, n)
  BY DEF EncRight, EncTyped, Cache
<1>2. x \in -n .. n /\ x # NoLit BY <1>1 DEF NoLit
<1>3. da \in [1 .. Nodes -> -n .. n] /\ da[f] = x /\ \A g \in 1 .. Nodes : g # f => da[g] = ca[g]
  BY <1>1, <1>2
<1> HIDE DEF da
<1>4. AtomsOf(da) = AtomsOf(ca)
  <2>1. ~(f <= AtomNodes) BY DEF GraphFit, NodeFit
  <2>2. \A g \in 1 .. AtomNodes : g \in 1 .. Nodes /\ g # f BY <2>1, TseitinAssumption
  <2> QED BY <1>3, <2>2 DEF AtomsOf
<1>5. EncTyped(cl, da, tl, n) BY <1>1, <1>3, <1>4 DEF EncTyped, Cache
<1>6. EncDefined(gr, cl, da, tl)
  <2>1. \A g \in 1 .. Nodes : ca[g] # NoLit => da[g] = ca[g] BY <1>3
  <2>2. ASSUME NEW g \in 1 .. Nodes, da[g] # NoLit PROVE NodeDefined(gr, cl, da, tl, g)
    <3>1. CASE g = f BY <1>3, <3>1 DEF NodeDefined
    <3>2. CASE g # f
      <4>1. ca[g] # NoLit BY <1>3, <2>2, <3>2
      <4>2. NodeDefined(gr, cl, ca, tl, g) BY <4>1 DEF EncRight, EncDefined
      <4> QED BY <1>1, <2>1, <4>1, <4>2, DefinedStays
    <3> QED BY <3>1, <3>2
  <2> QED BY <2>2 DEF EncDefined
<1>7. EncUnique(cl, da, n) BY <1>4 DEF EncRight, EncUnique, OneModel, Agrees
<1> QED BY <1>2, <1>5, <1>6, <1>7 DEF EncRight, da

-----------------------------------------------------------------------------
(* encode_more *)

Right(gr, E) ==
    /\ E = Enc(E.clauses, E.cache, E.trueLit, E.numVars)
    /\ EncRight(gr, E.clauses, E.cache, E.trueLit, E.numVars)
Grows(E, F) == \A g \in 1 .. Nodes : E.cache[g] # NoLit => F.cache[g] = E.cache[g]

LEMMA EncRightIs ==
    ASSUME NEW gr, NEW cl, NEW ca, NEW tl, NEW n, EncRight(gr, cl, ca, tl, n)
    PROVE  /\ Right(gr, Enc(cl, ca, tl, n)) /\ Enc(cl, ca, tl, n).cache = ca
           /\ Enc(cl, ca, tl, n).trueLit = tl
  BY DEF Right, Enc

LEMMA TrueMade ==
    ASSUME NEW gr, GraphFit(gr), NEW E, Right(gr, E)
    PROVE  /\ Right(gr, WithTrue(E)) /\ WithTrue(E).cache = E.cache
           /\ WithTrue(E).trueLit # NoLit
<1> DEFINE cl == E.clauses
           ca == E.cache
           tl == E.trueLit
           n == E.numVars
<1>1. E = Enc(cl, ca, tl, n) /\ EncRight(gr, cl, ca, tl, n) BY DEF Right
<1>2. CASE tl # NoLit BY <1>2 DEF WithTrue
<1>3. CASE tl = NoLit
  <2>1. WithTrue(E) = Enc(cl \cup {{n + 1}}, ca, n + 1, n + 1)
    <3>1. WithTrue(E) = [E EXCEPT !.numVars = E.numVars + 1, !.trueLit = E.numVars + 1,
                                  !.clauses = E.clauses \cup {{E.numVars + 1}}]
      BY <1>3 DEF WithTrue
    <3>2. E = [clauses |-> E.clauses, cache |-> E.cache, trueLit |-> E.trueLit, numVars |-> E.numVars]
      BY <1>1 DEF Enc
    <3> QED BY <3>1, <3>2 DEF Enc
  <2>2. n \in Nat BY <1>1 DEF EncRight, EncTyped, Cache
  <2> HIDE DEF cl, ca, tl, n
  <2>3. EncRight(gr, cl \cup {{n + 1}}, ca, n + 1, n + 1) BY <1>1, <1>3, NewTrue
  <2>4. n + 1 # NoLit BY <2>2 DEF NoLit
  <2>5. Right(gr, WithTrue(E)) /\ WithTrue(E).cache = ca /\ WithTrue(E).trueLit = n + 1
    BY <2>1, <2>3, EncRightIs
  <2> QED BY <2>4, <2>5 DEF ca
<1> QED BY <1>2, <1>3

LEMMA NodeEncoded ==
    ASSUME GraphFit(graph), NEW f \in 1 .. Nodes, NEW E, Right(graph, E), Encoded(graph, E.cache, f)
    PROVE  /\ Right(graph, EncodeNode(E, f)) /\ Grows(E, EncodeNode(E, f))
           /\ Lit(graph, EncodeNode(E, f).cache, f) # NoLit
<1> DEFINE op == graph[f].op
<1>1. CASE op = "not"
  <2>1. EncodeNode(E, f) = E BY <1>1 DEF EncodeNode
  <2>2. Lit(graph, E.cache, f) = -Lit(graph, E.cache, graph[f].args[1]) BY <1>1, LitIs
  <2>3. Lit(graph, E.cache, graph[f].args[1]) # NoLit BY <1>1, NotIs DEF Encoded
  <2>4. Lit(graph, E.cache, graph[f].args[1]) \in Int
    <3>1. Cache(E.cache, E.numVars) BY DEF Right, EncRight, EncTyped
    <3>2. Lit(graph, E.cache, graph[f].args[1]) \in -E.numVars .. E.numVars BY <1>1, <3>1, NotIs, LitTyped
    <3> QED BY <3>1, <3>2 DEF Cache
  <2>5. Lit(graph, E.cache, f) # NoLit BY <2>2, <2>3, <2>4 DEF NoLit
  <2> QED BY <2>1, <2>5 DEF Grows
<1>2. CASE op # "not" /\ E.cache[f] # NoLit
  <2>1. EncodeNode(E, f) = E BY <1>2 DEF EncodeNode
  <2>2. Lit(graph, E.cache, f) = E.cache[f] BY <1>2, LitIs
  <2> QED BY <1>2, <2>1, <2>2 DEF Grows
<1>3. CASE op \in {"true", "false"} /\ E.cache[f] = NoLit
  <2> DEFINE W == WithTrue(E)
             x == IF op = "true" THEN W.trueLit ELSE -W.trueLit
             da == [W.cache EXCEPT ![f] = x]
  <2>1. Right(graph, W) /\ W.cache = E.cache /\ W.trueLit # NoLit BY TrueMade
  <2>2. EncodeNode(E, f) = [W EXCEPT !.cache[f] = x] BY <1>3 DEF EncodeNode
  <2> HIDE DEF W
  <2>3. W = Enc(W.clauses, W.cache, W.trueLit, W.numVars)
        /\ EncRight(graph, W.clauses, W.cache, W.trueLit, W.numVars)
    BY <2>1 DEF Right
  <2>4. EncodeNode(E, f) = Enc(W.clauses, da, W.trueLit, W.numVars)
    BY <2>2, <2>3 DEF Enc
  <2>5. EncRight(graph, W.clauses, da, W.trueLit, W.numVars) /\ x # NoLit
    BY <1>3, <2>1, <2>3, NewConstant
  <2>6. Right(graph, EncodeNode(E, f)) /\ EncodeNode(E, f).cache = da
    BY <2>4, <2>5, EncRightIs
  <2>7. da[f] = x /\ \A g \in 1 .. Nodes : g # f => da[g] = E.cache[g]
    <3>1. E.cache \in [1 .. Nodes -> -E.numVars .. E.numVars] BY DEF Right, EncRight, EncTyped, Cache
    <3> QED BY <2>1, <3>1
  <2> HIDE DEF da, x
  <2>8. Lit(graph, da, f) = da[f] BY <1>3, LitIs
  <2>9. Grows(E, EncodeNode(E, f)) BY <1>3, <2>6, <2>7 DEF Grows
  <2> QED BY <2>5, <2>6, <2>7, <2>8, <2>9
<1>4. CASE op \notin {"true", "false", "not"} /\ E.cache[f] = NoLit
  <2> DEFINE n == E.numVars
             ca == E.cache
             cl == E.clauses
             tl == E.trueLit
             da == [ca EXCEPT ![f] = n + 1]
             lits == [i \in DOMAIN graph[f].args |-> LitOf(E, graph[f].args[i])]
             dl == cl \cup Define(op, n + 1, lits)
  <2>1. lits = LitsOf(graph, ca, f) BY DEF LitsOf, LitOf, Lit
  <2>2. EncodeNode(E, f) = [E EXCEPT !.numVars = n + 1, !.cache[f] = n + 1, !.clauses = E.clauses \cup Define(op, n + 1, lits)]
    BY <1>4 DEF EncodeNode
  <2>3. E = Enc(cl, ca, tl, n) /\ EncRight(graph, cl, ca, tl, n) BY DEF Right
  <2>4. EncodeNode(E, f) = Enc(dl, da, tl, n + 1)
    <3> DEFINE more == Define(op, n + 1, lits)
    <3> HIDE DEF more
    <3>1. EncodeNode(E, f) = [E EXCEPT !.numVars = n + 1, !.cache[f] = n + 1, !.clauses = E.clauses \cup more]
      BY <2>2 DEF more
    <3>2. EncodeNode(E, f) = Enc(cl \cup more, da, tl, n + 1) BY <3>1, <2>3 DEF Enc
    <3> QED BY <3>2 DEF more
  <2>5. ca \in [1 .. Nodes -> -n .. n] /\ n \in Nat BY DEF Right, EncRight, EncTyped, Cache
  <2>6. da[f] = n + 1 /\ \A g \in 1 .. Nodes : g # f => da[g] = E.cache[g]
    BY <2>5
  <2>7. EncRight(graph, dl, da, tl, n + 1)
    <3>1. CASE op = "atom"
      <4>1. EncRight(graph, cl, da, tl, n + 1) BY <1>4, <2>3, <3>1, NewAtom
      <4>2. dl = cl BY <3>1 DEF Define
      <4> QED BY <4>1, <4>2
    <3>2. CASE op # "atom"
      <4> HIDE DEF lits, ca
      <4> QED BY <1>4, <2>1, <2>3, <3>2, NewGate DEF ca
    <3> QED BY <3>1, <3>2
  <2> HIDE DEF dl
  <2>8. Right(graph, EncodeNode(E, f)) /\ EncodeNode(E, f).cache = da
    <3> HIDE DEF da, tl, n
    <3> QED BY <2>4, <2>7, EncRightIs
  <2> HIDE DEF da
  <2>9. Lit(graph, da, f) = da[f] BY <1>4, LitIs
  <2>10. Grows(E, EncodeNode(E, f)) BY <1>4, <2>6, <2>8 DEF Grows
  <2>11. da[f] # NoLit BY <2>5, <2>6 DEF NoLit
  <2> QED BY <2>8, <2>9, <2>10, <2>11
<1> QED BY <1>1, <1>2, <1>3, <1>4

\* The nodes below a node: itself and what is below its arguments.
ReachStep(gr, g, T) == {g} \cup UNION {T[h] : h \in Literals(gr[g].args)}
ReachRun(gr, m, T) == T = [g \in 1 .. m |-> ReachStep(gr, g, T)]

LEMMA ReachStepSame ==
    ASSUME NEW gr, NEW g, NEW T, NEW U, \A h \in Literals(gr[g].args) : T[h] = U[h]
    PROVE  ReachStep(gr, g, T) = ReachStep(gr, g, U)
<1>1. {T[h] : h \in Literals(gr[g].args)} = {U[h] : h \in Literals(gr[g].args)} OBVIOUS
<1> QED BY <1>1 DEF ReachStep

LEMMA LiteralsBefore ==
    ASSUME NEW gr, GraphFit(gr), NEW g \in 1 .. Nodes, NEW h \in Literals(gr[g].args)
    PROVE  h \in 1 .. g - 1 /\ h \in 1 .. Nodes
<1>1. PICK i \in DOMAIN gr[g].args : h = gr[g].args[i] BY DEF Literals
<1> QED BY <1>1, ArgsBefore

LEMMA ReachRuns == ASSUME NEW gr, GraphFit(gr) PROVE \E T : ReachRun(gr, Nodes, T)
<1> DEFINE S == {m \in Nat : m <= Nodes => \E T : ReachRun(gr, m, T)}
<1>0. Nodes \in Nat BY TseitinAssumption
<1>1. 0 \in S
  <2> DEFINE T == [g \in {} |-> {}]
  <2>1. T = [g \in {} |-> ReachStep(gr, g, T)] OBVIOUS
  <2>2. 1 .. 0 = {} OBVIOUS
  <2>3. ReachRun(gr, 0, T)
    <3> HIDE DEF T
    <3> QED BY <2>1, <2>2 DEF ReachRun
  <2> QED BY <2>3
<1>2. ASSUME NEW m \in Nat, m \in S PROVE m + 1 \in S
  <2> SUFFICES ASSUME m + 1 <= Nodes PROVE \E T : ReachRun(gr, m + 1, T) OBVIOUS
  <2>1. PICK T : ReachRun(gr, m, T) BY <1>0, <1>2
  <2> DEFINE U == [g \in 1 .. m + 1 |-> IF g = m + 1 THEN ReachStep(gr, g, T) ELSE T[g]]
  <2>2. \A g \in 1 .. m : U[g] = T[g] OBVIOUS
  <2>3. \A g \in 1 .. m : T[g] = ReachStep(gr, g, T) BY <2>1 DEF ReachRun
  <2>4. \A g \in 1 .. m + 1 : U[g] = ReachStep(gr, g, T)
    <3>1. \A g \in 1 .. m + 1 : g = m + 1 \/ g \in 1 .. m OBVIOUS
    <3> QED BY <2>3, <3>1
  <2>5. U = [g \in 1 .. m + 1 |-> U[g]] OBVIOUS
  <2> HIDE DEF U
  <2>6. ASSUME NEW g \in 1 .. m + 1 PROVE U[g] = ReachStep(gr, g, U)
    <3>1. g \in 1 .. Nodes BY <1>0
    <3>2. \A h \in Literals(gr[g].args) : h \in 1 .. m BY <3>1, LiteralsBefore
    <3>3. ReachStep(gr, g, T) = ReachStep(gr, g, U) BY <3>2, <2>2, ReachStepSame
    <3> QED BY <2>4, <3>3
  <2>7. U = [g \in 1 .. m + 1 |-> ReachStep(gr, g, U)] BY <2>5, <2>6
  <2> QED BY <2>7 DEF ReachRun
<1>3. Nat \subseteq S
  <2> HIDE DEF S
  <2> QED BY <1>1, <1>2, NatInductive
<1> QED BY <1>0, <1>3

LEMMA BelowIs ==
    ASSUME GraphFit(graph), NEW f \in 1 .. Nodes
    PROVE  /\ f \in Below(f)
           /\ \A g \in Below(f) : g \in 1 .. Nodes /\ \A i \in DOMAIN graph[g].args : graph[g].args[i] \in Below(f)
<1>0. Nodes \in Nat BY TseitinAssumption
<1> DEFINE R == CHOOSE U : U = [g \in 1 .. Nodes |-> ReachStep(graph, g, U)]
<1>1. \A g : Below(g) = R[g] BY DEF Below, ReachStep
<1>2. \E U : U = [g \in 1 .. Nodes |-> ReachStep(graph, g, U)] BY ReachRuns DEF ReachRun
<1>3. R = [g \in 1 .. Nodes |-> ReachStep(graph, g, R)] BY <1>2
<1> HIDE DEF R
<1>4. \A g \in 1 .. Nodes : R[g] = ReachStep(graph, g, R) BY <1>3
<1> DEFINE Closed(x) == \A g \in R[x] : g \in 1 .. Nodes /\ \A i \in DOMAIN graph[g].args : graph[g].args[i] \in R[x]
           T == {x \in 1 .. Nodes : x \in R[x] /\ Closed(x)}
<1>5. ASSUME NEW x \in 1 .. Nodes, \A y \in 1 .. x - 1 : y \in T PROVE x \in T
  <2>1. R[x] = {x} \cup UNION {R[h] : h \in Literals(graph[x].args)} BY <1>4 DEF ReachStep
  <2>2. \A h \in Literals(graph[x].args) : h \in T BY <1>5, LiteralsBefore
  <2>3. ASSUME NEW g \in R[x] PROVE g \in 1 .. Nodes /\ \A i \in DOMAIN graph[g].args : graph[g].args[i] \in R[x]
    <3>1. CASE g = x
      <4>1. \A i \in DOMAIN graph[x].args : graph[x].args[i] \in Literals(graph[x].args) BY DEF Literals
      <4>2. \A h \in Literals(graph[x].args) : h \in R[h] BY <2>2
      <4> QED BY <2>1, <3>1, <4>1, <4>2
    <3>2. CASE g # x
      <4>1. PICK h \in Literals(graph[x].args) : g \in R[h] BY <2>1, <3>2
      <4>2. Closed(h) BY <2>2
      <4>3. R[h] \subseteq R[x] BY <2>1
      <4> QED BY <4>1, <4>2, <4>3
    <3> QED BY <3>1, <3>2
  <2> QED BY <2>1, <2>3
<1>6. \A x \in 1 .. Nodes : x \in T
  <2> HIDE DEF T
  <2> QED BY <1>0, <1>5, FromBelow
<1>7. f \in R[f] /\ Closed(f) BY <1>6
<1> QED BY <1>1, <1>7

\* The encoder after node g when f is encoded.
AfterStep(f, g, T) ==
    IF g = 0 THEN Encoder ELSE IF g \in Below(f) THEN EncodeNode(T[g - 1], g) ELSE T[g - 1]
AfterRun(f, m, T) == T = [g \in 0 .. m |-> AfterStep(f, g, T)]

LEMMA AfterStepSame ==
    ASSUME NEW f, NEW g, NEW T, NEW U, g # 0 => T[g - 1] = U[g - 1]
    PROVE  AfterStep(f, g, T) = AfterStep(f, g, U)
  BY DEF AfterStep

LEMMA AfterRuns == ASSUME NEW f, NEW N \in Nat PROVE \E T : AfterRun(f, N, T)
<1> DEFINE S == {m \in Nat : \E T : AfterRun(f, m, T)}
<1>1. 0 \in S
  <2> DEFINE T == [g \in 0 .. 0 |-> AfterStep(f, g, << >>)]
  <2>1. T = [g \in 0 .. 0 |-> AfterStep(f, g, T)]
    <3>1. 0 .. 0 = {0} OBVIOUS
    <3>2. \A g \in 0 .. 0 : T[g] = AfterStep(f, g, << >>) OBVIOUS
    <3>3. T = [g \in 0 .. 0 |-> T[g]] OBVIOUS
    <3> HIDE DEF T
    <3>4. \A g \in 0 .. 0 : T[g] = AfterStep(f, g, T) BY <3>1, <3>2, AfterStepSame
    <3> QED BY <3>3, <3>4
  <2>2. AfterRun(f, 0, T)
    <3> HIDE DEF T
    <3> QED BY <2>1 DEF AfterRun
  <2> QED BY <2>2
<1>2. ASSUME NEW m \in Nat, m \in S PROVE m + 1 \in S
  <2>1. PICK T : AfterRun(f, m, T) BY <1>2
  <2> DEFINE U == [g \in 0 .. m + 1 |-> IF g = m + 1 THEN AfterStep(f, g, T) ELSE T[g]]
  <2>2. \A g \in 0 .. m : U[g] = T[g] OBVIOUS
  <2>3. \A g \in 0 .. m : T[g] = AfterStep(f, g, T) BY <2>1 DEF AfterRun
  <2>4. \A g \in 0 .. m + 1 : U[g] = AfterStep(f, g, T)
    <3>1. \A g \in 0 .. m + 1 : g = m + 1 \/ g \in 0 .. m OBVIOUS
    <3> QED BY <2>3, <3>1
  <2>5. U = [g \in 0 .. m + 1 |-> U[g]] OBVIOUS
  <2> HIDE DEF U
  <2>6. ASSUME NEW g \in 0 .. m + 1 PROVE U[g] = AfterStep(f, g, U)
    <3>1. g # 0 => g - 1 \in 0 .. m OBVIOUS
    <3>2. AfterStep(f, g, T) = AfterStep(f, g, U) BY <3>1, <2>2, AfterStepSame
    <3> QED BY <2>4, <3>2
  <2>7. U = [g \in 0 .. m + 1 |-> AfterStep(f, g, U)] BY <2>5, <2>6
  <2>8. AfterRun(f, m + 1, U) BY <2>7 DEF AfterRun
  <2> QED BY <2>8
<1>3. Nat \subseteq S
  <2> HIDE DEF S
  <2> QED BY <1>1, <1>2, NatInductive
<1> QED BY <1>3

\* What encode_more makes of the encoder.
Made(f) ==
    LET after[g \in 0 .. Nodes] ==
            IF g = 0 THEN Encoder
            ELSE IF g \in Below(f) THEN EncodeNode(after[g - 1], g) ELSE after[g - 1]
    IN  after[Nodes]

LEMMA EncodedRight ==
    ASSUME GraphFit(graph), Right(graph, Encoder), NEW f \in 1 .. Nodes
    PROVE  /\ Right(graph, Made(f)) /\ Grows(Encoder, Made(f))
           /\ Lit(graph, Made(f).cache, f) # NoLit
<1>0. Nodes \in Nat BY TseitinAssumption
<1> DEFINE A == CHOOSE U : U = [g \in 0 .. Nodes |-> AfterStep(f, g, U)]
<1>1. Made(f) = A[Nodes] BY DEF Made, AfterStep
<1>2. \E U : U = [g \in 0 .. Nodes |-> AfterStep(f, g, U)] BY <1>0, AfterRuns DEF AfterRun
<1>3. A = [g \in 0 .. Nodes |-> AfterStep(f, g, A)] BY <1>2
<1> HIDE DEF A
<1>4. \A g \in 0 .. Nodes : A[g] = AfterStep(f, g, A) BY <1>3
<1> DEFINE Sofar(g) == /\ Right(graph, A[g]) /\ Grows(Encoder, A[g])
                       /\ \A h \in 1 .. g : h \in Below(f) => Lit(graph, A[g].cache, h) # NoLit
           S == {m \in Nat : m <= Nodes => Sofar(m)}
<1>5. 0 \in S
  <2>1. 0 \in 0 .. Nodes BY <1>0
  <2>2. A[0] = Encoder BY <1>4, <2>1 DEF AfterStep
  <2>3. Sofar(0) BY <2>2 DEF Grows
  <2> QED BY <2>3
<1>6. ASSUME NEW m \in Nat, m \in S PROVE m + 1 \in S
  <2> SUFFICES ASSUME m + 1 <= Nodes PROVE Sofar(m + 1) OBVIOUS
  <2>1. m + 1 \in 0 .. Nodes /\ m + 1 \in 1 .. Nodes /\ m + 1 # 0 /\ m + 1 - 1 = m /\ m <= Nodes BY <1>0
  <2>2. Sofar(m) BY <1>6, <2>1
  <2>3. A[m + 1] = IF m + 1 \in Below(f) THEN EncodeNode(A[m], m + 1) ELSE A[m]
    BY <1>4, <2>1 DEF AfterStep
  <2>4. \A h \in 1 .. m + 1 : h = m + 1 \/ h \in 1 .. m OBVIOUS
  <2> HIDE DEF S
  <2>5. CASE m + 1 \notin Below(f)
    <3>1. A[m + 1] = A[m] BY <2>3, <2>5
    <3> QED BY <2>2, <2>4, <2>5, <3>1
  <2>6. CASE m + 1 \in Below(f)
    <3> DEFINE E == A[m]
               F == EncodeNode(E, m + 1)
    <3>1. A[m + 1] = F BY <2>3, <2>6
    <3>2. Right(graph, E) /\ Grows(Encoder, E) /\ \A h \in 1 .. m : h \in Below(f) => Lit(graph, E.cache, h) # NoLit
      BY <2>2
    <3>3. Encoded(graph, E.cache, m + 1)
      <4>1. ASSUME NEW i \in DOMAIN graph[m + 1].args PROVE Lit(graph, E.cache, graph[m + 1].args[i]) # NoLit
        <5>1. graph[m + 1].args[i] \in 1 .. m
          <6>1. graph[m + 1].args[i] \in 1 .. m + 1 - 1 BY <2>1, ArgsBefore
          <6> QED BY <2>1, <6>1
        <5>2. graph[m + 1].args[i] \in Below(f) BY <2>6, BelowIs
        <5> QED BY <3>2, <5>1, <5>2
      <4> QED BY <4>1 DEF Encoded
    <3> HIDE DEF E
    <3>4. Right(graph, F) /\ Grows(E, F) /\ Lit(graph, F.cache, m + 1) # NoLit
      BY <2>1, <3>2, <3>3, NodeEncoded
    <3> HIDE DEF F
    <3>5. Grows(Encoder, F) BY <3>2, <3>4 DEF Grows
    <3>6. ASSUME NEW h \in 1 .. m, h \in Below(f) PROVE Lit(graph, F.cache, h) # NoLit
      <4>1. Cache(E.cache, E.numVars) BY <3>2 DEF Right, EncRight, EncTyped
      <4>2. h \in 1 .. Nodes BY <2>1, <1>0
      <4>3. \A g \in 1 .. Nodes : E.cache[g] # NoLit => F.cache[g] = E.cache[g] BY <3>4 DEF Grows
      <4>4. Lit(graph, F.cache, h) = Lit(graph, E.cache, h) BY <3>2, <3>6, <4>1, <4>2, <4>3, LitStays
      <4> QED BY <3>2, <3>6, <4>4
    <3> QED BY <2>4, <3>1, <3>4, <3>5, <3>6
  <2> QED BY <2>5, <2>6
<1>7. Nat \subseteq S
  <2> HIDE DEF S
  <2> QED BY <1>5, <1>6, NatInductive
<1>8. Sofar(Nodes) BY <1>0, <1>7
<1>9. f \in Below(f) BY BelowIs
<1> QED BY <1>1, <1>8, <1>9

-----------------------------------------------------------------------------
(* What the literals mean *)

MeanStep(gr, ca, v, f, T) ==
    IF gr[f].op = "atom" THEN ca[f] # NoLit /\ HoldsIn(v, ca[f])
    ELSE Applied(gr[f].op, [i \in DOMAIN gr[f].args |-> T[gr[f].args[i]]])
MeanRun(gr, ca, v, m, T) == T = [f \in 1 .. m |-> MeanStep(gr, ca, v, f, T)]

LEMMA MeanStepSame ==
    ASSUME NEW gr, NEW ca, NEW v, NEW f, NEW T, NEW U,
           \A i \in DOMAIN gr[f].args : T[gr[f].args[i]] = U[gr[f].args[i]]
    PROVE  MeanStep(gr, ca, v, f, T) = MeanStep(gr, ca, v, f, U)
<1>1. [i \in DOMAIN gr[f].args |-> T[gr[f].args[i]]] = [i \in DOMAIN gr[f].args |-> U[gr[f].args[i]]] OBVIOUS
<1> QED BY <1>1 DEF MeanStep

LEMMA MeanRuns ==
    ASSUME NEW gr, GraphFit(gr), NEW ca, NEW v PROVE \E T : MeanRun(gr, ca, v, Nodes, T)
<1> DEFINE S == {m \in Nat : m <= Nodes => \E T : MeanRun(gr, ca, v, m, T)}
<1>0. Nodes \in Nat BY TseitinAssumption
<1>1. 0 \in S
  <2> DEFINE T == [g \in {} |-> {}]
  <2>1. T = [g \in {} |-> MeanStep(gr, ca, v, g, T)] OBVIOUS
  <2>2. 1 .. 0 = {} OBVIOUS
  <2>3. MeanRun(gr, ca, v, 0, T)
    <3> HIDE DEF T
    <3> QED BY <2>1, <2>2 DEF MeanRun
  <2> QED BY <2>3
<1>2. ASSUME NEW m \in Nat, m \in S PROVE m + 1 \in S
  <2> SUFFICES ASSUME m + 1 <= Nodes PROVE \E T : MeanRun(gr, ca, v, m + 1, T) OBVIOUS
  <2>1. PICK T : MeanRun(gr, ca, v, m, T) BY <1>0, <1>2
  <2> DEFINE U == [g \in 1 .. m + 1 |-> IF g = m + 1 THEN MeanStep(gr, ca, v, g, T) ELSE T[g]]
  <2>2. \A g \in 1 .. m : U[g] = T[g] OBVIOUS
  <2>3. \A g \in 1 .. m : T[g] = MeanStep(gr, ca, v, g, T) BY <2>1 DEF MeanRun
  <2>4. \A g \in 1 .. m + 1 : U[g] = MeanStep(gr, ca, v, g, T)
    <3>1. \A g \in 1 .. m + 1 : g = m + 1 \/ g \in 1 .. m OBVIOUS
    <3> QED BY <2>3, <3>1
  <2>5. U = [g \in 1 .. m + 1 |-> U[g]] OBVIOUS
  <2> HIDE DEF U
  <2>6. ASSUME NEW g \in 1 .. m + 1 PROVE U[g] = MeanStep(gr, ca, v, g, U)
    <3>1. g \in 1 .. Nodes BY <1>0
    <3>2. \A i \in DOMAIN gr[g].args : gr[g].args[i] \in 1 .. m
      <4>1. \A i \in DOMAIN gr[g].args : gr[g].args[i] \in 1 .. g - 1 BY <3>1, ArgsBefore
      <4> QED BY <4>1
    <3>3. MeanStep(gr, ca, v, g, T) = MeanStep(gr, ca, v, g, U) BY <3>2, <2>2, MeanStepSame
    <3> QED BY <2>4, <3>3
  <2>7. U = [g \in 1 .. m + 1 |-> MeanStep(gr, ca, v, g, U)] BY <2>5, <2>6
  <2> QED BY <2>7 DEF MeanRun
<1>3. Nat \subseteq S
  <2> HIDE DEF S
  <2> QED BY <1>1, <1>2, NatInductive
<1> QED BY <1>0, <1>3

LEMMA MeaningIs ==
    ASSUME GraphFit(graph), NEW v
    PROVE  \A f \in 1 .. Nodes : Meaning(v)[f] = MeanStep(graph, cache, v, f, Meaning(v))
<1> DEFINE R == CHOOSE T : T = [f \in 1 .. Nodes |-> MeanStep(graph, cache, v, f, T)]
<1>1. Meaning(v) = R BY DEF Meaning, MeanStep
<1>2. \E T : T = [f \in 1 .. Nodes |-> MeanStep(graph, cache, v, f, T)] BY MeanRuns DEF MeanRun
<1>3. R = [f \in 1 .. Nodes |-> MeanStep(graph, cache, v, f, R)] BY <1>2
<1> HIDE DEF R
<1> QED BY <1>1, <1>3

LEMMA AppliedBoolean ==
    ASSUME NEW k \in Nat, NEW op \in OpsOf(k), NEW p \in [1 .. k -> BOOLEAN]
    PROVE  Applied(op, p) \in BOOLEAN
<1>1. CASE op \in {"true", "false", "not", "and", "or", "implies", "xor", "iff"} BY <1>1 DEF Applied
<1>2. CASE op = "ite"
  <2>1. k = 3 BY <1>2 DEF OpsOf
  <2> QED BY <1>2, <2>1 DEF Applied
<1> QED BY <1>1, <1>2 DEF OpsOf

\* In a model of the clauses the literal of a node is worth what the node means.
LEMMA MeansRight ==
    ASSUME NEW gr, GraphFit(gr), NEW cl, NEW ca, NEW tl, NEW n, EncRight(gr, cl, ca, tl, n),
           NEW v \in Vals(n), Meets(v, cl),
           NEW M, \A f \in 1 .. Nodes : M[f] = MeanStep(gr, ca, v, f, M)
    PROVE  \A f \in 1 .. Nodes : Lit(gr, ca, f) # NoLit => HoldsIn(v, Lit(gr, ca, f)) = M[f]
<1>0. Nodes \in Nat BY TseitinAssumption
<1>1. n \in Nat /\ tl \in 0 .. n /\ (tl # NoLit => {tl} \in cl) /\ Cache(ca, n)
  BY DEF EncRight, EncTyped, Cache
<1>2. \A f \in 1 .. Nodes : Lit(gr, ca, f) \in -n .. n BY <1>1, LitTyped
<1>3. \A f \in 1 .. Nodes : Lit(gr, ca, f) # NoLit => Lit(gr, ca, f) \in LitsTo(n)
  BY <1>2 DEF LitsTo, NoLit
<1> DEFINE T == {f \in 1 .. Nodes : Lit(gr, ca, f) # NoLit => HoldsIn(v, Lit(gr, ca, f)) = M[f]}
<1>4. ASSUME NEW f \in 1 .. Nodes, \A g \in 1 .. f - 1 : g \in T PROVE f \in T
  <2> SUFFICES ASSUME Lit(gr, ca, f) # NoLit PROVE HoldsIn(v, Lit(gr, ca, f)) = M[f] OBVIOUS
  <2> DEFINE op == gr[f].op
             p == [i \in DOMAIN gr[f].args |-> M[gr[f].args[i]]]
  <2>1. M[f] = MeanStep(gr, ca, v, f, M) OBVIOUS
  <2>2. Lit(gr, ca, f) = IF op = "not" THEN -Lit(gr, ca, gr[f].args[1]) ELSE ca[f] BY LitIs
  <2>3. \A i \in DOMAIN gr[f].args : LET g == gr[f].args[i] IN
            Lit(gr, ca, g) # NoLit => Lit(gr, ca, g) \in LitsTo(n) /\ HoldsIn(v, Lit(gr, ca, g)) = M[g]
    BY <1>3, <1>4, ArgsBefore
  <2>4. CASE op = "not"
    <3> DEFINE l == Lit(gr, ca, gr[f].args[1])
    <3>1. DOMAIN gr[f].args = {1} /\ gr[f].args[1] \in 1 .. Nodes BY <2>4, NotIs
    <3>2. l # NoLit
      <4>1. l \in Int BY <1>1, <1>2, <3>1
      <4> QED BY <2>2, <2>4, <4>1 DEF NoLit
    <3>3. l \in LitsTo(n) /\ HoldsIn(v, l) = M[gr[f].args[1]] BY <2>3, <3>1, <3>2
    <3>4. Lit(gr, ca, f) = -l BY <2>2, <2>4
    <3> HIDE DEF l
    <3>5. HoldsIn(v, -l) = ~HoldsIn(v, l) BY <1>1, <3>3, LitBoolean
    <3>6. M[f] = ~M[gr[f].args[1]]
      <4>1. M[f] = Applied("not", p) BY <2>1, <2>4 DEF MeanStep
      <4>2. p[1] = M[gr[f].args[1]] BY <3>1
      <4> QED BY <4>1, <4>2 DEF Applied
    <3> QED BY <3>3, <3>4, <3>5, <3>6
  <2>5. CASE op # "not"
    <3>1. Lit(gr, ca, f) = ca[f] /\ ca[f] # NoLit /\ ca[f] \in LitsTo(n) BY <1>3, <2>2, <2>5
    <3>2. NodeDefined(gr, cl, ca, tl, f) BY <3>1 DEF EncRight, EncDefined
    <3>3. HoldsIn(v, ca[f]) \in BOOLEAN BY <1>1, <3>1, LitBoolean
    <3>4. CASE op = "atom" BY <2>1, <3>1, <3>3, <3>4 DEF MeanStep
    <3>5. CASE op \in {"true", "false"}
      <4>1. tl # NoLit /\ ca[f] = IF op = "true" THEN tl ELSE -tl BY <3>2, <3>5 DEF NodeDefined
      <4>2. {tl} \in cl /\ tl \in LitsTo(n) BY <1>1, <4>1 DEF LitsTo, NoLit
      <4>3. HoldsIn(v, tl) BY <4>2 DEF Meets
      <4>4. HoldsIn(v, tl) = TRUE /\ HoldsIn(v, -tl) = FALSE BY <1>1, <4>2, <4>3, LitBoolean
      <4>5. M[f] = (op = "true") BY <2>1, <3>5 DEF MeanStep, Applied
      <4> QED BY <3>1, <3>5, <4>1, <4>4, <4>5
    <3>6. CASE op \notin {"true", "false", "not", "atom"}
      <4> DEFINE s == LitsOf(gr, ca, f)
      <4>1. Encoded(gr, ca, f) /\ Define(op, ca[f], s) \subseteq cl BY <3>2, <3>6 DEF NodeDefined
      <4>2. PICK k \in Nat : gr[f].args \in [1 .. k -> 1 .. f - 1] /\ op \in OpsOf(k)
        BY <3>6 DEF GraphFit, NodeFit
      <4>3. DOMAIN gr[f].args = 1 .. k /\ op \in Gates(k) BY <3>6, <4>2 DEF Gates
      <4>4. \A i \in 1 .. k : s[i] \in LitsTo(n) /\ HoldsIn(v, s[i]) = M[gr[f].args[i]] /\ HoldsIn(v, s[i]) \in BOOLEAN
        <5>1. \A i \in 1 .. k : s[i] = Lit(gr, ca, gr[f].args[i]) /\ s[i] # NoLit BY <4>1, <4>3 DEF LitsOf, Encoded
        <5>2. \A i \in 1 .. k : s[i] \in LitsTo(n) /\ HoldsIn(v, s[i]) = M[gr[f].args[i]]
          BY <2>3, <4>3, <5>1
        <5> HIDE DEF s
        <5> QED BY <1>1, <5>2, LitBoolean
      <4>5. s \in [1 .. k -> LitsTo(n)] /\ DOMAIN s = 1 .. k BY <4>3, <4>4 DEF LitsOf
      <4>6. Values(v, s) = p
        <5> HIDE DEF s
        <5> QED BY <4>3, <4>4, <4>5 DEF Values
      <4>7. Values(v, s) \in [1 .. k -> BOOLEAN]
        <5> HIDE DEF s
        <5> QED BY <4>4, <4>5 DEF Values
      <4>8. Meets(v, Define(op, ca[f], s)) BY <4>1 DEF Meets
      <4> HIDE DEF s, p, op
      <4>9. HoldsIn(v, ca[f]) <=> Applied(op, p)
        BY <1>1, <3>1, <4>3, <4>5, <4>6, <4>8, DefineMeans
      <4>10. Applied(op, p) \in BOOLEAN BY <4>2, <4>6, <4>7, AppliedBoolean
      <4>11. HoldsIn(v, ca[f]) = Applied(op, p) BY <3>3, <4>9, <4>10
      <4>12. M[f] = Applied(op, p) BY <2>1, <3>6 DEF MeanStep, op, p
      <4> QED BY <3>1, <4>11, <4>12
    <3> QED BY <2>5, <3>4, <3>5, <3>6
  <2> QED BY <2>4, <2>5
<1>5. \A f \in 1 .. Nodes : f \in T
  <2> HIDE DEF T
  <2> QED BY <1>0, <1>4, FromBelow
<1> QED BY <1>5

LEMMA RightIsExact ==
    ASSUME GraphFit(graph), Right(graph, Encoder) PROVE EncodingExact
<1>1. EncRight(graph, clauses, cache, trueLit, numVars) BY DEF Right, Encoder
<1>2. TseitinValuations = Vals(numVars) BY DEF TseitinValuations, Vals
<1>3. \A v : Satisfies(v) <=> Meets(v, clauses) BY DEF Satisfies, Meets
<1>4. LiteralsMean
  <2> SUFFICES ASSUME NEW v \in Vals(numVars), Meets(v, clauses), NEW f \in 1 .. Nodes, cache[f] # NoLit
               PROVE  HoldsIn(v, cache[f]) = Meaning(v)[f]
    BY <1>2, <1>3 DEF LiteralsMean
  <2>1. graph[f].op # "not" BY <1>1 DEF EncRight, EncDefined, NodeDefined
  <2>2. Lit(graph, cache, f) = cache[f] BY <2>1, LitIs
  <2> DEFINE M == Meaning(v)
  <2>3. \A g \in 1 .. Nodes : M[g] = MeanStep(graph, cache, v, g, M) BY MeaningIs
  <2> HIDE DEF M
  <2>4. HoldsIn(v, cache[f]) = M[f] BY <1>1, <2>2, <2>3, MeansRight
  <2> QED BY <2>4 DEF M
<1>5. ExtendsUniquely
  <2>1. AtomVars = AtomsOf(cache) BY DEF AtomVars, AtomsOf
  <2>2. EncUnique(clauses, cache, numVars) BY <1>1 DEF EncRight
  <2> QED BY <1>2, <1>3, <2>1, <2>2 DEF ExtendsUniquely, EncUnique, OneModel, Agrees
<1> QED BY <1>4, <1>5 DEF EncodingExact

-----------------------------------------------------------------------------
(* Every encoding *)

\* The encoder is in order, and every formula encoded has its literal.
EncodedInv ==
    /\ GraphFit(graph) /\ Right(graph, Encoder)
    /\ \A f \in asserted : f \in 1 .. Nodes /\ Lit(graph, cache, f) # NoLit

LEMMA NoEncoding == TseitinInit => EncodedInv
<1> SUFFICES ASSUME NEW g \in Graphs, TseitinStart(g) PROVE EncodedInv BY DEF TseitinInit
<1> USE DEF NoLit
<1>1. graph = g /\ clauses = {} /\ numVars = 0 /\ trueLit = 0 /\ cache = [f \in 1 .. Nodes |-> 0]
      /\ asserted = {}
  BY DEF TseitinStart
<1>2. GraphFit(graph) BY <1>1, GraphsFit
<1>3. \A f \in 1 .. AtomNodes : f \in 1 .. Nodes BY TseitinAssumption
<1>4. AtomsOf(cache) = {} BY <1>1, <1>3 DEF AtomsOf
<1>5. EncTyped(clauses, cache, trueLit, numVars)
  <2>1. 0 \in -0 .. 0 OBVIOUS
  <2>2. Cache(cache, numVars) BY <1>1, <2>1 DEF Cache
  <2>3. trueLit \in 0 .. numVars BY <1>1
  <2>4. trueLit # 0 => {trueLit} \in clauses BY <1>1
  <2>5. \A c \in clauses : c \subseteq LitsTo(numVars) BY <1>1
  <2>6. AtomsOf(cache) \subseteq 1 .. numVars BY <1>4
  <2> QED BY <2>2, <2>3, <2>4, <2>5, <2>6 DEF EncTyped
<1>6. EncDefined(graph, clauses, cache, trueLit) BY <1>1 DEF EncDefined
<1>7. EncUnique(clauses, cache, numVars)
  <2>1. 1 .. 0 = {} OBVIOUS
  <2> DEFINE v == [i \in 1 .. 0 |-> TRUE]
  <2>2. v \in Vals(0) /\ \A w \in Vals(0) : w = v BY <2>1 DEF Vals
  <2>3. \A w : Meets(w, clauses) BY <1>1 DEF Meets
  <2> HIDE DEF v
  <2>4. \A at : OneModel(clauses, cache, 0, at) BY <1>4, <2>2, <2>3 DEF OneModel, Agrees
  <2> QED BY <1>1, <2>4 DEF EncUnique
<1>8. Right(graph, Encoder) BY <1>5, <1>6, <1>7 DEF Right, EncRight, Encoder, Enc
<1> QED BY <1>1, <1>2, <1>8 DEF EncodedInv

\* What encode_more does to the state.
LEMMA EncodingIs ==
    ASSUME NEW f, EncodeMore(f)
    PROVE  /\ graph' = graph /\ asserted' = asserted \cup {f}
           /\ clauses' = Made(f).clauses /\ cache' = Made(f).cache
           /\ trueLit' = Made(f).trueLit /\ numVars' = Made(f).numVars
  BY DEF EncodeMore, Made

LEMMA EncodedNext == EncodedInv /\ [TseitinNext]_tseitinVars => EncodedInv' /\ Grows(Encoder, Encoder')
<1> SUFFICES ASSUME EncodedInv, [TseitinNext]_tseitinVars PROVE EncodedInv' /\ Grows(Encoder, Encoder')
  OBVIOUS
<1>1. ASSUME NEW f \in 1 .. Nodes, EncodeMore(f) PROVE EncodedInv' /\ Grows(Encoder, Encoder')
  <2> DEFINE F == Made(f)
  <2>1. /\ graph' = graph /\ asserted' = asserted \cup {f} /\ clauses' = F.clauses
        /\ cache' = F.cache /\ trueLit' = F.trueLit /\ numVars' = F.numVars
    BY <1>1, EncodingIs
  <2>2. Right(graph, F) /\ Grows(Encoder, F) /\ Lit(graph, F.cache, f) # NoLit
    BY EncodedRight DEF EncodedInv
  <2> HIDE DEF F
  <2>3. Encoder' = F BY <2>1, <2>2 DEF Encoder, Right, Enc
  <2>4. ASSUME NEW g \in asserted PROVE g \in 1 .. Nodes /\ Lit(graph, F.cache, g) # NoLit
    <3>1. g \in 1 .. Nodes /\ Lit(graph, cache, g) # NoLit BY DEF EncodedInv
    <3>2. Cache(cache, numVars) BY DEF EncodedInv, Right, EncRight, EncTyped, Encoder
    <3>3. \A h \in 1 .. Nodes : cache[h] # NoLit => F.cache[h] = cache[h] BY <2>2 DEF Grows, Encoder
    <3>4. Lit(graph, F.cache, g) = Lit(graph, cache, g) BY <3>1, <3>2, <3>3, LitStays DEF EncodedInv
    <3> QED BY <3>1, <3>4
  <2>5. GraphFit(graph') /\ Right(graph', Encoder') BY <2>1, <2>2, <2>3 DEF EncodedInv
  <2>6. \A g \in asserted' : g \in 1 .. Nodes /\ Lit(graph', cache', g) # NoLit
    BY <1>1, <2>1, <2>2, <2>4
  <2>7. EncodedInv' BY <2>5, <2>6 DEF EncodedInv
  <2> QED BY <2>2, <2>3, <2>7
<1>2. CASE UNCHANGED tseitinVars
  <2>1. graph' = graph /\ asserted' = asserted /\ cache' = cache /\ Encoder' = Encoder
    BY <1>2 DEF tseitinVars, Encoder
  <2>2. EncodedInv' BY <2>1 DEF EncodedInv
  <2> QED BY <2>1, <2>2 DEF Grows
<1> QED BY <1>1, <1>2 DEF TseitinNext

\* The clauses say exactly what the formulas say, whatever graph of formulas is
\* encoded and in whatever order: their models give every literal the value of its
\* formula, and for every value of the atoms there is exactly one (sat/tseitin.rs).
THEOREM EncodingsAreExact == TseitinSpec => []EncodingExact
<1>1. EncodedInv => EncodingExact BY RightIsExact DEF EncodedInv
<1>2. EncodedInv /\ [TseitinNext]_tseitinVars => EncodedInv' BY EncodedNext
<1> QED BY <1>1, <1>2, NoEncoding, PTL DEF TseitinSpec

\* A literal given to a formula is its literal for good.
THEOREM LiteralsAreKept == TseitinSpec => LiteralsStay
<1>1. EncodedInv /\ [TseitinNext]_tseitinVars => EncodedInv' BY EncodedNext
<1>2. EncodedInv /\ [TseitinNext]_tseitinVars =>
          [\A f \in 1 .. Nodes : cache[f] # NoLit => cache'[f] = cache[f]]_tseitinVars
  BY EncodedNext DEF Grows, Encoder
<1> QED BY <1>1, <1>2, NoEncoding, PTL DEF TseitinSpec, LiteralsStay

-----------------------------------------------------------------------------
(* Datalog: the invariant *)

PrefixVars(r, k) == UNION {VarsOf(r.body[i]) : i \in 1 .. k - 1}

\* A substitution of the frontier binds the variables of the atoms before the
\* one at hand, and these hold under it.
FrontierSound ==
    Matching => \A s \in frontier :
                   /\ DOMAIN s = PrefixVars(Current, body)
                   /\ \A i \in 1 .. body - 1 : Ground(Current.body[i], s) \in rels

\* Every valuation under which they hold is in the frontier.
FrontierComplete ==
    Matching =>
        \A sigma \in DatalogValuations :
            (\A i \in 1 .. body - 1 : Ground(Current.body[i], sigma) \in rels)
                => \E s \in frontier : \A v \in DOMAIN s : s[v] = sigma[v]

\* While a pass has derived nothing its rules so far are closed.
PassClosed == ~changed => \A r \in 1 .. rule - 1 : ClosedUnder(rels, program[r])

EndsQuiet == pc # "match" => ~changed /\ rule = Len(program) + 1

\* Between two passes matching starts afresh.
Fresh == rule > Len(program) => body = 1 /\ frontier = {EmptySubst}

ModelInv == Fresh /\ DatalogTypeOK /\ FrontierSound /\ FrontierComplete /\ PassClosed /\ EndsQuiet /\ Sound

-----------------------------------------------------------------------------
(* Substitutions *)

\* Substitutions that agree on an atom's variables ground it to the same fact.
LEMMA GroundAgrees ==
    ASSUME NEW a, NEW s, NEW t, \A v \in VarsOf(a) : s[v] = t[v]
    PROVE  Ground(a, s) = Ground(a, t)
BY DEF Ground, VarsOf

\* The extension of a match grounds the atom to the fact it matched.
LEMMA ExtensionGrounds ==
    ASSUME NEW a \in Atoms, NEW f \in Facts, NEW s \in Substs, Unifies(a, f, s)
    PROVE  /\ Extended(a, f, s) \in Substs
           /\ DOMAIN Extended(a, f, s) = DOMAIN s \cup VarsOf(a)
           /\ \A v \in DOMAIN s : Extended(a, f, s)[v] = s[v]
           /\ Ground(a, Extended(a, f, s)) = f
<1> DEFINE e == Extended(a, f, s)
<1> USE DatalogAssumption
<1>1. /\ a.args \in Seq(Terms) /\ f.args \in Seq(Consts)
      /\ DOMAIN a.args = DOMAIN f.args
      /\ f.pred = a.pred /\ f = [pred |-> f.pred, args |-> f.args]
  BY DEF Atoms, Facts, Unifies
<1>2. DOMAIN s \subseteq RuleVars /\ \A v \in DOMAIN s : s[v] \in Consts
  BY DEF Substs
<1>3. DOMAIN e = DOMAIN s \cup VarsOf(a) /\ DOMAIN e \subseteq RuleVars
  BY <1>2 DEF Extended, VarsOf
<1>4. ASSUME NEW i \in DOMAIN a.args, a.args[i] \in RuleVars
      PROVE  e[a.args[i]] = f.args[i]
  <2> DEFINE v == a.args[i]
             j == CHOOSE k \in DOMAIN a.args : a.args[k] = v
  <2>1. v \in VarsOf(a) /\ v \notin Consts
    BY <1>4 DEF VarsOf
  <2>2. CASE v \in DOMAIN s
    BY <2>1, <2>2 DEF Unifies, Extended
  <2>3. CASE v \notin DOMAIN s
    <3>1. j \in DOMAIN a.args /\ a.args[j] = v
      OBVIOUS
    <3>2. f.args[j] = f.args[i]
      BY <3>1, <2>1 DEF Unifies
    <3>3. e[v] = f.args[j]
      BY <2>1, <2>3 DEF Extended
    <3> QED BY <3>2, <3>3
  <2> QED BY <2>2, <2>3
<1>5. \A v \in DOMAIN s : e[v] = s[v]
  BY DEF Extended
<1>6. e \in Substs
  <2>1. \A v \in DOMAIN e : e[v] \in Consts
    <3> TAKE v \in DOMAIN e
    <3>1. CASE v \in DOMAIN s
      BY <3>1, <1>5, <1>2
    <3>2. CASE v \notin DOMAIN s
      <4>1. PICK i \in DOMAIN a.args : a.args[i] = v /\ v \in RuleVars
        BY <3>2, <1>3 DEF VarsOf
      <4> QED BY <4>1, <1>4, <1>1
    <3> QED BY <3>1, <3>2
  <2>2. e \in [DOMAIN e -> Consts]
    BY <2>1 DEF Extended
  <2> QED BY <2>2, <1>3 DEF Substs
<1>7. Ground(a, e) = f
  <2>1. \A i \in DOMAIN a.args :
            (IF a.args[i] \in RuleVars THEN e[a.args[i]] ELSE a.args[i]) = f.args[i]
    BY <1>4, <1>1 DEF Unifies, Terms
  <2>2. f.args = [i \in DOMAIN f.args |-> f.args[i]]
    BY <1>1
  <2>3. Ground(a, e).args = f.args
    BY <2>1, <2>2, <1>1 DEF Ground
  <2> QED BY <2>3, <1>1 DEF Ground
<1> HIDE DEF e
<1> QED BY <1>3, <1>5, <1>6, <1>7 DEF e

\* A fact that is an instance of the atom is matched, with the instance's values.
LEMMA InstanceMatches ==
    ASSUME NEW a \in Atoms, NEW sigma \in DatalogValuations, NEW s \in Substs,
           Ground(a, sigma) \in Facts, \A v \in DOMAIN s : s[v] = sigma[v]
    PROVE  /\ Unifies(a, Ground(a, sigma), s)
           /\ \A v \in DOMAIN s \cup VarsOf(a) :
                 Extended(a, Ground(a, sigma), s)[v] = sigma[v]
<1> DEFINE f == Ground(a, sigma)
<1> USE DatalogAssumption
<1>1. /\ a.args \in Seq(Terms) /\ f.args \in Seq(Consts) /\ f.pred = a.pred
      /\ DOMAIN a.args = 1 .. Len(a.args) /\ DOMAIN f.args = 1 .. Len(f.args)
      /\ DOMAIN f.args = DOMAIN a.args /\ Len(a.args) \in Nat /\ Len(f.args) \in Nat
  BY DEF Atoms, Facts, Ground
<1>2. Len(f.args) = Len(a.args)
  <2> HIDE DEF f
  <2> QED BY <1>1
<1>3. \A i \in DOMAIN a.args :
         f.args[i] = IF a.args[i] \in RuleVars THEN sigma[a.args[i]] ELSE a.args[i]
  BY DEF Ground
<1>4. Unifies(a, f, s)
  <2> HIDE DEF f
  <2>1. \A i \in DOMAIN a.args : a.args[i] \in RuleVars \/ a.args[i] \in Consts
    BY <1>1 DEF Terms
  <2> QED BY <1>1, <1>2, <1>3, <2>1 DEF Unifies
<1>5. ASSUME NEW v \in DOMAIN s \cup VarsOf(a)
      PROVE  Extended(a, f, s)[v] = sigma[v]
  <2>1. CASE v \in DOMAIN s
    BY <2>1 DEF Extended
  <2>2. CASE v \notin DOMAIN s
    <3> DEFINE j == CHOOSE i \in DOMAIN a.args : a.args[i] = v
    <3>1. v \in RuleVars /\ j \in DOMAIN a.args /\ a.args[j] = v
      BY <2>2 DEF VarsOf
    <3>2. Extended(a, f, s)[v] = f.args[j]
      BY <2>2 DEF Extended
    <3> HIDE DEF f, j
    <3> QED BY <3>1, <3>2, <1>3
  <2> QED BY <2>1, <2>2
<1> QED BY <1>4, <1>5

-----------------------------------------------------------------------------
(* Rules *)

LEMMA CurrentRule ==
    ASSUME DatalogTypeOK, Matching
    PROVE  /\ Current \in Rules /\ Current.head \in Atoms /\ Current.body \in Seq(Atoms)
           /\ rule \in 1 .. Len(program) /\ program \in Seq(Rules)
           /\ body \in 1 .. Len(Current.body) + 1 /\ Len(Current.body) \in Nat
<1> USE DatalogAssumption
<1>1. program \in Seq(Rules) /\ rule \in 1 .. Len(program)
  BY DEF DatalogTypeOK, Matching
<1>2. Current \in Rules
  BY <1>1 DEF Current
<1>3. Current.head \in Atoms /\ Current.body \in Seq(Atoms)
  BY <1>2 DEF Rules
<1> QED BY <1>1, <1>2, <1>3 DEF DatalogTypeOK

LEMMA GroundTyped ==
    ASSUME NEW a \in Atoms, NEW s \in Substs, VarsOf(a) \subseteq DOMAIN s
    PROVE  Ground(a, s) \in Facts
<1> USE DatalogAssumption
<1>1. a.args \in Seq(Terms) /\ a.pred \in Preds
  BY DEF Atoms
<1>2. \A i \in DOMAIN a.args :
         (IF a.args[i] \in RuleVars THEN s[a.args[i]] ELSE a.args[i]) \in Consts
  BY <1>1 DEF VarsOf, Terms, Substs
<1>3. Ground(a, s).args \in Seq(Consts)
  BY <1>1, <1>2 DEF Ground
<1> QED BY <1>1, <1>3 DEF Ground, Facts

LEMMA MatchesTyped ==
    ASSUME NEW a \in Atoms, NEW substs \in SUBSET Substs, rels \subseteq Facts
    PROVE  DatalogMatches(a, substs) \subseteq Substs
<1>1. SUFFICES ASSUME NEW e \in DatalogMatches(a, substs) PROVE e \in Substs
  OBVIOUS
<1>2. PICK f \in rels, s \in substs : Unifies(a, f, s) /\ e = Extended(a, f, s)
  BY DEF DatalogMatches
<1> QED BY <1>2, ExtensionGrounds

\* Over the whole body the frontier's substitutions bind every body variable.
LEMMA WholeBody ==
    ASSUME DatalogTypeOK, Matching, body > Len(Current.body)
    PROVE  PrefixVars(Current, body) = BodyVars(Current) /\ body - 1 = Len(Current.body)
BY CurrentRule DEF PrefixVars, BodyVars

\* What a rule derives follows in every model that has the facts so far.
LEMMA DerivesSoundly ==
    ASSUME DatalogTypeOK, FrontierSound, Matching, Matched,
           NEW M, rels \subseteq M, ClosedUnder(M, Current),
           NEW s \in frontier, VarsOf(Current.head) \subseteq DOMAIN s
    PROVE  Ground(Current.head, s) \in M
<1> USE DatalogAssumption
<1>1. body > Len(Current.body)
  BY CurrentRule DEF Matched
<1>2. DOMAIN s = BodyVars(Current) /\ \A i \in DOMAIN Current.body : Ground(Current.body[i], s) \in rels
  <2>1. DOMAIN Current.body = 1 .. body - 1
    BY <1>1, WholeBody, CurrentRule
  <2> QED BY <1>1, <2>1, WholeBody DEF FrontierSound
<1>3. PICK c : c \in Consts
  OBVIOUS
<1> DEFINE sigma == [v \in RuleVars |-> IF v \in DOMAIN s THEN s[v] ELSE c]
<1>4. sigma \in DatalogValuations /\ \A v \in DOMAIN s : v \in RuleVars /\ sigma[v] = s[v]
  <2>1. DOMAIN s \subseteq RuleVars /\ \A v \in DOMAIN s : s[v] \in Consts
    BY DEF DatalogTypeOK, Substs
  <2> QED BY <1>3, <2>1 DEF DatalogValuations
<1>5. ASSUME NEW i \in DOMAIN Current.body
      PROVE  Ground(Current.body[i], sigma) \in M
  <2>1. \A v \in VarsOf(Current.body[i]) : s[v] = sigma[v]
    <3> HIDE DEF sigma
    <3>1. VarsOf(Current.body[i]) \subseteq DOMAIN s
      BY <1>2 DEF BodyVars
    <3> QED BY <3>1, <1>4
  <2> HIDE DEF sigma
  <2>2. Ground(Current.body[i], s) = Ground(Current.body[i], sigma)
    BY <2>1, GroundAgrees
  <2> QED BY <2>2, <1>2
<1> HIDE DEF sigma
<1>6. Ground(Current.head, sigma) \in M
  BY <1>2, <1>4, <1>5 DEF ClosedUnder
<1>7. Ground(Current.head, s) = Ground(Current.head, sigma)
  BY <1>4, GroundAgrees
<1> QED BY <1>6, <1>7

\* A rule that added nothing is closed.
LEMMA QuietRuleClosed ==
    ASSUME DatalogTypeOK, FrontierSound, FrontierComplete, Matching, Matched,
           \A s \in frontier : VarsOf(Current.head) \subseteq DOMAIN s
                                  => Ground(Current.head, s) \in rels
    PROVE  ClosedUnder(rels, Current)
<1> SUFFICES ASSUME VarsOf(Current.head) \subseteq BodyVars(Current),
                    NEW sigma \in DatalogValuations,
                    \A i \in DOMAIN Current.body : Ground(Current.body[i], sigma) \in rels
             PROVE  Ground(Current.head, sigma) \in rels
  BY DEF ClosedUnder
<1>1. PICK s \in frontier : \A v \in DOMAIN s : s[v] = sigma[v]
  BY CurrentRule DEF FrontierComplete
<1>2. body > Len(Current.body)
  BY <1>1 DEF Matched
<1>3. DOMAIN s = BodyVars(Current)
  BY <1>1, <1>2, WholeBody DEF FrontierSound
<1>4. Ground(Current.head, s) = Ground(Current.head, sigma)
  BY <1>1, <1>3, GroundAgrees
<1> QED BY <1>1, <1>3, <1>4

-----------------------------------------------------------------------------
(* The invariant is inductive *)

LEMMA InitModelInv == DatalogInit => ModelInv
<1> SUFFICES ASSUME DatalogInit PROVE ModelInv
  OBVIOUS
<1> USE DatalogAssumption
<1>1. EmptySubst \in Substs /\ DOMAIN EmptySubst = {}
  <2>1. EmptySubst \in [{} -> Consts]
    BY DEF EmptySubst
  <2> QED BY <2>1 DEF Substs, EmptySubst
<1>2. DatalogTypeOK
  <2>1. program \in Seq(Rules) /\ Len(program) \in Nat
    BY DEF DatalogInit, DatalogStart
  <2>2. rule <= Len(program) => body \in 1 .. Len(Current.body) + 1
    <3> SUFFICES ASSUME rule <= Len(program) PROVE 1 \in 1 .. Len(Current.body) + 1
      BY DEF DatalogInit, DatalogStart
    <3>1. Current \in Rules
      BY <2>1 DEF Current, DatalogInit, DatalogStart
    <3> QED BY <3>1 DEF Rules
  <2>3. rels \subseteq Facts /\ frontier \subseteq Substs /\ answers \subseteq Substs
    BY <1>1 DEF DatalogInit, DatalogStart
  <2>4. rule \in 1 .. Len(program) + 1
    BY <2>1 DEF DatalogInit, DatalogStart
  <2> QED BY <2>2, <2>3, <2>4 DEF DatalogInit, DatalogStart, DatalogTypeOK
<1>3. FrontierSound /\ FrontierComplete
  BY <1>1 DEF DatalogInit, DatalogStart, FrontierSound, FrontierComplete, PrefixVars
<1>4. Fresh /\ PassClosed /\ EndsQuiet /\ Sound
  BY DEF DatalogInit, DatalogStart, Fresh, PassClosed, EndsQuiet, Sound
<1> QED BY <1>2, <1>3, <1>4 DEF ModelInv

LEMMA StepIInv == ModelInv /\ [DatalogNext]_datalogVars => ModelInv'
<1> SUFFICES ASSUME ModelInv, [DatalogNext]_datalogVars PROVE ModelInv'
  OBVIOUS
<1> USE DatalogAssumption
<1>0. Fresh /\ DatalogTypeOK /\ FrontierSound /\ FrontierComplete /\ PassClosed /\ EndsQuiet /\ Sound
  BY DEF ModelInv
<1>p. program \in Seq(Rules) /\ Len(program) \in Nat
  BY <1>0 DEF DatalogTypeOK
<1>e. EmptySubst \in Substs /\ DOMAIN EmptySubst = {}
  <2>1. EmptySubst \in [{} -> Consts]
    BY DEF EmptySubst
  <2> QED BY <2>1 DEF Substs, EmptySubst
<1>1. CASE MatchAtom
  <2>1. /\ Matching /\ ~Matched /\ body' = body + 1
        /\ frontier' = DatalogMatches(Current.body[body], frontier)
        /\ UNCHANGED <<program, rels, pc, rule, changed, answers>>
    BY <1>1 DEF MatchAtom
  <2>2. /\ Current \in Rules /\ Current.body \in Seq(Atoms) /\ body \in 1 .. Len(Current.body)
        /\ Current.body[body] \in Atoms /\ Current' = Current /\ Len(Current.body) \in Nat
    BY <1>0, <2>1, CurrentRule DEF Matched, Current
  <2>3. DatalogTypeOK'
    <3>1. frontier' \subseteq Substs
      BY <1>0, <2>1, <2>2, MatchesTyped DEF DatalogTypeOK
    <3> QED BY <1>0, <2>1, <2>2, <3>1 DEF DatalogTypeOK
  <2>4. FrontierSound'
    <3> SUFFICES ASSUME NEW e \in frontier'
                 PROVE  /\ DOMAIN e = PrefixVars(Current, body + 1)
                        /\ \A i \in 1 .. body : Ground(Current.body[i], e) \in rels
      BY <2>1, <2>2 DEF FrontierSound
    <3> DEFINE a == Current.body[body]
    <3>1. PICK f \in rels, s \in frontier : Unifies(a, f, s) /\ e = Extended(a, f, s)
      BY <2>1 DEF DatalogMatches
    <3>2. f \in Facts /\ s \in Substs
      BY <1>0 DEF DatalogTypeOK
    <3>3. DOMAIN e = DOMAIN s \cup VarsOf(a) /\ (\A v \in DOMAIN s : e[v] = s[v]) /\ Ground(a, e) = f
      BY <2>2, <3>1, <3>2, ExtensionGrounds
    <3>4. DOMAIN s = PrefixVars(Current, body) /\ \A i \in 1 .. body - 1 : Ground(Current.body[i], s) \in rels
      BY <1>0, <2>1 DEF FrontierSound
    <3>5. PrefixVars(Current, body + 1) = PrefixVars(Current, body) \cup VarsOf(a)
      BY <2>2 DEF PrefixVars
    <3>6. ASSUME NEW i \in 1 .. body - 1 PROVE Ground(Current.body[i], e) \in rels
      <4>1. VarsOf(Current.body[i]) \subseteq DOMAIN s
        BY <3>4 DEF PrefixVars
      <4>2. Ground(Current.body[i], s) = Ground(Current.body[i], e)
        BY <4>1, <3>3, GroundAgrees
      <4> QED BY <4>2, <3>4
    <3>7. \A i \in 1 .. body : i = body \/ i \in 1 .. body - 1
      BY <2>2
    <3> QED BY <3>3, <3>4, <3>5, <3>6, <3>7
  <2>5. FrontierComplete'
    <3> SUFFICES ASSUME NEW sigma \in DatalogValuations,
                        \A i \in 1 .. body : Ground(Current.body[i], sigma) \in rels
                 PROVE  \E e \in frontier' : \A v \in DOMAIN e : e[v] = sigma[v]
      BY <2>1, <2>2 DEF FrontierComplete, DatalogValuations
    <3> DEFINE a == Current.body[body]
               f == Ground(a, sigma)
    <3>1. PICK s \in frontier : \A v \in DOMAIN s : s[v] = sigma[v]
      BY <1>0, <2>1, <2>2 DEF FrontierComplete
    <3>2. f \in rels /\ f \in Facts /\ s \in Substs
      BY <1>0, <2>2 DEF DatalogTypeOK
    <3>3. Unifies(a, f, s) /\ \A v \in DOMAIN s \cup VarsOf(a) : Extended(a, f, s)[v] = sigma[v]
      BY <2>2, <3>1, <3>2, InstanceMatches
    <3>4. Extended(a, f, s) \in frontier'
      BY <2>1, <3>2, <3>3 DEF DatalogMatches
    <3>5. DOMAIN Extended(a, f, s) = DOMAIN s \cup VarsOf(a)
      BY DEF Extended
    <3> QED BY <3>3, <3>4, <3>5
  <2>6. Fresh' /\ PassClosed' /\ EndsQuiet' /\ Sound'
    <3>1. Fresh'
      BY <1>0, <1>p, <2>1, CurrentRule DEF Fresh
    <3> QED BY <1>0, <2>1, <3>1
            DEF PassClosed, EndsQuiet, Sound, IsModel, ClosedUnder, DatalogValuations, Matching
  <2> QED BY <2>3, <2>4, <2>5, <2>6 DEF ModelInv
<1>2. CASE Derive
  <2> DEFINE new == {Ground(Current.head, s) :
                       s \in {t \in frontier : VarsOf(Current.head) \subseteq DOMAIN t}}
  <2>1. /\ Matching /\ Matched /\ rels' = rels \cup new
        /\ changed' = (changed \/ ~(new \subseteq rels))
        /\ rule' = rule + 1 /\ body' = 1 /\ frontier' = {EmptySubst}
        /\ UNCHANGED <<program, pc, answers>>
    BY <1>2 DEF Derive
  <2>2. rule \in 1 .. Len(program) /\ Current.head \in Atoms
    BY <1>0, <2>1, CurrentRule
  <2>3. new \subseteq Facts
    BY <1>0, <2>2, GroundTyped DEF DatalogTypeOK
  <2>4. DatalogTypeOK'
    <3>1. rule' <= Len(program') => body' \in 1 .. Len(Current'.body) + 1
      <4> SUFFICES ASSUME rule + 1 <= Len(program) PROVE 1 \in 1 .. Len(program[rule + 1].body) + 1
        BY <2>1 DEF Current
      <4>1. program[rule + 1] \in Rules
        BY <1>p, <2>2
      <4> QED BY <4>1 DEF Rules
    <3> HIDE DEF new
    <3> QED BY <1>0, <1>e, <1>p, <2>1, <2>2, <2>3, <3>1 DEF DatalogTypeOK
  <2>5. FrontierSound' /\ FrontierComplete'
    <3> HIDE DEF new
    <3>1. PrefixVars(Current', body') = {} /\ 1 .. body' - 1 = {}
      BY <2>1 DEF PrefixVars
    <3> QED BY <1>e, <2>1, <3>1 DEF FrontierSound, FrontierComplete
  <2>6. PassClosed'
    <3> SUFFICES ASSUME ~changed' PROVE \A r \in 1 .. rule : ClosedUnder(rels', program[r])
      BY <2>1, <2>2 DEF PassClosed, ClosedUnder, DatalogValuations
    <3>1. ~changed /\ new \subseteq rels /\ rels' = rels
      <4> HIDE DEF new
      <4> QED BY <1>0, <2>1 DEF DatalogTypeOK
    <3>2. ClosedUnder(rels, program[rule])
      BY <1>0, <2>1, <3>1, QuietRuleClosed DEF Current
    <3>3. \A r \in 1 .. rule - 1 : ClosedUnder(rels, program[r])
      BY <1>0, <3>1 DEF PassClosed
    <3> HIDE DEF new
    <3> QED BY <2>2, <3>1, <3>2, <3>3
  <2>7. Fresh' /\ EndsQuiet'
    BY <1>0, <2>1 DEF Fresh, EndsQuiet, Matching
  <2>8. Sound'
    <3> SUFFICES ASSUME NEW M \in SUBSET Base, IsModel(M) PROVE new \subseteq M /\ rels \subseteq M
      BY <2>1 DEF Sound, IsModel, ClosedUnder, DatalogValuations
    <3>1. rels \subseteq M
      BY <1>0 DEF Sound
    <3>2. ClosedUnder(M, Current)
      BY <1>p, <2>2 DEF IsModel, Current
    <3> QED BY <1>0, <2>1, <3>1, <3>2, DerivesSoundly
  <2> QED BY <2>4, <2>5, <2>6, <2>7, <2>8 DEF ModelInv
<1>3. CASE EndPass
  <2>1. /\ pc = "match" /\ rule > Len(program) /\ changed' = FALSE
        /\ UNCHANGED <<program, rels, body, frontier, answers>>
    BY <1>3 DEF EndPass
  <2>2. frontier = {EmptySubst} /\ body = 1 /\ rule = Len(program) + 1
    BY <1>0, <1>p, <2>1 DEF Fresh, DatalogTypeOK
  <2>3. Sound' /\ PassClosed' /\ EndsQuiet' /\ Fresh'
    <3>1. Sound'
      BY <1>0, <2>1 DEF Sound, IsModel, ClosedUnder, DatalogValuations
    <3>2. CASE changed
      BY <1>3, <2>1, <2>2, <3>1, <3>2 DEF PassClosed, EndsQuiet, Fresh, EndPass
    <3>3. CASE ~changed
      BY <1>0, <1>3, <2>1, <2>2, <3>1, <3>3
         DEF PassClosed, EndsQuiet, Fresh, EndPass, ClosedUnder, DatalogValuations
    <3> QED BY <3>2, <3>3
  <2>4. rule' \in {1, Len(program) + 1} /\ pc' \in {"match", "done"}
    BY <1>3, <2>1, <2>2 DEF EndPass
  <2>5. DatalogTypeOK'
    <3>1. rule' <= Len(program) => 1 \in 1 .. Len(program[rule'].body) + 1
      <4> SUFFICES ASSUME rule' <= Len(program) PROVE 1 \in 1 .. Len(program[rule'].body) + 1
        OBVIOUS
      <4>1. rule' \in 1 .. Len(program)
        BY <1>p, <2>4
      <4>2. program[rule'] \in Rules
        BY <1>p, <4>1
      <4> QED BY <4>2 DEF Rules
    <3>2. rule' \in 1 .. Len(program) + 1 /\ pc' \in {"match", "done", "asked"}
      BY <1>p, <2>4
    <3>3. rule' <= Len(program') => body' \in 1 .. Len(Current'.body) + 1
      BY <2>1, <2>2, <3>1 DEF Current
    <3> QED BY <1>0, <2>1, <3>2, <3>3 DEF DatalogTypeOK
  <2>6. FrontierSound' /\ FrontierComplete'
    <3>1. PrefixVars(Current', body') = {} /\ 1 .. body' - 1 = {}
      BY <2>1, <2>2 DEF PrefixVars
    <3> QED BY <1>e, <2>1, <2>2, <3>1 DEF FrontierSound, FrontierComplete
  <2> QED BY <2>3, <2>5, <2>6 DEF ModelInv
<1>4. CASE Ask
  <2>1. PICK q \in Queries : Query(q)
    BY <1>4 DEF Ask
  <2>2. /\ pc # "match" /\ pc' = "asked" /\ answers' = DatalogMatches(q, {EmptySubst})
        /\ UNCHANGED <<program, rels, rule, body, frontier, changed>>
    BY <2>1 DEF Query
  <2>3. DatalogTypeOK'
    <3>1. answers' \subseteq Substs
      BY <1>0, <1>e, <2>2, MatchesTyped DEF DatalogTypeOK
    <3> QED BY <1>0, <2>2, <3>1 DEF DatalogTypeOK, Current
  <2>4. FrontierSound' /\ FrontierComplete'
    BY <2>2 DEF FrontierSound, FrontierComplete, Matching
  <2>5. Fresh' /\ PassClosed' /\ EndsQuiet' /\ Sound'
    BY <1>0, <2>2 DEF Fresh, PassClosed, EndsQuiet, Sound, IsModel, ClosedUnder, DatalogValuations
  <2> QED BY <2>3, <2>4, <2>5 DEF ModelInv
<1>5. CASE UNCHANGED datalogVars
  BY <1>0, <1>5 DEF datalogVars, ModelInv, Fresh, DatalogTypeOK, FrontierSound, FrontierComplete, PassClosed, EndsQuiet,
     Sound, IsModel, ClosedUnder, DatalogValuations, Matching, Current
<1> QED BY <1>1, <1>2, <1>3, <1>4, <1>5 DEF DatalogNext

LEMMA Inductive == DatalogSpec => []ModelInv
BY InitModelInv, StepIInv, PTL DEF DatalogSpec

-----------------------------------------------------------------------------
(* Theorems *)

\* The evaluation keeps its types, for every program.
THEOREM FactsTyped == DatalogSpec => []DatalogTypeOK
<1>1. ModelInv => DatalogTypeOK
  BY DEF ModelInv
<1> QED BY <1>1, Inductive, PTL

\* No fact is derived that some model of the rules lacks.
THEOREM DerivesOnlyConsequences == DatalogSpec => []Sound
<1>1. ModelInv => Sound
  BY DEF ModelInv
<1> QED BY <1>1, Inductive, PTL

\* Once the evaluation has ended no rule derives anything new: with the theorem
\* before, the facts are the least model.
THEOREM ReachesModel == DatalogSpec => []Complete
<1>1. ModelInv => Complete
  <2> SUFFICES ASSUME ModelInv, pc # "match", NEW r \in DOMAIN program
               PROVE  ClosedUnder(rels, program[r])
    BY DEF Complete, IsModel
  <2>1. program \in Seq(Rules) /\ ~changed /\ rule = Len(program) + 1
    BY DatalogAssumption DEF ModelInv, DatalogTypeOK, EndsQuiet
  <2>2. r \in 1 .. rule - 1
    BY <2>1
  <2> QED BY <2>1, <2>2 DEF ModelInv, PassClosed
<1> QED BY <1>1, Inductive, PTL

\* When the models compared with have all facts, a query's answers are exactly
\* the valuations of its variables under which it holds in every model.
THEOREM AnswersCorrectly ==
    ASSUME Base = Facts
    PROVE  DatalogSpec => AnswersRight
<1> DEFINE Follows(q) ==
        {s \in [VarsOf(q) -> Consts] :
            \A M \in SUBSET Base : IsModel(M) => Ground(q, s) \in M}
<1>1. ASSUME ModelInv, NEW q \in Queries, Query(q)
      PROVE  answers' = Follows(q)
  <2> USE DatalogAssumption
  <2>1. q \in Atoms /\ rels \subseteq Facts /\ Sound /\ answers' = DatalogMatches(q, {EmptySubst})
    BY <1>1 DEF ModelInv, DatalogTypeOK, Query
  <2>2. IsModel(rels)
    <3>1. program \in Seq(Rules) /\ ~changed /\ rule = Len(program) + 1 /\ PassClosed
      BY <1>1 DEF ModelInv, DatalogTypeOK, EndsQuiet, Query
    <3>2. \A r \in DOMAIN program : r \in 1 .. rule - 1
      BY <3>1
    <3> QED BY <3>1, <3>2 DEF PassClosed, IsModel
  <2>3. EmptySubst \in Substs /\ DOMAIN EmptySubst = {}
    <3>1. EmptySubst \in [{} -> Consts]
      BY DEF EmptySubst
    <3> QED BY <3>1 DEF Substs, EmptySubst
  <2>4. ASSUME NEW e \in answers' PROVE e \in Follows(q)
    <3>1. PICK f \in rels : Unifies(q, f, EmptySubst) /\ e = Extended(q, f, EmptySubst)
      BY <2>1, <2>4 DEF DatalogMatches
    <3>2. e \in Substs /\ DOMAIN e = VarsOf(q) /\ Ground(q, e) = f
      <4>1. f \in Facts
        BY <2>1, <3>1
      <4> QED BY <2>1, <2>3, <3>1, <4>1, ExtensionGrounds
    <3>3. e \in [VarsOf(q) -> Consts]
      BY <3>2 DEF Substs
    <3> QED BY <2>1, <3>1, <3>2, <3>3 DEF Sound
  <2>5. ASSUME NEW e \in Follows(q) PROVE e \in answers'
    <3>1. e \in [VarsOf(q) -> Consts] /\ Ground(q, e) \in rels
      BY <2>1, <2>2
    <3>2. PICK c : c \in Consts
      OBVIOUS
    <3> DEFINE sigma == [v \in RuleVars |-> IF v \in VarsOf(q) THEN e[v] ELSE c]
    <3>3. sigma \in DatalogValuations /\ \A v \in VarsOf(q) : e[v] = sigma[v]
      BY <3>1, <3>2 DEF DatalogValuations, VarsOf
    <3> HIDE DEF sigma
    <3>4. Ground(q, sigma) = Ground(q, e)
      BY <3>3, GroundAgrees
    <3>5. /\ Unifies(q, Ground(q, e), EmptySubst)
          /\ \A v \in VarsOf(q) : Extended(q, Ground(q, e), EmptySubst)[v] = sigma[v]
      BY <2>1, <2>3, <3>1, <3>3, <3>4, InstanceMatches
    <3>6. Extended(q, Ground(q, e), EmptySubst) = e
      <4>1. DOMAIN Extended(q, Ground(q, e), EmptySubst) = VarsOf(q)
        BY <2>3 DEF Extended
      <4>2. Extended(q, Ground(q, e), EmptySubst)
              = [v \in VarsOf(q) |-> Extended(q, Ground(q, e), EmptySubst)[v]]
        BY <4>1 DEF Extended
      <4> QED BY <3>1, <3>3, <3>5, <4>2
    <3> QED BY <2>1, <3>1, <3>5, <3>6 DEF DatalogMatches
  <2> HIDE DEF Follows
  <2> QED BY <2>4, <2>5
<1>2. ModelInv /\ [DatalogNext]_datalogVars =>
        [\A q \in Queries : Query(q) => answers' = Follows(q)]_datalogVars
  BY <1>1
<1> QED BY <1>2, Inductive, PTL DEF DatalogSpec, AnswersRight

\* Where saturate() stops, the facts are the least model of the rules.
THEOREM ReachesLeastModel == DatalogSpec => []LeastModel
<1>1. Sound /\ Complete => LeastModel
  BY DEF LeastModel
<1> QED BY <1>1, DerivesOnlyConsequences, ReachesModel, PTL
=============================================================================
