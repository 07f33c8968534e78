---------------------------- MODULE Smt_proofs ----------------------------
(***************************************************************************)
(* Theorems about SmtCore and CmdContext.  Whatever the theories, the      *)
(* formulas and the cores the explanations propose, no model is lost and   *)
(* every answer of the core loop is right; whatever the formulas, the      *)
(* declarations and the mode, the context's stacks and tables match their  *)
(* marks at every command, and the answers it keeps stay true of what is   *)
(* asserted.                                                               *)
(***************************************************************************)
EXTENDS SmtCore, CmdContext, FiniteSetTheorems, WellFoundedInduction, TLAPS


-----------------------------------------------------------------------------
(* The inductive invariant *)

\* The clauses of every asserted formula are the SAT solver's, over its atoms.
FormulasIn ==
    \A f \in asserted : f \subseteq clauses /\ AtomsOf(f) \subseteq known

\* The SAT solver's atoms of a theory are that theory's.
KindsTracked ==
    /\ known \in SUBSET Atoms
    /\ Tracked \subseteq known
    /\ \A a \in known : a \in EufKind \cup ArithKind => a \in Tracked

\* The assignment under examination satisfies the clauses attached.
AssignSatisfies ==
    pc \in {"theory", "verify"} =>
        /\ assign \in [known -> BOOLEAN]
        /\ Satisfies(assign, clauses \ queued)

\* Only a resumable solver queues clauses.
QueueOnlyResumed == ~Resume => queued = {} /\ ~standing

\* Each theory's atoms are of its kind.
KindsSound == eufAtoms \subseteq EufKind /\ arithAtoms \subseteq ArithKind

VerifyInconsistent ==
    pc = "verify" =>
        /\ ~Consistent
        /\ core \subseteq Atoms \X BOOLEAN

\* An answer is given once the check is over, and is right.
VerdictRight ==
    /\ pc # "idle" => verdict = "none"
    /\ verdict = "unsat" => ~ \E w \in Worlds : ModelOfAll(w)
    /\ SatModelReal

IInv ==
    /\ asserted \subseteq Formulas
    /\ NoModelLost
    /\ FormulasIn
    /\ KindsTracked
    /\ KindsSound
    /\ AssignSatisfies
    /\ VerifyInconsistent
    /\ VerdictRight
    /\ QueueOnlyResumed

-----------------------------------------------------------------------------
(* Lemmas about clauses *)

LEMMA WorldsAreValuations == \A w \in Worlds : w \in [Atoms -> BOOLEAN]
BY WorldsAssumption DEF Valuations

\* The negation of a core no world makes true holds in every world.
LEMMA NegatedHolds ==
    ASSUME NEW c \in SUBSET (Atoms \X BOOLEAN), Inconsistent(c), NEW w \in Worlds
    PROVE  Holds(w, Negated(c))
<1>1. PICK l \in c : w[l[1]] # l[2]
  BY DEF Inconsistent
<1>2. w[l[1]] \in BOOLEAN /\ l[2] \in BOOLEAN /\ l \in Atoms \X BOOLEAN
  BY WorldsAreValuations
<1>3. w[l[1]] = ~l[2]
  BY <1>1, <1>2
<1>4. <<l[1], ~l[2]>> \in Negated(c)
  BY DEF Negated
<1>5. PICK n \in Negated(c) : n = <<l[1], ~l[2]>>
  BY <1>4
<1>6. w[n[1]] = n[2]
  BY <1>3, <1>5
<1> QED BY <1>5, <1>6 DEF Holds

\* The full block of an inconsistent assignment holds in every world.
LEMMA FullBlockHolds ==
    ASSUME ~Consistent, assign \in [known -> BOOLEAN], Tracked \subseteq known,
           known \subseteq Atoms, NEW w \in Worlds
    PROVE  Holds(w, FullBlock)
<1>1. PICK x \in Tracked : w[x] # assign[x]
  BY DEF Consistent, Agrees
<1>2. w[x] \in BOOLEAN /\ assign[x] \in BOOLEAN
  BY WorldsAreValuations
<1>3. w[x] = ~assign[x]
  BY <1>1, <1>2
<1>4. <<x, assign[x]>> \in TrueLits
  BY DEF TrueLits
<1>5. PICK l \in TrueLits : l = <<x, assign[x]>>
  BY <1>4
<1>6. <<l[1], ~l[2]>> \in FullBlock
  BY <1>5 DEF FullBlock, Negated
<1>7. PICK n \in FullBlock : n = <<x, ~assign[x]>>
  BY <1>5, <1>6
<1> QED BY <1>3, <1>7 DEF Holds

\* A world that satisfies the old clauses, and every new one, satisfies all.
LEMMA MoreClauses ==
    ASSUME NEW w, NEW old, NEW more, Satisfies(w, old), Satisfies(w, more)
    PROVE  Satisfies(w, old \cup more)
BY DEF Satisfies

\* Trichotomies hold in every world.
LEMMA TrichotomiesHold ==
    ASSUME NEW es \in SUBSET (ArithKind \cap EufKind), NEW w \in Worlds
    PROVE  Satisfies(w, {Trichotomy(e) : e \in es})
BY SplitAssumption DEF Satisfies

\* The atoms of splits are arithmetic atoms.
LEMMA SplitAtomsArith ==
    ASSUME NEW es \in SUBSET (ArithKind \cap EufKind)
    PROVE  SplitAtoms(es) \subseteq ArithKind
<1>1. \A e \in es : SplitOf[e] \in ArithKind \X ArithKind
  BY SplitAssumption DEF Inequalities
<1>2. \A e \in es : SplitOf[e][1] \in ArithKind /\ SplitOf[e][2] \in ArithKind
  BY <1>1
<1> QED BY <1>2 DEF SplitAtoms

\* An assignment of atoms the theories accept extends to a world that agrees
\* with it on every atom.
LEMMA WorldOfAssignment ==
    ASSUME KindsTracked, assign \in [known -> BOOLEAN], Consistent
    PROVE  \E v \in Worlds : Agrees(v, assign, known)
<1>1. PICK w \in Worlds : Agrees(w, assign, Tracked)
  BY DEF Consistent
<1> DEFINE v == [x \in Atoms |-> IF x \in known /\ x \notin EufKind \cup ArithKind
                                 THEN assign[x] ELSE w[x]]
<1>2. w \in [Atoms -> BOOLEAN]
  BY WorldsAreValuations
<1>3. v \in Valuations
  BY <1>2 DEF Valuations
<1>4. \A a \in EufKind \cup ArithKind : v[a] = w[a]
  BY KindsAssumption
<1>5. v \in Worlds
  <2> HIDE DEF v
  <2> QED BY <1>3, <1>4, PureAssumption
<1>6. ASSUME NEW x \in known
      PROVE  v[x] = assign[x]
  <2>0. x \in Atoms
    BY DEF KindsTracked
  <2>1. CASE x \notin EufKind \cup ArithKind
    BY <2>0, <2>1
  <2>2. CASE x \in EufKind \cup ArithKind
    <3>1. x \in Tracked
      BY <2>2 DEF KindsTracked
    <3>2. w[x] = assign[x]
      BY <3>1, <1>1 DEF Agrees
    <3> QED BY <2>0, <2>2, <3>2
  <2> QED BY <2>1, <2>2
<1> HIDE DEF v
<1> QED BY <1>5, <1>6 DEF Agrees

\* A world that agrees with an assignment of the clauses is a model.
LEMMA AgreesIsModel ==
    ASSUME FormulasIn, NEW a, Satisfies(a, clauses), NEW v, Agrees(v, a, known)
    PROVE  ModelOfAll(v)
<1> SUFFICES ASSUME NEW f \in asserted, NEW c \in f
             PROVE  Holds(v, c)
  BY DEF ModelOfAll, IsModel, Satisfies
<1>1. c \in clauses /\ AtomsOf(f) \subseteq known
  BY DEF FormulasIn
<1>2. PICK l \in c : a[l[1]] = l[2]
  BY <1>1 DEF Satisfies, Holds
<1>3. l[1] \in known
  BY <1>1 DEF AtomsOf
<1> QED BY <1>2, <1>3 DEF Agrees, Holds

-----------------------------------------------------------------------------
(* The steps *)

LEMMA InitInv == Init => IInv
<1> SUFFICES ASSUME Init PROVE IInv
  OBVIOUS
<1>1. NoModelLost /\ FormulasIn
  BY DEF Init, NoModelLost, FormulasIn, Satisfies
<1>2. KindsTracked /\ KindsSound
  BY DEF Init, KindsTracked, KindsSound, Tracked
<1>3. AssignSatisfies /\ VerifyInconsistent /\ VerdictRight
  BY DEF Init, AssignSatisfies, VerifyInconsistent, VerdictRight, SatModelReal
<1>4. QueueOnlyResumed
  BY DEF Init, QueueOnlyResumed
<1> QED BY <1>1, <1>2, <1>3, <1>4 DEF IInv, Init

\* A step that changes neither the clauses nor the atoms keeps what is said of
\* them.
LEMMA ClausesKept ==
    ASSUME IInv, UNCHANGED solverVars
    PROVE  /\ asserted' \subseteq Formulas
           /\ NoModelLost' /\ FormulasIn' /\ KindsTracked' /\ KindsSound'
           /\ UNCHANGED queueVars => QueueOnlyResumed'
BY DEF IInv, solverVars, NoModelLost, ModelOfAll, IsModel, FormulasIn,
       KindsTracked, KindsSound, Tracked, queueVars, QueueOnlyResumed

\* Back to work, or to a new round.
LEMMA WorkKept ==
    ASSUME IInv, UNCHANGED <<solverVars, queueVars>>, pc' \in {"round", "search"},
           verdict' = "none"
    PROVE  IInv'
<1>1. AssignSatisfies' /\ VerifyInconsistent' /\ VerdictRight'
  BY DEF AssignSatisfies, VerifyInconsistent, VerdictRight, SatModelReal
<1> QED BY <1>1, ClausesKept DEF IInv

\* An answer "unknown" claims nothing.
LEMMA UnknownKept ==
    ASSUME IInv, UNCHANGED solverVars, QueueOnlyResumed', NEW why, Answer("unknown", why)
    PROVE  IInv'
<1>1. AssignSatisfies' /\ VerifyInconsistent' /\ VerdictRight'
  BY DEF Answer, AssignSatisfies, VerifyInconsistent, VerdictRight, SatModelReal
<1> QED BY <1>1, ClausesKept DEF IInv

\* Queues are a resumable solver's: what adds clauses, and what attaches them.
LEMMA AddsQueued ==
    ASSUME QueueOnlyResumed, NEW new, AddClauses(new)
    PROVE  QueueOnlyResumed'
BY DEF QueueOnlyResumed, AddClauses

LEMMA AttachQueued ==
    ASSUME QueueOnlyResumed, Attach, standing' \in {Resume, FALSE}
    PROVE  QueueOnlyResumed'
BY ModesAssumption DEF QueueOnlyResumed, Attach

LEMMA SearchUnsatRight ==
    ASSUME IInv, SearchUnsat
    PROVE  IInv'
<1>1. Worlds \subseteq Searched
  BY WorldsAssumption DEF Searched
<1>2. ~ \E w \in Worlds : ModelOfAll(w)
  BY <1>1 DEF IInv, NoModelLost, SearchUnsat
<1>3. (~ \E w \in Worlds : ModelOfAll(w))'
  BY <1>2 DEF SearchUnsat, solverVars, ModelOfAll, IsModel
<1>4. VerdictRight'
  BY <1>3 DEF SearchUnsat, Answer, VerdictRight, SatModelReal
<1>5. AssignSatisfies' /\ VerifyInconsistent'
  BY DEF SearchUnsat, Answer, AssignSatisfies, VerifyInconsistent
<1> QED BY <1>4, <1>5, ClausesKept DEF IInv, SearchUnsat

LEMMA SearchSatRight ==
    ASSUME IInv, SearchSat
    PROVE  IInv'
<1> USE DEF SearchSat
<1>0. UNCHANGED solverVars /\ QueueOnlyResumed'
  BY AttachQueued DEF IInv
<1>1. known' = known /\ clauses' = clauses /\ asserted' = asserted
      /\ eufAtoms' = eufAtoms /\ arithAtoms' = arithAtoms
  BY <1>0 DEF solverVars
<1>2. assign' \in [known -> BOOLEAN] /\ Satisfies(assign', clauses \ queued')
  OBVIOUS
<1>3. AssignSatisfies'
  BY <1>1, <1>2 DEF AssignSatisfies
<1>4. VerifyInconsistent'
  BY DEF VerifyInconsistent, Answer
<1>5. CASE hasTheory /\ pc' = "theory" /\ UNCHANGED <<verdict, reason, rounds, fullBlocks>>
  <2>1. verdict' = "none"
    BY <1>5 DEF IInv, VerdictRight
  <2>2. VerdictRight'
    BY <2>1 DEF VerdictRight, SatModelReal
  <2> QED BY <2>2, <1>0, <1>3, <1>4, ClausesKept DEF IInv
<1>6. CASE ~hasTheory /\ Answer("sat", "none")
  <2>1. Tracked = {}
    BY <1>6 DEF hasTheory, Tracked
  <2>2. KindsTracked'
    BY <1>0, ClausesKept
  <2>3. Worlds # {}
    BY PureAssumption
  <2>4. Consistent'
    BY <1>1, <2>1, <2>3 DEF Consistent, Agrees, Tracked
  <2>5. (\E v \in Worlds : Agrees(v, assign, known))'
    <3>1. PICK w \in Worlds : TRUE
      BY <2>3
    <3> DEFINE v == [x \in Atoms |-> IF x \in known /\ x \notin EufKind \cup ArithKind
                                     THEN assign'[x] ELSE w[x]]
    <3>2. w \in [Atoms -> BOOLEAN]
      BY WorldsAreValuations
    <3>3. v \in Valuations
      BY <3>2, <1>2 DEF Valuations
    <3>4. \A a \in EufKind \cup ArithKind : v[a] = w[a]
      BY KindsAssumption
    <3>5. \A x \in known : x \in Atoms /\ x \notin EufKind \cup ArithKind
      BY <2>1 DEF IInv, KindsTracked
    <3>6. \A x \in known : v[x] = assign'[x]
      BY <3>5
    <3> HIDE DEF v
    <3>7. v \in Worlds
      BY <3>3, <3>4, PureAssumption
    <3>8. Agrees(v, assign', known')
      BY <3>6, <1>1 DEF Agrees
    <3> QED BY <3>7, <3>8
  <2>6. PICK v \in Worlds : Agrees(v, assign', known)
    BY <2>5, <1>1
  <2>7. PICK a : a = assign'
    OBVIOUS
  <2>8. ASSUME queued' = {}
        PROVE  ModelOfAll(v)
    <3>0. clauses \ queued' = clauses
      BY <2>8
    <3>1. FormulasIn /\ Satisfies(a, clauses) /\ Agrees(v, a, known)
      BY <3>0, <2>6, <2>7, <1>2 DEF IInv
    <3> QED BY <3>1, AgreesIsModel
  <2>9. queued' = {} => ModelOfAll(v)'
    BY <2>8, <1>1 DEF ModelOfAll, IsModel
  <2>10. VerdictRight'
    BY <2>6, <2>9, <1>1, <1>6 DEF VerdictRight, SatModelReal, Answer
  <2> QED BY <2>10, <1>0, <1>3, <1>4, ClausesKept DEF IInv
<1> QED BY <1>5, <1>6

LEMMA TheorySatRight ==
    ASSUME IInv, TheorySat
    PROVE  IInv'
<1> USE DEF TheorySat
<1>1. UNCHANGED solverVars /\ UNCHANGED queueVars /\ assign' = assign
  OBVIOUS
<1>2. assign \in [known -> BOOLEAN] /\ Satisfies(assign, clauses \ queued)
  BY DEF IInv, AssignSatisfies
<1>3. PICK v \in Worlds : Agrees(v, assign, known)
  BY <1>2, WorldOfAssignment DEF IInv
<1>4. ASSUME queued = {}
      PROVE  ModelOfAll(v)
  <2>1. clauses \ queued = clauses
    BY <1>4
  <2> QED BY <2>1, <1>2, <1>3, AgreesIsModel DEF IInv
<1>5. (queued = {} => ModelOfAll(v)') /\ Agrees(v, assign', known')
  BY <1>1, <1>3, <1>4 DEF ModelOfAll, IsModel, solverVars
<1>6. VerdictRight'
  BY <1>1, <1>5 DEF VerdictRight, SatModelReal, Answer, queueVars
<1>7. AssignSatisfies' /\ VerifyInconsistent'
  BY DEF AssignSatisfies, VerifyInconsistent, Answer
<1> QED BY <1>1, <1>6, <1>7, ClausesKept DEF IInv

LEMMA TheoryConflictKept ==
    ASSUME IInv, TheoryConflict
    PROVE  IInv'
<1> USE DEF TheoryConflict
<1>1. /\ UNCHANGED solverVars /\ UNCHANGED queueVars
      /\ assign' = assign /\ verdict' = verdict
  OBVIOUS
<1>2. known' = known /\ clauses' = clauses /\ eufAtoms' = eufAtoms
      /\ arithAtoms' = arithAtoms
  BY <1>1 DEF solverVars
<1>3. assign \in [known -> BOOLEAN] /\ Satisfies(assign, clauses \ queued)
      /\ verdict = "none"
  BY DEF IInv, AssignSatisfies, VerdictRight
<1>4. AssignSatisfies'
  BY <1>1, <1>2, <1>3 DEF AssignSatisfies, queueVars
<1>5. VerdictRight'
  BY <1>1, <1>3 DEF VerdictRight, SatModelReal
<1>6. TrueLits \subseteq Atoms \X BOOLEAN
  BY <1>3 DEF TrueLits, IInv, KindsTracked
<1>7. core' \subseteq Atoms \X BOOLEAN
  BY <1>6
<1>8. ~Consistent'
  BY <1>1, <1>2 DEF Consistent, Agrees, Tracked
<1>9. VerifyInconsistent'
  BY <1>7, <1>8 DEF VerifyInconsistent
<1> QED BY <1>1, <1>4, <1>5, <1>9, ClausesKept DEF IInv

\* Learning a clause that holds in every world loses no model.
LEMMA LearnKept ==
    ASSUME IInv, pc # "idle", NEW clause, \A w \in Worlds : Holds(w, clause),
           Learn(clause)
    PROVE  IInv'
<1> USE DEF Learn, NextRound
<1>0. clauses' = clauses \cup {clause} /\ QueueOnlyResumed'
  BY AddsQueued DEF IInv, AddClauses
<1>1. NoModelLost'
  BY <1>0 DEF IInv, NoModelLost, ModelOfAll, IsModel, Satisfies
<1>2. FormulasIn' /\ KindsTracked' /\ KindsSound'
  BY <1>0 DEF IInv, FormulasIn, KindsTracked, KindsSound, Tracked
<1>3. verdict' = "none"
  BY DEF IInv, VerdictRight
<1>4. AssignSatisfies' /\ VerifyInconsistent' /\ VerdictRight'
  BY <1>3 DEF AssignSatisfies, VerifyInconsistent, VerdictRight, SatModelReal
<1> QED BY <1>0, <1>1, <1>2, <1>4 DEF IInv

LEMMA FullBlockKept ==
    ASSUME IInv, pc \in {"theory", "verify"}, ~Consistent, Learn(FullBlock)
    PROVE  IInv'
<1>1. assign \in [known -> BOOLEAN] /\ Tracked \subseteq known /\ known \subseteq Atoms
  BY DEF IInv, AssignSatisfies, KindsTracked
<1>2. \A w \in Worlds : Holds(w, FullBlock)
  BY <1>1, FullBlockHolds
<1>3. PICK clause : clause = FullBlock
  OBVIOUS
<1> QED BY <1>2, LearnKept

LEMMA TheoryUnsatKept ==
    ASSUME IInv, TheoryUnsat
    PROVE  IInv'
<1> USE DEF TheoryUnsat
<1>1. CASE Learn(FullBlock)
  BY <1>1, FullBlockKept
<1>2. ASSUME NEW c \in SUBSET TrueLits, Inconsistent(c), Learn(Negated(c))
      PROVE  IInv'
  <2>1. c \in SUBSET (Atoms \X BOOLEAN)
    BY DEF TrueLits, IInv, KindsTracked, AssignSatisfies
  <2>2. \A w \in Worlds : Holds(w, Negated(c))
    BY <1>2, <2>1, NegatedHolds
  <2> QED BY <1>2, <2>2, LearnKept
<1> QED BY <1>1, <1>2

\* New atoms and new clauses that hold in every world.
LEMMA SplitKept ==
    ASSUME IInv, pc = "theory", NextRound,
           NEW new \in SUBSET ArithKind, AddArith(new),
           NEW more, clauses' = clauses \cup more, QueueOnlyResumed',
           \A w \in Worlds : Satisfies(w, more),
           eufAtoms \subseteq eufAtoms', eufAtoms' \subseteq eufAtoms \cup (new \cap EufKind)
    PROVE  IInv'
<1> USE DEF NextRound, AddArith
<1>1. NoModelLost'
  BY DEF IInv, NoModelLost, ModelOfAll, IsModel, Satisfies
<1>2. FormulasIn'
  BY DEF IInv, FormulasIn
<1>3. KindsTracked' /\ KindsSound'
  BY KindsAssumption DEF IInv, KindsTracked, KindsSound, Tracked
<1>4. verdict' = "none"
  BY DEF IInv, VerdictRight
<1>5. AssignSatisfies' /\ VerifyInconsistent' /\ VerdictRight'
  BY <1>4 DEF AssignSatisfies, VerifyInconsistent, VerdictRight, SatModelReal
<1> QED BY <1>1, <1>2, <1>3, <1>5 DEF IInv

LEMMA SplitDiseqsKept ==
    ASSUME IInv, SplitDiseqs
    PROVE  IInv'
<1> USE DEF SplitDiseqs
<1>1. PICK es \in (SUBSET Violated) \ {{}} :
          AddArith(SplitAtoms(es)) /\ AddClauses({Trichotomy(e) : e \in es})
  OBVIOUS
<1>2. Violated \subseteq ArithKind \cap EufKind
  BY DEF IInv, KindsSound, Violated
<1>3. SplitAtoms(es) \in SUBSET ArithKind
  BY <1>2, SplitAtomsArith
<1>4. \A w \in Worlds : Satisfies(w, {Trichotomy(e) : e \in es})
  BY <1>2, TrichotomiesHold
<1>5. PICK more : more = {Trichotomy(e) : e \in es}
  OBVIOUS
<1>6. clauses' = clauses \cup more /\ QueueOnlyResumed'
  BY <1>1, <1>5, AddsQueued DEF AddClauses, IInv
<1> QED BY <1>1, <1>3, <1>4, <1>5, <1>6, SplitKept

LEMMA SplitBranchesKept ==
    ASSUME IInv, SplitBranches
    PROVE  IInv'
<1> USE DEF SplitBranches
<1>1. PICK bs \in (SUBSET (Branches \ arithAtoms)) \ {{}} : AddArith(bs)
  OBVIOUS
<1>2. bs \in SUBSET ArithKind
  BY NewAtomsAssumption DEF Inequalities
<1>3. \A w \in Worlds : Satisfies(w, {})
  BY DEF Satisfies
<1>4. clauses' = clauses \cup {} /\ eufAtoms' = eufAtoms /\ QueueOnlyResumed'
  BY DEF queueVars, IInv, QueueOnlyResumed
<1> QED BY <1>1, <1>2, <1>3, <1>4, SplitKept

LEMMA SplitEqsKept ==
    ASSUME IInv, SplitEqs
    PROVE  IInv'
<1> USE DEF SplitEqs
<1>1. PICK es \in (SUBSET (NewEqs \ eufAtoms)) \ {{}} :
          LET axioms == IF Eager THEN es ELSE {}
          IN  /\ AddArith(es \cup SplitAtoms(axioms))
              /\ AddClauses({Trichotomy(e) : e \in axioms})
              /\ eufAtoms' = eufAtoms \cup es
  OBVIOUS
<1>2. PICK axioms : axioms = IF Eager THEN es ELSE {}
  OBVIOUS
<1>3. es \subseteq ArithKind \cap EufKind /\ axioms \subseteq es
  BY <1>2, NewAtomsAssumption
<1>4. SplitAtoms(axioms) \subseteq ArithKind
  BY <1>3, SplitAtomsArith
<1>5. PICK new : new = es \cup SplitAtoms(axioms)
  OBVIOUS
<1>6. new \in SUBSET ArithKind /\ es \subseteq new \cap EufKind
  BY <1>3, <1>4, <1>5
<1>7. \A w \in Worlds : Satisfies(w, {Trichotomy(e) : e \in axioms})
  BY <1>3, TrichotomiesHold
<1>8. PICK more : more = {Trichotomy(e) : e \in axioms}
  OBVIOUS
<1>9. /\ AddArith(new) /\ AddClauses(more)
      /\ clauses' = clauses \cup more /\ eufAtoms' = eufAtoms \cup es
  BY <1>1, <1>2, <1>5, <1>8 DEF AddClauses
<1>10. NextRound /\ pc = "theory"
  OBVIOUS
<1>11. (\A w \in Worlds : Satisfies(w, more)) /\ QueueOnlyResumed'
  BY <1>7, <1>8, <1>9, AddsQueued DEF IInv
<1> HIDE DEF SplitEqs
<1> QED BY <1>6, <1>9, <1>10, <1>11, SplitKept

\* The clauses of the formula, and the trichotomies of its equalities.
LEMMA AssertKept ==
    ASSUME IInv, NEW f \in Formulas, AssertRoot(f)
    PROVE  IInv'
<1> DEFINE fresh == AtomsOf(f) \ known
           eqs == fresh \cap EufKind \cap ArithKind
<1>1. PICK axioms : axioms = IF Eager THEN eqs ELSE {}
  OBVIOUS
<1>2. axioms \in SUBSET (ArithKind \cap EufKind)
  BY <1>1
<1>3. /\ pc = "idle" /\ pc' = "idle" /\ verdict' = "none"
      /\ asserted' = asserted \cup {f}
      /\ known' = known \cup fresh \cup SplitAtoms(axioms)
      /\ AddClauses(f \cup {Trichotomy(e) : e \in axioms})
      /\ eufAtoms' = eufAtoms \cup (fresh \cap EufKind)
      /\ arithAtoms' = arithAtoms \cup (fresh \cap ArithKind) \cup SplitAtoms(axioms)
  BY <1>1 DEF AssertRoot
<1>4. PICK splits : splits = SplitAtoms(axioms)
  OBVIOUS
<1>5. splits \subseteq ArithKind
  BY <1>2, <1>4, SplitAtomsArith
<1>6. PICK tris : tris = {Trichotomy(e) : e \in axioms}
  OBVIOUS
<1>7. \A w \in Worlds : Satisfies(w, tris)
  BY <1>2, <1>6, TrichotomiesHold
<1>8. AtomsOf(f) \subseteq Atoms
  BY FormulasAssumption DEF AtomsOf
<1>9. PICK atoms : atoms = AtomsOf(f)
  OBVIOUS
<1>10. /\ known' = known \cup (atoms \ known) \cup splits
       /\ clauses' = clauses \cup f \cup tris
       /\ eufAtoms' = eufAtoms \cup ((atoms \ known) \cap EufKind)
       /\ arithAtoms' = arithAtoms \cup ((atoms \ known) \cap ArithKind) \cup splits
       /\ QueueOnlyResumed'
  BY <1>3, <1>4, <1>6, <1>9, AddsQueued DEF AddClauses, IInv
<1> HIDE DEF fresh, eqs
<1>11. KindsTracked' /\ KindsSound'
  BY <1>5, <1>8, <1>9, <1>10, KindsAssumption DEF IInv, KindsTracked, KindsSound, Tracked
<1>12. FormulasIn'
  <2> SUFFICES ASSUME NEW g \in asserted'
               PROVE  g \subseteq clauses' /\ AtomsOf(g) \subseteq known'
    BY DEF FormulasIn
  <2>1. CASE g = f
    BY <2>1, <1>9, <1>10
  <2>2. CASE g \in asserted
    BY <2>2, <1>10 DEF IInv, FormulasIn
  <2> QED BY <2>1, <2>2, <1>3
<1>13. NoModelLost'
  <2> SUFFICES ASSUME NEW w \in Worlds, \A g \in asserted' : IsModel(w, g)
               PROVE  Satisfies(w, clauses')
    BY DEF NoModelLost, ModelOfAll
  <2>1. Satisfies(w, clauses)
    BY <1>3 DEF IInv, NoModelLost, ModelOfAll
  <2>2. Satisfies(w, f)
    BY <1>3 DEF IsModel
  <2> QED BY <2>1, <2>2, <1>7, <1>10 DEF Satisfies
<1>14. AssignSatisfies' /\ VerifyInconsistent' /\ VerdictRight'
  BY <1>3 DEF AssignSatisfies, VerifyInconsistent, VerdictRight, SatModelReal
<1>15. asserted' \subseteq Formulas
  BY <1>3 DEF IInv
<1> QED BY <1>10, <1>11, <1>12, <1>13, <1>14, <1>15 DEF IInv

LEMMA NextInv == IInv /\ [Next]_vars => IInv'
<1> SUFFICES ASSUME IInv, [Next]_vars PROVE IInv'
  OBVIOUS
<1>1. CASE StartCheck
  BY <1>1, WorkKept DEF StartCheck
<1>0. UNCHANGED queueVars => QueueOnlyResumed'
  BY DEF queueVars, IInv, QueueOnlyResumed
<1>2. CASE GiveUpRounds
  BY <1>0, <1>2, UnknownKept DEF GiveUpRounds
<1>3. CASE StartRound
  <2>1. UNCHANGED <<solverVars, queueVars>> /\ pc = "round" /\ QueueOnlyResumed'
    BY <1>0, <1>3 DEF StartRound
  <2>2. CASE Answer("unknown", "limit")
    BY <2>1, <2>2, UnknownKept
  <2>3. CASE pc' = "search" /\ verdict' = verdict
    BY <2>1, <2>3, WorkKept DEF IInv, VerdictRight
  <2> QED BY <2>2, <2>3, <1>3 DEF StartRound
<1>4. CASE SearchUnsat
  BY <1>4, SearchUnsatRight
<1>5. CASE SearchGivesUp
  <2>1. QueueOnlyResumed'
    BY <1>5, AttachQueued DEF SearchGivesUp, IInv
  <2> QED BY <1>5, <2>1, UnknownKept DEF SearchGivesUp
<1>6. CASE SearchSat
  BY <1>6, SearchSatRight
<1>7. CASE TheorySat
  BY <1>7, TheorySatRight
<1>8. CASE TheoryUnknown
  BY <1>0, <1>8, UnknownKept DEF TheoryUnknown
<1>9. CASE TheoryConflict
  BY <1>9, TheoryConflictKept
<1>10. CASE TheoryUnsat
  BY <1>10, TheoryUnsatKept
<1>11. CASE CoreVerified
  <2>1. core \in SUBSET (Atoms \X BOOLEAN) /\ pc = "verify"
    BY <1>11 DEF IInv, VerifyInconsistent, CoreVerified
  <2>2. PICK c : c = core
    OBVIOUS
  <2>3. \A w \in Worlds : Holds(w, Negated(c))
    BY <1>11, <2>1, <2>2, NegatedHolds DEF CoreVerified
  <2> QED BY <1>11, <2>1, <2>2, <2>3, LearnKept DEF CoreVerified
<1>12. CASE CoreRejected
  BY <1>12, FullBlockKept DEF CoreRejected, IInv, VerifyInconsistent
<1>13. CASE SplitDiseqs
  BY <1>13, SplitDiseqsKept
<1>14. CASE SplitBranches
  BY <1>14, SplitBranchesKept
<1>15. CASE SplitEqs
  BY <1>15, SplitEqsKept
<1>16. ASSUME NEW f \in Formulas, AssertRoot(f) PROVE IInv'
  BY <1>16, AssertKept
<1>17. CASE UNCHANGED vars
  <2>1. UNCHANGED <<solverVars, queueVars, pc, assign, core, verdict>>
    BY <1>17 DEF vars, checkVars
  <2>2. AssignSatisfies' /\ VerifyInconsistent' /\ VerdictRight'
    BY <2>1 DEF IInv, AssignSatisfies, VerifyInconsistent, VerdictRight, SatModelReal,
                solverVars, queueVars, Consistent, Agrees, Tracked, ModelOfAll, IsModel
  <2> QED BY <2>1, <2>2, ClausesKept DEF IInv
<1> QED BY <1>1, <1>2, <1>3, <1>4, <1>5, <1>6, <1>7, <1>8, <1>9, <1>10, <1>11,
           <1>12, <1>13, <1>14, <1>15, <1>16, <1>17 DEF Next, Round

\* The invariant of every behaviour of the check loop (SmtCore::check,
\* solver.rs:380).
THEOREM Invariance == Spec => []IInv
<1> QED BY InitInv, NextInv, PTL DEF Spec

\* No clause the loop learns, verified core, full block or split, loses a
\* model of the asserted formulas (solver.rs:609).
THEOREM NoneLost == Spec => []NoModelLost
<1>1. IInv => NoModelLost
  BY DEF IInv
<1> QED BY <1>1, Invariance, PTL

\* The assignment of a "sat" answer given with nothing queued is a model of
\* every asserted formula (SmtCore::check).
THEOREM SatRight == Spec => []SatModelReal
<1>1. IInv => SatModelReal
  BY DEF IInv, VerdictRight
<1> QED BY <1>1, Invariance, PTL

\* Nothing is ever queued unless searches are resumed (SmtCore::resume_searches),
\* so that in the ordinary mode every "sat" is a model of all that is asserted.
THEOREM OrdinarySatRight ==
    ASSUME ~Resume
    PROVE  Spec => [](verdict = "sat" =>
                          \E w \in Worlds : ModelOfAll(w) /\ Agrees(w, assign, known))
<1>1. IInv => (verdict = "sat" =>
                   \E w \in Worlds : ModelOfAll(w) /\ Agrees(w, assign, known))
  BY DEF IInv, VerdictRight, SatModelReal, QueueOnlyResumed
<1> QED BY <1>1, Invariance, PTL

-----------------------------------------------------------------------------
(* The refinement *)

\* A world is a model of a formula of module Decision as it is one here.
LEMMA SatisfiableIs ==
    ASSUME asserted \subseteq Formulas
    PROVE  Decide!Satisfiable <=> \E w \in Worlds : ModelOfAll(w)
BY DEF Decide!Satisfiable, ModelOfAll

LEMMA DecideInit == Init => Decide!Init
BY DEF Init, Decide!Init, Told

LEMMA DecideStep == IInv /\ IInv' /\ [Next]_vars => [Decide!Next]_(Decide!vars)
<1> SUFFICES ASSUME IInv, IInv', [Next]_vars
             PROVE  [Decide!Next]_(Decide!vars)
  OBVIOUS
<1> USE DEF Decide!Next, Decide!vars
<1>1. CASE StartCheck
  <2>1. Decide!Ask
    BY <1>1 DEF StartCheck, solverVars, Decide!Ask, Told
  <2> QED BY <2>1
<1>2. ASSUME NEW f \in Formulas, AssertRoot(f)
      PROVE  Decide!Next
  <2>1. Decide!AssertRoot(f)
    BY <1>2 DEF AssertRoot, Decide!AssertRoot, Told
  <2> QED BY <2>1
<1>3. ASSUME NEW why, Answer("unknown", why), UNCHANGED solverVars
      PROVE  Decide!Next
  <2>1. Decide!Answer
    BY <1>3 DEF Answer, solverVars, Decide!Answer, Told
  <2> QED BY <2>1
<1>4. CASE SearchUnsat
  <2>1. asserted' = asserted /\ verdict' = "unsat"
    BY <1>4 DEF SearchUnsat, solverVars, Answer
  <2>2. ~ \E w \in Worlds : ModelOfAll(w)
    BY <2>1 DEF IInv, VerdictRight, ModelOfAll
  <2>3. ~Decide!Satisfiable
    BY <2>2, SatisfiableIs DEF IInv
  <2>4. Decide!Answer
    BY <2>1, <2>3 DEF Decide!Answer, Told
  <2> QED BY <2>4
<1>5. ASSUME UNCHANGED solverVars, Answer("sat", "none")
      PROVE  Decide!Next
  <2>1. asserted' = asserted /\ verdict' = "sat"
    BY <1>5 DEF solverVars, Answer
  <2>2. queued' = {} => \E w \in Worlds : ModelOfAll(w)
    BY <2>1 DEF IInv, VerdictRight, SatModelReal, ModelOfAll
  <2>3. queued' = {} => Decide!Satisfiable
    BY <2>2, SatisfiableIs DEF IInv
  <2>4. Decide!Answer
    BY <2>1, <2>3 DEF Decide!Answer, Told
  <2> QED BY <2>4
<1>6. ASSUME UNCHANGED <<asserted, verdict>>, pc # "idle" \/ UNCHANGED queueVars
      PROVE  UNCHANGED Decide!vars
  BY <1>6 DEF Told, IInv, VerdictRight, queueVars
<1>7. CASE GiveUpRounds
  BY <1>7, <1>3 DEF GiveUpRounds
<1>8. CASE StartRound
  BY <1>8, <1>3, <1>6 DEF StartRound, solverVars
<1>9. CASE SearchGivesUp
  BY <1>9, <1>3 DEF SearchGivesUp
<1>10. CASE SearchSat
  BY <1>10, <1>5, <1>6 DEF SearchSat, solverVars
<1>11. CASE TheorySat
  BY <1>11, <1>5 DEF TheorySat
<1>12. CASE TheoryUnknown
  BY <1>12, <1>3 DEF TheoryUnknown
<1>13. CASE TheoryConflict
  BY <1>13, <1>6 DEF TheoryConflict, solverVars
<1>14. CASE TheoryUnsat
  BY <1>14, <1>6 DEF TheoryUnsat, Learn, NextRound
<1>15. CASE CoreVerified \/ CoreRejected
  BY <1>15, <1>6 DEF CoreVerified, CoreRejected, Learn, NextRound
<1>16. CASE SplitDiseqs \/ SplitBranches \/ SplitEqs
  BY <1>16, <1>6 DEF SplitDiseqs, SplitBranches, SplitEqs, NextRound
<1>17. CASE UNCHANGED vars
  BY <1>17, <1>6 DEF vars, solverVars, checkVars
<1> QED BY <1>1, <1>2, <1>4, <1>7, <1>8, <1>9, <1>10, <1>11, <1>12, <1>13, <1>14,
           <1>15, <1>16, <1>17 DEF Next, Round

\* SmtCore implements the decision procedure: every answer is right for the
\* formulas asserted when it is given (SmtCore::check).
THEOREM Implements == Spec => Decides
<1>1. Spec => Decide!Spec
  BY DecideInit, DecideStep, Invariance, PTL DEF Spec, Decide!Spec
<1> QED BY <1>1 DEF Decides

-----------------------------------------------------------------------------
(* Every round gets somewhere *)

\* The SAT solver's atoms of a theory are in that theory's list, each in all
\* the lists of its kinds.
KindsExact ==
    known \cap EufKind \subseteq eufAtoms /\ known \cap ArithKind \subseteq arithAtoms

\* The core under verification consists of literals of the assignment.
CoreReal == pc = "verify" => core \subseteq TrueLits

\* The atoms of a case split are comparisons.
LEMMA SplitAtomsCompare ==
    ASSUME NEW es \in SUBSET (ArithKind \cap EufKind)
    PROVE  SplitAtoms(es) \subseteq Inequalities
<1>1. \A e \in es : SplitOf[e] \in Inequalities \X Inequalities
  BY SplitAssumption
<1>2. \A e \in es : SplitOf[e][1] \in Inequalities /\ SplitOf[e][2] \in Inequalities
  BY <1>1
<1> QED BY <1>2 DEF SplitAtoms

\* New atoms go to the lists of their kinds.
LEMMA KindsExactStep == IInv /\ KindsExact /\ [Next]_vars => KindsExact'
<1> SUFFICES ASSUME IInv, KindsExact, [Next]_vars PROVE KindsExact'
  OBVIOUS
<1>1. CASE UNCHANGED <<known, eufAtoms, arithAtoms>>
  BY <1>1 DEF KindsExact
<1>2. ASSUME NEW f \in Formulas, AssertRoot(f) PROVE KindsExact'
  <2>1. PICK fresh : fresh = AtomsOf(f) \ known
    OBVIOUS
  <2>2. PICK axioms : axioms = IF Eager THEN fresh \cap EufKind \cap ArithKind ELSE {}
    OBVIOUS
  <2>3. PICK splits : splits = SplitAtoms(axioms)
    OBVIOUS
  <2>4. splits \subseteq Inequalities
    BY <2>2, <2>3, SplitAtomsCompare
  <2>5. /\ known' = known \cup fresh \cup splits
        /\ eufAtoms' = eufAtoms \cup (fresh \cap EufKind)
        /\ arithAtoms' = arithAtoms \cup (fresh \cap ArithKind) \cup splits
    BY <1>2, <2>1, <2>2, <2>3 DEF AssertRoot
  <2> QED BY <2>4, <2>5 DEF KindsExact, Inequalities
<1>3. CASE SplitDiseqs
  <2>1. PICK es \in (SUBSET Violated) \ {{}} : AddArith(SplitAtoms(es))
    BY <1>3 DEF SplitDiseqs
  <2>2. SplitAtoms(es) \subseteq Inequalities
    <3>1. Violated \subseteq ArithKind \cap EufKind
      BY DEF IInv, KindsSound, Violated
    <3> QED BY <3>1, SplitAtomsCompare
  <2>3. eufAtoms' = eufAtoms
    BY <1>3 DEF SplitDiseqs
  <2> QED BY <2>1, <2>2, <2>3 DEF AddArith, KindsExact, Inequalities
<1>4. CASE SplitBranches
  BY <1>4, NewAtomsAssumption DEF SplitBranches, AddArith, KindsExact, Inequalities
<1>5. CASE SplitEqs
  <2>1. PICK es \in (SUBSET (NewEqs \ eufAtoms)) \ {{}} :
            /\ AddArith(es \cup SplitAtoms(IF Eager THEN es ELSE {}))
            /\ eufAtoms' = eufAtoms \cup es
    BY <1>5 DEF SplitEqs
  <2>2. PICK splits : splits = SplitAtoms(IF Eager THEN es ELSE {})
    OBVIOUS
  <2>3. splits \subseteq Inequalities
    BY <2>2, NewAtomsAssumption, SplitAtomsCompare
  <2>4. AddArith(es \cup splits)
    BY <2>1, <2>2
  <2> QED BY <2>1, <2>3, <2>4 DEF AddArith, KindsExact, Inequalities
<1> QED BY <1>1, <1>2, <1>3, <1>4, <1>5
        DEF Next, Round, vars, solverVars, StartCheck, GiveUpRounds, StartRound,
            SearchUnsat, SearchGivesUp, SearchSat, TheorySat, TheoryUnknown,
            TheoryConflict, TheoryUnsat, CoreVerified, CoreRejected, Learn

\* A core is proposed of the assignment, which stays until it is verified.
LEMMA CoreRealStep == CoreReal /\ [Next]_vars => CoreReal'
<1> SUFFICES ASSUME CoreReal, [Next]_vars, pc' = "verify" PROVE core' \subseteq TrueLits'
  BY DEF CoreReal
<1>1. CASE TheoryConflict
  BY <1>1 DEF TheoryConflict, TrueLits, Tracked, solverVars
<1>2. CASE UNCHANGED vars
  BY <1>2 DEF vars, checkVars, solverVars, CoreReal, TrueLits, Tracked
<1> QED BY <1>1, <1>2
        DEF Next, Round, StartCheck, AssertRoot, GiveUpRounds, StartRound,
            SearchUnsat, SearchGivesUp, SearchSat, TheorySat, TheoryUnknown,
            TheoryUnsat, CoreVerified, CoreRejected, SplitDiseqs, SplitBranches,
            SplitEqs, Learn, NextRound, Answer

\* An assignment falsifies the negation of literals of its own.
LEMMA NegatedFails ==
    ASSUME assign \in [known -> BOOLEAN], Tracked \subseteq known,
           NEW c \in SUBSET TrueLits
    PROVE  ~Holds(assign, Negated(c))
<1> SUFFICES ASSUME NEW n \in Negated(c), assign[n[1]] = n[2] PROVE FALSE
  BY DEF Holds
<1>1. PICK l \in c : n = <<l[1], ~l[2]>>
  BY DEF Negated
<1>2. PICK x \in Tracked : l = <<x, assign[x]>>
  BY DEF TrueLits
<1>3. assign[x] \in BOOLEAN /\ n[1] = x /\ n[2] = ~assign[x]
  BY <1>1, <1>2
<1> QED BY <1>3

\* Learning it excludes the assignment.
LEMMA LearnExcludes ==
    ASSUME IInv, pc \in {"theory", "verify"}, NEW c \in SUBSET TrueLits,
           Learn(Negated(c))
    PROVE  ~Satisfies(assign, clauses')
<1>1. ~Holds(assign, Negated(c))
  BY NegatedFails DEF IInv, AssignSatisfies, KindsTracked
<1> QED BY <1>1 DEF Learn, AddClauses, Satisfies

\* A violated equality whose split atoms are all known has both of them false:
\* its trichotomy excludes the assignment.
LEMMA DiseqProgress ==
    ASSUME IInv, KindsExact, SplitDiseqs, known' = known
    PROVE  ~Satisfies(assign, clauses')
<1>1. PICK es \in (SUBSET Violated) \ {{}} :
          /\ AddArith(SplitAtoms(es))
          /\ clauses' = clauses \cup {Trichotomy(e) : e \in es}
  BY DEF SplitDiseqs, AddClauses
<1>2. PICK e \in es : TRUE
  BY <1>1
<1>3. e \in ArithKind \cap EufKind /\ ~assign[e]
  BY <1>2 DEF Violated, IInv, KindsSound
<1>4. SplitOf[e] \in Inequalities \X Inequalities
  BY <1>3, SplitAssumption
<1>5. ASSUME NEW i \in 1 .. 2 PROVE SplitOf[e][i] \in known /\ ~assign[SplitOf[e][i]]
  <2>1. SplitOf[e][i] \in SplitAtoms(es) /\ SplitOf[e][i] \in ArithKind
    BY <1>4 DEF SplitAtoms, Inequalities
  <2>2. SplitOf[e][i] \in known
    BY <1>1, <2>1 DEF AddArith
  <2>3. SplitOf[e][i] \in arithAtoms
    BY <2>1, <2>2 DEF KindsExact
  <2> QED BY <1>2, <2>2, <2>3 DEF Violated
<1>6. SplitOf[e][1] \in known /\ SplitOf[e][2] \in known /\ e \in known
  BY <1>2, <1>5 DEF Violated, IInv, KindsTracked, Tracked
<1>7. assign \in [known -> BOOLEAN]
  BY DEF SplitDiseqs, IInv, AssignSatisfies
<1>8. assign[e] = FALSE /\ assign[SplitOf[e][1]] = FALSE /\ assign[SplitOf[e][2]] = FALSE
  BY <1>3, <1>5, <1>6, <1>7
<1>9. ~Holds(assign, Trichotomy(e))
  <2> SUFFICES ASSUME NEW l \in Trichotomy(e) PROVE assign[l[1]] # l[2]
    BY DEF Holds
  <2>1. \E x \in {e, SplitOf[e][1], SplitOf[e][2]} : l = <<x, TRUE>>
    BY DEF Trichotomy
  <2>2. PICK x \in {e, SplitOf[e][1], SplitOf[e][2]} : l = <<x, TRUE>>
    BY <2>1
  <2> QED BY <1>8, <2>2
<1>10. Trichotomy(e) \in clauses'
  BY <1>1
<1> QED BY <1>9, <1>10 DEF Satisfies

\* A step that ends a round without an answer.
LEMMA RoundEnds ==
    ASSUME IInv, KindsExact, CoreReal, Next, pc \in {"theory", "verify"}, pc' = "round"
    PROVE  known' # known \/ ~Satisfies(assign, clauses')
<1>1. CASE TheoryUnsat
  <2>1. CASE Learn(FullBlock)
    BY <1>1, <2>1, LearnExcludes DEF FullBlock
  <2>2. CASE \E c \in (SUBSET TrueLits) \ {{}} : Inconsistent(c) /\ Learn(Negated(c))
    BY <2>2, LearnExcludes
  <2> QED BY <1>1, <2>1, <2>2 DEF TheoryUnsat
<1>2. CASE CoreVerified
  BY <1>2, LearnExcludes DEF CoreVerified, CoreReal
<1>3. CASE CoreRejected
  BY <1>3, LearnExcludes DEF CoreRejected, FullBlock
<1>4. CASE SplitDiseqs
  BY <1>4, DiseqProgress
<1>5. CASE SplitBranches
  <2>1. PICK bs \in (SUBSET (Branches \ arithAtoms)) \ {{}} : AddArith(bs)
    BY <1>5 DEF SplitBranches
  <2>2. PICK b \in bs : b \in ArithKind /\ b \notin arithAtoms
    BY <2>1, NewAtomsAssumption DEF Inequalities
  <2>3. b \notin known /\ b \in known'
    BY <2>1, <2>2 DEF AddArith, KindsExact
  <2> QED BY <2>3
<1>6. CASE SplitEqs
  <2>1. PICK es \in (SUBSET (NewEqs \ eufAtoms)) \ {{}} :
            AddArith(es \cup SplitAtoms(IF Eager THEN es ELSE {}))
    BY <1>6 DEF SplitEqs
  <2>2. PICK e \in es : e \in EufKind /\ e \notin eufAtoms
    BY <2>1, NewAtomsAssumption
  <2>3. e \notin known /\ e \in known'
    BY <2>1, <2>2 DEF AddArith, KindsExact
  <2> QED BY <2>3
<1> QED BY <1>1, <1>2, <1>3, <1>4, <1>5, <1>6
        DEF Next, Round, StartCheck, AssertRoot, GiveUpRounds, StartRound,
            SearchUnsat, SearchGivesUp, SearchSat, TheorySat, TheoryUnknown,
            TheoryConflict, Answer

\* A round of check that does not answer gets somewhere (solver.rs:380): a clause
\* excludes the assignment just examined, or there are new atoms.
THEOREM RoundsGetSomewhere == Spec => RoundsProgress
<1>1. Init => KindsExact /\ CoreReal
  BY DEF Init, KindsExact, CoreReal
<1>2. IInv /\ (KindsExact /\ CoreReal) /\ [Next]_vars => (KindsExact /\ CoreReal)'
  BY KindsExactStep, CoreRealStep
<1>3. IInv /\ KindsExact /\ CoreReal /\ [Next]_vars =>
        [(pc \in {"theory", "verify"} /\ pc' = "round") =>
            (known' # known \/ ~Satisfies(assign, clauses'))]_vars
  BY RoundEnds
<1> QED BY <1>1, <1>2, <1>3, Invariance, PTL DEF Spec, RoundsProgress

-----------------------------------------------------------------------------
(* The command context *)

\* Induction on the naturals, said of a set.
LEMMA NatInductive ==
    ASSUME NEW T, 0 \in T, \A n \in Nat : n \in T => n + 1 \in T
    PROVE  Nat \subseteq T
<1> SUFFICES ASSUME NEW m \in Nat, m \notin T PROVE FALSE
  OBVIOUS
<1> DEFINE F == {0 .. k : k \in Nat \ T}
           R == StrictSubsetOrdering(Nat)
<1>1. IsWellFoundedOn(R, FiniteSubsetsOf(Nat))
  BY FS_StrictSubsetOrderingWellFounded
<1>2. F \subseteq FiniteSubsetsOf(Nat) /\ F # {}
  <2>1. ASSUME NEW k \in Nat \ T PROVE 0 .. k \in FiniteSubsetsOf(Nat)
    <3>1. IsFiniteSet(0 .. k) BY FS_Interval
    <3>2. 0 .. k \in SUBSET Nat OBVIOUS
    <3> QED BY <3>1, <3>2 DEF FiniteSubsetsOf
  <2>2. 0 .. m \in F OBVIOUS
  <2> QED BY <2>1, <2>2
<1>3. \E x \in F : \A y \in F : <<y, x>> \notin R
  <2> HIDE DEF R, F
  <2> QED BY <1>1, <1>2, WFMin
<1>4. PICK k \in Nat \ T : \A j \in Nat \ T : <<0 .. j, 0 .. k>> \notin R
  BY <1>3
<1>5. k # 0 /\ k - 1 \in Nat \ T
  <2>1. k # 0 OBVIOUS
  <2> QED BY <2>1
<1>6. 0 .. (k - 1) \subseteq 0 .. k /\ k \in 0 .. k /\ k \notin 0 .. (k - 1)
  BY <1>5
<1>7. <<0 .. (k - 1), 0 .. k>> \in R
  BY <1>5, <1>6 DEF StrictSubsetOrdering
<1> QED BY <1>4, <1>5, <1>7

-----------------------------------------------------------------------------
(* Levels *)

\* What pushing and popping a number of levels goes through, one at a time.
PushRun(c, n, L) == L = [i \in 0 .. n |-> IF i = 0 THEN c ELSE PushLevel(L[i - 1])]
PopRun(c, n, L) == L = [i \in 0 .. n |-> IF i = 0 THEN c ELSE PopLevel(L[i - 1])]

LEMMA PushRuns == ASSUME NEW c, NEW n \in Nat PROVE \E L : PushRun(c, n, L)
<1> DEFINE T == {m \in Nat : \E L : PushRun(c, m, L)}
<1>1. 0 \in T
  <2> DEFINE L == [i \in 0 .. 0 |-> c]
  <2>1. PushRun(c, 0, L) BY DEF PushRun
  <2> QED BY <2>1
<1>2. ASSUME NEW m \in Nat, m \in T PROVE m + 1 \in T
  <2>1. PICK L : PushRun(c, m, L) BY <1>2
  <2> DEFINE M == [i \in 0 .. m + 1 |-> IF i = m + 1 THEN PushLevel(L[m]) ELSE L[i]]
  <2>2. PushRun(c, m + 1, M) BY <2>1 DEF PushRun
  <2> QED BY <2>2
<1>3. Nat \subseteq T
  <2> HIDE DEF T
  <2> QED BY <1>1, <1>2, NatInductive
<1> QED BY <1>3

LEMMA PushLevels ==
    ASSUME NEW c, NEW n \in Nat
    PROVE  \E L : PushRun(c, n, L) /\ Levels(PushLevel, c, n) = L[n]
<1> DEFINE L == CHOOSE L : PushRun(c, n, L)
<1>1. PushRun(c, n, L) BY PushRuns
<1>2. Levels(PushLevel, c, n) = L[n]
  BY DEF Levels, PushRun
<1> QED BY <1>1, <1>2

-----------------------------------------------------------------------------
(* Contexts *)

Labels == {Label[f] : f \in CmdFormulas} \cup {NoLabel}
Entries == [f : CmdFormulas, soft : BOOLEAN]
Groups == [id : Ids, items : Seq(CmdFormulas)]
Fields == DOMAIN Empty

\* The stacks of a context, and of the history kept with a mark.
StackRecords ==
    [assertions : Seq(Entries), names : Seq(Labels), universals : Seq(CmdFormulas),
     decls : Seq(Names), tstack : Seq(Names), mentions : Seq(Names), objectives : Seq(Groups)]

Marks ==
    [assertions : Nat, decls : Nat, universals : Nat, table : Nat, mentions : Nat,
     objectives : Seq(Nat), was : StackRecords]

ContextTyped(c) ==
    /\ DOMAIN c = Fields
    /\ Stacks(c) \in StackRecords
    /\ c.scopes \in Seq(Marks)
    /\ c.funcs \subseteq Names /\ c.macros \subseteq Names
    /\ c.table \in [Names -> Nat]
    /\ c.named \subseteq Labels \X CmdFormulas \X Nat
    /\ c.unames \subseteq Nat \X Labels \X Nat

\* A mark of the stacks s can be cut back to: they are what they were at the push.
Fits(s, m) ==
    /\ m.assertions <= Len(s.assertions) /\ m.universals <= Len(s.universals)
    /\ m.decls <= Len(s.decls) /\ m.table = m.decls /\ m.mentions <= Len(s.mentions)
    /\ Len(m.objectives) <= Len(s.objectives)
    /\ \A k \in DOMAIN m.objectives : m.objectives[k] <= Len(s.objectives[k].items)

Restored(s, m) ==
    [assertions |-> Truncate(s.assertions, m.assertions),
     names |-> Truncate(s.names, m.assertions),
     universals |-> Truncate(s.universals, m.universals),
     decls |-> Truncate(s.decls, m.decls),
     tstack |-> Truncate(s.tstack, m.table),
     mentions |-> Truncate(s.mentions, m.mentions),
     objectives |-> ObjectivesAt(s.objectives, m.objectives)]

Restores(s, m) == Fits(s, m) /\ m.was = Restored(s, m)

\* Stacks that belong together.
Faithful(s) ==
    /\ Len(s.names) = Len(s.assertions)
    /\ s.tstack = s.decls
    /\ \A f \in CmdFormulas :
          Count(s.assertions, Entry(f, TRUE)) = Cardinality(Penalties(s.objectives, f))

DenoteIn(c) ==
    /\ \A t \in c.named : /\ t[3] \in DOMAIN c.assertions
                         /\ c.assertions[t[3]].f = t[2] /\ c.names[t[3]] = t[1]
    /\ \A t \in c.unames : t[1] \in DOMAIN c.universals /\ Label[c.universals[t[1]]] = t[2]

UsableIn(c) ==
    /\ c.funcs \subseteq ToSet(c.decls)
    /\ \A n \in Names : c.table[n] = Count(c.decls, n)

\* Every open level restores, and so does every level below it in what it restores.
LevelsOK(c) ==
    /\ \A i \in DOMAIN c.scopes : Restores(c, c.scopes[i]) /\ Faithful(c.scopes[i].was)
    /\ \A i, j \in DOMAIN c.scopes : i < j => Restores(c.scopes[j].was, c.scopes[i])

Good(c) == ContextTyped(c) /\ Faithful(c) /\ DenoteIn(c) /\ UsableIn(c) /\ LevelsOK(c)

-----------------------------------------------------------------------------
(* Stacks that grow *)

Extends(a, b) == Len(a) <= Len(b) /\ \A i \in DOMAIN a : b[i] = a[i]

Grew(s, t) ==
    /\ Extends(s.assertions, t.assertions) /\ Extends(s.names, t.names)
    /\ Extends(s.universals, t.universals) /\ Extends(s.decls, t.decls)
    /\ Extends(s.tstack, t.tstack) /\ Extends(s.mentions, t.mentions)
    /\ Len(s.objectives) <= Len(t.objectives)
    /\ \A k \in DOMAIN s.objectives : /\ t.objectives[k].id = s.objectives[k].id
                                      /\ Extends(s.objectives[k].items, t.objectives[k].items)

LEMMA CutTyped ==
    ASSUME NEW S, NEW a \in Seq(S), NEW n \in Nat
    PROVE  /\ Truncate(a, n) \in Seq(S)
           /\ Len(Truncate(a, n)) = IF n <= Len(a) THEN n ELSE Len(a)
           /\ \A i \in DOMAIN Truncate(a, n) : i \in DOMAIN a /\ i <= n /\ Truncate(a, n)[i] = a[i]
BY DEF Truncate

LEMMA Reaches ==
    ASSUME NEW S, NEW a \in Seq(S), NEW b \in Seq(S), Extends(a, b), NEW n \in Nat, n <= Len(a)
    PROVE  n <= Len(b)
BY DEF Extends

LEMMA SeqSame ==
    ASSUME NEW S, NEW a \in Seq(S), NEW b \in Seq(S), Len(a) = Len(b),
           \A i \in 1 .. Len(a) : a[i] = b[i]
    PROVE  a = b
OBVIOUS

LEMMA CutExtends ==
    ASSUME NEW S, NEW a \in Seq(S), NEW b \in Seq(S), NEW n \in Nat, n <= Len(a), Extends(a, b)
    PROVE  Truncate(b, n) = Truncate(a, n)
<1> DEFINE x == Truncate(a, n)
           y == Truncate(b, n)
<1>1. /\ x \in Seq(S) /\ Len(x) = n /\ \A i \in 1 .. n : x[i] = a[i]
      /\ y \in Seq(S) /\ Len(y) = n /\ \A i \in 1 .. n : y[i] = b[i]
  BY CutTyped DEF Extends
<1>2. \A i \in 1 .. n : i \in DOMAIN a
  OBVIOUS
<1>3. \A i \in 1 .. n : y[i] = x[i]
  BY <1>1, <1>2 DEF Extends
<1> HIDE DEF x, y
<1>4. y = x
  BY <1>1, <1>3, SeqSame
<1> QED BY <1>4 DEF x, y

LEMMA CutAll ==
    ASSUME NEW S, NEW a \in Seq(S)
    PROVE  Truncate(a, Len(a)) = a
BY DEF Truncate

LEMMA CutObjectives ==
    ASSUME NEW a \in Seq(Groups), NEW mark \in Seq(Nat), Len(mark) <= Len(a)
    PROVE  /\ ObjectivesAt(a, mark) \in Seq(Groups)
           /\ Len(ObjectivesAt(a, mark)) = Len(mark)
           /\ \A k \in 1 .. Len(mark) :
                 /\ ObjectivesAt(a, mark)[k].id = a[k].id
                 /\ ObjectivesAt(a, mark)[k].items = Truncate(a[k].items, mark[k])
<1> DEFINE kept == Truncate(a, Len(mark))
<1>1. kept \in Seq(Groups) /\ Len(kept) = Len(mark) /\ \A k \in 1 .. Len(mark) : kept[k] = a[k]
  BY CutTyped
<1> HIDE DEF kept
<1>2. ASSUME NEW k \in 1 .. Len(mark)
      PROVE  /\ [kept[k] EXCEPT !.items = Truncate(@, mark[k])] \in Groups
             /\ [kept[k] EXCEPT !.items = Truncate(@, mark[k])].id = a[k].id
             /\ [kept[k] EXCEPT !.items = Truncate(@, mark[k])].items = Truncate(a[k].items, mark[k])
  <2>1. kept[k] \in Groups /\ kept[k] = a[k] /\ mark[k] \in Nat
    BY <1>1
  <2>2. Truncate(kept[k].items, mark[k]) \in Seq(CmdFormulas)
    BY <2>1, CutTyped DEF Groups
  <2> QED BY <2>1, <2>2 DEF Groups
<1>3. ObjectivesAt(a, mark) = [k \in DOMAIN kept |-> [kept[k] EXCEPT !.items = Truncate(@, mark[k])]]
  BY DEF ObjectivesAt, kept
<1>4. DOMAIN kept = 1 .. Len(mark)
  BY <1>1
<1>5. Len(mark) \in Nat
  OBVIOUS
<1> DEFINE g(k) == [kept[k] EXCEPT !.items = Truncate(@, mark[k])]
<1>6. ObjectivesAt(a, mark) = [k \in 1 .. Len(mark) |-> g(k)]
  BY <1>3, <1>4
<1>7. \A k \in 1 .. Len(mark) : g(k) \in Groups /\ g(k).id = a[k].id
                                /\ g(k).items = Truncate(a[k].items, mark[k])
  BY <1>2
<1> HIDE DEF g
<1> QED BY <1>5, <1>6, <1>7

LEMMA ObjectivesSame ==
    ASSUME NEW a \in Seq(Groups), NEW b \in Seq(Groups), Len(a) = Len(b),
           \A k \in DOMAIN a : a[k].id = b[k].id /\ a[k].items = b[k].items
    PROVE  a = b
<1>1. ASSUME NEW k \in 1 .. Len(a) PROVE a[k] = b[k]
  <2>1. a[k] \in Groups /\ b[k] \in Groups /\ k \in DOMAIN a
    OBVIOUS
  <2>2. a[k] = [id |-> a[k].id, items |-> a[k].items] /\ b[k] = [id |-> b[k].id, items |-> b[k].items]
    BY <2>1 DEF Groups
  <2> QED BY <2>1, <2>2
<1> QED BY <1>1, SeqSame

LEMMA GrownRestores ==
    ASSUME NEW s, NEW t, Stacks(s) \in StackRecords, Stacks(t) \in StackRecords,
           NEW m \in Marks, Grew(s, t), Restores(s, m), Len(s.names) = Len(s.assertions),
           s.tstack = s.decls
    PROVE  Restores(t, m)
<1>1. /\ s.assertions \in Seq(Entries) /\ t.assertions \in Seq(Entries)
      /\ s.names \in Seq(Labels) /\ t.names \in Seq(Labels)
      /\ s.universals \in Seq(CmdFormulas) /\ t.universals \in Seq(CmdFormulas)
      /\ s.decls \in Seq(Names) /\ t.decls \in Seq(Names)
      /\ s.tstack \in Seq(Names) /\ t.tstack \in Seq(Names)
      /\ s.mentions \in Seq(Names) /\ t.mentions \in Seq(Names)
      /\ s.objectives \in Seq(Groups) /\ t.objectives \in Seq(Groups)
  BY DEF Stacks, StackRecords
<1>2. /\ m.assertions \in Nat /\ m.universals \in Nat /\ m.decls \in Nat /\ m.table \in Nat
      /\ m.mentions \in Nat /\ m.objectives \in Seq(Nat)
  BY DEF Marks
<1>3. Fits(s, m)
  BY DEF Restores
<1>4. /\ Truncate(t.assertions, m.assertions) = Truncate(s.assertions, m.assertions)
      /\ Truncate(t.names, m.assertions) = Truncate(s.names, m.assertions)
      /\ Truncate(t.universals, m.universals) = Truncate(s.universals, m.universals)
      /\ Truncate(t.decls, m.decls) = Truncate(s.decls, m.decls)
      /\ Truncate(t.tstack, m.table) = Truncate(s.tstack, m.table)
      /\ Truncate(t.mentions, m.mentions) = Truncate(s.mentions, m.mentions)
  <2>1. /\ m.assertions <= Len(s.assertions) /\ m.assertions <= Len(s.names)
        /\ m.universals <= Len(s.universals) /\ m.decls <= Len(s.decls)
        /\ m.table <= Len(s.tstack) /\ m.mentions <= Len(s.mentions)
    BY <1>1, <1>2, <1>3 DEF Fits
  <2>2. /\ Extends(s.assertions, t.assertions) /\ Extends(s.names, t.names)
        /\ Extends(s.universals, t.universals) /\ Extends(s.decls, t.decls)
        /\ Extends(s.tstack, t.tstack) /\ Extends(s.mentions, t.mentions)
    BY DEF Grew
  <2>3. Truncate(t.assertions, m.assertions) = Truncate(s.assertions, m.assertions)
    BY <1>1, <1>2, <2>1, <2>2, CutExtends
  <2>4. Truncate(t.names, m.assertions) = Truncate(s.names, m.assertions)
    BY <1>1, <1>2, <2>1, <2>2, CutExtends
  <2>5. Truncate(t.universals, m.universals) = Truncate(s.universals, m.universals)
    BY <1>1, <1>2, <2>1, <2>2, CutExtends
  <2>6. Truncate(t.decls, m.decls) = Truncate(s.decls, m.decls)
    BY <1>1, <1>2, <2>1, <2>2, CutExtends
  <2>7. Truncate(t.tstack, m.table) = Truncate(s.tstack, m.table)
    BY <1>1, <1>2, <2>1, <2>2, CutExtends
  <2>8. Truncate(t.mentions, m.mentions) = Truncate(s.mentions, m.mentions)
    BY <1>1, <1>2, <2>1, <2>2, CutExtends
  <2> QED BY <2>3, <2>4, <2>5, <2>6, <2>7, <2>8
<1>5. /\ Len(m.objectives) <= Len(s.objectives) /\ Len(m.objectives) <= Len(t.objectives)
      /\ Len(s.objectives) <= Len(t.objectives)
  BY <1>1, <1>2, <1>3 DEF Fits, Grew
<1>6. ASSUME NEW k \in DOMAIN m.objectives
      PROVE  /\ t.objectives[k].id = s.objectives[k].id
             /\ m.objectives[k] <= Len(t.objectives[k].items)
             /\ Truncate(t.objectives[k].items, m.objectives[k])
                  = Truncate(s.objectives[k].items, m.objectives[k])
  <2> DEFINE o == m.objectives
             os == s.objectives
             ot == t.objectives
  <2>0. /\ o \in Seq(Nat) /\ os \in Seq(Groups) /\ ot \in Seq(Groups)
        /\ Len(o) <= Len(os) /\ Len(o) <= Len(ot) /\ k \in DOMAIN o
    BY <1>1, <1>2, <1>5
  <2>1. k \in DOMAIN s.objectives /\ k \in DOMAIN t.objectives /\ m.objectives[k] \in Nat
    <3> HIDE DEF o, os, ot
    <3>1. k \in DOMAIN os /\ k \in DOMAIN ot /\ o[k] \in Nat
      BY <2>0
    <3> QED BY <3>1 DEF o, os, ot
  <2>2. s.objectives[k] \in Groups /\ t.objectives[k] \in Groups
    BY <1>1, <2>1
  <2>3. s.objectives[k].items \in Seq(CmdFormulas) /\ t.objectives[k].items \in Seq(CmdFormulas)
    BY <2>2 DEF Groups
  <2>4. m.objectives[k] <= Len(s.objectives[k].items)
    BY <1>3 DEF Fits
  <2>5. /\ t.objectives[k].id = s.objectives[k].id
        /\ Extends(s.objectives[k].items, t.objectives[k].items)
    BY <2>1 DEF Grew
  <2> QED BY <2>1, <2>3, <2>4, <2>5, CutExtends DEF Extends
<1>7. ObjectivesAt(t.objectives, m.objectives) = ObjectivesAt(s.objectives, m.objectives)
  <2> DEFINE x == ObjectivesAt(s.objectives, m.objectives)
             y == ObjectivesAt(t.objectives, m.objectives)
  <2>1. /\ x \in Seq(Groups) /\ Len(x) = Len(m.objectives)
        /\ \A k \in 1 .. Len(m.objectives) :
              /\ x[k].id = s.objectives[k].id
              /\ x[k].items = Truncate(s.objectives[k].items, m.objectives[k])
    BY <1>1, <1>2, <1>5, CutObjectives
  <2>2. /\ y \in Seq(Groups) /\ Len(y) = Len(m.objectives)
        /\ \A k \in 1 .. Len(m.objectives) :
              /\ y[k].id = t.objectives[k].id
              /\ y[k].items = Truncate(t.objectives[k].items, m.objectives[k])
    BY <1>1, <1>2, <1>5, CutObjectives
  <2>3. DOMAIN m.objectives = 1 .. Len(m.objectives)
    BY <1>2
  <2> HIDE DEF x, y
  <2>4. DOMAIN x = 1 .. Len(m.objectives)
    BY <2>1
  <2>5. \A k \in DOMAIN x : x[k].id = y[k].id /\ x[k].items = y[k].items
    BY <1>6, <2>1, <2>2, <2>3, <2>4
  <2>6. x = y
    BY <2>1, <2>2, <2>5, ObjectivesSame
  <2> QED BY <2>6 DEF x, y
<1>8. Fits(t, m)
  <2>1. /\ m.assertions <= Len(s.assertions) /\ m.universals <= Len(s.universals)
        /\ m.decls <= Len(s.decls) /\ m.table = m.decls /\ m.mentions <= Len(s.mentions)
    BY <1>3 DEF Fits
  <2>2. /\ Extends(s.assertions, t.assertions) /\ Extends(s.universals, t.universals)
        /\ Extends(s.decls, t.decls) /\ Extends(s.mentions, t.mentions)
    BY DEF Grew
  <2>3. m.assertions <= Len(t.assertions)
    BY <1>1, <1>2, <2>1, <2>2, Reaches
  <2>4. m.universals <= Len(t.universals)
    BY <1>1, <1>2, <2>1, <2>2, Reaches
  <2>5. m.decls <= Len(t.decls)
    BY <1>1, <1>2, <2>1, <2>2, Reaches
  <2>6. m.mentions <= Len(t.mentions)
    BY <1>1, <1>2, <2>1, <2>2, Reaches
  <2> QED BY <1>5, <1>6, <2>1, <2>3, <2>4, <2>5, <2>6 DEF Fits
<1> QED BY <1>4, <1>7, <1>8 DEF Restores, Restored

LEMMA FunctionSequence ==
    ASSUME NEW S, NEW n \in Nat, NEW g \in [1 .. n -> S]
    PROVE  g \in Seq(S) /\ Len(g) = n
OBVIOUS

LEMMA ExtendsSame == ASSUME NEW S, NEW a \in Seq(S) PROVE Extends(a, a)
BY DEF Extends

LEMMA ExtendsAppend ==
    ASSUME NEW S, NEW a \in Seq(S), NEW x \in S
    PROVE  Append(a, x) \in Seq(S) /\ Extends(a, Append(a, x))
BY DEF Extends

LEMMA AppendIs ==
    ASSUME NEW S, NEW a \in Seq(S), NEW x \in S, NEW b, b = Append(a, x)
    PROVE  /\ b \in Seq(S) /\ Len(b) = Len(a) + 1 /\ Len(a) + 1 \in Nat
           /\ DOMAIN b = DOMAIN a \cup {Len(a) + 1} /\ Len(a) + 1 \notin DOMAIN a
           /\ b[Len(a) + 1] = x /\ \A i \in DOMAIN a : b[i] = a[i]
OBVIOUS

LEMMA ToSetAppend ==
    ASSUME NEW S, NEW a \in Seq(S), NEW x \in S
    PROVE  ToSet(Append(a, x)) = ToSet(a) \cup {x}
<1> DEFINE b == Append(a, x)
           n == Len(a) + 1
<1>1. /\ DOMAIN b = DOMAIN a \cup {n} /\ b[n] = x /\ \A i \in DOMAIN a : b[i] = a[i]
  BY AppendIs
<1> HIDE DEF b, n
<1>2. ToSet(b) = {b[i] : i \in DOMAIN b} /\ ToSet(a) = {a[i] : i \in DOMAIN a}
  BY DEF ToSet
<1>3. {b[i] : i \in DOMAIN b} = {a[i] : i \in DOMAIN a} \cup {x}
  BY <1>1
<1> QED BY <1>2, <1>3 DEF b

LEMMA ExtendsConcat ==
    ASSUME NEW S, NEW a \in Seq(S), NEW b \in Seq(S)
    PROVE  (a \o b) \in Seq(S) /\ Extends(a, a \o b)
BY DEF Extends

LEMMA StacksAre ==
    ASSUME NEW s
    PROVE  Stacks(s) \in StackRecords <=>
              /\ s.assertions \in Seq(Entries) /\ s.names \in Seq(Labels)
              /\ s.universals \in Seq(CmdFormulas) /\ s.decls \in Seq(Names)
              /\ s.tstack \in Seq(Names) /\ s.mentions \in Seq(Names)
              /\ s.objectives \in Seq(Groups)
BY DEF Stacks, StackRecords

LEMMA ItemsAre ==
    ASSUME NEW a \in Seq(Groups), NEW k \in DOMAIN a
    PROVE  /\ a[k] \in Groups /\ a[k].id \in Ids /\ a[k].items \in Seq(CmdFormulas)
           /\ a[k] = [id |-> a[k].id, items |-> a[k].items]
<1>1. a[k] \in Groups
  OBVIOUS
<1> QED BY <1>1 DEF Groups

LEMMA GroupsSame ==
    ASSUME NEW a \in Seq(Groups)
    PROVE  \A k \in DOMAIN a : Extends(a[k].items, a[k].items)
BY ItemsAre, ExtendsSame

\* What only grows leaves every open level as it was.
LEMMA GrownGood ==
    ASSUME NEW c, Good(c), NEW d, ContextTyped(d), d.scopes = c.scopes, Grew(c, d),
           Faithful(d), DenoteIn(d), UsableIn(d)
    PROVE  Good(d)
<1>1. /\ Stacks(c) \in StackRecords /\ Stacks(d) \in StackRecords /\ c.scopes \in Seq(Marks)
      /\ Len(c.names) = Len(c.assertions) /\ c.tstack = c.decls
  BY DEF Good, ContextTyped, Faithful
<1>2. ASSUME NEW i \in DOMAIN c.scopes PROVE Restores(d, c.scopes[i])
  <2>1. c.scopes[i] \in Marks
    BY <1>1
  <2>2. Restores(c, c.scopes[i])
    BY DEF Good, LevelsOK
  <2> QED BY <1>1, <2>1, <2>2, GrownRestores
<1>3. LevelsOK(d)
  BY <1>2 DEF LevelsOK, Good
<1> QED BY <1>3 DEF Good

-----------------------------------------------------------------------------
(* Counting *)

LEMMA AtFinite ==
    ASSUME NEW S, NEW a \in Seq(S), NEW x
    PROVE  /\ IsFiniteSet(At(a, x)) /\ Count(a, x) \in Nat
           /\ At(a, x) \subseteq 1 .. Len(a)
<1>1. IsFiniteSet(1 .. Len(a))
  BY FS_Interval
<1>2. At(a, x) \subseteq 1 .. Len(a)
  BY DEF At
<1>3. IsFiniteSet(At(a, x))
  BY <1>1, <1>2, FS_Subset
<1> QED BY <1>2, <1>3, FS_CardinalityType DEF Count

LEMMA CountAppend ==
    ASSUME NEW S, NEW a \in Seq(S), NEW x, NEW y \in S
    PROVE  /\ At(Append(a, y), x) = At(a, x) \cup (IF x = y THEN {Len(a) + 1} ELSE {})
           /\ Count(Append(a, y), x) = Count(a, x) + (IF x = y THEN 1 ELSE 0)
<1>1. At(Append(a, y), x) = At(a, x) \cup (IF x = y THEN {Len(a) + 1} ELSE {})
  BY DEF At
<1>2. Len(a) + 1 \notin At(a, x)
  BY DEF At
<1>3. IsFiniteSet(At(a, x))
  BY AtFinite
<1>4. CASE x = y
  BY <1>1, <1>2, <1>3, <1>4, FS_AddElement DEF Count
<1>5. CASE x # y
  <2>1. At(Append(a, y), x) = At(a, x)
    BY <1>1, <1>5
  <2>2. Count(a, x) \in Nat
    BY AtFinite
  <2> QED BY <1>1, <1>5, <2>1, <2>2 DEF Count
<1> QED BY <1>4, <1>5

LEMMA CountEmpty == ASSUME NEW x PROVE Count(<< >>, x) = 0
BY FS_EmptySet DEF Count, At

\* Cutting a sequence and counting what was cut.
LEMMA CountCut ==
    ASSUME NEW S, NEW a \in Seq(S), NEW n \in Nat, n <= Len(a), NEW x
    PROVE  Count(Truncate(a, n), x) = Count(a, x) - Count(Dropped(a, n), x)
<1> DEFINE low == At(Truncate(a, n), x)
           high == {i \in At(a, x) : i > n}
           cut == Dropped(a, n)
           shift == [i \in At(cut, x) |-> i + n]
<1>1. /\ cut \in Seq(S) /\ Len(cut) = Len(a) - n
      /\ \A i \in 1 .. Len(a) - n : cut[i] = a[i + n]
  BY DEF Dropped
<1>2. Truncate(a, n) \in Seq(S) /\ Len(Truncate(a, n)) = n /\ \A i \in 1 .. n : Truncate(a, n)[i] = a[i]
  BY CutTyped
<1>3. low = {i \in At(a, x) : i <= n}
  BY <1>2 DEF At
<1>4. At(a, x) = low \cup high /\ low \cap high = {}
  BY <1>3 DEF At
<1>5. IsFiniteSet(At(a, x)) /\ IsFiniteSet(low) /\ IsFiniteSet(At(cut, x))
  <2>1. IsFiniteSet(At(a, x)) BY AtFinite
  <2>2. IsFiniteSet(At(cut, x))
    <3> HIDE DEF cut
    <3> QED BY <1>1, AtFinite
  <2> QED BY <1>4, <2>1, <2>2, FS_Subset
<1>6. shift \in Bijection(At(cut, x), high)
  <2> HIDE DEF cut
  <2>1. \A i \in At(cut, x) : i \in 1 .. Len(a) - n /\ i + n \in high
    BY <1>1 DEF At
  <2>2. \A i \in high : i - n \in At(cut, x) /\ (i - n) + n = i
    <3> SUFFICES ASSUME NEW i \in high PROVE i - n \in At(cut, x) /\ (i - n) + n = i
      OBVIOUS
    <3>1. i \in 1 .. Len(a) /\ a[i] = x /\ i > n
      BY DEF At
    <3>2. i - n \in 1 .. Len(a) - n /\ (i - n) + n = i
      BY <3>1
    <3>3. cut[i - n] = x
      BY <1>1, <3>1, <3>2
    <3> QED BY <1>1, <3>2, <3>3 DEF At
  <2> QED BY <2>1, <2>2 DEF Bijection, Injection, Surjection, IsInjective
<1>7. ExistsBijection(At(cut, x), high)
  BY <1>6 DEF ExistsBijection
<1>8. IsFiniteSet(high) /\ Cardinality(high) = Cardinality(At(cut, x))
  BY <1>5, <1>7, FS_Bijection
<1>9. Cardinality(At(a, x)) = Cardinality(low) + Cardinality(high) - Cardinality(low \cap high)
  BY <1>4, <1>5, <1>8, FS_Union
<1>10. Cardinality(low \cap high) = 0
  BY <1>4, FS_EmptySet
<1>11. Cardinality(low) \in Nat /\ Cardinality(high) \in Nat
  BY <1>5, <1>8, FS_CardinalityType
<1> QED BY <1>8, <1>9, <1>10, <1>11 DEF Count

LEMMA PenaltiesFinite ==
    ASSUME NEW objs \in Seq(Groups), NEW f
    PROVE  IsFiniteSet(Penalties(objs, f))
<1> DEFINE D == DOMAIN objs
           P(g) == {g} \X At(objs[g].items, f)
           T == {P(g) : g \in D}
           F == [g \in D |-> P(g)]
<1>1. IsFiniteSet(D)
  <2>1. D = 1 .. Len(objs) /\ Len(objs) \in Nat
    OBVIOUS
  <2> QED BY <2>1, FS_Interval
<1>2. ASSUME NEW g \in D PROVE IsFiniteSet(P(g))
  <2>1. objs[g].items \in Seq(CmdFormulas)
    BY ItemsAre
  <2>2. IsFiniteSet(At(objs[g].items, f))
    BY <2>1, AtFinite
  <2>3. IsFiniteSet({g})
    BY FS_Singleton
  <2> QED BY <2>2, <2>3, FS_Product
<1>3. Penalties(objs, f) = UNION T
  BY DEF Penalties
<1> HIDE DEF D, P
<1>4. F \in Surjection(D, T)
  BY DEF Surjection
<1>5. IsFiniteSet(T)
  <2> HIDE DEF F, T
  <2> QED BY <1>1, <1>4, FS_Surjection
<1>6. \A t \in T : IsFiniteSet(t)
  BY <1>2
<1> QED BY <1>3, <1>5, <1>6, FS_UNION

LEMMA TimesOneMore ==
    ASSUME NEW g, NEW A, NEW n
    PROVE  {g} \X (A \cup {n}) = ({g} \X A) \cup {<<g, n>>}
OBVIOUS

\* The groups with a soft constraint more.
OneMore(objs, new, f) ==
    /\ new \in Seq(Groups) /\ Len(objs) <= Len(new)
    /\ \A i \in DOMAIN objs : /\ new[i].id = objs[i].id
                              /\ Extends(objs[i].items, new[i].items)
    /\ \A h : Cardinality(Penalties(new, h))
                = Cardinality(Penalties(objs, h)) + (IF h = f THEN 1 ELSE 0)

\* A soft constraint more in a group, or in a group of its own.
LEMMA PenaltyAdded ==
    ASSUME NEW objs \in Seq(Groups), NEW g \in DOMAIN objs, NEW f \in CmdFormulas,
           NEW new, new = [objs EXCEPT ![g].items = Append(@, f)]
    PROVE  OneMore(objs, new, f)
<1> DEFINE its == objs[g].items
<1>1. /\ its \in Seq(CmdFormulas) /\ objs[g].id \in Ids
      /\ Append(its, f) \in Seq(CmdFormulas) /\ Extends(its, Append(its, f))
  BY ItemsAre, ExtendsAppend
<1>2. [objs[g] EXCEPT !.items = Append(@, f)] = [id |-> objs[g].id, items |-> Append(its, f)]
  <2> DEFINE r == objs[g]
             i == objs[g].id
             y == Append(its, f)
  <2>1. r = [id |-> i, items |-> its]
    BY ItemsAre
  <2>2. [r EXCEPT !.items = y] = [id |-> i, items |-> y]
    <3> HIDE DEF r, i, its, y
    <3> QED BY <2>1
  <2> QED BY <2>2
<1>3. new = [objs EXCEPT ![g] = [id |-> objs[g].id, items |-> Append(its, f)]]
  BY <1>2
<1>4. [id |-> objs[g].id, items |-> Append(its, f)] \in Groups
  BY <1>1 DEF Groups
<1>5. new \in Seq(Groups) /\ Len(new) = Len(objs) /\ DOMAIN new = DOMAIN objs
  <2> DEFINE e == [id |-> objs[g].id, items |-> Append(its, f)]
  <2>1. e \in Groups /\ new = [objs EXCEPT ![g] = e]
    BY <1>3, <1>4
  <2> HIDE DEF e
  <2> QED BY <2>1
<1>6. /\ new[g].id = objs[g].id /\ new[g].items = Append(its, f)
      /\ \A k \in DOMAIN objs : k # g => new[k] = objs[k]
  BY <1>3
<1>7. \A k \in DOMAIN objs : new[k].id = objs[k].id /\ Extends(objs[k].items, new[k].items)
  BY <1>1, <1>6, GroupsSame
<1>8. ASSUME NEW h
      PROVE  Cardinality(Penalties(new, h)) = Cardinality(Penalties(objs, h)) + (IF h = f THEN 1 ELSE 0)
  <2> DEFINE p == <<g, Len(its) + 1>>
  <2>1. At(Append(its, f), h) = At(its, h) \cup (IF h = f THEN {Len(its) + 1} ELSE {})
    BY <1>1, CountAppend
  <2>2. Penalties(new, h) = Penalties(objs, h) \cup (IF h = f THEN {p} ELSE {})
    <3>1. \A k \in DOMAIN objs : k # g => {k} \X At(new[k].items, h) = {k} \X At(objs[k].items, h)
      BY <1>6
    <3>2. {g} \X At(new[g].items, h) = ({g} \X At(its, h)) \cup (IF h = f THEN {p} ELSE {})
      <4>1. CASE h = f
        <5>1. At(new[g].items, h) = At(its, h) \cup {Len(its) + 1}
          BY <1>6, <2>1, <4>1
        <5>2. {g} \X At(new[g].items, h) = ({g} \X At(its, h)) \cup {<<g, Len(its) + 1>>}
          <6> DEFINE A == At(its, h)
                     B == At(new[g].items, h)
                     n == Len(its) + 1
          <6>1. B = A \cup {n}
            BY <5>1
          <6>2. {g} \X B = ({g} \X A) \cup {<<g, n>>}
            <7> HIDE DEF A, B, n
            <7> QED BY <6>1, TimesOneMore
          <6> QED BY <6>2
        <5> QED BY <5>2, <4>1
      <4>2. CASE h # f
        BY <1>6, <2>1, <4>2
      <4> QED BY <4>1, <4>2
    <3>3. Penalties(new, h) = UNION {{k} \X At(new[k].items, h) : k \in DOMAIN objs}
      BY <1>5 DEF Penalties
    <3>4. \A x : x \in Penalties(new, h) <=> \E k \in DOMAIN objs : x \in {k} \X At(new[k].items, h)
      BY <3>3
    <3>5. \A x : x \in Penalties(objs, h) <=> \E k \in DOMAIN objs : x \in {k} \X At(objs[k].items, h)
      BY DEF Penalties
    <3> HIDE DEF p
    <3> QED BY <3>1, <3>2, <3>4, <3>5
  <2>3. p \notin Penalties(objs, h)
    <3>1. Len(its) + 1 \notin At(its, h)
      BY <1>1 DEF At
    <3> QED BY <3>1 DEF Penalties
  <2>4. IsFiniteSet(Penalties(objs, h))
    BY PenaltiesFinite
  <2>5. Cardinality(Penalties(objs, h)) \in Nat
    BY <2>4, FS_CardinalityType
  <2>6. CASE h = f
    <3>1. Penalties(new, h) = Penalties(objs, h) \cup {p}
      BY <2>2, <2>6
    <3> HIDE DEF p
    <3> QED BY <2>3, <2>4, <2>6, <3>1, FS_AddElement
  <2>7. CASE h # f
    <3>1. Penalties(new, h) = Penalties(objs, h)
      BY <2>2, <2>7
    <3> QED BY <2>5, <2>7, <3>1
  <2> QED BY <2>6, <2>7
<1>9. Len(objs) <= Len(new)
  BY <1>5
<1> QED BY <1>5, <1>7, <1>8, <1>9 DEF OneMore

LEMMA GroupAdded ==
    ASSUME NEW objs \in Seq(Groups), NEW id \in Ids, NEW f \in CmdFormulas,
           NEW new, new = Append(objs, [id |-> id, items |-> <<f>>])
    PROVE  OneMore(objs, new, f)
<1> DEFINE e == [id |-> id, items |-> <<f>>]
           g == Len(objs) + 1
<1>1. e \in Groups /\ e.items = <<f>> /\ new = Append(objs, e)
  BY DEF Groups
<1>2. /\ new \in Seq(Groups) /\ Len(new) = g /\ DOMAIN new = DOMAIN objs \cup {g}
      /\ new[g] = e /\ \A k \in DOMAIN objs : new[k] = objs[k]
      /\ g \notin DOMAIN objs /\ Len(objs) <= Len(new)
  <2> HIDE DEF e
  <2> QED BY <1>1
<1>3. \A k \in DOMAIN objs : new[k].id = objs[k].id /\ Extends(objs[k].items, new[k].items)
  BY <1>2, GroupsSame
<1>4. ASSUME NEW h
      PROVE  Cardinality(Penalties(new, h)) = Cardinality(Penalties(objs, h)) + (IF h = f THEN 1 ELSE 0)
  <2> DEFINE p == <<g, 1>>
  <2>1. At(<<f>>, h) = (IF h = f THEN {1} ELSE {})
    BY DEF At
  <2>2. Penalties(new, h) = Penalties(objs, h) \cup (IF h = f THEN {p} ELSE {})
    <3>1. \A k \in DOMAIN objs : {k} \X At(new[k].items, h) = {k} \X At(objs[k].items, h)
      BY <1>2
    <3>2. {g} \X At(new[g].items, h) = (IF h = f THEN {p} ELSE {})
      BY <1>1, <1>2, <2>1
    <3> HIDE DEF g, p, e
    <3> QED BY <1>2, <3>1, <3>2 DEF Penalties
  <2>3. p \notin Penalties(objs, h)
    BY <1>2 DEF Penalties
  <2>4. IsFiniteSet(Penalties(objs, h))
    BY PenaltiesFinite
  <2>5. Cardinality(Penalties(objs, h)) \in Nat
    BY <2>4, FS_CardinalityType
  <2>6. CASE h = f
    <3>1. Penalties(new, h) = Penalties(objs, h) \cup {p}
      BY <2>2, <2>6
    <3> HIDE DEF p
    <3> QED BY <2>3, <2>4, <2>6, <3>1, FS_AddElement
  <2>7. CASE h # f
    <3>1. Penalties(new, h) = Penalties(objs, h)
      BY <2>2, <2>7
    <3> QED BY <2>5, <2>7, <3>1
  <2> QED BY <2>6, <2>7
<1> QED BY <1>2, <1>3, <1>4 DEF OneMore

-----------------------------------------------------------------------------
(* What one push, one pop and each primitive preserve *)

LEMMA PushFields ==
    ASSUME NEW c, DOMAIN c = Fields, NEW d, d = PushLevel(c)
    PROVE  /\ DOMAIN d = Fields
           /\ \A x \in Fields \ {"scopes", "inc"} : d[x] = c[x]
           /\ d.scopes = Append(c.scopes, Mark(c))
BY DEF PushLevel, Fields, Empty

LEMMA PopFields ==
    ASSUME NEW c, DOMAIN c = Fields, NEW m, m = c.scopes[Len(c.scopes)], NEW d, d = PopLevel(c)
    PROVE  /\ DOMAIN d = Fields
           /\ \A x \in {"macros", "rels", "raw", "model", "verdict", "assumed", "about", "done",
                       "half"} :
                 d[x] = c[x]
           /\ d.scopes = Front(c.scopes)
           /\ d.assertions = Truncate(c.assertions, m.assertions)
           /\ d.names = Truncate(c.names, m.assertions)
           /\ d.named = {t \in c.named : t[3] <= m.assertions}
           /\ d.universals = Truncate(c.universals, m.universals)
           /\ d.unames = {t \in c.unames : t[1] <= m.universals}
           /\ d.decls = Truncate(c.decls, m.decls)
           /\ d.funcs = c.funcs \ ToSet(Dropped(c.decls, m.decls))
           /\ d.table = Erased(c.table, Dropped(c.tstack, m.table))
           /\ d.tstack = Truncate(c.tstack, m.table)
           /\ d.mentions = Truncate(c.mentions, m.mentions)
           /\ d.objectives = ObjectivesAt(c.objectives, m.objectives)
BY DEF PopLevel, Fields, Empty

LEMMA OnStacks ==
    ASSUME NEW c
    PROVE  /\ Faithful(Stacks(c)) <=> Faithful(c)
           /\ \A m : Restores(Stacks(c), m) <=> Restores(c, m)
<1>1. /\ Stacks(c).assertions = c.assertions /\ Stacks(c).names = c.names
      /\ Stacks(c).universals = c.universals /\ Stacks(c).decls = c.decls
      /\ Stacks(c).tstack = c.tstack /\ Stacks(c).mentions = c.mentions
      /\ Stacks(c).objectives = c.objectives
  BY DEF Stacks
<1>2. Faithful(Stacks(c)) <=> Faithful(c)
  BY <1>1 DEF Faithful
<1>3. ASSUME NEW m PROVE Restores(Stacks(c), m) <=> Restores(c, m)
  BY <1>1 DEF Restores, Fits, Restored
<1> QED BY <1>2, <1>3

LEMMA StacksEqual ==
    ASSUME NEW c, NEW s \in StackRecords,
           c.assertions = s.assertions, c.names = s.names, c.universals = s.universals,
           c.decls = s.decls, c.tstack = s.tstack, c.mentions = s.mentions,
           c.objectives = s.objectives
    PROVE  Stacks(c) = s
BY DEF Stacks, StackRecords

LEMMA MarkRestores ==
    ASSUME NEW c, Stacks(c) \in StackRecords, Faithful(c)
    PROVE  Mark(c) \in Marks /\ Restores(c, Mark(c))
<1> DEFINE m == Mark(c)
           lens == [i \in DOMAIN c.objectives |-> Len(c.objectives[i].items)]
<1>1. /\ c.assertions \in Seq(Entries) /\ c.names \in Seq(Labels)
      /\ c.universals \in Seq(CmdFormulas) /\ c.decls \in Seq(Names)
      /\ c.tstack \in Seq(Names) /\ c.mentions \in Seq(Names)
      /\ c.objectives \in Seq(Groups)
  BY StacksAre
<1>2. Len(c.names) = Len(c.assertions) /\ c.tstack = c.decls
  BY DEF Faithful
<1>3. /\ m.assertions = Len(c.assertions) /\ m.decls = Len(c.decls)
      /\ m.universals = Len(c.universals) /\ m.table = Len(c.tstack)
      /\ m.mentions = Len(c.mentions) /\ m.objectives = lens /\ m.was = Stacks(c)
  BY DEF Mark
<1>4. /\ lens \in Seq(Nat) /\ Len(lens) = Len(c.objectives) /\ DOMAIN lens = DOMAIN c.objectives
      /\ \A k \in DOMAIN c.objectives : lens[k] = Len(c.objectives[k].items)
  <2>1. \A k \in DOMAIN c.objectives : Len(c.objectives[k].items) \in Nat
    BY <1>1, ItemsAre
  <2>2. DOMAIN c.objectives = 1 .. Len(c.objectives) /\ Len(c.objectives) \in Nat
    BY <1>1
  <2>3. lens \in [1 .. Len(c.objectives) -> Nat]
    BY <2>1, <2>2
  <2>4. DOMAIN lens = DOMAIN c.objectives
        /\ \A k \in DOMAIN c.objectives : lens[k] = Len(c.objectives[k].items)
    OBVIOUS
  <2> HIDE DEF lens
  <2>5. lens \in Seq(Nat) /\ Len(lens) = Len(c.objectives)
    BY <2>2, <2>3, FunctionSequence
  <2> QED BY <2>4, <2>5
<1>5. m \in Marks
  <2>1. Len(c.assertions) \in Nat
    BY <1>1
  <2>2. Len(c.decls) \in Nat
    BY <1>1
  <2>3. Len(c.universals) \in Nat
    BY <1>1
  <2>4. Len(c.tstack) \in Nat
    BY <1>1
  <2>5. Len(c.mentions) \in Nat
    BY <1>1
  <2> HIDE DEF lens
  <2>6. m = [assertions |-> Len(c.assertions), decls |-> Len(c.decls),
             universals |-> Len(c.universals), table |-> Len(c.tstack),
             mentions |-> Len(c.mentions), objectives |-> lens, was |-> Stacks(c)]
    BY DEF Mark, lens
  <2> HIDE DEF m
  <2> QED BY <1>4, <2>1, <2>2, <2>3, <2>4, <2>5, <2>6 DEF Marks
<1>6. ObjectivesAt(c.objectives, lens) = c.objectives
  <2> DEFINE x == ObjectivesAt(c.objectives, lens)
  <2> HIDE DEF lens
  <2>1. /\ x \in Seq(Groups) /\ Len(x) = Len(c.objectives)
        /\ \A k \in 1 .. Len(c.objectives) :
              x[k].id = c.objectives[k].id
              /\ x[k].items = Truncate(c.objectives[k].items, lens[k])
    BY <1>1, <1>4, CutObjectives
  <2>2. \A k \in DOMAIN c.objectives : Truncate(c.objectives[k].items, lens[k]) = c.objectives[k].items
    BY <1>1, <1>4, ItemsAre, CutAll
  <2> HIDE DEF x
  <2>3. DOMAIN x = DOMAIN c.objectives /\ DOMAIN x = 1 .. Len(c.objectives)
    BY <1>1, <2>1
  <2>4. x = c.objectives
    BY <1>1, <2>1, <2>2, <2>3, ObjectivesSame
  <2> QED BY <2>4 DEF x
<1>7. Restored(c, m) = Stacks(c)
  <2>1. /\ Truncate(c.assertions, m.assertions) = c.assertions
        /\ Truncate(c.names, m.assertions) = c.names
    BY <1>1, <1>2, <1>3, CutAll
  <2>2. /\ Truncate(c.universals, m.universals) = c.universals
        /\ Truncate(c.decls, m.decls) = c.decls
    BY <1>1, <1>3, CutAll
  <2>3. /\ Truncate(c.tstack, m.table) = c.tstack
        /\ Truncate(c.mentions, m.mentions) = c.mentions
    BY <1>1, <1>3, CutAll
  <2> QED BY <1>3, <1>6, <2>1, <2>2, <2>3 DEF Restored, Stacks
<1>8. Fits(c, m)
  <2> HIDE DEF m, lens
  <2>1. /\ m.assertions <= Len(c.assertions) /\ m.universals <= Len(c.universals)
        /\ m.decls <= Len(c.decls) /\ m.mentions <= Len(c.mentions)
    BY <1>1, <1>3
  <2>2. Len(m.objectives) <= Len(c.objectives)
    BY <1>1, <1>3, <1>4
  <2>3. \A k \in DOMAIN m.objectives : m.objectives[k] <= Len(c.objectives[k].items)
    <3>1. \A k \in DOMAIN c.objectives : Len(c.objectives[k].items) \in Nat
      BY <1>1, ItemsAre
    <3> QED BY <1>3, <1>4, <3>1
  <2> QED BY <1>2, <1>3, <2>1, <2>2, <2>3 DEF Fits
<1> QED BY <1>3, <1>5, <1>7, <1>8 DEF Restores

LEMMA PushGood == ASSUME NEW c, Good(c) PROVE Good(PushLevel(c))
<1> DEFINE d == PushLevel(c)
           n == Len(c.scopes)
           m == Mark(c)
<1>1. /\ DOMAIN c = Fields /\ Stacks(c) \in StackRecords /\ c.scopes \in Seq(Marks)
      /\ Faithful(c) /\ LevelsOK(c)
  BY DEF Good, ContextTyped
<1>2. /\ DOMAIN d = Fields /\ d.scopes = Append(c.scopes, m)
      /\ \A x \in Fields \ {"scopes", "inc"} : d[x] = c[x]
  BY <1>1, PushFields
<1>3. /\ d.assertions = c.assertions /\ d.names = c.names /\ d.universals = c.universals
      /\ d.decls = c.decls /\ d.tstack = c.tstack /\ d.mentions = c.mentions
      /\ d.objectives = c.objectives /\ d.funcs = c.funcs /\ d.macros = c.macros
      /\ d.table = c.table /\ d.named = c.named /\ d.unames = c.unames
  <2> HIDE DEF d
  <2> QED BY <1>2 DEF Fields, Empty
<1>4. m \in Marks /\ Restores(c, m) /\ m.was = Stacks(c)
  BY <1>1, MarkRestores DEF Mark
<1> HIDE DEF d, m
<1>5. Stacks(d) = Stacks(c)
  BY <1>3 DEF Stacks
<1>6. /\ d.scopes \in Seq(Marks) /\ DOMAIN d.scopes = DOMAIN c.scopes \cup {n + 1}
      /\ d.scopes[n + 1] = m /\ \A i \in DOMAIN c.scopes : d.scopes[i] = c.scopes[i]
      /\ \A i \in DOMAIN c.scopes : i \in Nat /\ i < n + 1
      /\ n + 1 \notin DOMAIN c.scopes
  BY <1>1, <1>2, <1>4
<1>7. ContextTyped(d)
  BY <1>1, <1>2, <1>3, <1>5, <1>6 DEF Good, ContextTyped
<1>8. Faithful(d) /\ DenoteIn(d) /\ UsableIn(d)
  BY <1>3 DEF Good, Faithful, DenoteIn, UsableIn
<1>9. \A x : Restores(d, x) <=> Restores(c, x)
  BY <1>5, OnStacks
<1>10. Faithful(m.was)
  BY <1>1, <1>4, OnStacks
<1>11. \A i \in DOMAIN d.scopes : Restores(d, d.scopes[i]) /\ Faithful(d.scopes[i].was)
  BY <1>1, <1>4, <1>6, <1>9, <1>10 DEF LevelsOK
<1>12. ASSUME NEW i \in DOMAIN d.scopes, NEW j \in DOMAIN d.scopes, i < j
       PROVE  Restores(d.scopes[j].was, d.scopes[i])
  <2>1. CASE j \in DOMAIN c.scopes
    <3>1. i \in DOMAIN c.scopes
      BY <1>6, <1>12, <2>1
    <3> QED BY <1>1, <1>6, <1>12, <2>1, <3>1 DEF LevelsOK
  <2>2. CASE j = n + 1
    <3>1. i \in DOMAIN c.scopes
      BY <1>6, <1>12, <2>2
    <3>2. Restores(c, c.scopes[i])
      BY <1>1, <3>1 DEF LevelsOK
    <3> QED BY <1>4, <1>6, <2>2, <3>1, <3>2, OnStacks
  <2> QED BY <1>6, <2>1, <2>2
<1>13. LevelsOK(d)
  BY <1>11, <1>12 DEF LevelsOK
<1>14. Good(d)
  BY <1>7, <1>8, <1>13 DEF Good
<1> QED BY <1>14 DEF d

LEMMA FrontIs ==
    ASSUME NEW S, NEW a \in Seq(S), a # << >>
    PROVE  /\ Front(a) \in Seq(S) /\ Len(Front(a)) = Len(a) - 1 /\ Len(a) \in DOMAIN a
           /\ DOMAIN Front(a) = 1 .. Len(a) - 1
           /\ \A i \in DOMAIN Front(a) : i \in DOMAIN a /\ i < Len(a) /\ Front(a)[i] = a[i]
<1>1. Len(a) \in Nat /\ Len(a) # 0 /\ DOMAIN a = 1 .. Len(a)
  <2>1. ASSUME Len(a) = 0 PROVE a = << >>
    BY <2>1, SeqSame
  <2> QED BY <2>1
<1>2. Len(a) - 1 \in Nat /\ Len(a) \in DOMAIN a
  BY <1>1
<1>3. /\ Front(a) \in Seq(S) /\ Len(Front(a)) = Len(a) - 1
      /\ \A i \in 1 .. Len(a) - 1 : Front(a)[i] = a[i]
  BY <1>1, <1>2 DEF Front
<1> HIDE DEF Front
<1>4. DOMAIN Front(a) = 1 .. Len(a) - 1
  BY <1>2, <1>3
<1> QED BY <1>1, <1>2, <1>3, <1>4

LEMMA PopGood == ASSUME NEW c, Good(c), c.scopes # << >> PROVE Good(PopLevel(c))
<1> DEFINE d == PopLevel(c)
           n == Len(c.scopes)
           m == c.scopes[Len(c.scopes)]
<1>1. /\ DOMAIN c = Fields /\ Stacks(c) \in StackRecords /\ c.scopes \in Seq(Marks)
      /\ Faithful(c) /\ LevelsOK(c) /\ DenoteIn(c) /\ UsableIn(c)
      /\ c.funcs \subseteq Names /\ c.macros \subseteq Names /\ c.table \in [Names -> Nat]
      /\ c.named \subseteq Labels \X CmdFormulas \X Nat /\ c.unames \subseteq Nat \X Labels \X Nat
  BY DEF Good, ContextTyped
<1>2. /\ Front(c.scopes) \in Seq(Marks) /\ n \in DOMAIN c.scopes
      /\ \A i \in DOMAIN Front(c.scopes) :
            i \in DOMAIN c.scopes /\ i < n /\ Front(c.scopes)[i] = c.scopes[i]
  BY <1>1, FrontIs
<1>3. m \in Marks /\ Restores(c, m) /\ Faithful(m.was)
  BY <1>1, <1>2 DEF LevelsOK
<1>4. /\ DOMAIN d = Fields /\ d.macros = c.macros
      /\ d.scopes = Front(c.scopes)
      /\ d.assertions = Truncate(c.assertions, m.assertions)
      /\ d.names = Truncate(c.names, m.assertions)
      /\ d.named = {t \in c.named : t[3] <= m.assertions}
      /\ d.universals = Truncate(c.universals, m.universals)
      /\ d.unames = {t \in c.unames : t[1] <= m.universals}
      /\ d.decls = Truncate(c.decls, m.decls)
      /\ d.funcs = c.funcs \ ToSet(Dropped(c.decls, m.decls))
      /\ d.table = Erased(c.table, Dropped(c.tstack, m.table))
      /\ d.tstack = Truncate(c.tstack, m.table)
      /\ d.mentions = Truncate(c.mentions, m.mentions)
      /\ d.objectives = ObjectivesAt(c.objectives, m.objectives)
  BY <1>1, PopFields
<1> HIDE DEF d, m
<1>5. /\ c.assertions \in Seq(Entries) /\ c.names \in Seq(Labels)
      /\ c.universals \in Seq(CmdFormulas) /\ c.decls \in Seq(Names)
      /\ c.tstack = c.decls /\ Len(c.names) = Len(c.assertions)
  BY <1>1, StacksAre DEF Faithful
<1>6. /\ m.assertions \in Nat /\ m.universals \in Nat /\ m.decls \in Nat
      /\ m.was \in StackRecords /\ m.table = m.decls
      /\ m.assertions <= Len(c.assertions) /\ m.universals <= Len(c.universals)
      /\ m.decls <= Len(c.decls)
  BY <1>3 DEF Marks, Restores, Fits
<1>7. Stacks(d) = m.was
  BY <1>3, <1>4 DEF Restores, Restored, Stacks
<1>8. Faithful(d)
  BY <1>3, <1>7, OnStacks
<1>9. UsableIn(d)
  <2>1. Dropped(c.decls, m.decls) \in Seq(Names)
    BY <1>5, <1>6 DEF Dropped
  <2>2. ASSUME NEW x \in Names PROVE d.table[x] = Count(d.decls, x)
    <3>1. d.table[x] = c.table[x] - Count(Dropped(c.decls, m.decls), x)
      BY <1>4, <1>5, <1>6, <2>2 DEF Erased
    <3>2. c.table[x] = Count(c.decls, x)
      BY <1>1, <2>2 DEF UsableIn
    <3> QED BY <1>4, <1>5, <1>6, <3>1, <3>2, CountCut
  <2>3. ASSUME NEW x \in d.funcs PROVE x \in ToSet(d.decls)
    <3>1. x \in c.funcs /\ x \notin ToSet(Dropped(c.decls, m.decls))
      BY <1>4, <2>3
    <3>2. PICK i \in DOMAIN c.decls : c.decls[i] = x
      BY <1>1, <3>1 DEF UsableIn, ToSet
    <3>3. i <= m.decls
      <4> SUFFICES ASSUME i > m.decls PROVE FALSE
        BY <1>5, <1>6
      <4> DEFINE k == m.decls
                 s == c.decls
      <4>1. s \in Seq(Names) /\ k \in Nat /\ k <= Len(s) /\ i \in 1 .. Len(s) /\ i > k /\ s[i] = x
        BY <1>5, <1>6, <3>2
      <4> HIDE DEF k, s
      <4>2. i - k \in DOMAIN Dropped(s, k) /\ Dropped(s, k)[i - k] = x
        BY <4>1 DEF Dropped
      <4> QED BY <3>1, <4>2 DEF ToSet, k, s
    <3>4. i \in DOMAIN d.decls /\ d.decls[i] = x
      <4>1. /\ Truncate(c.decls, m.decls) \in Seq(Names)
            /\ Len(Truncate(c.decls, m.decls)) = m.decls
        <5> DEFINE k == m.decls
                   s == c.decls
        <5>1. s \in Seq(Names) /\ k \in Nat /\ k <= Len(s)
          BY <1>5, <1>6
        <5> HIDE DEF k, s
        <5>2. Truncate(s, k) \in Seq(Names) /\ Len(Truncate(s, k)) = k
          BY <5>1, CutTyped
        <5> QED BY <5>2 DEF k, s
      <4>2. i \in DOMAIN Truncate(c.decls, m.decls)
        BY <1>5, <1>6, <3>2, <3>3, <4>1
      <4> QED BY <1>4, <1>5, <1>6, <3>2, <4>2, CutTyped
    <3> QED BY <3>4 DEF ToSet
  <2> QED BY <2>2, <2>3 DEF UsableIn
<1>10. DenoteIn(d)
  <2>1. ASSUME NEW t \in d.named
        PROVE  /\ t[3] \in DOMAIN d.assertions
               /\ d.assertions[t[3]].f = t[2] /\ d.names[t[3]] = t[1]
    <3>1. /\ t \in c.named /\ t[3] <= m.assertions /\ t[3] \in DOMAIN c.assertions
          /\ c.assertions[t[3]].f = t[2] /\ c.names[t[3]] = t[1]
      BY <1>1, <1>4, <2>1 DEF DenoteIn
    <3> DEFINE k == t[3]
    <3>2. /\ k \in DOMAIN Truncate(c.assertions, m.assertions)
          /\ k \in DOMAIN Truncate(c.names, m.assertions)
      <4> HIDE DEF k
      <4>1. k \in 1 .. m.assertions
        BY <1>5, <1>6, <3>1 DEF k
      <4>2. /\ DOMAIN Truncate(c.assertions, m.assertions) = 1 .. m.assertions
            /\ DOMAIN Truncate(c.names, m.assertions) = 1 .. m.assertions
        BY <1>5, <1>6, CutTyped
      <4> QED BY <4>1, <4>2
    <3> QED BY <1>4, <1>5, <1>6, <3>1, <3>2, CutTyped
  <2>2. ASSUME NEW t \in d.unames
        PROVE  t[1] \in DOMAIN d.universals /\ Label[d.universals[t[1]]] = t[2]
    <3>1. /\ t \in c.unames /\ t[1] <= m.universals /\ t[1] \in DOMAIN c.universals
          /\ Label[c.universals[t[1]]] = t[2]
      BY <1>1, <1>4, <2>2 DEF DenoteIn
    <3> DEFINE k == t[1]
    <3>2. k \in DOMAIN Truncate(c.universals, m.universals)
      <4> HIDE DEF k
      <4>1. k \in 1 .. m.universals
        BY <1>5, <1>6, <3>1 DEF k
      <4>2. DOMAIN Truncate(c.universals, m.universals) = 1 .. m.universals
        BY <1>5, <1>6, CutTyped
      <4> QED BY <4>1, <4>2
    <3> QED BY <1>4, <1>5, <1>6, <3>1, <3>2, CutTyped
  <2> QED BY <2>1, <2>2 DEF DenoteIn
<1>11. ContextTyped(d)
  <2>1. d.table \in [Names -> Nat]
    <3>1. ASSUME NEW x \in Names PROVE d.table[x] \in Nat
      <4>1. d.table[x] = Count(d.decls, x)
        BY <1>9 DEF UsableIn
      <4>2. d.decls \in Seq(Names)
        BY <1>4, <1>5, <1>6, CutTyped
      <4> QED BY <4>1, <4>2, AtFinite
    <3>2. DOMAIN d.table = Names /\ d.table = [x \in Names |-> d.table[x]]
      BY <1>4 DEF Erased
    <3> QED BY <3>1, <3>2
  <2>2. d.funcs \subseteq Names /\ d.macros \subseteq Names
    BY <1>1, <1>4
  <2>3. d.named \subseteq Labels \X CmdFormulas \X Nat /\ d.unames \subseteq Nat \X Labels \X Nat
    BY <1>1, <1>4
  <2> QED BY <1>2, <1>4, <1>6, <1>7, <2>1, <2>2, <2>3 DEF ContextTyped
<1>12. LevelsOK(d)
  <2>1. ASSUME NEW i \in DOMAIN d.scopes
        PROVE  Restores(d, d.scopes[i]) /\ Faithful(d.scopes[i].was)
    <3>1. i \in DOMAIN c.scopes /\ i < n /\ d.scopes[i] = c.scopes[i]
      BY <1>2, <1>4, <2>1
    <3>2. Restores(m.was, c.scopes[i])
      BY <1>1, <1>2, <3>1 DEF LevelsOK, m
    <3>3. Restores(d, c.scopes[i])
      BY <1>7, <3>2, OnStacks
    <3> QED BY <1>1, <3>1, <3>3 DEF LevelsOK
  <2>2. ASSUME NEW i \in DOMAIN d.scopes, NEW j \in DOMAIN d.scopes, i < j
        PROVE  Restores(d.scopes[j].was, d.scopes[i])
    <3>1. /\ i \in DOMAIN c.scopes /\ d.scopes[i] = c.scopes[i]
          /\ j \in DOMAIN c.scopes /\ d.scopes[j] = c.scopes[j]
      BY <1>2, <1>4, <2>2
    <3> QED BY <1>1, <2>2, <3>1 DEF LevelsOK
  <2> QED BY <2>1, <2>2 DEF LevelsOK
<1>13. Good(d)
  BY <1>8, <1>9, <1>10, <1>11, <1>12 DEF Good
<1> QED BY <1>13 DEF d

\* Handlers that touch neither the stacks nor what they count.
LEMMA SameGood ==
    ASSUME NEW c, Good(c), NEW d, DOMAIN d = Fields, Stacks(d) = Stacks(c),
           d.scopes = c.scopes, d.funcs = c.funcs, d.macros \subseteq Names,
           d.table = c.table, d.named = c.named, d.unames = c.unames
    PROVE  Good(d)
<1>1. /\ d.assertions = c.assertions /\ d.names = c.names /\ d.universals = c.universals
      /\ d.decls = c.decls /\ d.tstack = c.tstack /\ d.mentions = c.mentions
      /\ d.objectives = c.objectives
  BY DEF Stacks
<1>2. ContextTyped(d)
  BY DEF Good, ContextTyped
<1>3. Faithful(d) /\ DenoteIn(d) /\ UsableIn(d)
  BY <1>1 DEF Good, Faithful, DenoteIn, UsableIn
<1>4. \A x : Restores(d, x) <=> Restores(c, x)
  BY OnStacks
<1>5. LevelsOK(d)
  BY <1>4 DEF Good, LevelsOK
<1> QED BY <1>2, <1>3, <1>5 DEF Good

LEMMA GrewMentions ==
    ASSUME NEW c, Good(c), NEW d, Extends(c.mentions, d.mentions), d.mentions \in Seq(Names),
           DOMAIN d = Fields, d.assertions = c.assertions, d.names = c.names,
           d.universals = c.universals, d.decls = c.decls, d.tstack = c.tstack,
           d.objectives = c.objectives, d.scopes = c.scopes, d.funcs = c.funcs,
           d.macros = c.macros, d.table = c.table, d.named = c.named, d.unames = c.unames
    PROVE  Good(d)
<1>1. /\ c.assertions \in Seq(Entries) /\ c.names \in Seq(Labels)
      /\ c.universals \in Seq(CmdFormulas) /\ c.decls \in Seq(Names)
      /\ c.tstack \in Seq(Names) /\ c.mentions \in Seq(Names) /\ c.objectives \in Seq(Groups)
  BY StacksAre DEF Good, ContextTyped
<1>2. Stacks(d) \in StackRecords
  BY <1>1, StacksAre
<1>3. ContextTyped(d)
  BY <1>2 DEF Good, ContextTyped
<1>4. Faithful(d) /\ DenoteIn(d) /\ UsableIn(d)
  BY DEF Good, Faithful, DenoteIn, UsableIn
<1>5. Grew(c, d)
  <2>1. \A k \in DOMAIN c.objectives : Extends(c.objectives[k].items, c.objectives[k].items)
    BY <1>1, GroupsSame
  <2>2. Len(c.objectives) <= Len(c.objectives)
    BY <1>1
  <2> QED BY <1>1, <2>1, <2>2, ExtendsSame DEF Grew
<1> QED BY <1>3, <1>4, <1>5, GrownGood

\* A formula more among the assertions, with its label.
LEMMA GrewAssertions ==
    ASSUME NEW c, Good(c), NEW d, NEW f \in CmdFormulas, NEW l \in Labels,
           DOMAIN d = Fields, d.assertions = Append(c.assertions, Entry(f, FALSE)),
           d.names = Append(c.names, l),
           d.named \subseteq c.named \cup {<<l, f, Len(c.assertions) + 1>>},
           d.universals = c.universals, d.decls = c.decls, d.tstack = c.tstack,
           d.mentions = c.mentions,
           d.objectives = c.objectives, d.scopes = c.scopes, d.funcs = c.funcs,
           d.macros = c.macros, d.table = c.table, d.unames = c.unames
    PROVE  Good(d)
<1> DEFINE e == Entry(f, FALSE)
           n == Len(c.assertions) + 1
<1>1. /\ c.assertions \in Seq(Entries) /\ c.names \in Seq(Labels)
      /\ c.universals \in Seq(CmdFormulas) /\ c.decls \in Seq(Names)
      /\ c.tstack \in Seq(Names) /\ c.mentions \in Seq(Names) /\ c.objectives \in Seq(Groups)
      /\ Len(c.names) = Len(c.assertions)
      /\ c.named \subseteq Labels \X CmdFormulas \X Nat
  BY StacksAre DEF Good, ContextTyped, Faithful
<1>2. e \in Entries /\ e.f = f /\ \A g : Entry(g, TRUE) # e
  BY DEF Entry, Entries
<1> HIDE DEF e
<1>3. /\ d.assertions = Append(c.assertions, e) /\ d.assertions \in Seq(Entries)
      /\ Extends(c.assertions, d.assertions) /\ d.names \in Seq(Labels)
      /\ Extends(c.names, d.names)
  BY <1>1, <1>2, ExtendsAppend DEF e
<1>4. /\ Len(d.assertions) = n /\ Len(d.names) = n /\ n \in Nat /\ n \notin DOMAIN c.assertions
      /\ DOMAIN d.assertions = DOMAIN c.assertions \cup {n}
      /\ d.assertions[n] = e /\ d.names[n] = l
      /\ \A i \in DOMAIN c.assertions : d.assertions[i] = c.assertions[i] /\ d.names[i] = c.names[i]
  <2>1. /\ Len(d.assertions) = n /\ n \in Nat /\ n \notin DOMAIN c.assertions
        /\ DOMAIN d.assertions = DOMAIN c.assertions \cup {n} /\ d.assertions[n] = e
        /\ \A i \in DOMAIN c.assertions : d.assertions[i] = c.assertions[i]
    <3> DEFINE a == c.assertions
               b == d.assertions
    <3>1. a \in Seq(Entries) /\ b = Append(a, e)
      BY <1>1, <1>3
    <3> HIDE DEF a, b
    <3>2. /\ Len(b) = Len(a) + 1 /\ Len(a) + 1 \in Nat /\ Len(a) + 1 \notin DOMAIN a
          /\ DOMAIN b = DOMAIN a \cup {Len(a) + 1} /\ b[Len(a) + 1] = e
          /\ \A i \in DOMAIN a : b[i] = a[i]
      BY <1>2, <3>1, AppendIs
    <3> QED BY <3>2 DEF a, b
  <2>2. /\ Len(d.names) = n /\ d.names[n] = l
        /\ \A i \in DOMAIN c.names : d.names[i] = c.names[i]
    <3> DEFINE a == c.names
               b == d.names
    <3>1. a \in Seq(Labels) /\ b = Append(a, l)
      BY <1>1
    <3> HIDE DEF a, b
    <3>2. /\ Len(b) = Len(a) + 1 /\ b[Len(a) + 1] = l /\ \A i \in DOMAIN a : b[i] = a[i]
      BY <3>1, AppendIs
    <3> QED BY <1>1, <3>2 DEF a, b
  <2>3. DOMAIN c.names = DOMAIN c.assertions
    BY <1>1
  <2> QED BY <2>1, <2>2, <2>3
<1>5. Stacks(d) \in StackRecords
  BY <1>1, <1>3, StacksAre
<1>6. <<l, f, n>> \in Labels \X CmdFormulas \X Nat
  BY <1>4
<1>7. ContextTyped(d)
  BY <1>1, <1>5, <1>6 DEF Good, ContextTyped
<1>8. Faithful(d)
  <2>1. ASSUME NEW g \in CmdFormulas
        PROVE  Count(d.assertions, Entry(g, TRUE)) = Count(c.assertions, Entry(g, TRUE))
    <3>1. Count(c.assertions, Entry(g, TRUE)) \in Nat
      BY <1>1, AtFinite
    <3> DEFINE y == Entry(g, TRUE)
               a == c.assertions
    <3>2. y # e /\ a \in Seq(Entries) /\ Count(a, y) \in Nat
      BY <1>1, <1>2, <3>1
    <3>3. Count(Append(a, e), y) = Count(a, y)
      <4> HIDE DEF y, a
      <4>1. Count(Append(a, e), y) = Count(a, y) + (IF y = e THEN 1 ELSE 0)
        BY <1>2, <3>2, CountAppend
      <4> QED BY <3>2, <4>1
    <3> QED BY <1>3, <3>3
  <2> QED BY <1>4, <2>1 DEF Good, Faithful
<1>9. DenoteIn(d)
  <2>1. ASSUME NEW t \in d.named
        PROVE  /\ t[3] \in DOMAIN d.assertions
               /\ d.assertions[t[3]].f = t[2] /\ d.names[t[3]] = t[1]
    <3>1. CASE t \in c.named
      <4>1. /\ t[3] \in DOMAIN c.assertions
            /\ c.assertions[t[3]].f = t[2] /\ c.names[t[3]] = t[1]
        BY <3>1 DEF Good, DenoteIn
      <4> QED BY <1>4, <4>1
    <3>2. CASE t = <<l, f, n>>
      BY <1>2, <1>4, <3>2
    <3> QED BY <2>1, <3>1, <3>2
  <2>2. \A t \in d.unames : t[1] \in DOMAIN d.universals /\ Label[d.universals[t[1]]] = t[2]
    BY DEF Good, DenoteIn
  <2> QED BY <2>1, <2>2 DEF DenoteIn
<1>10. UsableIn(d)
  BY DEF Good, UsableIn
<1>11. Grew(c, d)
  <2>1. \A k \in DOMAIN c.objectives : Extends(c.objectives[k].items, c.objectives[k].items)
    BY <1>1, GroupsSame
  <2>2. Len(c.objectives) <= Len(c.objectives)
    BY <1>1
  <2> QED BY <1>1, <1>3, <2>1, <2>2, ExtendsSame DEF Grew
<1> QED BY <1>7, <1>8, <1>9, <1>10, <1>11, GrownGood

\* A universal more, perhaps with a label.
LEMMA GrewUniversals ==
    ASSUME NEW c, Good(c), NEW d, NEW f \in CmdFormulas, NEW p \in Nat,
           DOMAIN d = Fields, d.universals = Append(c.universals, f),
           d.unames \subseteq c.unames \cup {<<Len(c.universals) + 1, Label[f], p>>},
           d.assertions = c.assertions, d.names = c.names, d.named = c.named,
           d.decls = c.decls, d.tstack = c.tstack, d.mentions = c.mentions,
           d.objectives = c.objectives, d.scopes = c.scopes, d.funcs = c.funcs,
           d.macros = c.macros, d.table = c.table
    PROVE  Good(d)
<1> DEFINE n == Len(c.universals) + 1
<1>1. /\ c.assertions \in Seq(Entries) /\ c.names \in Seq(Labels)
      /\ c.universals \in Seq(CmdFormulas) /\ c.decls \in Seq(Names)
      /\ c.tstack \in Seq(Names) /\ c.mentions \in Seq(Names) /\ c.objectives \in Seq(Groups)
      /\ c.unames \subseteq Nat \X Labels \X Nat
  BY StacksAre DEF Good, ContextTyped, Faithful
<1>2. d.universals \in Seq(CmdFormulas) /\ Extends(c.universals, d.universals)
  BY <1>1, ExtendsAppend
<1>3. /\ n \in Nat /\ DOMAIN d.universals = DOMAIN c.universals \cup {n} /\ d.universals[n] = f
      /\ \A i \in DOMAIN c.universals : d.universals[i] = c.universals[i]
  BY <1>1, <1>2
<1>4. Stacks(d) \in StackRecords
  BY <1>1, <1>2, StacksAre
<1>5. <<n, Label[f], p>> \in Nat \X Labels \X Nat
  BY <1>3 DEF Labels
<1>6. ContextTyped(d)
  BY <1>1, <1>4, <1>5 DEF Good, ContextTyped
<1>7. Faithful(d) /\ UsableIn(d)
  BY DEF Good, Faithful, UsableIn
<1>8. DenoteIn(d)
  <2>1. \A t \in d.named : /\ t[3] \in DOMAIN d.assertions
                           /\ d.assertions[t[3]].f = t[2] /\ d.names[t[3]] = t[1]
    BY DEF Good, DenoteIn
  <2>2. ASSUME NEW t \in d.unames
        PROVE  t[1] \in DOMAIN d.universals /\ Label[d.universals[t[1]]] = t[2]
    <3>1. CASE t \in c.unames
      <4>1. t[1] \in DOMAIN c.universals /\ Label[c.universals[t[1]]] = t[2]
        BY <3>1 DEF Good, DenoteIn
      <4> QED BY <1>3, <4>1
    <3>2. CASE t = <<n, Label[f], p>>
      BY <1>3, <3>2
    <3> QED BY <2>2, <3>1, <3>2
  <2> QED BY <2>1, <2>2 DEF DenoteIn
<1>9. Grew(c, d)
  <2>1. \A k \in DOMAIN c.objectives : Extends(c.objectives[k].items, c.objectives[k].items)
    BY <1>1, GroupsSame
  <2>2. Len(c.objectives) <= Len(c.objectives)
    BY <1>1
  <2> QED BY <1>1, <1>2, <2>1, <2>2, ExtendsSame DEF Grew
<1> QED BY <1>6, <1>7, <1>8, <1>9, GrownGood

LEMMA DeclaredGood == ASSUME NEW c, Good(c), NEW x \in Names PROVE Good(Declared(c, x))
<1> DEFINE d == Declared(c, x)
<1>1. /\ c.assertions \in Seq(Entries) /\ c.names \in Seq(Labels)
      /\ c.universals \in Seq(CmdFormulas) /\ c.decls \in Seq(Names)
      /\ c.tstack = c.decls /\ c.mentions \in Seq(Names) /\ c.objectives \in Seq(Groups)
      /\ DOMAIN c = Fields /\ c.table \in [Names -> Nat] /\ c.funcs \subseteq Names
  BY StacksAre DEF Good, ContextTyped, Faithful
<1>2. /\ DOMAIN d = Fields /\ d.assertions = c.assertions /\ d.names = c.names
      /\ d.universals = c.universals /\ d.mentions = c.mentions /\ d.objectives = c.objectives
      /\ d.scopes = c.scopes /\ d.macros = c.macros /\ d.named = c.named /\ d.unames = c.unames
      /\ d.funcs = c.funcs \cup {x} /\ d.table = [c.table EXCEPT ![x] = @ + 1]
      /\ d.tstack = Append(c.tstack, x) /\ d.decls = Append(c.decls, x)
  BY <1>1 DEF Declared, Fields, Empty
<1> HIDE DEF d
<1>3. d.decls \in Seq(Names) /\ d.tstack = d.decls /\ Extends(c.decls, d.decls)
  BY <1>1, <1>2, ExtendsAppend
<1>4. Stacks(d) \in StackRecords
  BY <1>1, <1>2, <1>3, StacksAre
<1>5. d.table \in [Names -> Nat]
  BY <1>1, <1>2
<1>6. ContextTyped(d)
  BY <1>2, <1>4, <1>5 DEF Good, ContextTyped
<1>7. Faithful(d) /\ DenoteIn(d)
  BY <1>2, <1>3 DEF Good, Faithful, DenoteIn
<1>8. UsableIn(d)
  <2>1. ASSUME NEW y \in Names PROVE d.table[y] = Count(d.decls, y)
    <3>1. c.table[y] = Count(c.decls, y)
      BY DEF Good, UsableIn
    <3>2. d.table[y] = c.table[y] + (IF y = x THEN 1 ELSE 0)
      BY <1>1, <1>2
    <3> QED BY <1>1, <1>2, <3>1, <3>2, CountAppend
  <2>2. d.funcs \subseteq ToSet(d.decls)
    <3>1. c.funcs \subseteq ToSet(c.decls)
      BY DEF Good, UsableIn
    <3>2. ToSet(d.decls) = ToSet(c.decls) \cup {x}
      BY <1>1, <1>2, ToSetAppend
    <3> QED BY <1>2, <3>1, <3>2
  <2> QED BY <2>1, <2>2 DEF UsableIn
<1>9. Grew(c, d)
  <2>1. \A k \in DOMAIN c.objectives : Extends(c.objectives[k].items, c.objectives[k].items)
    BY <1>1, GroupsSame
  <2>2. Len(c.objectives) <= Len(c.objectives)
    BY <1>1
  <2> QED BY <1>1, <1>2, <1>3, <2>1, <2>2, ExtendsSame DEF Grew
<1>10. Good(d)
  BY <1>2, <1>6, <1>7, <1>8, <1>9, GrownGood
<1> QED BY <1>10 DEF d

-----------------------------------------------------------------------------
(* Answers *)

\* What the last check said: its model is one of what is asserted, and what it
\* refuted has no model.
HardOf(as) == {as[i].f : i \in {j \in DOMAIN as : ~as[j].soft}}
Refuted(s) ==
    /\ s[3] \in Seq(CmdFormulas)
    /\ ModelsOfSet(HardOf(s[1]) \cup ToSet(s[2]) \cup ToSet(s[3])) = {}

Answers(c) ==
    /\ c.model # NoModel => c.model \in ModelsOfSet(Asserted(c) \ c.half)
    /\ c.verdict = "unsat" => Refuted(c.about)

Fine(c) == Good(c) /\ Answers(c)

LEMMA FewerModels ==
    ASSUME NEW A, NEW B, A \subseteq B
    PROVE  ModelsOfSet(B) \subseteq ModelsOfSet(A)
BY DEF ModelsOfSet

LEMMA AnswersKept ==
    ASSUME NEW c, Answers(c), NEW d, Asserted(d) \subseteq Asserted(c),
           d.model = c.model \/ d.model = NoModel, d.verdict = c.verdict \/ d.verdict = "none",
           d.about = c.about, d.half = c.half
    PROVE  Answers(d)
<1>1. ModelsOfSet(Asserted(c) \ c.half) \subseteq ModelsOfSet(Asserted(d) \ d.half)
  BY FewerModels
<1> QED BY <1>1 DEF Answers

\* What is asserted and set apart at once changes no answer.
LEMMA HalfKept ==
    ASSUME NEW c, Answers(c), NEW d, NEW f, Asserted(d) = Asserted(c) \cup {f},
           d.half = c.half \cup {f}, d.model = c.model, d.verdict = c.verdict,
           d.about = c.about
    PROVE  Answers(d)
<1>1. Asserted(d) \ d.half \subseteq Asserted(c) \ c.half
  OBVIOUS
<1>2. ModelsOfSet(Asserted(c) \ c.half) \subseteq ModelsOfSet(Asserted(d) \ d.half)
  BY <1>1, FewerModels
<1> QED BY <1>2 DEF Answers

LEMMA AnswersStale ==
    ASSUME NEW d, d.model = NoModel, d.verdict = "none"
    PROVE  Answers(d)
BY DEF Answers

LEMMA AssertedSame ==
    ASSUME NEW c, NEW d, d.assertions = c.assertions, d.universals = c.universals
    PROVE  Asserted(d) = Asserted(c)
BY DEF Asserted, Hard

-----------------------------------------------------------------------------
(* push and pop *)

LEMMA PopRuns == ASSUME NEW c, NEW n \in Nat PROVE \E L : PopRun(c, n, L)
<1> DEFINE T == {m \in Nat : \E L : PopRun(c, m, L)}
<1>1. 0 \in T
  <2> DEFINE L == [i \in 0 .. 0 |-> c]
  <2>1. PopRun(c, 0, L) BY DEF PopRun
  <2> QED BY <2>1
<1>2. ASSUME NEW m \in Nat, m \in T PROVE m + 1 \in T
  <2>1. PICK L : PopRun(c, m, L) BY <1>2
  <2> DEFINE M == [i \in 0 .. m + 1 |-> IF i = m + 1 THEN PopLevel(L[m]) ELSE L[i]]
  <2>2. PopRun(c, m + 1, M) BY <2>1 DEF PopRun
  <2> QED BY <2>2
<1>3. Nat \subseteq T
  <2> HIDE DEF T
  <2> QED BY <1>1, <1>2, NatInductive
<1> QED BY <1>3

LEMMA PopLevels ==
    ASSUME NEW c, NEW n \in Nat
    PROVE  \E L : PopRun(c, n, L) /\ Levels(PopLevel, c, n) = L[n]
<1> DEFINE L == CHOOSE L : PopRun(c, n, L)
<1>1. PopRun(c, n, L) BY PopRuns
<1>2. Levels(PopLevel, c, n) = L[n]
  BY DEF Levels, PopRun
<1> QED BY <1>1, <1>2

\* Popping a level takes away, and leaves the rest of the answers.
LEMMA PopFine ==
    ASSUME NEW c, Fine(c), c.scopes # << >>
    PROVE  /\ Fine(PopLevel(c)) /\ Len(PopLevel(c).scopes) = Len(c.scopes) - 1
           /\ PopLevel(c).verdict = c.verdict /\ PopLevel(c).about = c.about
<1> DEFINE d == PopLevel(c)
           m == c.scopes[Len(c.scopes)]
<1>1. /\ DOMAIN c = Fields /\ c.scopes \in Seq(Marks)
      /\ c.assertions \in Seq(Entries) /\ c.universals \in Seq(CmdFormulas)
  BY StacksAre DEF Fine, Good, ContextTyped
<1>2. /\ d.model = c.model /\ d.verdict = c.verdict /\ d.about = c.about /\ d.half = c.half
      /\ d.scopes = Front(c.scopes)
      /\ d.assertions = Truncate(c.assertions, m.assertions)
      /\ d.universals = Truncate(c.universals, m.universals)
  <2>1. /\ d.scopes = Front(c.scopes)
        /\ d.assertions = Truncate(c.assertions, m.assertions)
        /\ d.universals = Truncate(c.universals, m.universals)
        /\ \A x \in {"macros", "rels", "raw", "model", "verdict", "assumed", "about", "done", "half"} :
              d[x] = c[x]
    BY <1>1, PopFields
  <2> HIDE DEF d, m
  <2> QED BY <2>1
<1>3. Good(d)
  BY PopGood DEF Fine
<1>4. Len(d.scopes) = Len(c.scopes) - 1 /\ Len(c.scopes) \in DOMAIN c.scopes
  BY <1>1, <1>2, FrontIs
<1>5. m.assertions \in Nat /\ m.universals \in Nat
  <2>1. m \in Marks
    BY <1>1, <1>4
  <2> QED BY <2>1 DEF Marks
<1> HIDE DEF d, m
<1>6. Asserted(d) \subseteq Asserted(c)
  <2>1. \A i \in DOMAIN d.assertions : i \in DOMAIN c.assertions /\ d.assertions[i] = c.assertions[i]
    <3>1. PICK r : r = Truncate(c.assertions, m.assertions)
      OBVIOUS
    <3>2. \A i \in DOMAIN r : i \in DOMAIN c.assertions /\ r[i] = c.assertions[i]
      BY <1>1, <1>5, <3>1, CutTyped
    <3>3. d.assertions = r
      BY <1>2, <3>1
    <3> QED BY <3>2, <3>3
  <2>2. \A i \in DOMAIN d.universals : i \in DOMAIN c.universals /\ d.universals[i] = c.universals[i]
    <3>1. PICK r : r = Truncate(c.universals, m.universals)
      OBVIOUS
    <3>2. \A i \in DOMAIN r : i \in DOMAIN c.universals /\ r[i] = c.universals[i]
      BY <1>1, <1>5, <3>1, CutTyped
    <3>3. d.universals = r
      BY <1>2, <3>1
    <3> QED BY <3>2, <3>3
  <2>3. Hard(d) \subseteq Hard(c)
    BY <2>1 DEF Hard
  <2>4. ToSet(d.universals) \subseteq ToSet(c.universals)
    BY <2>2 DEF ToSet
  <2> QED BY <2>3, <2>4 DEF Asserted
<1>7. Answers(d)
  BY <1>2, <1>6, AnswersKept DEF Fine
<1> QED BY <1>2, <1>3, <1>4, <1>7 DEF Fine, d

LEMMA PopsFine ==
    ASSUME NEW c, Fine(c), NEW n \in Nat, n <= Len(c.scopes)
    PROVE  /\ Fine(Levels(PopLevel, c, n))
           /\ Levels(PopLevel, c, n).verdict = c.verdict
           /\ Levels(PopLevel, c, n).about = c.about
<1>1. PICK L : PopRun(c, n, L) /\ Levels(PopLevel, c, n) = L[n]
  BY PopLevels
<1> DEFINE T == {k \in Nat : k <= n => /\ Fine(L[k]) /\ Len(L[k].scopes) = Len(c.scopes) - k
                                       /\ L[k].verdict = c.verdict /\ L[k].about = c.about}
<1>2. Len(c.scopes) \in Nat
  BY DEF Fine, Good, ContextTyped
<1>3. 0 \in T
  BY <1>1, <1>2 DEF PopRun
<1>4. ASSUME NEW k \in Nat, k \in T PROVE k + 1 \in T
  <2> SUFFICES ASSUME k + 1 <= n
               PROVE  /\ Fine(L[k + 1]) /\ Len(L[k + 1].scopes) = Len(c.scopes) - (k + 1)
                      /\ L[k + 1].verdict = c.verdict /\ L[k + 1].about = c.about
    OBVIOUS
  <2>1. /\ Fine(L[k]) /\ Len(L[k].scopes) = Len(c.scopes) - k
        /\ L[k].verdict = c.verdict /\ L[k].about = c.about
    BY <1>4
  <2>2. L[k].scopes # << >>
    BY <1>2, <2>1
  <2>3. L[k + 1] = PopLevel(L[k])
    BY <1>1 DEF PopRun
  <2>4. /\ Fine(PopLevel(L[k])) /\ Len(PopLevel(L[k]).scopes) = Len(L[k].scopes) - 1
        /\ PopLevel(L[k]).verdict = L[k].verdict /\ PopLevel(L[k]).about = L[k].about
    BY <2>1, <2>2, PopFine
  <2> QED BY <1>2, <2>1, <2>3, <2>4
<1>5. n \in T
  <2>1. Nat \subseteq T
    <3> HIDE DEF T
    <3> QED BY <1>3, <1>4, NatInductive
  <2> QED BY <2>1
<1> QED BY <1>1, <1>5

LEMMA PopHandled ==
    ASSUME NEW c, Fine(c), NEW n \in Nat
    PROVE  Fine(Pop(c, n).c)
<1>1. Len(c.scopes) \in Nat
  BY DEF Fine, Good, ContextTyped
<1>2. CASE n > Len(c.scopes)
  BY <1>1, <1>2, PopsFine DEF Pop, Err
<1>3. CASE ~(n > Len(c.scopes))
  <2> DEFINE e == Levels(PopLevel, c, n)
             d == Pop(c, n).c
  <2>1. Fine(e) /\ DOMAIN e = Fields
    BY <1>1, <1>3, PopsFine DEF Fine, Good, ContextTyped
  <2>2. d = [e EXCEPT !.raw = {a \in @ : a[1] <= Len(e.scopes)}, !.model = NoModel]
    BY <1>3 DEF Pop, Ok
  <2> HIDE DEF e, d
  <2>3. /\ DOMAIN d = Fields /\ d.assertions = e.assertions /\ d.names = e.names
        /\ d.universals = e.universals /\ d.mentions = e.mentions /\ d.objectives = e.objectives
        /\ d.decls = e.decls /\ d.tstack = e.tstack
        /\ d.scopes = e.scopes /\ d.macros = e.macros /\ d.named = e.named /\ d.unames = e.unames
        /\ d.funcs = e.funcs /\ d.table = e.table
        /\ d.model = NoModel /\ d.verdict = e.verdict /\ d.about = e.about /\ d.half = e.half
    BY <2>1, <2>2 DEF Fields, Empty
  <2>4. Good(d)
    <3>1. Stacks(d) = Stacks(e)
      BY <2>3 DEF Stacks
    <3> QED BY <2>1, <2>3, <3>1, SameGood DEF Fine, Good, ContextTyped
  <2>5. Answers(d)
    BY <2>1, <2>3, AssertedSame, AnswersKept DEF Fine
  <2> QED BY <2>4, <2>5 DEF Fine, d
<1> QED BY <1>1, <1>2, <1>3

LEMMA PushFine ==
    ASSUME NEW c, Fine(c)
    PROVE  /\ Fine(PushLevel(c)) /\ PushLevel(c).scopes # << >>
           /\ \A x \in Fields \ {"scopes", "inc"} : PushLevel(c)[x] = c[x]
<1> DEFINE d == PushLevel(c)
<1>1. DOMAIN c = Fields /\ c.scopes \in Seq(Marks) /\ Mark(c) \in Marks
  BY MarkRestores DEF Fine, Good, ContextTyped
<1>2. /\ d.scopes = Append(c.scopes, Mark(c)) /\ \A x \in Fields \ {"scopes", "inc"} : d[x] = c[x]
  BY <1>1, PushFields
<1> HIDE DEF d
<1>3. /\ d.assertions = c.assertions /\ d.universals = c.universals
      /\ d.model = c.model /\ d.verdict = c.verdict /\ d.about = c.about /\ d.half = c.half
  BY <1>2 DEF Fields, Empty
<1>4. Answers(d)
  BY <1>3, AssertedSame, AnswersKept DEF Fine
<1>5. d.scopes # << >>
  BY <1>1, <1>2
<1>6. Good(d)
  BY PushGood DEF Fine, d
<1> QED BY <1>2, <1>4, <1>5, <1>6 DEF Fine, d

LEMMA PushesFine ==
    ASSUME NEW c, Fine(c), NEW n \in Nat
    PROVE  LET d == Levels(PushLevel, c, n)
           IN  /\ Fine(d) /\ \A x \in Fields \ {"scopes", "inc"} : d[x] = c[x]
               /\ n # 0 => d.scopes # << >>
<1>1. PICK L : PushRun(c, n, L) /\ Levels(PushLevel, c, n) = L[n]
  BY PushLevels
<1> DEFINE P(k) == /\ Fine(L[k]) /\ \A x \in Fields \ {"scopes", "inc"} : L[k][x] = c[x]
                   /\ k # 0 => L[k].scopes # << >>
           T == {k \in Nat : k <= n => P(k)}
<1>2. 0 \in T
  BY <1>1 DEF PushRun
<1>3. ASSUME NEW k \in Nat, k \in T PROVE k + 1 \in T
  <2> SUFFICES ASSUME k + 1 <= n PROVE P(k + 1)
    OBVIOUS
  <2>1. Fine(L[k]) /\ \A x \in Fields \ {"scopes", "inc"} : L[k][x] = c[x]
    BY <1>3
  <2>2. L[k + 1] = PushLevel(L[k])
    BY <1>1 DEF PushRun
  <2> QED BY <2>1, <2>2, PushFine
<1>4. n \in T
  <2>1. Nat \subseteq T
    <3> HIDE DEF T
    <3> QED BY <1>2, <1>3, NatInductive
  <2> QED BY <2>1
<1> QED BY <1>1, <1>4

\* A push leaves no model, and a level to pop.
LEMMA PushHandled ==
    ASSUME NEW c, Fine(c), NEW n \in Nat
    PROVE  /\ Fine(Push(c, n).c) /\ Push(c, n).ok
           /\ n # 0 => Push(c, n).c.scopes # << >>
           /\ Push(c, n).c.assertions = c.assertions /\ Push(c, n).c.universals = c.universals
<1> DEFINE e == Levels(PushLevel, c, n)
           d == Push(c, n).c
<1>1. /\ Fine(e) /\ DOMAIN e = Fields /\ \A x \in Fields \ {"scopes", "inc"} : e[x] = c[x]
      /\ n # 0 => e.scopes # << >>
  BY PushesFine DEF Fine, Good, ContextTyped
<1>2. d = [e EXCEPT !.model = NoModel] /\ Push(c, n).ok
  BY DEF Push, Ok
<1> HIDE DEF e, d
<1>3. /\ DOMAIN d = Fields /\ d.assertions = e.assertions /\ d.names = e.names
      /\ d.universals = e.universals /\ d.mentions = e.mentions /\ d.objectives = e.objectives
      /\ d.decls = e.decls /\ d.tstack = e.tstack
      /\ d.scopes = e.scopes /\ d.macros = e.macros /\ d.named = e.named /\ d.unames = e.unames
      /\ d.funcs = e.funcs /\ d.table = e.table
      /\ d.model = NoModel /\ d.verdict = e.verdict /\ d.about = e.about /\ d.half = e.half
  BY <1>1, <1>2 DEF Fields, Empty
<1>4. Good(d)
  <2>1. Stacks(d) = Stacks(e)
    BY <1>3 DEF Stacks
  <2> QED BY <1>1, <1>3, <2>1, SameGood DEF Fine, Good, ContextTyped
<1>5. Answers(d)
  BY <1>1, <1>3, AssertedSame, AnswersKept DEF Fine
<1>6. e.assertions = c.assertions /\ e.universals = c.universals
  BY <1>1 DEF Fields, Empty
<1> QED BY <1>1, <1>2, <1>3, <1>4, <1>5, <1>6 DEF Fine, d

-----------------------------------------------------------------------------
(* reset, and the start of a session *)

LEMMA NothingAsserted ==
    ASSUME NEW d, DOMAIN d = Fields, d.assertions = << >>, d.names = << >>, d.universals = << >>,
           d.objectives = << >>, d.scopes = << >>, d.named = {}, d.unames = {},
           d.decls \in Seq(Names), d.tstack = d.decls, d.mentions \in Seq(Names),
           d.funcs \subseteq ToSet(d.decls), d.macros \subseteq Names,
           d.table \in [Names -> Nat], \A x \in Names : d.table[x] = Count(d.decls, x)
    PROVE  Good(d)
<1>1. Stacks(d) \in StackRecords
  <2>1. /\ << >> \in Seq(Entries) /\ << >> \in Seq(Labels) /\ << >> \in Seq(CmdFormulas)
        /\ << >> \in Seq(Groups)
    OBVIOUS
  <2>2. d.tstack \in Seq(Names)
    OBVIOUS
  <2> QED BY <2>1, <2>2, StacksAre
<1>2. d.funcs \subseteq Names
  BY DEF ToSet
<1>3. ContextTyped(d)
  BY <1>1, <1>2 DEF ContextTyped
<1>4. Faithful(d)
  <2>1. Penalties(<< >>, CHOOSE f : TRUE) = {} /\ \A f : Penalties(<< >>, f) = {}
    BY DEF Penalties
  <2>2. \A f : Cardinality(Penalties(d.objectives, f)) = 0
    BY <2>1, FS_EmptySet
  <2>3. \A x : Count(d.assertions, x) = 0
    BY CountEmpty
  <2> QED BY <2>2, <2>3 DEF Faithful
<1>5. DenoteIn(d) /\ UsableIn(d) /\ LevelsOK(d)
  BY DEF DenoteIn, UsableIn, LevelsOK
<1> QED BY <1>3, <1>4, <1>5 DEF Good

LEMMA ResetFine ==
    ASSUME NEW c
    PROVE  Fine(Reset(c).c)
<1> DEFINE d == Reset(c).c
<1>1. /\ DOMAIN d = Fields /\ d.assertions = << >> /\ d.names = << >> /\ d.universals = << >>
      /\ d.objectives = << >> /\ d.scopes = << >> /\ d.named = {} /\ d.unames = {}
      /\ d.decls = << >> /\ d.tstack = << >> /\ d.mentions = << >>
      /\ d.funcs = {} /\ d.macros = {} /\ d.table = [n \in Names |-> 0]
      /\ d.model = NoModel /\ d.verdict = "none"
  BY DEF Reset, Ok, Fields, Empty
<1> HIDE DEF d
<1>2. Good(d)
  <2>1. \A x \in Names : d.table[x] = Count(d.decls, x)
    BY <1>1, CountEmpty
  <2>2. d.table \in [Names -> Nat]
    BY <1>1
  <2>3. /\ d.decls \in Seq(Names) /\ d.tstack = d.decls /\ d.mentions \in Seq(Names)
        /\ d.funcs \subseteq ToSet(d.decls) /\ d.macros \subseteq Names
    BY <1>1
  <2> QED BY <1>1, <2>1, <2>2, <2>3, NothingAsserted
<1> QED BY <1>1, <1>2, AnswersStale DEF Fine, d

LEMMA ResetAssertionsFine ==
    ASSUME NEW c, Fine(c)
    PROVE  Fine(ResetAssertions(c).c)
<1> DEFINE d == ResetAssertions(c).c
<1>0. DOMAIN c = Fields
  BY DEF Fine, Good, ContextTyped
<1>1. /\ DOMAIN d = Fields /\ d.assertions = << >> /\ d.names = << >> /\ d.universals = << >>
      /\ d.objectives = << >> /\ d.scopes = << >> /\ d.named = {} /\ d.unames = {}
      /\ d.decls = c.decls /\ d.tstack = c.tstack /\ d.mentions = c.mentions
      /\ d.funcs = c.funcs /\ d.macros = c.macros /\ d.table = c.table
      /\ d.model = NoModel /\ d.verdict = "none"
  BY <1>0 DEF ResetAssertions, Ok, Fields, Empty
<1> HIDE DEF d
<1>2. /\ c.decls \in Seq(Names) /\ c.tstack = c.decls /\ c.mentions \in Seq(Names)
      /\ c.funcs \subseteq ToSet(c.decls) /\ c.macros \subseteq Names
      /\ c.table \in [Names -> Nat] /\ \A x \in Names : c.table[x] = Count(c.decls, x)
  BY StacksAre DEF Fine, Good, ContextTyped, Faithful, UsableIn
<1>3. Good(d)
  BY <1>1, <1>2, NothingAsserted
<1> QED BY <1>1, <1>3, AnswersStale DEF Fine, d

LEMMA InitFine == CmdInit => Fine(ctx)
<1> SUFFICES ASSUME CmdInit PROVE Fine(ctx)
  OBVIOUS
<1> DEFINE d == ctx
<1>1. /\ DOMAIN d = Fields /\ d.assertions = << >> /\ d.names = << >> /\ d.universals = << >>
      /\ d.objectives = << >> /\ d.scopes = << >> /\ d.named = {} /\ d.unames = {}
      /\ d.decls = Preamble /\ d.tstack = Preamble /\ d.mentions = << >>
      /\ d.funcs = ToSet(Preamble) /\ d.macros = {}
      /\ d.table = [n \in Names |-> Count(Preamble, n)]
      /\ d.model = NoModel /\ d.verdict = "none"
  BY DEF CmdInit, Fields, Empty
<1>2. Preamble \in Seq(Names)
  BY CmdFormulasAssumption
<1>3. Good(d)
  <2>1. \A x \in Names : d.table[x] = Count(d.decls, x)
    BY <1>1
  <2>2. d.table \in [Names -> Nat]
    BY <1>1, <1>2, AtFinite
  <2>3. /\ d.decls \in Seq(Names) /\ d.tstack = d.decls /\ d.mentions \in Seq(Names)
        /\ d.funcs \subseteq ToSet(d.decls) /\ d.macros \subseteq Names
    BY <1>1, <1>2
  <2> HIDE DEF d
  <2> QED BY <1>1, <2>1, <2>2, <2>3, NothingAsserted
<1> QED BY <1>1, <1>3, AnswersStale DEF Fine

-----------------------------------------------------------------------------
(* Declarations *)

\* A change of fields that neither the scopes nor the answers depend on.
LEMMA SameFine ==
    ASSUME NEW c, Fine(c), NEW d, DOMAIN d = Fields,
           d.assertions = c.assertions, d.names = c.names, d.universals = c.universals,
           d.decls = c.decls, d.tstack = c.tstack, d.mentions = c.mentions,
           d.objectives = c.objectives,
           d.scopes = c.scopes, d.funcs = c.funcs, d.macros \subseteq Names,
           d.table = c.table, d.named = c.named, d.unames = c.unames,
           d.model = c.model \/ d.model = NoModel, d.verdict = c.verdict, d.about = c.about,
           d.half = c.half
    PROVE  Fine(d)
<1>1. Stacks(d) = Stacks(c)
  BY DEF Stacks
<1>2. Good(d)
  BY <1>1, SameGood DEF Fine
<1>3. Answers(d)
  BY AssertedSame, AnswersKept DEF Fine
<1> QED BY <1>2, <1>3 DEF Fine

LEMMA TypedFields ==
    ASSUME NEW c, Fine(c)
    PROVE  /\ DOMAIN c = Fields /\ c.funcs \subseteq Names /\ c.macros \subseteq Names
           /\ c.assertions \in Seq(Entries) /\ c.names \in Seq(Labels)
           /\ c.universals \in Seq(CmdFormulas) /\ c.objectives \in Seq(Groups)
           /\ c.mentions \in Seq(Names) /\ c.scopes \in Seq(Marks)
           /\ Len(c.names) = Len(c.assertions)
BY StacksAre DEF Fine, Good, ContextTyped, Faithful

LEMMA DeclaredFine ==
    ASSUME NEW c, Fine(c), NEW x \in Names
    PROVE  /\ Fine(Declared(c, x))
           /\ Declared(c, x).universals = c.universals /\ Declared(c, x).unames = c.unames
<1> DEFINE d == Declared(c, x)
<1>1. DOMAIN c = Fields
  BY TypedFields
<1>2. /\ d.assertions = c.assertions /\ d.universals = c.universals /\ d.unames = c.unames
      /\ d.model = c.model /\ d.verdict = c.verdict /\ d.about = c.about /\ d.half = c.half
  BY <1>1 DEF Declared, Fields, Empty
<1> HIDE DEF d
<1>3. Good(d)
  BY DeclaredGood DEF Fine, d
<1>4. Answers(d)
  BY <1>2, AssertedSame, AnswersKept DEF Fine
<1> QED BY <1>2, <1>3, <1>4 DEF Fine, d

LEMMA DeclareFine ==
    ASSUME NEW c, Fine(c), NEW x \in Names
    PROVE  Fine(DeclareFun(c, x).c)
<1> DEFINE e == Declared(c, x)
           d == DeclareFun(c, x).c
<1>1. Fine(e) /\ d = [e EXCEPT !.model = NoModel]
  BY DeclaredFine DEF DeclareFun, Ok
<1> HIDE DEF d, e
<1>2. DOMAIN e = Fields /\ e.macros \subseteq Names
  BY <1>1, TypedFields
<1>3. /\ DOMAIN d = Fields /\ d.assertions = e.assertions /\ d.names = e.names
      /\ d.universals = e.universals /\ d.mentions = e.mentions /\ d.objectives = e.objectives
      /\ d.decls = e.decls /\ d.tstack = e.tstack
      /\ d.scopes = e.scopes /\ d.macros = e.macros /\ d.named = e.named /\ d.unames = e.unames
      /\ d.funcs = e.funcs /\ d.table = e.table
      /\ d.model = NoModel /\ d.verdict = e.verdict /\ d.about = e.about /\ d.half = e.half
  BY <1>1, <1>2 DEF Fields, Empty
<1> QED BY <1>1, <1>2, <1>3, SameFine DEF d

LEMMA DefineFine ==
    ASSUME NEW c, Fine(c), NEW x \in Names
    PROVE  Fine(DefineFun(c, x).c)
<1> DEFINE d == DefineFun(c, x).c
<1>1. DOMAIN c = Fields /\ c.macros \subseteq Names
  BY TypedFields
<1>2. /\ DOMAIN d = Fields /\ d.assertions = c.assertions /\ d.names = c.names
      /\ d.universals = c.universals /\ d.mentions = c.mentions /\ d.objectives = c.objectives
      /\ d.decls = c.decls /\ d.tstack = c.tstack
      /\ d.scopes = c.scopes /\ d.macros = c.macros \cup {x} /\ d.named = c.named
      /\ d.unames = c.unames /\ d.funcs = c.funcs /\ d.table = c.table
      /\ d.model = c.model /\ d.verdict = c.verdict /\ d.about = c.about /\ d.half = c.half
  BY <1>1 DEF DefineFun, Ok, Fields, Empty
<1> HIDE DEF d
<1>3. d.macros \subseteq Names
  BY <1>1, <1>2
<1> QED BY <1>2, <1>3, SameFine DEF d

LEMMA DeclareRelFine ==
    ASSUME NEW c, Fine(c), NEW x \in Names
    PROVE  Fine(DeclareRel(c, x).c)
<1> DEFINE d == [c EXCEPT !.rels = @ \cup {x}]
<1>1. DOMAIN c = Fields /\ c.macros \subseteq Names
  BY TypedFields
<1>2. /\ DOMAIN d = Fields /\ d.assertions = c.assertions /\ d.names = c.names
      /\ d.universals = c.universals /\ d.mentions = c.mentions /\ d.objectives = c.objectives
      /\ d.decls = c.decls /\ d.tstack = c.tstack
      /\ d.scopes = c.scopes /\ d.macros = c.macros /\ d.named = c.named
      /\ d.unames = c.unames /\ d.funcs = c.funcs /\ d.table = c.table
      /\ d.model = c.model /\ d.verdict = c.verdict /\ d.about = c.about /\ d.half = c.half
  BY <1>1 DEF Fields, Empty
<1> HIDE DEF d
<1>3. Fine(d)
  BY <1>1, <1>2, SameFine
<1> QED BY <1>3, DeclareFine DEF DeclareRel, d

\* What a universal adds to what is asserted.
LEMMA UniversalAsserted ==
    ASSUME NEW c, c.universals \in Seq(CmdFormulas), NEW f \in CmdFormulas,
           NEW d, d.universals = Append(c.universals, f), d.assertions = c.assertions
    PROVE  Asserted(d) = Asserted(c) \cup {f}
<1>1. ToSet(d.universals) = ToSet(c.universals) \cup {f}
  BY ToSetAppend
<1> QED BY <1>1 DEF Asserted, Hard

\* An axiom asserted, and set apart for the model that was there before.
LEMMA AxiomFine ==
    ASSUME NEW c, Fine(c), NEW x \in DOMAIN Axiom
    PROVE  Fine(AddAxiom(c, x))
<1> DEFINE f == Axiom[x]
           d == AddAxiom(c, x)
<1>1. x \in Names /\ f \in CmdFormulas
  BY CmdFormulasAssumption
<1>2. /\ DOMAIN c = Fields /\ c.universals \in Seq(CmdFormulas)
      /\ c.assertions \in Seq(Entries) /\ Good(c)
  BY TypedFields DEF Fine
<1>3. d = IF Kind[f] = "forall"
          THEN [c EXCEPT !.half = @ \cup {f}, !.universals = Append(@, f)]
          ELSE [c EXCEPT !.half = @ \cup {f}, !.assertions = Append(@, Entry(f, FALSE)),
                         !.names = Append(@, NoLabel)]
  BY <1>2 DEF AddAxiom, Fields, Empty
<1> HIDE DEF d, f
<1>4. CASE Kind[f] = "forall"
  <2>1. /\ DOMAIN d = Fields /\ d.assertions = c.assertions /\ d.names = c.names
        /\ d.universals = Append(c.universals, f)
        /\ d.mentions = c.mentions /\ d.objectives = c.objectives
        /\ d.decls = c.decls /\ d.tstack = c.tstack
        /\ d.scopes = c.scopes /\ d.macros = c.macros /\ d.named = c.named
        /\ d.unames = c.unames /\ d.funcs = c.funcs /\ d.table = c.table
        /\ d.model = c.model /\ d.verdict = c.verdict /\ d.about = c.about
        /\ d.half = c.half \cup {f}
    BY <1>2, <1>3, <1>4 DEF Fields, Empty
  <2>2. d.unames \subseteq c.unames \cup {<<Len(c.universals) + 1, Label[f], 0>>} /\ 0 \in Nat
    BY <2>1
  <2>3. Good(d)
    BY <1>1, <1>2, <2>1, <2>2, GrewUniversals
  <2>4. Asserted(d) = Asserted(c) \cup {f}
    BY <1>1, <1>2, <2>1, UniversalAsserted
  <2>5. Answers(d)
    BY <2>1, <2>4, HalfKept DEF Fine
  <2> QED BY <2>3, <2>5 DEF Fine, d
<1>5. CASE Kind[f] # "forall"
  <2>1. /\ DOMAIN d = Fields
        /\ d.assertions = Append(c.assertions, Entry(f, FALSE))
        /\ d.names = Append(c.names, NoLabel)
        /\ d.universals = c.universals
        /\ d.mentions = c.mentions /\ d.objectives = c.objectives
        /\ d.decls = c.decls /\ d.tstack = c.tstack
        /\ d.scopes = c.scopes /\ d.macros = c.macros /\ d.named = c.named
        /\ d.unames = c.unames /\ d.funcs = c.funcs /\ d.table = c.table
        /\ d.model = c.model /\ d.verdict = c.verdict /\ d.about = c.about
        /\ d.half = c.half \cup {f}
    BY <1>2, <1>3, <1>5 DEF Fields, Empty
  <2>2. d.named \subseteq c.named \cup {<<NoLabel, f, Len(c.assertions) + 1>>}
        /\ NoLabel \in Labels
    BY <2>1 DEF Labels
  <2>3. Good(d)
    BY <1>1, <1>2, <2>1, <2>2, GrewAssertions
  <2>4. Asserted(d) = Asserted(c) \cup {f}
    <3>1. Hard(d) = Hard(c) \cup {f}
      BY <1>2, <2>1, AppendIs DEF Hard, Entry
    <3> QED BY <2>1, <3>1 DEF Asserted
  <2>5. Answers(d)
    BY <2>1, <2>4, HalfKept DEF Fine
  <2> QED BY <2>3, <2>5 DEF Fine, d
<1> QED BY <1>4, <1>5

LEMMA DefinedFine ==
    ASSUME NEW c, Fine(c)
    PROVE  Fine(Defined(c).c)
<1> DEFINE d == Defined(c).c
<1>1. DOMAIN c = Fields /\ Good(c)
  BY TypedFields DEF Fine
<1>2. /\ DOMAIN d = Fields /\ d.assertions = c.assertions /\ d.names = c.names
      /\ d.universals = c.universals /\ d.mentions = c.mentions /\ d.objectives = c.objectives
      /\ d.decls = c.decls /\ d.tstack = c.tstack
      /\ d.scopes = c.scopes /\ d.macros = c.macros /\ d.named = c.named
      /\ d.unames = c.unames /\ d.funcs = c.funcs /\ d.table = c.table
      /\ d.model = NoModel /\ d.verdict = c.verdict /\ d.about = c.about
  BY <1>1 DEF Defined, Ok, Fields, Empty
<1> HIDE DEF d
<1>3. Good(d)
  <2>1. Stacks(d) = Stacks(c) /\ d.macros \subseteq Names
    BY <1>1, <1>2 DEF Stacks, Good, ContextTyped
  <2> QED BY <1>1, <1>2, <2>1, SameGood
<1>4. Answers(d)
  BY <1>2 DEF Fine, Answers
<1> QED BY <1>3, <1>4 DEF Fine, d

LEMMA DefineRecFine ==
    ASSUME NEW c, Fine(c), NEW x \in DOMAIN Axiom, NEW ws \in BOOLEAN
    PROVE  Fine(DefineFunRec(c, x, ws).c)
<1> DEFINE e == Declared(c, x)
<1>1. x \in Names
  BY CmdFormulasAssumption
<1>2. Fine(e)
  BY <1>1, DeclaredFine
<1>3. Fine(Defined(AddAxiom(e, x)).c)
  <2> HIDE DEF e
  <2> QED BY <1>2, AxiomFine, DefinedFine
<1> QED BY <1>2, <1>3 DEF DefineFunRec, Err

LEMMA DefineFunsFine ==
    ASSUME NEW c, Fine(c), NEW p \in Mutual, NEW ws \in 0 .. 2
    PROVE  Fine(DefineFunsRec(c, p[1], p[2], ws).c)
<1> DEFINE x == p[1]
           y == p[2]
           d == Declared(Declared(c, x), y)
           e == IF ws = 0 THEN d ELSE AddAxiom(d, x)
<1>1. x \in DOMAIN Axiom /\ y \in DOMAIN Axiom /\ x \in Names /\ y \in Names
  <2>1. p \in (DOMAIN Axiom) \X (DOMAIN Axiom)
    BY CmdFormulasAssumption
  <2>2. x \in DOMAIN Axiom /\ y \in DOMAIN Axiom
    BY <2>1
  <2> QED BY <2>2, CmdFormulasAssumption
<1> HIDE DEF x, y
<1>2. Fine(d)
  <2>1. Fine(Declared(c, x))
    BY <1>1, DeclaredFine
  <2>2. PICK b : b = Declared(c, x)
    OBVIOUS
  <2> QED BY <1>1, <2>1, <2>2, DeclaredFine
<1>3. Fine(e)
  <2> HIDE DEF d
  <2> QED BY <1>1, <1>2, AxiomFine
<1>4. Fine(Defined(AddAxiom(e, y)).c)
  <2> HIDE DEF e
  <2> QED BY <1>1, <1>3, AxiomFine, DefinedFine
<1>5. DefineFunsRec(c, x, y, ws) = IF ws = 2 THEN Defined(AddAxiom(e, y)) ELSE Err(e)
  BY DEF DefineFunsRec
<1> HIDE DEF e
<1> QED BY <1>3, <1>4, <1>5 DEF Err, x, y

-----------------------------------------------------------------------------
(* assert *)

\* A finite set put in a sequence.
LEMMA SequenceOf ==
    ASSUME NEW S, IsFiniteSet(S)
    PROVE  SetToSeq(S) \in Seq(S)
<1> DEFINE n == Cardinality(S)
<1>1. n \in Nat /\ \E k \in Nat : ExistsBijection(1 .. k, S)
  BY FS_CardinalityType, FS_NatBijection
<1>2. PICK k \in Nat : ExistsBijection(1 .. k, S)
  BY <1>1
<1>3. n = k
  BY <1>2, FS_CountingElements
<1>4. \E g \in [1 .. n -> S] : IsInjective(g)
  BY <1>2, <1>3 DEF ExistsBijection, Bijection, Injection, IsInjective
<1>5. SetToSeq(S) \in [1 .. n -> S]
  BY <1>4 DEF SetToSeq
<1> QED BY <1>1, <1>5

\* The context with its mentions of a formula noted, all else as it was.
LEMMA NotedFine ==
    ASSUME NEW c, Fine(c), NEW f \in CmdFormulas
    PROVE  LET d == Noted(c, f)
           IN  /\ Fine(d) /\ DOMAIN d = Fields
               /\ \A x \in Fields \ {"mentions", "inc"} : d[x] = c[x]
<1> DEFINE d == Noted(c, f)
           S == Uses[f] \cap (c.funcs \cup c.macros)
<1>1. DOMAIN c = Fields /\ c.mentions \in Seq(Names) /\ c.macros \subseteq Names
  BY TypedFields
<1>2. SetToSeq(S) \in Seq(Names)
  <2>1. S \subseteq Names /\ IsFiniteSet(Names)
    BY CmdFormulasAssumption
  <2>2. SetToSeq(S) \in Seq(S)
    BY <2>1, FS_Subset, SequenceOf
  <2> HIDE DEF S
  <2> QED BY <2>1, <2>2
<1>3. /\ DOMAIN d = Fields /\ d.mentions = c.mentions \o SetToSeq(S)
      /\ \A x \in Fields \ {"mentions", "inc"} : d[x] = c[x]
  BY <1>1 DEF Noted, Fields, Empty
<1> HIDE DEF d, S
<1>4. /\ d.assertions = c.assertions /\ d.names = c.names
      /\ d.universals = c.universals /\ d.objectives = c.objectives
      /\ d.decls = c.decls /\ d.tstack = c.tstack
      /\ d.scopes = c.scopes /\ d.macros = c.macros /\ d.named = c.named
      /\ d.unames = c.unames /\ d.funcs = c.funcs /\ d.table = c.table
      /\ d.model = c.model /\ d.verdict = c.verdict /\ d.about = c.about /\ d.half = c.half
  BY <1>3 DEF Fields, Empty
<1>5. d.mentions \in Seq(Names) /\ Extends(c.mentions, d.mentions)
  BY <1>1, <1>2, <1>3, ExtendsConcat
<1>6. Good(d)
  BY <1>3, <1>4, <1>5, GrewMentions DEF Fine
<1>7. Answers(d)
  BY <1>4, AssertedSame, AnswersKept DEF Fine
<1> QED BY <1>3, <1>6, <1>7 DEF Fine, d

\* d is c with an assertion more, and no answer.
AssertionPut(c, d, f, l) ==
    /\ DOMAIN d = Fields
    /\ d.assertions = Append(c.assertions, Entry(f, FALSE)) /\ d.names = Append(c.names, l)
    /\ d.universals = c.universals /\ d.objectives = c.objectives
    /\ d.mentions = c.mentions
    /\ d.decls = c.decls /\ d.tstack = c.tstack
    /\ d.scopes = c.scopes /\ d.macros = c.macros /\ d.named = c.named
    /\ d.unames = c.unames /\ d.funcs = c.funcs /\ d.table = c.table
    /\ d.model = NoModel /\ d.verdict = "none" /\ d.about = c.about

LEMMA AssertionAdded ==
    ASSUME NEW c, DOMAIN c = Fields, NEW f, NEW l
    PROVE  AssertionPut(c, AddAssertion(c, f, l), f, l)
BY DEF AssertionPut, AddAssertion, Stale, Fields, Empty

\* d is c with a universal more, and no answer.
UniversalPut(c, d, f) ==
    /\ DOMAIN d = Fields
    /\ d.universals = Append(c.universals, f)
    /\ d.assertions = c.assertions /\ d.names = c.names
    /\ d.objectives = c.objectives /\ d.mentions = c.mentions
    /\ d.decls = c.decls /\ d.tstack = c.tstack
    /\ d.scopes = c.scopes /\ d.macros = c.macros /\ d.named = c.named
    /\ d.unames = c.unames /\ d.funcs = c.funcs /\ d.table = c.table
    /\ d.model = NoModel /\ d.verdict = "none" /\ d.about = c.about

LEMMA UniversalAdded ==
    ASSUME NEW c, DOMAIN c = Fields, NEW f
    PROVE  UniversalPut(c, AddUniversal(c, f), f)
BY DEF UniversalPut, AddUniversal, Stale, Fields, Empty

LEMMA QuantifiedFine ==
    ASSUME NEW c, Fine(c), NEW f \in CmdFormulas
    PROVE  LET r == AssertQuantified(c, f)
           IN  /\ Fine(r.c) /\ r.c.scopes = c.scopes
               /\ r.ok /\ Kind[f] = "forall" => Asserted(r.c) = Asserted(c) \cup {f}
<1> DEFINE e == Noted(c, f)
           r == AssertQuantified(c, f)
<1>1. Fine(e) /\ DOMAIN e = Fields /\ \A x \in Fields \ {"mentions", "inc"} : e[x] = c[x]
  BY NotedFine
<1>2. IF ~Known(c, f) THEN r = Err(e)
      ELSE IF Kind[f] = "forall" THEN r = Ok(AddUniversal(e, f))
      ELSE r = Ok(AddAssertion(e, f, NoLabel))
  BY DEF AssertQuantified
<1> HIDE DEF e, r
<1>3. e.scopes = c.scopes /\ e.assertions = c.assertions /\ e.universals = c.universals
  BY <1>1 DEF Fields, Empty
<1>4. CASE ~Known(c, f)
  BY <1>1, <1>2, <1>3, <1>4 DEF Err, r
<1>5. CASE Known(c, f) /\ Kind[f] = "forall"
  <2> DEFINE d == AddUniversal(e, f)
  <2>0. UniversalPut(e, d, f)
    BY <1>1, UniversalAdded
  <2>1. r.c = d
    BY <1>2, <1>5 DEF Ok
  <2> HIDE DEF d
  <2>2. /\ DOMAIN d = Fields
        /\ d.universals = Append(e.universals, f)
        /\ d.assertions = e.assertions /\ d.names = e.names
        /\ d.objectives = e.objectives /\ d.mentions = e.mentions
        /\ d.decls = e.decls /\ d.tstack = e.tstack
        /\ d.scopes = e.scopes /\ d.macros = e.macros /\ d.named = e.named
        /\ d.unames = e.unames /\ d.funcs = e.funcs /\ d.table = e.table
        /\ d.model = NoModel /\ d.verdict = "none" /\ d.about = e.about
    BY <2>0 DEF UniversalPut
  <2>3. Good(d)
    <3>1. d.unames \subseteq e.unames \cup {<<Len(e.universals) + 1, Label[f], 0>>} /\ 0 \in Nat
      BY <2>2
    <3> QED BY <1>1, <2>2, <3>1, GrewUniversals DEF Fine
  <2>4. Asserted(d) = Asserted(e) \cup {f} /\ Asserted(e) = Asserted(c)
    BY <1>1, <1>3, <2>2, TypedFields, UniversalAsserted, AssertedSame
  <2> QED BY <1>3, <2>1, <2>2, <2>3, <2>4, AnswersStale DEF Fine, r
<1>6. CASE Known(c, f) /\ Kind[f] # "forall"
  <2> DEFINE d == AddAssertion(e, f, NoLabel)
  <2>0. AssertionPut(e, d, f, NoLabel)
    BY <1>1, AssertionAdded
  <2>1. r.c = d
    BY <1>2, <1>6 DEF Ok
  <2> HIDE DEF d
  <2>2. /\ DOMAIN d = Fields
        /\ d.assertions = Append(e.assertions, Entry(f, FALSE)) /\ d.names = Append(e.names, NoLabel)
        /\ d.universals = e.universals
        /\ d.objectives = e.objectives /\ d.mentions = e.mentions
        /\ d.decls = e.decls /\ d.tstack = e.tstack
        /\ d.scopes = e.scopes /\ d.macros = e.macros /\ d.named = e.named
        /\ d.unames = e.unames /\ d.funcs = e.funcs /\ d.table = e.table
        /\ d.model = NoModel /\ d.verdict = "none" /\ d.about = e.about
    BY <2>0 DEF AssertionPut
  <2>3. Good(d)
    <3>1. d.named \subseteq e.named \cup {<<NoLabel, f, Len(e.assertions) + 1>>} /\ NoLabel \in Labels
      BY <2>2 DEF Labels
    <3> QED BY <1>1, <2>2, <3>1, GrewAssertions DEF Fine
  <2> QED BY <1>3, <1>6, <2>1, <2>2, <2>3, AnswersStale DEF Fine, r
<1> QED BY <1>4, <1>5, <1>6 DEF r

\* The last entry overwritten.
LEMMA LastSet ==
    ASSUME NEW S, NEW a \in Seq(S), NEW x \in S, NEW y \in S
    PROVE  [Append(a, x) EXCEPT ![Len(a) + 1] = y] = Append(a, y)
<1> DEFINE n == Len(a) + 1
           u == Append(a, x)
           v == [u EXCEPT ![n] = y]
           w == Append(a, y)
<1>1. /\ u \in Seq(S) /\ Len(u) = n /\ n \in Nat /\ n > 0
      /\ \A i \in 1 .. n : i # n => u[i] = a[i]
  OBVIOUS
<1>2. w \in Seq(S) /\ Len(w) = n /\ w[n] = y /\ \A i \in 1 .. n : i # n => w[i] = a[i]
  OBVIOUS
<1> HIDE DEF u, w, n
<1>3. v \in Seq(S) /\ Len(v) = n /\ v[n] = y /\ \A i \in 1 .. n : i # n => v[i] = u[i]
  BY <1>1
<1> HIDE DEF v
<1>4. v = w
  BY <1>1, <1>2, <1>3, SeqSame
<1> QED BY <1>4 DEF u, v, w, n

LEMMA LabelledFine ==
    ASSUME NEW c, Fine(c), NEW f \in CmdFormulas
    PROVE  LET r == AssertLabelled(c, f)
           IN  /\ Fine(r.c) /\ r.c.scopes = c.scopes
               /\ r.ok /\ Kind[f] = "forall" => Asserted(r.c) = Asserted(c) \cup {f}
<1> DEFINE b == Noted(c, f)
           e == Noted(b, f)
           q == AssertQuantified(b, f)
           r == AssertLabelled(c, f)
<1>1. /\ Fine(b) /\ \A x \in Fields \ {"mentions", "inc"} : b[x] = c[x]
  BY NotedFine
<1>2. /\ Fine(e) /\ DOMAIN e = Fields /\ \A x \in Fields \ {"mentions", "inc"} : e[x] = b[x]
  <2> HIDE DEF b
  <2> QED BY <1>1, NotedFine
<1>3. IF ~Known(b, f) THEN q = Err(e)
      ELSE IF Kind[f] = "forall" THEN q = Ok(AddUniversal(e, f))
      ELSE q = Ok(AddAssertion(e, f, NoLabel))
  BY DEF AssertQuantified
<1>4. IF q.ok
      THEN r = Ok(IF Len(q.c.universals) > Len(c.universals)
                  THEN [q.c EXCEPT !.unames = @ \cup {<<Len(q.c.universals), Label[f], Len(c.assertions)>>}]
                  ELSE [q.c EXCEPT !.names[Len(q.c.names)] = Label[f]])
      ELSE r = q
  BY DEF AssertLabelled, Then
<1> HIDE DEF b, e, q, r
<1>5. e.scopes = c.scopes /\ e.assertions = c.assertions /\ e.universals = c.universals
  BY <1>1, <1>2 DEF Fields, Empty
<1>6. /\ e.universals \in Seq(CmdFormulas) /\ e.names \in Seq(Labels) /\ Label[f] \in Labels
      /\ e.assertions \in Seq(Entries) /\ Good(e)
  BY <1>2, TypedFields DEF Labels, Fine
<1>7. CASE ~Known(b, f)
  <2>1. q = Err(e) /\ r = q
    BY <1>3, <1>4, <1>7 DEF Err
  <2> QED BY <1>2, <1>5, <2>1 DEF Err, r
<1>8. CASE Known(b, f) /\ Kind[f] = "forall"
  <2> DEFINE g == AddUniversal(e, f)
             d == r.c
             k == Len(c.assertions)
  <2>0. UniversalPut(e, g, f)
    BY <1>2, UniversalAdded
  <2>1. q.ok /\ q.c = g
    BY <1>3, <1>8 DEF Ok
  <2> HIDE DEF g
  <2>2. Len(g.universals) = Len(c.universals) + 1 /\ Len(c.universals) \in Nat /\ k \in Nat
    BY <1>5, <1>6, <2>0 DEF UniversalPut
  <2>3. d = [g EXCEPT !.unames = @ \cup {<<Len(c.universals) + 1, Label[f], k>>}]
    BY <1>4, <2>1, <2>2 DEF Ok
  <2> HIDE DEF d, k
  <2>4. DOMAIN g = Fields
    BY <2>0 DEF UniversalPut
  <2>5. /\ DOMAIN d = Fields
        /\ d.universals = g.universals
        /\ d.assertions = g.assertions /\ d.names = g.names
        /\ d.objectives = g.objectives /\ d.mentions = g.mentions
        /\ d.decls = g.decls /\ d.tstack = g.tstack
        /\ d.scopes = g.scopes /\ d.macros = g.macros /\ d.named = g.named
        /\ d.unames = g.unames \cup {<<Len(c.universals) + 1, Label[f], k>>}
        /\ d.funcs = g.funcs /\ d.table = g.table
        /\ d.model = g.model /\ d.verdict = g.verdict
    BY <2>3, <2>4 DEF Fields, Empty
  <2>6. /\ d.universals = Append(e.universals, f)
        /\ d.assertions = e.assertions /\ d.names = e.names
        /\ d.objectives = e.objectives /\ d.mentions = e.mentions
        /\ d.decls = e.decls /\ d.tstack = e.tstack
        /\ d.scopes = e.scopes /\ d.macros = e.macros /\ d.named = e.named
        /\ d.unames \subseteq e.unames \cup {<<Len(e.universals) + 1, Label[f], k>>}
        /\ d.funcs = e.funcs /\ d.table = e.table
        /\ d.model = NoModel /\ d.verdict = "none"
    BY <1>5, <2>0, <2>5 DEF UniversalPut
  <2>7. Good(d)
    BY <1>6, <2>2, <2>5, <2>6, GrewUniversals
  <2>8. Asserted(d) = Asserted(e) \cup {f} /\ Asserted(e) = Asserted(c)
    BY <1>5, <1>6, <2>6, UniversalAsserted, AssertedSame
  <2> QED BY <1>5, <2>6, <2>7, <2>8, AnswersStale DEF Fine, d, r
<1>9. CASE Known(b, f) /\ Kind[f] # "forall"
  <2> DEFINE g == AddAssertion(e, f, NoLabel)
             d == r.c
             n == Len(e.names) + 1
  <2>0. AssertionPut(e, g, f, NoLabel)
    BY <1>2, AssertionAdded
  <2>1. q.ok /\ q.c = g
    BY <1>3, <1>9 DEF Ok
  <2> HIDE DEF g
  <2>2. /\ Len(g.universals) = Len(c.universals) /\ Len(c.universals) \in Nat
        /\ g.names = Append(e.names, NoLabel)
    BY <1>5, <1>6, <2>0 DEF AssertionPut
  <2>3. Len(g.names) = n /\ NoLabel \in Labels
    BY <1>6, <2>2 DEF Labels
  <2>4. d = [g EXCEPT !.names[n] = Label[f]]
    BY <1>4, <2>1, <2>2, <2>3 DEF Ok
  <2> HIDE DEF d, n
  <2>5. DOMAIN g = Fields
    BY <2>0 DEF AssertionPut
  <2>6. /\ DOMAIN d = Fields
        /\ d.universals = g.universals
        /\ d.assertions = g.assertions /\ d.names = [g.names EXCEPT ![n] = Label[f]]
        /\ d.objectives = g.objectives /\ d.mentions = g.mentions
        /\ d.decls = g.decls /\ d.tstack = g.tstack
        /\ d.scopes = g.scopes /\ d.macros = g.macros /\ d.named = g.named
        /\ d.unames = g.unames
        /\ d.funcs = g.funcs /\ d.table = g.table
        /\ d.model = g.model /\ d.verdict = g.verdict
    BY <2>4, <2>5 DEF Fields, Empty
  <2>7. d.names = Append(e.names, Label[f])
    <3> DEFINE a == e.names
               l == Label[f]
    <3>1. a \in Seq(Labels) /\ l \in Labels /\ NoLabel \in Labels /\ n = Len(a) + 1
          /\ d.names = [Append(a, NoLabel) EXCEPT ![n] = l]
      BY <1>6, <2>2, <2>3, <2>6 DEF n
    <3> HIDE DEF a, l
    <3>2. [Append(a, NoLabel) EXCEPT ![n] = l] = Append(a, l)
      BY <3>1, LastSet
    <3> QED BY <3>1, <3>2 DEF a, l
  <2>8. /\ d.assertions = Append(e.assertions, Entry(f, FALSE))
        /\ d.named \subseteq e.named \cup {<<Label[f], f, Len(e.assertions) + 1>>}
        /\ d.universals = e.universals
        /\ d.objectives = e.objectives /\ d.mentions = e.mentions
        /\ d.decls = e.decls /\ d.tstack = e.tstack
        /\ d.scopes = e.scopes /\ d.macros = e.macros
        /\ d.unames = e.unames
        /\ d.funcs = e.funcs /\ d.table = e.table
        /\ d.model = NoModel /\ d.verdict = "none"
    BY <2>0, <2>6 DEF AssertionPut
  <2>9. Good(d)
    <3> DEFINE l == Label[f]
    <3>1. l \in Labels /\ d.names = Append(e.names, l)
          /\ d.named \subseteq e.named \cup {<<l, f, Len(e.assertions) + 1>>}
      BY <1>6, <2>7, <2>8
    <3> HIDE DEF l
    <3> QED BY <1>6, <2>6, <2>8, <3>1, GrewAssertions
  <2> QED BY <1>5, <1>9, <2>8, <2>9, AnswersStale DEF Fine, d, r
<1> QED BY <1>7, <1>8, <1>9 DEF r

LEMMA GroundFine ==
    ASSUME NEW c, Fine(c), NEW f \in CmdFormulas
    PROVE  Fine(AssertGround(c, f).c) /\ AssertGround(c, f).c.scopes = c.scopes
<1> DEFINE e == Noted(c, f)
           r == AssertGround(c, f)
           new == IF Label[f] = NoLabel THEN {} ELSE {<<Label[f], f, Len(c.assertions) + 1>>}
           g == [e EXCEPT !.named = @ \cup new]
<1>1. Fine(e) /\ DOMAIN e = Fields /\ \A x \in Fields \ {"mentions", "inc"} : e[x] = c[x]
  BY NotedFine
<1>2. IF ~Known(c, f) THEN r = Err(e) ELSE r = Ok(AddAssertion(g, f, Label[f]))
  BY DEF AssertGround
<1> HIDE DEF r, e
<1>3. e.scopes = c.scopes /\ e.assertions = c.assertions
  BY <1>1 DEF Fields, Empty
<1>4. CASE ~Known(c, f)
  BY <1>1, <1>2, <1>3, <1>4 DEF Err, r
<1>5. CASE Known(c, f)
  <2> DEFINE d == AddAssertion(g, f, Label[f])
             l == Label[f]
  <2>0. DOMAIN g = Fields
    BY <1>1
  <2>1. /\ g.universals = e.universals
        /\ g.assertions = e.assertions /\ g.names = e.names
        /\ g.objectives = e.objectives /\ g.mentions = e.mentions
        /\ g.decls = e.decls /\ g.tstack = e.tstack
        /\ g.scopes = e.scopes /\ g.macros = e.macros /\ g.named = e.named \cup new
        /\ g.unames = e.unames
        /\ g.funcs = e.funcs /\ g.table = e.table
    BY <1>1 DEF Fields, Empty
  <2> HIDE DEF g
  <2>2. AssertionPut(g, d, f, l) /\ r.c = d
    BY <1>2, <1>5, <2>0, AssertionAdded DEF Ok
  <2>3. l \in Labels /\ new \subseteq {<<l, f, Len(e.assertions) + 1>>}
    BY <1>3 DEF Labels
  <2> HIDE DEF d, new, l
  <2>4. /\ DOMAIN d = Fields
        /\ d.assertions = Append(e.assertions, Entry(f, FALSE)) /\ d.names = Append(e.names, l)
        /\ d.named \subseteq e.named \cup {<<l, f, Len(e.assertions) + 1>>}
        /\ d.universals = e.universals
        /\ d.objectives = e.objectives /\ d.mentions = e.mentions
        /\ d.decls = e.decls /\ d.tstack = e.tstack
        /\ d.scopes = e.scopes /\ d.macros = e.macros
        /\ d.unames = e.unames
        /\ d.funcs = e.funcs /\ d.table = e.table
        /\ d.model = NoModel /\ d.verdict = "none"
    BY <2>1, <2>2, <2>3 DEF AssertionPut
  <2>5. Good(d)
    BY <1>1, <2>3, <2>4, GrewAssertions DEF Fine
  <2> QED BY <1>3, <2>2, <2>4, <2>5, AnswersStale DEF Fine, r
<1> QED BY <1>4, <1>5 DEF r

\* One formula asserted, whatever its kind and label.
LEMMA BasicFine ==
    ASSUME NEW c, Fine(c), NEW f \in CmdFormulas
    PROVE  LET r == AssertBasic(c, f)
           IN  /\ Fine(r.c) /\ r.c.scopes = c.scopes
               /\ r.ok /\ Kind[f] = "forall" => Asserted(r.c) = Asserted(c) \cup {f}
BY GroundFine, QuantifiedFine, LabelledFine DEF AssertBasic

LEMMA FormulaFine ==
    ASSUME NEW c, Fine(c), NEW f \in CmdFormulas
    PROVE  LET r == AssertFormula(c, f)
           IN  /\ Fine(r.c) /\ r.c.scopes = c.scopes
               /\ r.ok /\ Kind[f] = "forall" => Asserted(r.c) = Asserted(c) \cup {f}
<1>1. CASE Kind[f] # "and"
  BY <1>1, BasicFine DEF AssertFormula
<1>2. CASE Kind[f] = "and"
  <2> DEFINE e == Noted(c, f)
             g == Parts[f][1]
             h == Parts[f][2]
             q == AssertBasic(e, g)
             r == AssertFormula(c, f)
  <2>1. Fine(e) /\ \A x \in Fields \ {"mentions", "inc"} : e[x] = c[x]
    BY NotedFine
  <2>2. e.scopes = c.scopes
    BY <2>1 DEF Fields, Empty
  <2>3. g \in CmdFormulas /\ h \in CmdFormulas
    BY <1>2, CmdFormulasAssumption
  <2>4. IF q.ok THEN r = AssertBasic(q.c, h) ELSE r = q
    BY <1>2 DEF AssertFormula, Then
  <2> HIDE DEF e, g, h, q, r
  <2>5. Fine(q.c) /\ q.c.scopes = e.scopes
    BY <2>1, <2>3, BasicFine DEF q
  <2>6. Fine(AssertBasic(q.c, h).c) /\ AssertBasic(q.c, h).c.scopes = q.c.scopes
    BY <2>3, <2>5, BasicFine
  <2>7. Fine(r.c) /\ r.c.scopes = c.scopes
    BY <2>2, <2>4, <2>5, <2>6
  <2> QED BY <1>2, <2>7 DEF r
<1> QED BY <1>1, <1>2

LEMMA AssertFine ==
    ASSUME NEW c, Fine(c), NEW f \in CmdFormulas
    PROVE  Fine(TopAssert(c, f).c)
<1> DEFINE q == AssertFormula(c, f)
           e == q.c
           r == TopAssert(c, f)
           d == r.c
<1>1. Fine(e)
  BY FormulaFine
<1>2. IF q.ok THEN d = [e EXCEPT !.raw = @ \cup {<<Len(e.scopes), f>>}] ELSE d = e
  BY DEF TopAssert, Then, Ok
<1> HIDE DEF q, e, d
<1>3. DOMAIN e = Fields /\ e.macros \subseteq Names
  BY <1>1, TypedFields
<1>4. CASE q.ok
  <2>1. /\ DOMAIN d = Fields /\ d.assertions = e.assertions /\ d.names = e.names
        /\ d.universals = e.universals /\ d.mentions = e.mentions /\ d.objectives = e.objectives
        /\ d.decls = e.decls /\ d.tstack = e.tstack
        /\ d.scopes = e.scopes /\ d.macros = e.macros /\ d.named = e.named /\ d.unames = e.unames
        /\ d.funcs = e.funcs /\ d.table = e.table
        /\ d.model = e.model /\ d.verdict = e.verdict /\ d.about = e.about /\ d.half = e.half
    BY <1>2, <1>3, <1>4 DEF Fields, Empty
  <2> QED BY <1>1, <1>3, <2>1, SameFine DEF d
<1>5. CASE ~q.ok
  BY <1>1, <1>2, <1>5 DEF d
<1> QED BY <1>4, <1>5

LEMMA MinIs ==
    ASSUME NEW G, G \subseteq Nat, G # {}
    PROVE  Min(G) \in G
<1>1. \E x \in G : \A y \in G : x <= y
  <2> SUFFICES ASSUME ~ \E x \in G : \A y \in G : x <= y
               PROVE FALSE
    OBVIOUS
  <2> DEFINE T == {n \in Nat : \A k \in 0 .. n : k \notin G}
  <2>1. 0 \in T
    OBVIOUS
  <2>2. ASSUME NEW n \in Nat, n \in T PROVE n + 1 \in T
    <3>1. \A k \in 0 .. n : k \notin G
      BY <2>2
    <3>2. n + 1 \notin G
      <4> SUFFICES ASSUME n + 1 \in G PROVE FALSE
        OBVIOUS
      <4>1. \A y \in G : n + 1 <= y
        BY <3>1
      <4> QED BY <4>1
    <3> QED BY <3>1, <3>2
  <2>3. Nat \subseteq T
    <3> HIDE DEF T
    <3> QED BY <2>1, <2>2, NatInductive
  <2>4. PICK x : x \in G
    OBVIOUS
  <2> QED BY <2>3, <2>4
<1> QED BY <1>1 DEF Min

LEMMA SoftAdded ==
    ASSUME NEW objs \in Seq(Groups), NEW id \in Ids, NEW f \in CmdFormulas
    PROVE  LET groups == {i \in DOMAIN objs : objs[i].id = id}
               new == IF groups = {} THEN Append(objs, [id |-> id, items |-> <<f>>])
                      ELSE [objs EXCEPT ![Min(groups)].items = Append(@, f)]
           IN  OneMore(objs, new, f)
<1> DEFINE groups == {i \in DOMAIN objs : objs[i].id = id}
           k == Min(groups)
           one == Append(objs, [id |-> id, items |-> <<f>>])
           two == [objs EXCEPT ![k].items = Append(@, f)]
<1>1. OneMore(objs, one, f)
  <2>1. one = Append(objs, [id |-> id, items |-> <<f>>])
    OBVIOUS
  <2> HIDE DEF one
  <2> QED BY <2>1, GroupAdded
<1>2. ASSUME groups # {} PROVE OneMore(objs, two, f)
  <2>1. groups \subseteq Nat /\ groups \subseteq DOMAIN objs
    OBVIOUS
  <2>2. k \in DOMAIN objs
    <3> HIDE DEF groups
    <3> QED BY <1>2, <2>1, MinIs
  <2>3. Len(objs) <= Len(objs) /\ two = [objs EXCEPT ![k].items = Append(@, f)]
    OBVIOUS
  <2> HIDE DEF groups, k, two
  <2> QED BY <2>2, <2>3, PenaltyAdded
<1> HIDE DEF one, two
<1>3. IF groups = {} THEN OneMore(objs, one, f) ELSE OneMore(objs, two, f)
  BY <1>1, <1>2
<1> QED BY <1>3 DEF one, two

\* A relaxed formula goes on the stack and into one group.
LEMMA SoftFine ==
    ASSUME NEW c, Fine(c), NEW f \in CmdFormulas, NEW id \in Ids
    PROVE  Fine(AssertSoft(c, f, id).c)
<1> DEFINE groups == {i \in DOMAIN c.objectives : c.objectives[i].id = id}
           k == Min(groups)
           new == IF groups = {} THEN Append(c.objectives, [id |-> id, items |-> <<f>>])
                  ELSE [c.objectives EXCEPT ![k].items = Append(@, f)]
           r == AssertSoft(c, f, id)
           d == r.c
           e == Entry(f, TRUE)
<1>0. CASE ~Known(c, f)
  BY <1>0 DEF AssertSoft, Err
<1> SUFFICES ASSUME Known(c, f) PROVE Fine(d)
  BY <1>0
<1>1. /\ DOMAIN c = Fields /\ c.assertions \in Seq(Entries) /\ c.names \in Seq(Labels)
      /\ c.universals \in Seq(CmdFormulas) /\ c.objectives \in Seq(Groups) /\ Good(c)
      /\ Len(c.names) = Len(c.assertions)
  BY TypedFields DEF Fine
<1>2. /\ DOMAIN d = Fields /\ d.assertions = Append(c.assertions, e)
      /\ d.names = Append(c.names, NoLabel) /\ d.objectives = new
      /\ d.universals = c.universals /\ d.mentions = c.mentions
      /\ d.decls = c.decls /\ d.tstack = c.tstack
      /\ d.scopes = c.scopes /\ d.macros = c.macros /\ d.named = c.named /\ d.unames = c.unames
      /\ d.funcs = c.funcs /\ d.table = c.table
      /\ d.model = NoModel /\ d.verdict = c.verdict /\ d.about = c.about /\ d.half = c.half
  <2> DEFINE g == [c EXCEPT !.assertions = Append(@, Entry(f, TRUE)),
                            !.names = Append(@, NoLabel), !.model = NoModel]
  <2>1. /\ DOMAIN g = Fields /\ g.assertions = Append(c.assertions, e)
        /\ g.names = Append(c.names, NoLabel) /\ g.objectives = c.objectives
        /\ g.universals = c.universals /\ g.mentions = c.mentions
        /\ g.decls = c.decls /\ g.tstack = c.tstack
        /\ g.scopes = c.scopes /\ g.macros = c.macros /\ g.named = c.named /\ g.unames = c.unames
        /\ g.funcs = c.funcs /\ g.table = c.table
        /\ g.model = NoModel /\ g.verdict = c.verdict /\ g.about = c.about /\ g.half = c.half
    BY <1>1 DEF Fields, Empty
  <2>2. d = IF groups = {}
            THEN [g EXCEPT !.objectives = Append(@, [id |-> id, items |-> <<f>>])]
            ELSE [g EXCEPT !.objectives[k].items = Append(@, f)]
    BY DEF AssertSoft, Ok
  <2> HIDE DEF g, d, groups, k
  <2>3. d = [g EXCEPT !.objectives = new]
    BY <2>1, <2>2
  <2> HIDE DEF new, e
  <2> QED BY <2>1, <2>3 DEF Fields, Empty
<1>3. e \in Entries /\ e.soft /\ e.f = f /\ NoLabel \in Labels
      /\ \A g : Entry(g, TRUE) = e <=> g = f
  BY DEF Entry, Entries, Labels
<1>4. /\ new \in Seq(Groups) /\ Len(c.objectives) <= Len(new)
      /\ \A i \in DOMAIN c.objectives : /\ new[i].id = c.objectives[i].id
                                        /\ Extends(c.objectives[i].items, new[i].items)
      /\ \A h : Cardinality(Penalties(new, h))
                  = Cardinality(Penalties(c.objectives, h)) + (IF h = f THEN 1 ELSE 0)
  <2>1. OneMore(c.objectives, new, f)
    BY <1>1, SoftAdded
  <2> QED BY <2>1 DEF OneMore
<1> HIDE DEF new, groups, k, d, r, e
<1>5. /\ d.assertions \in Seq(Entries) /\ Extends(c.assertions, d.assertions)
      /\ d.names \in Seq(Labels) /\ Extends(c.names, d.names)
  BY <1>1, <1>2, <1>3, ExtendsAppend
<1>6. /\ Len(d.assertions) = Len(c.assertions) + 1 /\ Len(c.assertions) + 1 \in Nat
      /\ DOMAIN d.assertions = DOMAIN c.assertions \cup {Len(c.assertions) + 1}
      /\ d.assertions[Len(c.assertions) + 1] = e
      /\ \A i \in DOMAIN c.assertions : d.assertions[i] = c.assertions[i]
  <2> DEFINE a == c.assertions
             b == d.assertions
  <2>1. a \in Seq(Entries) /\ b = Append(a, e)
    BY <1>1, <1>2
  <2> HIDE DEF a, b
  <2>2. /\ Len(b) = Len(a) + 1 /\ Len(a) + 1 \in Nat
        /\ DOMAIN b = DOMAIN a \cup {Len(a) + 1} /\ b[Len(a) + 1] = e
        /\ \A i \in DOMAIN a : b[i] = a[i]
    BY <1>3, <2>1, AppendIs
  <2> QED BY <2>2 DEF a, b
<1>7. /\ Len(d.names) = Len(d.assertions)
      /\ \A i \in DOMAIN c.assertions : d.names[i] = c.names[i]
  <2> DEFINE a == c.names
             b == d.names
  <2>1. a \in Seq(Labels) /\ b = Append(a, NoLabel)
    BY <1>1, <1>2
  <2> HIDE DEF a, b
  <2>2. Len(b) = Len(a) + 1 /\ \A i \in DOMAIN a : b[i] = a[i]
    BY <1>3, <2>1, AppendIs
  <2>3. DOMAIN c.assertions = DOMAIN c.names
    BY <1>1
  <2> QED BY <1>1, <1>6, <2>2, <2>3 DEF a, b
<1>8. Stacks(d) \in StackRecords
  <2>1. Stacks(c) \in StackRecords
    BY <1>1 DEF Good, ContextTyped
  <2> QED BY <1>2, <1>4, <1>5, <2>1, StacksAre
<1>9. ContextTyped(d)
  BY <1>1, <1>2, <1>8 DEF Good, ContextTyped
<1>10. Faithful(d)
  <2>1. ASSUME NEW h \in CmdFormulas
        PROVE  Count(d.assertions, Entry(h, TRUE)) = Cardinality(Penalties(d.objectives, h))
    <3> DEFINE y == Entry(h, TRUE)
               a == c.assertions
    <3>1. a \in Seq(Entries) /\ d.assertions = Append(a, e) /\ (y = e <=> h = f)
      BY <1>1, <1>2, <1>3
    <3>2. Count(a, y) = Cardinality(Penalties(c.objectives, h))
      BY <1>1 DEF Good, Faithful
    <3> HIDE DEF y, a
    <3>3. Count(Append(a, e), y) = Count(a, y) + (IF y = e THEN 1 ELSE 0)
      BY <1>3, <3>1, CountAppend
    <3>4. Count(d.assertions, y) = Cardinality(Penalties(d.objectives, h))
      BY <1>2, <1>4, <3>1, <3>2, <3>3
    <3> QED BY <3>4 DEF y
  <2> QED BY <1>1, <1>2, <1>7, <2>1 DEF Good, Faithful
<1>11. DenoteIn(d) /\ UsableIn(d)
  <2>1. DenoteIn(c) /\ UsableIn(c)
    BY <1>1 DEF Good
  <2>2. UsableIn(d)
    BY <1>2, <2>1 DEF UsableIn
  <2>3. DenoteIn(d)
    BY <1>2, <1>6, <1>7, <2>1 DEF DenoteIn
  <2> QED BY <2>2, <2>3
<1>12. Grew(c, d)
  <2>1. /\ c.decls \in Seq(Names) /\ c.tstack \in Seq(Names) /\ c.mentions \in Seq(Names)
    BY <1>1, StacksAre DEF Good, ContextTyped
  <2> QED BY <1>1, <1>2, <1>4, <1>5, <2>1, ExtendsSame DEF Grew
<1>13. Good(d)
  BY <1>1, <1>2, <1>9, <1>10, <1>11, <1>12, GrownGood
<1>14. Asserted(d) \subseteq Asserted(c)
  <2>1. Hard(d) \subseteq Hard(c)
    BY <1>3, <1>6 DEF Hard
  <2> QED BY <1>2, <2>1 DEF Asserted
<1>15. Answers(d)
  BY <1>2, <1>14, AnswersKept DEF Fine
<1> QED BY <1>13, <1>15 DEF Fine

-----------------------------------------------------------------------------
(* check-sat and query *)

\* What a right answer says of the formulas asked about.
OutcomeTold(out, fs) ==
    /\ out[1] = "unsat" => ModelsOfSet(fs) = {}
    /\ out[2] \in ModelsOfSet(fs) \cup {NoModel}

LEMMA OutcomesTold ==
    ASSUME NEW c, NEW as, NEW out \in Outcomes(c, as)
    PROVE  OutcomeTold(out, Asserted(c) \cup ToSet(as))
<1> DEFINE models == ModelsOfSet(Asserted(c) \cup ToSet(as))
<1>1. \/ out = <<"unknown", NoModel>>
      \/ models = {} /\ out = <<"unsat", NoModel>>
      \/ \E w \in models \cup {NoModel} : out = <<"sat", w>>
  <2> HIDE DEF models
  <2>1. out \in {<<"unknown", NoModel>>} \cup
          IF models = {} THEN {<<"unsat", NoModel>>} ELSE {<<"sat", w>> : w \in models \cup {NoModel}}
    BY DEF Outcomes, models
  <2> QED BY <2>1
<1> HIDE DEF models
<1>2. (out[1] = "unsat" => models = {}) /\ out[2] \in models \cup {NoModel}
  BY <1>1
<1> QED BY <1>2 DEF OutcomeTold, models

LEMMA CheckFine ==
    ASSUME NEW c, Fine(c), NEW as \in Seq(CmdFormulas), NEW out,
           OutcomeTold(out, Asserted(c) \cup ToSet(as))
    PROVE  Fine(Check(c, as, out).c) /\ Check(c, as, out).c.scopes = c.scopes
<1> DEFINE e == [c EXCEPT !.assumed = Resolved(c, as)]
           r == Check(c, as, out)
           d == r.c
<1>1. DOMAIN c = Fields /\ c.macros \subseteq Names
  BY TypedFields
<1>2. /\ DOMAIN e = Fields /\ e.assertions = c.assertions /\ e.names = c.names
      /\ e.universals = c.universals /\ e.mentions = c.mentions /\ e.objectives = c.objectives
      /\ e.decls = c.decls /\ e.tstack = c.tstack
      /\ e.scopes = c.scopes /\ e.macros = c.macros /\ e.named = c.named /\ e.unames = c.unames
      /\ e.funcs = c.funcs /\ e.table = c.table
      /\ e.model = c.model /\ e.verdict = c.verdict /\ e.about = c.about /\ e.half = c.half
  BY <1>1 DEF Fields, Empty
<1>3. IF e.assumed # as THEN d = e
      ELSE d = [e EXCEPT !.done = TRUE, !.inc = @ \/ as # << >>, !.about = Subject(e),
                         !.verdict = out[1], !.model = out[2], !.half = {}]
  BY DEF Check, Err, Ok
<1> HIDE DEF e, d
<1>4. Fine(e)
  BY <1>1, <1>2, SameFine
<1>5. CASE e.assumed # as
  BY <1>2, <1>3, <1>4, <1>5 DEF d
<1>6. CASE e.assumed = as
  <2>1. /\ DOMAIN d = Fields /\ d.assertions = e.assertions /\ d.names = e.names
        /\ d.universals = e.universals /\ d.mentions = e.mentions /\ d.objectives = e.objectives
        /\ d.decls = e.decls /\ d.tstack = e.tstack
        /\ d.scopes = e.scopes /\ d.macros = e.macros /\ d.named = e.named /\ d.unames = e.unames
        /\ d.funcs = e.funcs /\ d.table = e.table
        /\ d.model = out[2] /\ d.verdict = out[1] /\ d.about = Subject(e) /\ d.half = {}
    <3> DEFINE v == out[1]
               m == out[2]
               s == Subject(e)
               b == as # << >>
    <3>1. d = [e EXCEPT !.done = TRUE, !.inc = @ \/ b, !.about = s, !.verdict = v, !.model = m,
                        !.half = {}]
      BY <1>3, <1>6
    <3> HIDE DEF v, m, s, b
    <3>2. /\ DOMAIN d = Fields /\ d.about = s /\ d.verdict = v /\ d.model = m /\ d.half = {}
          /\ \A x \in Fields \ {"done", "inc", "about", "verdict", "model", "half"} : d[x] = e[x]
      BY <1>2, <3>1 DEF Fields, Empty
    <3>3. d.about = Subject(e) /\ d.verdict = out[1] /\ d.model = out[2]
      BY <3>2 DEF v, m, s
    <3> QED BY <3>2, <3>3 DEF Fields, Empty
  <2>2. Good(d)
    <3>1. Stacks(d) = Stacks(e) /\ Good(e)
      BY <1>4, <2>1 DEF Stacks, Fine
    <3> QED BY <1>1, <1>2, <2>1, <3>1, SameGood
  <2>3. Asserted(d) = Asserted(c) /\ Asserted(c) \subseteq Asserted(c) \cup ToSet(as)
    BY <1>2, <2>1, AssertedSame
  <2>4. ModelsOfSet(Asserted(c) \cup ToSet(as)) \subseteq ModelsOfSet(Asserted(d))
    BY <2>3, FewerModels
  <2>5. d.model # NoModel => d.model \in ModelsOfSet(Asserted(d) \ d.half)
    <3>1. Asserted(d) \ d.half = Asserted(d)
      BY <2>1
    <3> QED BY <2>1, <2>4, <3>1 DEF OutcomeTold
  <2>6. d.verdict = "unsat" => Refuted(d.about)
    <3>1. d.about = <<c.assertions, c.universals, as>>
      BY <1>2, <1>6, <2>1 DEF Subject
    <3>2. HardOf(c.assertions) \cup ToSet(c.universals) \cup ToSet(as) = Asserted(c) \cup ToSet(as)
      BY DEF HardOf, Hard, Asserted
    <3> DEFINE s == <<c.assertions, c.universals, as>>
    <3>3. s[1] = c.assertions /\ s[2] = c.universals /\ s[3] = as /\ d.about = s
      BY <3>1
    <3> HIDE DEF s
    <3>4. HardOf(s[1]) \cup ToSet(s[2]) \cup ToSet(s[3]) = Asserted(c) \cup ToSet(as)
      BY <3>2, <3>3
    <3>5. d.verdict = "unsat" => ModelsOfSet(Asserted(c) \cup ToSet(as)) = {}
      BY <2>1 DEF OutcomeTold
    <3>6. s[3] \in Seq(CmdFormulas)
      BY <3>3
    <3> QED BY <3>3, <3>4, <3>5, <3>6 DEF Refuted
  <2>7. Answers(d)
    BY <2>5, <2>6 DEF Answers
  <2> QED BY <1>2, <2>1, <2>2, <2>7 DEF Fine, d
<1> QED BY <1>5, <1>6

\* The goal is asserted, checked and popped; each step keeps what the next needs.
LEMMA QueryFine ==
    ASSUME NEW c, Fine(c), NEW x \in DOMAIN RelGoal, NEW out \in Outcomes(c, <<RelGoal[x]>>)
    PROVE  Fine(Query(c, x, out).c)
<1> DEFINE g == RelGoal[x]
           p == Push(c, 1)
           a == Then(p, LAMBDA d : AssertFormula(d, g))
           k == Then(a, LAMBDA d : Check(d, << >>, out))
           q == Then(k, LAMBDA d : Pop(d, 1))
<1>1. g \in CmdFormulas /\ Kind[g] = "forall"
  BY CmdFormulasAssumption
<1>2. Query(c, x, out) = IF x \notin c.rels THEN Err(c) ELSE q
  BY DEF Query
<1>3. /\ Fine(p.c) /\ p.ok /\ p.c.assertions = c.assertions /\ p.c.universals = c.universals
  BY PushHandled
<1>4. a = AssertFormula(p.c, g)
  <2> HIDE DEF p, g
  <2> QED BY <1>3 DEF Then
<1>5. IF a.ok THEN k = Check(a.c, << >>, out) ELSE k = a
  <2> HIDE DEF a
  <2> QED BY DEF Then
<1>6. IF k.ok THEN q = Pop(k.c, 1) ELSE q = k
  <2> HIDE DEF k
  <2> QED BY DEF Then
<1>7. OutcomeTold(out, Asserted(c) \cup {g})
  <2>1. ToSet(<<g>>) = {g}
    BY DEF ToSet
  <2> QED BY <2>1, OutcomesTold
<1> HIDE DEF g, p, a, k, q
<1>8. Fine(a.c) /\ (a.ok => Asserted(a.c) = Asserted(p.c) \cup {g})
  BY <1>1, <1>3, <1>4, FormulaFine
<1>9. Fine(k.c)
  <2>1. CASE a.ok
    <3>1. Asserted(a.c) \cup ToSet(<< >>) = Asserted(c) \cup {g}
      <4>1. Asserted(p.c) = Asserted(c) /\ ToSet(<< >>) = {}
        BY <1>3, AssertedSame DEF ToSet
      <4> QED BY <1>8, <2>1, <4>1
    <3>2. << >> \in Seq(CmdFormulas)
      OBVIOUS
    <3>3. OutcomeTold(out, Asserted(a.c) \cup ToSet(<< >>))
      BY <1>7, <3>1
    <3> QED BY <1>5, <1>8, <2>1, <3>2, <3>3, CheckFine
  <2>2. CASE ~a.ok
    BY <1>5, <1>8, <2>2
  <2> QED BY <2>1, <2>2
<1>10. Fine(q.c)
  BY <1>6, <1>9, PopHandled
<1> QED BY <1>2, <1>10 DEF Err

-----------------------------------------------------------------------------
(* Cores *)

\* What minimizing goes through: the candidates kept after each test.
KeptRun(cand, rest, weak, n, K) ==
    K = [k \in 0 .. n |->
            IF k = 0 THEN DOMAIN cand
            ELSE IF k \notin weak
                    /\ ModelsOfSet(rest \cup {cand[i] : i \in K[k - 1] \ {k}}) = {}
                 THEN K[k - 1] \ {k} ELSE K[k - 1]]

LEMMA KeptRuns ==
    ASSUME NEW cand, NEW rest, NEW weak, NEW n \in Nat
    PROVE  \E K : KeptRun(cand, rest, weak, n, K)
<1> DEFINE T == {m \in Nat : \E K : KeptRun(cand, rest, weak, m, K)}
           After(k, S) == IF k \notin weak /\ ModelsOfSet(rest \cup {cand[i] : i \in S \ {k}}) = {}
                         THEN S \ {k} ELSE S
<1>1. 0 \in T
  <2> DEFINE K == [i \in 0 .. 0 |-> DOMAIN cand]
  <2>1. KeptRun(cand, rest, weak, 0, K) BY DEF KeptRun
  <2> QED BY <2>1
<1>2. ASSUME NEW m \in Nat, m \in T PROVE m + 1 \in T
  <2>1. PICK K : KeptRun(cand, rest, weak, m, K) BY <1>2
  <2> DEFINE M == [i \in 0 .. m + 1 |-> IF i = m + 1 THEN After(m + 1, K[m]) ELSE K[i]]
  <2>2. K = [k \in 0 .. m |-> IF k = 0 THEN DOMAIN cand ELSE After(k, K[k - 1])]
    BY <2>1 DEF KeptRun
  <2>3. M = [k \in 0 .. m + 1 |-> IF k = 0 THEN DOMAIN cand ELSE After(k, M[k - 1])]
    <3> HIDE DEF After
    <3> QED BY <2>2
  <2>4. KeptRun(cand, rest, weak, m + 1, M)
    <3> HIDE DEF M
    <3> QED BY <2>3 DEF KeptRun
  <2> QED BY <2>4
<1>3. Nat \subseteq T
  <2> HIDE DEF T
  <2> QED BY <1>1, <1>2, NatInductive
<1> QED BY <1>3

\* A candidate is given up only when the rest is refuted without it.
LEMMA MinimizedRefuted ==
    ASSUME NEW S, NEW cand \in Seq(S), NEW rest, NEW weak,
           ModelsOfSet(rest \cup {cand[i] : i \in DOMAIN cand}) = {}
    PROVE  ModelsOfSet(rest \cup {cand[i] : i \in Minimized(cand, rest, weak)}) = {}
<1> DEFINE n == Len(cand)
           K == CHOOSE K : KeptRun(cand, rest, weak, n, K)
           R(s) == ModelsOfSet(rest \cup {cand[i] : i \in s}) = {}
           T == {k \in Nat : k <= n => R(K[k])}
<1>1. n \in Nat
  OBVIOUS
<1>2. KeptRun(cand, rest, weak, n, K)
  BY <1>1, KeptRuns
<1>3. Minimized(cand, rest, weak) = K[n]
  BY DEF Minimized, KeptRun
<1> HIDE DEF K, n
<1>4. R(DOMAIN cand)
  OBVIOUS
<1>5. \A k \in 0 .. n : K[k] = IF k = 0 THEN DOMAIN cand
                               ELSE IF k \notin weak /\ R(K[k - 1] \ {k})
                                    THEN K[k - 1] \ {k} ELSE K[k - 1]
  BY <1>2 DEF KeptRun
<1> HIDE DEF R
<1>6. 0 \in T
  <2>0. 0 \in 0 .. n
    BY <1>1
  <2>1. K[0] = DOMAIN cand
    BY <1>5, <2>0
  <2> QED BY <1>4, <2>1
<1>7. ASSUME NEW k \in Nat, k \in T PROVE k + 1 \in T
  <2> SUFFICES ASSUME k + 1 <= n PROVE R(K[k + 1])
    OBVIOUS
  <2>1. R(K[k])
    BY <1>1, <1>7
  <2>2. k + 1 \in 0 .. n /\ (k + 1) - 1 = k /\ k + 1 # 0
    BY <1>1
  <2>3. K[k + 1] = IF k + 1 \notin weak /\ R(K[k] \ {k + 1}) THEN K[k] \ {k + 1} ELSE K[k]
    BY <1>5, <2>2
  <2> QED BY <2>1, <2>3
<1>8. n \in T
  <2>1. Nat \subseteq T
    <3> HIDE DEF T
    <3> QED BY <1>6, <1>7, NatInductive
  <2> QED BY <1>1, <2>1
<1>9. R(K[n])
  BY <1>1, <1>8
<1> QED BY <1>3, <1>9 DEF R

LEMMA ConcatIs ==
    ASSUME NEW S, NEW s \in Seq(S), NEW t \in Seq(S)
    PROVE  /\ (s \o t) \in Seq(S)
           /\ \A i \in DOMAIN s : i \in DOMAIN (s \o t) /\ (s \o t)[i] = s[i]
           /\ \A i \in DOMAIN t : /\ Len(s) + i \in DOMAIN (s \o t)
                                 /\ (s \o t)[Len(s) + i] = t[i]
OBVIOUS

\* A number has its own rank, and comes at it.
LEMMA RankedAt ==
    ASSUME NEW S, S \subseteq Nat, IsFiniteSet(S), NEW x \in S
    PROVE  Rank(S, x) \in DOMAIN Ascending(S) /\ Ascending(S)[Rank(S, x)] = x
<1> DEFINE low(y) == {z \in S : z <= y}
           n == Cardinality(S)
<1>1. \A y : low(y) \subseteq S /\ IsFiniteSet(low(y))
  BY FS_Subset
<1>2. \A y : Rank(S, y) = Cardinality(low(y)) /\ Rank(S, y) \in Nat
  BY <1>1, FS_CardinalityType DEF Rank
<1>3. n \in Nat /\ Rank(S, x) <= n
  <2>1. n \in Nat
    BY FS_CardinalityType
  <2>2. Cardinality(low(x)) <= n
    <3> HIDE DEF low
    <3> QED BY <1>1, FS_Subset
  <2> QED BY <1>2, <2>1, <2>2
<1>4. Rank(S, x) # 0
  <2>1. x \in low(x)
    OBVIOUS
  <2> QED BY <1>1, <1>2, <2>1, FS_EmptySet
<1>5. ASSUME NEW y \in S, NEW z \in S, y < z PROVE Rank(S, y) < Rank(S, z)
  <2>1. low(y) \subseteq low(z) /\ z \in low(z) /\ z \notin low(y)
    <3>1. y \in Nat /\ z \in Nat /\ ~(z <= y) /\ z <= z
      BY <1>5
    <3>2. \A u \in S : u \in Nat /\ (u <= y => u <= z)
      BY <1>5, <3>1
    <3> QED BY <3>1, <3>2
  <2>2. Cardinality(low(y)) <= Cardinality(low(z)) /\ (Cardinality(low(y)) = Cardinality(low(z)) => low(y) = low(z))
    <3> HIDE DEF low
    <3> QED BY <1>1, <2>1, FS_Subset
  <2> QED BY <1>2, <2>1, <2>2
<1>6. \A y \in S : Rank(S, y) = Rank(S, x) => y = x
  BY <1>2, <1>5
<1>7. Rank(S, x) \in 1 .. n
  BY <1>2, <1>3, <1>4
<1> HIDE DEF n
<1>8. Ascending(S)[Rank(S, x)] = CHOOSE y \in S : Rank(S, y) = Rank(S, x)
  BY <1>7 DEF Ascending, n
<1>9. DOMAIN Ascending(S) = 1 .. n
  BY DEF Ascending, n
<1> QED BY <1>6, <1>7, <1>8, <1>9

\* A core that keeps all that is labelled stands for all that is asserted.
LEMMA AllLabelled ==
    ASSUME NEW c, Fine(c)
    PROVE  /\ \E S : Labelled(c) \in Seq(S)
           /\ Asserted(c) \subseteq
                Unlabelled(c) \cup {Labelled(c)[i] : i \in DOMAIN Labelled(c)}
<1> DEFINE U == LabelledUniversals(c)
           A == LabelledAssertions(c)
           us == Ascending(U)
           as == Ascending(A)
           s == [i \in DOMAIN us |-> c.universals[us[i]]]
           t == [i \in DOMAIN as |-> c.assertions[as[i]].f]
           S == {s[i] : i \in DOMAIN s} \cup {t[i] : i \in DOMAIN t}
           all == Labelled(c)
<1>1. /\ c.universals \in Seq(CmdFormulas) /\ c.assertions \in Seq(Entries)
      /\ c.names \in Seq(Labels) /\ Len(c.names) = Len(c.assertions)
  BY TypedFields
<1>2. U \subseteq DOMAIN c.universals
  BY DEF LabelledUniversals, Fine, Good, DenoteIn
<1>3. A \subseteq DOMAIN c.assertions
  BY <1>1 DEF LabelledAssertions
<1>4. U \subseteq Nat /\ IsFiniteSet(U) /\ A \subseteq Nat /\ IsFiniteSet(A)
  <2>1. /\ DOMAIN c.universals = 1 .. Len(c.universals) /\ Len(c.universals) \in Nat
        /\ DOMAIN c.assertions = 1 .. Len(c.assertions) /\ Len(c.assertions) \in Nat
    BY <1>1
  <2>0. \A k \in Nat : IsFiniteSet(1 .. k)
    BY FS_Interval
  <2>2. IsFiniteSet(DOMAIN c.universals)
    BY <2>0, <2>1, Zenon
  <2>3. IsFiniteSet(DOMAIN c.assertions)
    BY <2>0, <2>1, Zenon
  <2>4. IsFiniteSet(U)
    <3> HIDE DEF U
    <3> QED BY <1>2, <2>2, FS_Subset
  <2>5. IsFiniteSet(A)
    <3> HIDE DEF A
    <3> QED BY <1>3, <2>3, FS_Subset
  <2>6. DOMAIN c.universals \subseteq Nat /\ DOMAIN c.assertions \subseteq Nat
    BY <2>1
  <2> QED BY <1>2, <1>3, <2>4, <2>5, <2>6
<1>5. /\ Cardinality(U) \in Nat /\ DOMAIN us = 1 .. Cardinality(U)
      /\ Cardinality(A) \in Nat /\ DOMAIN as = 1 .. Cardinality(A)
  BY <1>4, FS_CardinalityType DEF Ascending
<1> HIDE DEF us, as
<1>6. s \in Seq(S) /\ t \in Seq(S) /\ DOMAIN s = DOMAIN us /\ DOMAIN t = DOMAIN as
  <2>1. s \in [1 .. Cardinality(U) -> S] /\ t \in [1 .. Cardinality(A) -> S]
    BY <1>5
  <2>2. s \in Seq(S) /\ t \in Seq(S)
    <3> HIDE DEF s, t, S, U, A
    <3> QED BY <1>5, <2>1, FunctionSequence
  <2> QED BY <2>2
<1>7. all = s \o t
  BY DEF Labelled, us, as
<1>8. all \in Seq(S)
      /\ (\A i \in DOMAIN s : i \in DOMAIN all /\ all[i] = s[i])
      /\ (\A i \in DOMAIN t : Len(s) + i \in DOMAIN all /\ all[Len(s) + i] = t[i])
  <2>1. s \in Seq(S) /\ t \in Seq(S)
    BY <1>6
  <2> HIDE DEF s, t, S, all
  <2>2. /\ (s \o t) \in Seq(S)
        /\ \A i \in DOMAIN s : i \in DOMAIN (s \o t) /\ (s \o t)[i] = s[i]
        /\ \A i \in DOMAIN t : /\ Len(s) + i \in DOMAIN (s \o t)
                              /\ (s \o t)[Len(s) + i] = t[i]
    BY <2>1, ConcatIs
  <2> QED BY <1>7, <2>2
<1> HIDE DEF all
<1>9. ASSUME NEW u \in U PROVE \E i \in DOMAIN all : all[i] = c.universals[u]
  <2>1. Rank(U, u) \in DOMAIN us /\ us[Rank(U, u)] = u
    <3> HIDE DEF U
    <3> QED BY <1>4, <1>9, RankedAt DEF us
  <2>2. s[Rank(U, u)] = c.universals[u] /\ Rank(U, u) \in DOMAIN s
    BY <2>1
  <2> QED BY <1>8, <2>2
<1>10. ASSUME NEW j \in A PROVE \E i \in DOMAIN all : all[i] = c.assertions[j].f
  <2>1. Rank(A, j) \in DOMAIN as /\ as[Rank(A, j)] = j
    <3> HIDE DEF A
    <3> QED BY <1>4, <1>10, RankedAt DEF as
  <2>2. t[Rank(A, j)] = c.assertions[j].f /\ Rank(A, j) \in DOMAIN t
    BY <2>1
  <2>3. Len(s) + Rank(A, j) \in DOMAIN all /\ all[Len(s) + Rank(A, j)] = t[Rank(A, j)]
    BY <1>8, <2>2
  <2> QED BY <2>2, <2>3
<1>11. ASSUME NEW f \in Asserted(c)
       PROVE  f \in Unlabelled(c) \cup {all[i] : i \in DOMAIN all}
  <2>1. CASE f \in Hard(c)
    <3>1. PICK j \in DOMAIN c.assertions : ~c.assertions[j].soft /\ f = c.assertions[j].f
      BY <2>1 DEF Hard
    <3>2. CASE j \in A
      BY <1>10, <3>1, <3>2
    <3>3. CASE j \notin A
      BY <3>1, <3>3 DEF Unlabelled
    <3> QED BY <3>2, <3>3
  <2>2. CASE f \in ToSet(c.universals)
    <3>1. PICK u \in DOMAIN c.universals : f = c.universals[u]
      BY <2>2 DEF ToSet
    <3>2. CASE u \in U
      BY <1>9, <3>1, <3>2
    <3>3. CASE u \notin U
      BY <3>1, <3>3 DEF Unlabelled
    <3> QED BY <3>2, <3>3
  <2> QED BY <1>11, <2>1, <2>2 DEF Asserted
<1> QED BY <1>8, <1>11 DEF all

LEMMA CoreRefuted ==
    ASSUME NEW c, Fine(c), c.verdict = "unsat", c.about = Subject(c), NEW weak
    PROVE  ModelsOfSet(CoreOf(c, weak)) = {}
<1>1. /\ c.assumed \in Seq(CmdFormulas)
      /\ ModelsOfSet(Asserted(c) \cup ToSet(c.assumed)) = {}
  <2> DEFINE s == Subject(c)
  <2>1. Refuted(s)
    BY DEF Fine, Answers
  <2>2. s[1] = c.assertions /\ s[2] = c.universals /\ s[3] = c.assumed
    BY DEF Subject
  <2> HIDE DEF s
  <2>3. HardOf(c.assertions) \cup ToSet(c.universals) = Asserted(c)
    BY DEF HardOf, Hard, Asserted
  <2> QED BY <2>1, <2>2, <2>3 DEF Refuted
<1>2. CASE c.assumed # << >>
  <2> DEFINE a == c.assumed
             rest == Asserted(c)
  <2>1. ToSet(a) = {a[i] : i \in DOMAIN a}
    BY DEF ToSet
  <2>2. CoreOf(c, weak) = rest \cup {a[i] : i \in Minimized(a, rest, weak)}
    BY <1>2 DEF CoreOf
  <2> HIDE DEF a, rest
  <2>3. a \in Seq(CmdFormulas) /\ ModelsOfSet(rest \cup {a[i] : i \in DOMAIN a}) = {}
    BY <1>1, <2>1 DEF a, rest
  <2> QED BY <2>2, <2>3, MinimizedRefuted
<1>3. CASE c.assumed = << >>
  <2> DEFINE a == Labelled(c)
             rest == Unlabelled(c)
  <2>1. CoreOf(c, weak) = rest \cup {a[i] : i \in Minimized(a, rest, weak)}
    BY <1>3 DEF CoreOf
  <2>2. PICK S : a \in Seq(S)
    BY AllLabelled
  <2>3. Asserted(c) \subseteq rest \cup {a[i] : i \in DOMAIN a}
    BY AllLabelled
  <2>4. Asserted(c) \cup ToSet(c.assumed) = Asserted(c)
    BY <1>3 DEF ToSet
  <2> HIDE DEF a, rest
  <2>5. ModelsOfSet(rest \cup {a[i] : i \in DOMAIN a}) \subseteq ModelsOfSet(Asserted(c))
    BY <2>3, FewerModels
  <2>6. ModelsOfSet(rest \cup {a[i] : i \in DOMAIN a}) = {}
    BY <1>1, <2>4, <2>5
  <2> QED BY <2>1, <2>2, <2>6, MinimizedRefuted
<1> QED BY <1>2, <1>3

-----------------------------------------------------------------------------
(* The session *)

LEMMA PairIs ==
    ASSUME NEW L, NEW x \in L \X L
    PROVE  x[1] \in L /\ x[2] \in L /\ x = <<x[1], x[2]>>
OBVIOUS

LEMMA AssumptionsTyped ==
    ASSUME NEW x \in Assumptions
    PROVE  x \in Seq(CmdFormulas)
<1>0. Literals \subseteq CmdFormulas
  BY CmdFormulasAssumption
<1>1. CASE x \in Literals \X Literals
  <2>1. x[1] \in Literals /\ x[2] \in Literals /\ x = <<x[1], x[2]>>
    BY <1>1, PairIs
  <2>2. <<x[1], x[2]>> \in Seq(CmdFormulas)
    BY <1>0, <2>1
  <2> QED BY <2>1, <2>2
<1>2. CASE x \in {<<a>> : a \in Literals}
  <2>1. PICK a \in Literals : x = <<a>>
    BY <1>2
  <2>2. a \in CmdFormulas
    BY <1>0
  <2> QED BY <2>1, <2>2
<1>3. CASE x = << >>
  BY <1>3
<1> QED BY <1>1, <1>2, <1>3 DEF Assumptions

CmdInv == Fine(ctx) /\ CoreRight

LEMMA CmdStep == CmdInv /\ [CmdNext]_cmdVars => CmdInv'
<1> SUFFICES ASSUME CmdInv, [CmdNext]_cmdVars PROVE CmdInv'
  OBVIOUS
<1>0. Fine(ctx) /\ CoreRight
  BY DEF CmdInv
<1>1. ASSUME NEW x, NEW r, Run(x, r), Fine(r.c) PROVE CmdInv'
  <2>1. ctx' = r.c /\ answer' = NoAnswer
    BY <1>1 DEF Run
  <2>2. CoreRight'
    BY <2>1 DEF CoreRight, NoAnswer
  <2>3. Fine(ctx')
    BY <1>1, <2>1
  <2>4. Fine(ctx)'
    BY <2>3
  <2> QED BY <2>2, <2>4 DEF CmdInv
<1>2. CASE RunPush
  BY <1>0, <1>1, <1>2, PushHandled DEF RunPush
<1>3. CASE RunPop
  BY <1>0, <1>1, <1>3, PopHandled DEF RunPop
<1>4. CASE RunReset
  BY <1>0, <1>1, <1>4, ResetFine DEF RunReset
<1>5. CASE RunResetAssertions
  BY <1>0, <1>1, <1>5, ResetAssertionsFine DEF RunResetAssertions
<1>6. CASE RunDeclare
  BY <1>0, <1>1, <1>6, DeclareFine DEF RunDeclare
<1>7. CASE RunDefine
  BY <1>0, <1>1, <1>7, DefineFine DEF RunDefine
<1>8. CASE RunDefineRec
  BY <1>0, <1>1, <1>8, DefineRecFine DEF RunDefineRec
<1>16. CASE RunDefineFuns
  BY <1>0, <1>1, <1>16, DefineFunsFine DEF RunDefineFuns
<1>9. CASE RunDeclareRel
  BY <1>0, <1>1, <1>9, CmdFormulasAssumption, DeclareRelFine DEF RunDeclareRel
<1>10. CASE RunAssert
  BY <1>0, <1>1, <1>10, CmdFormulasAssumption, AssertFine DEF RunAssert
<1>11. CASE RunSoft
  BY <1>0, <1>1, <1>11, CmdFormulasAssumption, SoftFine DEF RunSoft
<1>12. CASE RunCheck
  <2>1. PICK as \in Assumptions : \E out \in Outcomes(ctx, as) : Run("check-sat", Check(ctx, as, out))
    BY <1>12 DEF RunCheck
  <2>2. PICK out \in Outcomes(ctx, as) : Run("check-sat", Check(ctx, as, out))
    BY <2>1
  <2>3. as \in Seq(CmdFormulas)
    BY AssumptionsTyped
  <2>4. OutcomeTold(out, Asserted(ctx) \cup ToSet(as))
    BY OutcomesTold
  <2>5. Fine(Check(ctx, as, out).c)
    BY <1>0, <2>3, <2>4, CheckFine
  <2> QED BY <1>1, <2>2, <2>5
<1>13. CASE RunQuery
  <2>1. PICK x \in DOMAIN RelGoal :
            \E out \in Outcomes(ctx, <<RelGoal[x]>>) : Run("query", Query(ctx, x, out))
    BY <1>13 DEF RunQuery
  <2>2. PICK out \in Outcomes(ctx, <<RelGoal[x]>>) : Run("query", Query(ctx, x, out))
    BY <2>1
  <2>3. Fine(Query(ctx, x, out).c)
    BY <1>0, QueryFine
  <2> QED BY <1>1, <2>2, <2>3
<1>14. CASE RunCore
  <2>1. PICK weak : answer' = [kind |-> "core", core |-> CoreOf(ctx, weak),
                               fresh |-> ctx.about = Subject(ctx)]
    BY <1>14 DEF RunCore
  <2>2. ctx.verdict = "unsat" /\ ctx' = ctx
    BY <1>14 DEF RunCore
  <2>3. CoreRight'
    <3>1. /\ answer'.core = CoreOf(ctx, weak)
          /\ answer'.fresh = (ctx.about = Subject(ctx))
      BY <2>1
    <3>2. ctx.about = Subject(ctx) => ModelsOfSet(CoreOf(ctx, weak)) = {}
      BY <1>0, <2>2, CoreRefuted
    <3>3. answer'.fresh => ModelsOfSet(answer'.core) = {}
      BY <3>1, <3>2
    <3> QED BY <3>3 DEF CoreRight, ModelsOfSet
  <2>4. Fine(ctx)'
    BY <1>0, <2>2
  <2> QED BY <2>3, <2>4 DEF CmdInv
<1>15. CASE UNCHANGED cmdVars
  <2>1. ctx' = ctx /\ answer' = answer
    BY <1>15 DEF cmdVars
  <2>2. Fine(ctx)'
    BY <1>0, <2>1
  <2>3. CoreRight'
    BY <1>0, <2>1 DEF CoreRight, ModelsOfSet
  <2> QED BY <2>2, <2>3 DEF CmdInv
<1> QED BY <1>2, <1>3, <1>4, <1>5, <1>6, <1>7, <1>8, <1>9, <1>10, <1>11, <1>12, <1>13,
           <1>14, <1>15, <1>16 DEF CmdNext

LEMMA CmdAlways == CmdSpec => []CmdInv
<1>1. CmdInit => CmdInv
  <2> SUFFICES ASSUME CmdInit PROVE CmdInv
    OBVIOUS
  <2>1. Fine(ctx)
    BY InitFine
  <2>2. CoreRight
    BY DEF CmdInit, CoreRight, NoAnswer
  <2> QED BY <2>1, <2>2 DEF CmdInv
<1> QED BY <1>1, CmdStep, PTL DEF CmdSpec

\* Whatever commands came, failed ones among them, every open level can be
\* undone exactly, every label denotes what it was given to, every function that
\* can be used is declared (macros, which no pop removes, aside), and every
\* relaxed formula counts in one group (Context::pop, smt2.rs:4983).
THEOREM ScopesExact == CmdSpec => []StackExact
<1>1. CmdInv => StackExact
  <2> SUFFICES ASSUME CmdInv PROVE StackExact
    OBVIOUS
  <2>1. Good(ctx)
    BY DEF CmdInv, Fine
  <2>2. LevelsRestore
    BY <2>1 DEF Good, LevelsOK, Restores, Restored, LevelsRestore
  <2>3. LabelsDenote
    BY <2>1 DEF Good, Faithful, DenoteIn, LabelsDenote
  <2>4. UsableDeclared
    BY <2>1 DEF Good, UsableIn, UsableDeclared
  <2>5. SoftsAsserted
    BY <2>1 DEF Good, Faithful, SoftsAsserted
  <2> QED BY <2>2, <2>3, <2>4, <2>5 DEF StackExact
<1> QED BY <1>1, CmdAlways, PTL

\* The model that get-value reads is one of what is asserted now, the axioms of
\* a define-funs-rec that failed half way since the check aside, and a core
\* asked for after the check it explains has no model, however many of the
\* minimization's tests gave up.
THEOREM AnswersStayCurrent == CmdSpec => []AnswersCurrent
<1>1. CmdInv => AnswersCurrent
  BY DEF CmdInv, Fine, Answers, AnswersCurrent, ModelCurrent
<1> QED BY <1>1, CmdAlways, PTL

=============================================================================
