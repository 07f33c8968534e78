------------------------------ MODULE SmtCore ------------------------------
(***************************************************************************)
(* SmtCore of src/src/smt/solver.rs: formulas are asserted into one SAT    *)
(* solver; a check searches for an assignment, asks the theories about it, *)
(* and learns a conflict, blocks the assignment or splits on new atoms     *)
(* until it can answer.                                                    *)
(*                                                                         *)
(* A literal is <<atom, value>>; a clause is a set of literals; a formula  *)
(* is the set of clauses its Tseitin conversion adds.  The theories are    *)
(* given by the worlds they admit, the valuations of all the atoms there   *)
(* can ever be.  The SAT solver is its contract (module SatSolver): an     *)
(* assignment of the clauses it has attached, or none when the clauses     *)
(* have none.  A resumable solver queues a clause that comes while its     *)
(* decisions stand, and may find an assignment with clauses queued.        *)
(***************************************************************************)
EXTENDS Naturals, FiniteSets

CONSTANTS
    Atoms,          \* all atoms, those introduced by splits included
    EufKind,        \* the equalities and predicates: congruence closure's
    ArithKind,      \* the comparisons and arithmetic equalities
    Worlds,         \* the valuations the theories admit together
    EufWorlds,      \* those congruence closure alone admits
    OnlineWorlds,   \* those no online theory refutes during a search
    Formulas,       \* the formulas to assert, each a set of clauses
    SplitOf,        \* arithmetic equality -> <<its d < 0 atom, its d > 0 atom>>
    Branches,       \* the atoms x <= k a final check may branch on
    NewEqs,         \* the equalities theory combination may ask for
    Eager,          \* SmtCore::eager_eqs
    Resume,         \* SmtCore::resume
    RoundLimit,     \* SmtCore::round_limit
    CoreAfter,      \* FULL_BLOCKS_BEFORE_CORE
    Unlimited,      \* no resource limit set
    Limit,          \* the units of ResLimit at the start, or Unlimited
    PerConflict,    \* the units a conflict costs
    MaxConflicts,   \* bound: the conflicts of one search
    MaxChecks       \* bound: the calls of check

Valuations == [Atoms -> BOOLEAN]

Holds(w, clause) == \E l \in clause : w[l[1]] = l[2]
Satisfies(w, cs) == \A c \in cs : Holds(w, c)
Negated(core) == {<<l[1], ~l[2]>> : l \in core}
AtomsOf(cs) == {l[1] : l \in UNION cs}

\* The clause lit \/ d < 0 \/ d > 0 of the equality e.
Trichotomy(e) == {<<e, TRUE>>, <<SplitOf[e][1], TRUE>>, <<SplitOf[e][2], TRUE>>}

ASSUME KindsAssumption == EufKind \subseteq Atoms /\ ArithKind \subseteq Atoms
ASSUME WorldsAssumption ==
    /\ Worlds \subseteq OnlineWorlds
    /\ OnlineWorlds \subseteq EufWorlds
    /\ EufWorlds \subseteq Valuations
\* Atoms of neither theory are free, and the theories admit some world.
ASSUME PureAssumption ==
    /\ Worlds # {}
    /\ \A w \in Worlds, v \in Valuations :
          (\A a \in EufKind \cup ArithKind : v[a] = w[a]) => v \in Worlds
ASSUME FormulasAssumption ==
    \A f \in Formulas : f \subseteq SUBSET (Atoms \X BOOLEAN)
\* split_atom makes comparisons, which only the arithmetic watches.
Inequalities == ArithKind \ EufKind
ASSUME SplitAssumption ==
    /\ SplitOf \in [ArithKind \cap EufKind -> Inequalities \X Inequalities]
    /\ \A w \in Worlds, e \in ArithKind \cap EufKind : Holds(w, Trichotomy(e))
ASSUME NewAtomsAssumption ==
    Branches \subseteq Inequalities /\ NewEqs \subseteq ArithKind \cap EufKind
ASSUME ModesAssumption == Eager \in BOOLEAN /\ Resume \in BOOLEAN
ASSUME BoundsAssumption ==
    /\ RoundLimit \in Nat /\ CoreAfter \in Nat /\ PerConflict \in Nat \ {0}
    /\ MaxConflicts \in Nat /\ MaxChecks \in Nat
    /\ Limit \in Nat \cup {Unlimited} /\ Unlimited \notin Nat

VARIABLES
    asserted,     \* the formulas asserted
    clauses,      \* the clauses of the SAT solver (its own lemmas aside)
    queued,       \* those of them it has queued: Solver::pending
    standing,     \* its decisions stand: it is above level 0
    known,        \* the atoms that are SAT variables
    eufAtoms,     \* euf_eq and pred_atoms
    arithAtoms,   \* arith_atoms
    synced,       \* euf_synced: the atoms the online closure watches
    simplexAtoms, \* the atoms the online simplex watches
    arithNew,     \* arith_new: the arithmetic atoms counted as watched
    stale,        \* euf_stale
    eufOn,        \* euf is built
    watched,      \* the atoms declared to the SAT solver as the theories'
    pc,           \* where the check is
    assign,       \* the assignment the last search found, while it is read
    core,         \* the conflict core theory_check proposed, until verified
    rounds,       \* the rounds of this check
    fullBlocks,   \* full_blocks
    left,         \* ResLimit::left
    verdict,      \* what the last check answered, "none" before it does
    reason,       \* why it answered "unknown"
    checks        \* the calls of check so far

solverVars == <<asserted, clauses, known, eufAtoms, arithAtoms>>
queueVars == <<queued, standing>>
onlineVars == <<synced, simplexAtoms, arithNew, stale, eufOn, watched>>
checkVars == <<assign, core, rounds, fullBlocks, left, verdict, reason, checks>>
vars == <<solverVars, queueVars, onlineVars, pc, checkVars>>

hasTheory == eufAtoms \cup arithAtoms # {}
simplexOn == simplexAtoms # {}

TypeOK ==
    /\ asserted \subseteq Formulas
    /\ clauses \subseteq SUBSET (Atoms \X BOOLEAN)
    /\ queued \subseteq clauses /\ standing \in BOOLEAN
    /\ known \subseteq Atoms
    /\ eufAtoms \subseteq EufKind /\ arithAtoms \subseteq ArithKind
    /\ synced \subseteq EufKind /\ simplexAtoms \subseteq ArithKind
    /\ arithNew \subseteq ArithKind /\ watched \subseteq Atoms
    /\ stale \in BOOLEAN /\ eufOn \in BOOLEAN
    /\ pc \in {"idle", "round", "search", "theory", "verify"}
    /\ assign \in UNION {[D -> BOOLEAN] : D \in SUBSET Atoms}
    /\ core \subseteq Atoms \X BOOLEAN
    /\ rounds \in 0 .. RoundLimit
    /\ fullBlocks \in Nat
    /\ left \in Nat \cup {Unlimited}
    /\ verdict \in {"none", "sat", "unsat", "unknown"}
    /\ reason \in {"none", "rounds", "limit", "theory"}
    /\ checks \in 0 .. MaxChecks

NoAssign == [a \in {} |-> TRUE]

Init ==
    /\ asserted = {} /\ clauses = {} /\ known = {}
    /\ queued = {} /\ standing = FALSE
    /\ eufAtoms = {} /\ arithAtoms = {} /\ synced = {} /\ simplexAtoms = {}
    /\ arithNew = {} /\ watched = {} /\ stale = FALSE /\ eufOn = FALSE
    /\ pc = "idle" /\ assign = NoAssign /\ core = {}
    /\ rounds = 0 /\ fullBlocks = 0 /\ left = Limit
    /\ verdict = "none" /\ reason = "none" /\ checks = 0

-----------------------------------------------------------------------------
(* assert *)

\* The equalities whose trichotomy is added, and the atoms it brings.
SplitAtoms(es) == UNION {{SplitOf[e][1], SplitOf[e][2]} : e \in es}

\* Solver::add_clause: above level 0 a resumable solver queues the clause.
AddClauses(new) ==
    /\ clauses' = clauses \cup new
    /\ queued' = IF Resume /\ standing THEN queued \cup (new \ clauses) ELSE queued
    /\ UNCHANGED standing

AssertRoot(f) ==
    LET fresh == AtomsOf(f) \ known
        euf == fresh \cap EufKind
        eqs == fresh \cap EufKind \cap ArithKind
        axioms == IF Eager THEN eqs ELSE {}
    IN  /\ pc = "idle"
        /\ f \notin asserted
        /\ asserted' = asserted \cup {f}
        /\ known' = known \cup fresh \cup SplitAtoms(axioms)
        /\ AddClauses(f \cup {Trichotomy(e) : e \in axioms})
        /\ eufAtoms' = eufAtoms \cup euf
        /\ arithAtoms' = arithAtoms \cup (fresh \cap ArithKind) \cup SplitAtoms(axioms)
        /\ simplexAtoms' = simplexAtoms \cup SplitAtoms(axioms)
        /\ stale' = (stale \/ fresh \cap (EufKind \cup ArithKind) # {})
        /\ verdict' = "none" /\ reason' = "none" /\ assign' = NoAssign
        /\ UNCHANGED <<synced, arithNew, eufOn, watched, pc, core, rounds,
                       fullBlocks, left, checks>>

-----------------------------------------------------------------------------
(* check: sync_online, then rounds *)

\* sync_euf extends the closure by the atoms it does not watch yet.
Resync ==
    IF stale /\ eufAtoms # {}
    THEN synced' = eufAtoms /\ eufOn' = TRUE
    ELSE UNCHANGED <<synced, eufOn>>

StartCheck ==
    /\ pc = "idle"
    /\ checks < MaxChecks
    /\ Resync
    /\ stale' = FALSE
    /\ simplexAtoms' = simplexAtoms \cup (arithAtoms \ arithNew)
    /\ arithNew' = arithAtoms
    /\ verdict' = "none" /\ reason' = "none"
    /\ UNCHANGED <<rounds, fullBlocks>>
    /\ checks' = checks + 1
    /\ pc' = "round"
    /\ assign' = NoAssign
    /\ UNCHANGED <<solverVars, queueVars, watched, core, left>>

\* The locals of the check end with it.
Answer(v, why) ==
    /\ verdict' = v
    /\ reason' = why
    /\ pc' = "idle"
    /\ rounds' = 0
    /\ fullBlocks' = 0

\* The conflicts the resource limit leaves for one search.
Cap == IF left = Unlimited THEN MaxConflicts ELSE left \div PerConflict

GiveUpRounds ==
    /\ pc = "round"
    /\ rounds = RoundLimit
    /\ Answer("unknown", "rounds")
    /\ UNCHANGED <<solverVars, queueVars, onlineVars, assign, core, left, checks>>

StartRound ==
    /\ pc = "round"
    /\ rounds < RoundLimit
    /\ watched' = IF Resume THEN eufAtoms \cup arithAtoms ELSE watched
    /\ \/ Cap = 0 /\ Answer("unknown", "limit")
       \/ /\ Cap # 0
          /\ pc' = "search"
          /\ rounds' = rounds + 1
          /\ UNCHANGED <<verdict, reason, fullBlocks>>
    /\ UNCHANGED <<solverVars, queueVars, synced, simplexAtoms, arithNew, stale,
                   eufOn, assign, core, left, checks>>

\* k conflicts are charged to the limit (ResLimit::charge saturates).
Charge(k) ==
    left' = IF left = Unlimited THEN left
            ELSE IF k * PerConflict > left THEN 0 ELSE left - k * PerConflict

Conflicts == {k \in 0 .. MaxConflicts : k <= Cap}

\* What a search over the clauses ranges over.
Searched == IF eufOn \/ simplexOn THEN OnlineWorlds ELSE Valuations

\* Each turn of the search attaches queued clauses, up to one that implies a
\* literal or is false, so that some may be left when all atoms are assigned.
Attach ==
    \E rest \in SUBSET queued : (queued # {} => rest # queued) /\ queued' = rest

Agrees(w, a, atoms) == \A x \in atoms : w[x] = a[x]

SearchUnsat ==
    /\ pc = "search"
    /\ ~ \E w \in Searched : Satisfies(w, clauses)
    /\ \E k \in Conflicts : Charge(k)
    /\ Answer("unsat", "none")
    /\ UNCHANGED <<solverVars, queueVars, onlineVars, assign, core, checks>>

SearchGivesUp ==
    /\ pc = "search"
    /\ left # Unlimited
    /\ Charge(Cap)
    /\ Attach /\ standing' = FALSE
    /\ Answer("unknown", "limit")
    /\ UNCHANGED <<solverVars, onlineVars, assign, core, checks>>

\* An assignment of the clauses attached, in which the online closure, when
\* there is one, found no clash.
SearchSat ==
    /\ pc = "search"
    /\ Attach
    /\ \E a \in [known -> BOOLEAN], k \in Conflicts :
        /\ Satisfies(a, clauses \ queued')
        /\ eufOn => \E w \in EufWorlds : Agrees(w, a, synced)
        /\ assign' = a
        /\ Charge(k)
    /\ standing' \in {Resume, FALSE}
    /\ \/ hasTheory /\ pc' = "theory" /\ UNCHANGED <<verdict, reason, rounds, fullBlocks>>
       \/ ~hasTheory /\ Answer("sat", "none")
    /\ UNCHANGED <<solverVars, onlineVars, core, checks>>

-----------------------------------------------------------------------------
(* check: the outcomes of theory_check *)

Tracked == eufAtoms \cup arithAtoms
TrueLits == {<<x, assign[x]>> : x \in Tracked}
Consistent == \E w \in Worlds : Agrees(w, assign, Tracked)

\* Slip: the assignment of the SAT solver is answered unexamined.
TheorySatSlip ==
    /\ pc = "theory"
    /\ Answer("sat", "none")
    /\ UNCHANGED <<solverVars, queueVars, onlineVars, assign, core, left, checks>>

\* On a consistent assignment propagate_euf_equalities finds no equality that
\* is implied and not asserted, so it adds no clause.
TheorySat ==
    /\ pc = "theory"
    /\ Consistent
    /\ Answer("sat", "none")
    /\ UNCHANGED <<solverVars, queueVars, onlineVars, assign, core, left, checks>>

TheoryUnknown ==
    /\ pc = "theory"
    /\ Answer("unknown", "theory")
    /\ UNCHANGED <<solverVars, queueVars, onlineVars, assign, core, left, checks>>

\* A conflict core: literals of the assignment, though an explanation may have
\* left out literals the conflict needs.
TheoryConflict ==
    /\ pc = "theory"
    /\ ~Consistent
    /\ \E c \in (SUBSET TrueLits) \ {{}} : core' = c
    /\ pc' = "verify"
    /\ UNCHANGED <<solverVars, queueVars, onlineVars, assign, rounds, fullBlocks, left,
                   verdict, reason, checks>>

\* core_is_inconsistent answers yes only of an inconsistent core, and may run
\* out of its own budget.
Inconsistent(c) == ~ \E w \in Worlds : \A l \in c : w[l[1]] = l[2]

\* The round is over: the next one searches again.
NextRound ==
    /\ pc' = "round"
    /\ assign' = NoAssign
    /\ core' = {}
    /\ UNCHANGED <<asserted, watched, stale, rounds, left, verdict, reason, checks>>

Learn(clause) ==
    /\ AddClauses({clause})
    /\ NextRound
    /\ UNCHANGED <<known, eufAtoms, arithAtoms, synced, simplexAtoms, arithNew, eufOn>>

\* Slip: the literals are not negated.
FullBlockSameSlip == TrueLits

\* add_full_block: the negation of the whole assignment of the theory atoms.
FullBlock == Negated(TrueLits)

\* Slip: the core is believed.
CoreVerifiedSlip ==
    /\ pc = "verify"
    /\ Learn(Negated(core))
    /\ UNCHANGED fullBlocks

CoreVerified ==
    /\ pc = "verify"
    /\ Inconsistent(core)
    /\ Learn(Negated(core))
    /\ UNCHANGED fullBlocks

CoreRejected ==
    /\ pc = "verify"
    /\ Learn(FullBlock)
    /\ UNCHANGED fullBlocks

\* No core: the assignment is blocked, or, after CoreAfter such blocks, the
\* integer search's verified core is learnt.
TheoryUnsat ==
    /\ pc = "theory"
    /\ ~Consistent
    /\ fullBlocks' = fullBlocks + 1
    /\ \/ Learn(FullBlock)
       \/ /\ fullBlocks' > CoreAfter
          /\ \E c \in (SUBSET TrueLits) \ {{}} : Inconsistent(c) /\ Learn(Negated(c))

\* The equalities that are false while the arithmetic has neither side of them.
Violated ==
    {e \in arithAtoms \cap eufAtoms :
        /\ ~assign[e]
        /\ \A i \in 1 .. 2 : SplitOf[e][i] \in arithAtoms => ~assign[SplitOf[e][i]]}

\* Slip: the simplex is left to the next check's sync_online.
AddArithSlip(new) ==
    /\ known' = known \cup new
    /\ arithAtoms' = arithAtoms \cup new
    /\ UNCHANGED <<simplexAtoms, arithNew>>

\* Case splits: new atoms, watched by the simplex as they are made.
AddArith(new) ==
    /\ known' = known \cup new
    /\ arithAtoms' = arithAtoms \cup new
    /\ simplexAtoms' = simplexAtoms \cup new
    /\ arithNew' = arithAtoms'

SplitDiseqs ==
    /\ pc = "theory"
    /\ \E es \in (SUBSET Violated) \ {{}} :
        /\ AddArith(SplitAtoms(es))
        /\ AddClauses({Trichotomy(e) : e \in es})
    /\ NextRound
    /\ UNCHANGED <<eufAtoms, synced, eufOn, fullBlocks>>

SplitBranches ==
    /\ pc = "theory"
    /\ \E bs \in (SUBSET (Branches \ arithAtoms)) \ {{}} : AddArith(bs)
    /\ NextRound
    /\ UNCHANGED <<clauses, queueVars, eufAtoms, synced, eufOn, fullBlocks>>

\* New equalities go to both theories; the closure restarts to watch them.
SplitEqs ==
    /\ pc = "theory"
    /\ \E es \in (SUBSET (NewEqs \ eufAtoms)) \ {{}} :
        LET axioms == IF Eager THEN es ELSE {}
        IN  /\ AddArith(es \cup SplitAtoms(axioms))
            /\ AddClauses({Trichotomy(e) : e \in axioms})
            /\ eufAtoms' = eufAtoms \cup es
            /\ synced' = eufAtoms'
            /\ eufOn' = TRUE
    /\ NextRound
    /\ UNCHANGED fullBlocks

Round ==
    \/ GiveUpRounds \/ StartRound
    \/ SearchUnsat \/ SearchGivesUp \/ SearchSat
    \/ TheorySat \/ TheoryUnknown \/ TheoryConflict \/ TheoryUnsat
    \/ CoreVerified \/ CoreRejected
    \/ SplitDiseqs \/ SplitBranches \/ SplitEqs

Next == StartCheck \/ Round \/ \E f \in Formulas : AssertRoot(f)

Spec == Init /\ [][Next]_vars

-----------------------------------------------------------------------------
(* Properties *)

IsModel(w, f) == Satisfies(w, f)
ModelOfAll(w) == \A f \in asserted : IsModel(w, f)

\* No clause the loop learns (solver.rs:609) loses a model: a world that makes
\* every asserted formula true satisfies every clause of the SAT solver.
NoModelLost == \A w \in Worlds : ModelOfAll(w) => Satisfies(w, clauses)

\* The assignment of a "sat" answer is that of a world that makes every
\* asserted formula true (the Model check returns, and SmtCore::assigned),
\* unless a resumed search left clauses queued (sat/solver.rs:557): of those
\* answers nothing is claimed.
SatModelReal ==
    verdict = "sat" /\ queued = {} =>
        \E w \in Worlds : ModelOfAll(w) /\ Agrees(w, assign, known)

\* A "sat" with clauses queued tells no more than "unknown" does.
Told == IF verdict = "sat" /\ queued # {} THEN "unknown" ELSE verdict

\* SmtCore implements the decision procedure of module Decision.
Decide == INSTANCE Decision WITH
              verdict <- Told,
              ModelsOf <- [f \in Formulas |-> {w \in Worlds : IsModel(w, f)}]

Decides == Decide!Spec

\* When a search starts, the online theories watch every atom of theirs
\* (sync_online and the split branch), and in resumable mode the SAT solver
\* knows every theory atom: theory_check trusts the online closure to have
\* seen the whole assignment (solver.rs:4112).
OnlineComplete ==
    pc \in {"search", "theory"} =>
        /\ eufOn => synced = eufAtoms
        /\ arithAtoms \subseteq simplexAtoms
        /\ Resume => watched = Tracked

\* A round that does not answer gets somewhere: a clause excludes its
\* assignment, or there are new atoms (solver.rs:380).
RoundsProgress ==
    [][(pc \in {"theory", "verify"} /\ pc' = "round") =>
          (known' # known \/ ~Satisfies(assign, clauses'))]_vars

\* So the round limit is not what ends a check of a small problem.
RoundsSuffice == reason # "rounds"
=============================================================================
