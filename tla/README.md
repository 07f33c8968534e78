# A verification project for z3rs

z3rs is a Rust reimplementation of an SMT solver: an SMT-LIB front end, a DPLL(T)
core, theory solvers and a CDCL SAT solver (about 112 000 lines under `src/src/`,
half of them in `cmd_context/smt2.rs`).  This directory holds TLA+ models of its
parts, TLC configurations that check them on small instances, and proofs checked
by TLAPS.  Paths below are relative to `src/src/`.

PROJECT.json holds the tables that go with this text: the lines every definition
translates, the runs, a mutant for every property of every run, the hazards of the
code and the theorems.

## Inventory

| Component | State it keeps | Operations | Interacts with | What is hard | What makes it correct |
|---|---|---|---|---|---|
| SAT solver `sat/solver.rs`, `sat/literal.rs` | clauses, watch lists, trail, levels, antecedents, heap, queued clauses, learnt cap, theory marks | `mk_var`, `add_clause`, `solve*`, `reset_theory`; inside: propagate, analyze, backtrack, restart, reduce | callback to a `TheoryHook`; called by the SMT core between searches | incremental use, chronological backtracking, lazy heap, lazy deletion, theory answers inside a level | sound lemmas, real models, real refutations, no lost propagation, termination |
| Tseitin `sat/tseitin.rs` | literal of each subformula | encode a formula, encode one more | SAT solver | sharing over calls | the clauses say what the formulas say |
| DRAT `sat/drat.rs`, DIMACS `sat/dimacs.rs` | clause list of the checker | add, delete, RUP, RAT | proofs the SAT solver logs | deletion, resolvents | a verified proof refutes the formula |
| Online EUF `smt/euf_online.rs` | union-find, use lists, congruence table, proof forest, undo trail, equality log | build, grow, propagate, undo | SAT hook, online arithmetic | exact undo, explanations in trail order | the congruence closure of the trail, after any backtrack |
| Online arithmetic `smt/arith_online.rs`, `math/simplex.rs` | tableau, bounds in scopes, marks, tags | assert, retract, check | SAT hook, equalities from EUF | rows and values survive the scopes they were made in | conflicts are infeasible, silence means feasible |
| SMT core `smt/solver.rs` | atoms, roots, online theories, queued clauses, budgets | `assert`, `check` | SAT solver, theories | stale theories, unverified cores, rounds, splits | `unsat` from sound clauses only, `sat` with a theory model, the loop ends |
| Command context `cmd_context/smt2.rs`, `decl_table.rs` | assertions, scopes, declarations, objectives, labels | SMT-LIB commands | SMT core | scopes over a dozen parallel stacks, commands that fail half-way | a scope is undone exactly, answers are about the present |
| Runtime `util/sync.rs`, `util/symbol.rs`, `util/memory.rs`, `main.rs` | lock word, intern table, byte counters | lock, intern, charge, refund | every thread | interleavings, wrapping counters | exclusion, one record per text, the ceiling |
| AST `ast/manager.rs`, `query.rs`, `translation.rs` | hash-consed terms, visit marks, families | intern, walk, translate | everything | growth of the table, epochs that wrap | identity of ids is identity of terms |
| Rewriters `rewriter/*.rs`, tactics `tactic/mod.rs` | cache, goals | simplify, substitute, nnf, combinators | SMT core | rules that feed each other | the same meaning, the promised shape |
| Datalog `muz/datalog.rs` | relations | evaluate, query | - | fixpoint over growing relations | the least model |
| Bit-vectors `smt/bv.rs` | gates, clauses | one circuit per operation | SAT solver | widths and amounts at their limits | the clauses say what SMT-LIB says |
| Cooper `smt/cooper.rs` | formula in disjunctive normal form | exists, forall, negate, simplify | SMT core | scales, periods, rounding | the eliminated formula is equivalent |
| Nonlinear `nlsat/solver.rs`, `nlsat/icp.rs`, `math/interval.rs` | trail, infeasible sets, lemmas; boxes | search, resolve, explain; narrow, decide | SMT core | stages, lemmas over several levels, open and closed ends | lemmas are valid, both answers right |
| Preprocessing, models, parsers, interfaces, polynomials of `math/`, lemma generators | none beyond a call, or unbounded data | - | - | - | - |

All but the runtime utilities is single-threaded: what is hard here is less
interleaving than long sequences of legal calls and internal steps over state
that is updated lazily.

## Modules

`A -> B` reads "A extends or instantiates B".

| Module | Code | State and actions |
|---|---|---|
| `SatSolver` | `sat/solver.rs`, `sat/literal.rs` | see below |
| `EufOnline` | `smt/euf_online.rs` | `root`, class lists, `table`, `forest`, `undo`, `marks`, `eqLog`; `pc` names the loop of a pass: retract, undo, assert, merge, propagate, explain, mirror |
| `ArithOnline -> Simplex` | `smt/arith_online.rs`, compilation in `smt/arith.rs` | scopes, marks, tags; every step of the simplex is a step of the hook |
| `Simplex` | `math/simplex.rs` | rows, columns, values, bounds with tags, dirty set; assert, push, pop, check by single pivots |
| `SmtCore`; `Decision` | `smt/solver.rs` | clauses, those still queued, atoms, EUF and arithmetic marks, limits; one `Round` of the loop per step.  `Decision` is what it promises |
| `CmdContext` | `cmd_context/smt2.rs` | one record `ctx` of all the stacks; one action per command, failing ones too |
| `DeclTable`; `NameBag` | `cmd_context/decl_table.rs` | slots, counters; insert, remove, grow, purge, reset.  `NameBag` is what it promises |
| `SymbolIntern`; `InternTable` | `util/symbol.rs`, `util/sync.rs` | lock word, table, one `pc` per thread.  `InternTable` is what it promises |
| `Memory` | `util/memory.rs`, `main.rs` | four atomics, one `memPc` per thread |
| `AstManager`; `AstTranslation -> AstManager` | `ast/manager.rs`, `ast/query.rs`; `ast/translation.rs` | nodes, buckets, stamps, epoch, stack of the walk; families and the memo of a copy |
| `Rewrites`; `Rewriter -> Rewrites`; `Tactic -> Rewrites` | `rewriter/*.rs`; `tactic/mod.rs` | the rules are operators, the drivers and the tactics actions |
| `Tseitin` | `sat/tseitin.rs` | graph of connectives, cache, clauses |
| `Drat` | `sat/drat.rs` | database, assignment of the check, proof position |
| `Datalog` | `muz/datalog.rs` | relations, rule, position in the body, frontier of substitutions |
| `BitGates`; `BitBlast` | `smt/bv.rs` | gates with folding, sharing and clauses; circuits over gates |
| `Cooper` | `smt/cooper.rs` | formula, prefix of quantifiers |
| `IntervalOps`; `Icp -> IntervalOps` | `math/interval.rs`; `nlsat/icp.rs` | box, constraint in turn, stack of boxes |
| `NlsatIntervals`; `NlsatSearch -> NlsatIntervals` | `nlsat/solver.rs` | infeasible sets; trail, stages, lemma under resolution |

Two components that do not call each other can share one configuration: the
`MC` modules put several *side by side*.  A variable `part` picks one in the
initial state, its actions are the only ones that can happen, and the others stay
at one of their initial states.  A property of one component so holds of the
states of its part as it would in a run of its own.  Components that do call each
other are composed in the models: the simplex under the arithmetic hook, the
interval sets under the nonlinear search, the circuits over the gates (by the
gates' contract), the session over the core (by the core's contract, module
`Decision`, which the core is checked and proved to keep).

### SatSolver

| TLA+ | code |
|---|---|
| `clauses` (records `lits`, `w0`, `w1`, `learnt`) | the clause vectors; positions 0 and 1 are `w0`, `w1`; a deleted clause is empty, as in the code |
| `watches[p]` | `watches[p.index()]`, entries `cref`, `blocker` |
| `trail`, `lims`, `level`, `reason`, `qhead` | `trail`, `trail_lim`, `level`, `reason`, `qhead` |
| `heap` | `order` (the activity heap), as a set |
| `pending`, `stable`, `seenLen`, `maxLearnt`, `ok` | `pending`, `theory_stable`, `theory_seen`, `max_learnt`, `ok` |
| `pc`, `run`, `todo`, `confl`, `resolvent`, `cursor`, `uip`, `answer`, `progress` | the locals of `search`, `propagate`, `analyze`, `theory_pass` |
| `inputs`, `passTrail`, `verdict` | history: the clauses added, what the hook saw, the last answer |

`search()` is cut at the places where it loops; each step is the code from one
such place to the next:

| place `pc` | code | actions |
|---|---|---|
| `idle` | between calls | `MkVar`, `AddIgnored`, `AddDeferred`, `AddAtRoot`, `ResetTheory`, `Solve` |
| `attach` | `attach_pending` | `PendingUnit`, `PendingClause` |
| `bcp` | `propagate` | `PropagateNext`, `DropStaleWatch`, `SkipBlocked`, `KeepSatisfied`, `MoveWatch`, `ImplyUnit`, `FindConflict` |
| `bcp` at the fixpoint | `theory_pass` | `TheoryConflict`, `TheoryAnswer` |
| `theory` | the rest of `theory_pass` | `ImpliedHolds`, `ValidFails`, `ImpliedFails`, `ValidAssigned`, `ImpliedAssigned`, `EndPass` |
| `conflict` | `conflict_level`, start of `analyze` | `RootConflict`, `UnitBelow`, `StartAnalysis` |
| `analyze` | `analyze` | `Resolve`, `FindUIP`, `AnalysisPanics` |
| `learn`, `account`, `reduce` | the rest of the conflict branch | `AssumptionConflict`, `Learn`, `Account`, `Reduce` |
| `branch` | the decision branch | `PlaceAssumption`, `Decide`, `AnswerSat` |
| `panic` | an index out of bounds | - |

## Abstractions

What each model leaves to a choice, to a contract or out:

- **SatSolver**: a decision takes any variable of the heap with either sign
  (activities, phases); `reduce_db` deletes any half of the unlocked learnt
  clauses; any replacement watch and any order of a watch list.
  `pick_branch_var` drops all assigned variables at once, the worst it can do.
  The hook answers with a conflict or at most `MaxImplied` implications that
  respect its contract for `TheoryModels`, or is silent; it need not be complete.
  The proof log and the statistics are left out.
- **EufOnline**: hash buckets are signatures; terms are hash-consed, so no
  congruence holds at the start; the undo entries of one merge are one record; the
  literals asserted between passes are any (`StartPass`).
- **Simplex**: a number `r + k*delta` is the integer `r * Unit + k`, and every
  pivot is 1 or -1: the model is the code where the tableau stays unimodular
  (`Unimodular`), which is proved where the forms are differences (`Differences`,
  assumed of every run).  Rows with other coefficients are not modelled.
- **ArithOnline**: `moved` is history: a conflict was reported since the last check
  that found values.
- **SmtCore**: theories are the worlds they admit; the SAT solver is its contract:
  an assignment of the clauses it has attached, or none when the clauses have
  none.  Which clauses a resumed search leaves queued is any choice that attaches
  at least one of those there were (`Attach`).  The arithmetic inside
  `theory_check` is its outcome.
- **CmdContext**: a formula is its models, the names it uses and how it is
  asserted; a check is right or "unknown"; `was`, `about`, `fresh` and `half` are
  history.  Macros (`define-fun`) are a set that no `pop` cuts back, as in the code.
  Sorts scope as declarations do and are left out, as are model-order switches.
  `define-funs-rec` defines two functions.
- **Memory, Drat**: locals that are dead are reset, which only merges states.
  **Drat** propagates in any order, of which the code's rescans are one.
- **DeclTable**: the thresholds of the code (capacity, purge, shrink) are
  constants, so that small tables meet them.
- **Tseitin**: variables are numbered argument first; another order renames them.
  `Ops` gives the operators explored by arity, each within what `OpsOf` takes.
- **Datalog**: an atom is joined with the relation in one step; `Base` is the
  set of all facts over `Consts` (assumed, and checked by TLC for the instance).
- **BitGates**: `built` is the history of gates returned.  **BitBlast** takes a
  gate for its value, which is what BitGates shows of it.
- **Icp**: roots are rounded outward to a grid of `RootUnit`; a constraint gives
  its bound variable by variable as in the code.
- **Cooper**: cubes and formulas are sets, negation takes cubes in a fixed order;
  a quantified variable ranges over `-Far .. Far`, wide enough for what the atoms
  of the instance can tell apart when the others are in `-Near .. Near`.
- **AstManager**: a declaration is part of the head symbol; epochs wrap at
  `MaxEpoch` (`u32::MAX` in the code); no caller nests a walk in a walk.
  **AstTranslation**: what else is in the destination is from `Own`.
- **Rewriter, Tactic**: a term stands for its hash-consed node.
- **NlsatSearch**: variables range over finitely many cells; the explanation of a
  conflict is its contract: any product of cells around the sample over which the
  core stays infeasible.  Over strict inputs (`is_full_dimensional`) the lemma
  excludes the closed cell though its ends were not looked at, elsewhere the open
  one.  The signs of coefficients that an explanation assumes (`ensure_sign`) and
  budgets are out.

## Runs

| Run | Shows | Bounds, and why they are enough |
|---|---|---|
| SatSearch | one CDCL search over any subset of five clauses: `TypeOK`; `SearchSound` (antecedents, levels, lemmas, `Unsat`); `SearchComplete` (watches, fixpoints, heap, `Sat`); `Termination` | three variables: conflicts two levels above the backjump level, learnt clauses of one and two literals; Luby unit 1 and learnt cap 0 (100 and 2000 in the code), so that restarts and deletions happen within a few conflicts |
| SatResumeTheory | three resumed searches with a theory, queued clauses and, some, no budget: `StablePrefix`; `TheoryRight` (`SearchSound`, nothing falsified, theory saw the model) | `chrono_levels` 0 (100 in the code): every backjump over more than a level is chronological |
| SatCalls | calls around a search: late variables, assumptions, no budget, tautology, empty clause, valid literals: `VerdictsRight` | three variables made one by one; limits 0 and 3 |
| Theories | EUF (`GraphExact`, `UndoExact`, `GraphTells`), simplex (`SimplexExact`, `SimplexRight`), arithmetic hook (`HookRight`) | trails of three literals, retracted and replaced over two or three passes; seven terms with values and predicates, two stages of growth; three variables with two differences, so that a pivot eliminates from another row; five strict and weak bounds in one scope; six literals and two equalities of EUF for the hook |
| Smt | the check loop (`NoModelLost`, `SatModelReal`, `Decides`, `RoundsProgress`, `OnlineComplete`), the session (`StackExact`, `AnswersCurrent`) | one integer in -1..1 and a predicate shared by two theories, two resumed checks with queued clauses, splits, limits and budgets; sessions of five commands over eleven formulas, recursive definitions and macros |
| Tables | symbol table (`Interned`, `Refines`), memory counters (`MemoryExact`), declaration table (`ProbesSound`, `Counts`) | three threads and two texts, two calls each; a `usize` of five bits, of which at most 30 of 32 are used (wrapping is left to the theorem `BytesAreCounted`); five colliding names in eight slots that grow, purge and shrink |
| Clauses | DRAT (`KeepsSatisfiable`, `Certified`), Tseitin (`EncodingExact`), Datalog (`LeastModel`, `AnswersRight`) | proofs of four steps over a satisfiable formula and a new variable; every graph of two atoms and two connectives; all programs of three rules from a pool of ten |
| Bits | gates and circuits (`GatesRight`, `BlastExact`), boxes (`BoxRight`), Cooper (`Exact`) | all inputs at widths 1 to 4; fourteen curves and lines, pairs of them; one or two cubes of up to two atoms with scales up to 3 |
| Terms | table and walks (`HashConsed`, `WalkRight`), copies (`CopiesRight`), rewriting (`RewritesRight`), tactics (`TacticsRight`) | four or eight nodes with a hash that confuses them, one initial slot, epochs that wrap at 2; all terms two operators deep |
| NlsatSearch | `NlsatRight`: lemmas valid, both verdicts right, no internal check fails, intervals and values agree | an integer and a real, three clauses over comparisons, a product and a cubic that vanish on a line, some problems all strict; every cell an explanation may pick, open or closed |
| SatQueued, SatAssumed | counterexamples, see below | - |

Every action and every disjunct of the next-state relations fires in a passing
run.  Deadlock is checked for NlsatSearch only: elsewhere a caller may stop
calling, a program is done, or bounds on the number of calls are reached.

`PropagationComplete` (in `SearchComplete`) is checked without chronological
backtracking: with it the code lets a literal be implied late, above the level of
its antecedents; what remains is `NothingFalsified` (in `TheoryRight`).  Chronological backtracking
and calls after one that ran out of budget are in SatResumeTheory; SatSearch and
SatCalls make one call of `solve` each.  Any number of calls is in the theorems
`SearchIsSound`, `BothVerdictsRight` and `TheoryPrefixStable`.

**Fairness.**  `Termination`: `WF_vars(SearchStep)`, a search is a loop of one
thread with no wait in it.  Nothing is assumed of the caller, nor of the choices
inside the search.  The run does not reach its conflict budget, so the end is not
owed to it.

Stated in the modules and used while building them, but outside the runs (add
the name to a configuration that fairness allows): the ends of loops (`PassEnds`,
`CheckEnds`, `CallsReturn`, `AllocationsEnd`, `Drat!ChecksEnd`, `Ends`,
`WalksEnd`), and `MirrorExact`, `LiteralsStay`, `DivisionExact`,
`OrdersTotal`, `OnlyNarrows`, `Eliminated`, `RoundsSuffice`, `Bucketed`.

## Where the code and its documentation disagree

With a run:

- **SatQueued.**  In resumable mode `attach_pending` returns after the first
  queued clause that enqueues a literal (`sat/solver.rs:557`) and `search` goes on
  to propagate, branch and possibly answer `Sat` while later clauses are still
  queued.  "On `SatResult::Sat`, the assignment is a model" (line 882) then fails.
- **SatAssumed.**  A learnt unit clause has backjump level 0, below the number of
  assumptions, and `search` answers `Unsat` (line 1125) whether or not the clause
  contradicts an assumption.

The former reaches further.  `resume_searches` is on in `cmd_context/smt2/ematch_search.rs:284`
and `smt/nla.rs:600`, and `SmtCore::check` takes the assignment of a `Sat` for one of
all clauses (`smt/solver.rs:423`).  So `SatModelReal` and the `sat` half of `Decides`
claim nothing of an answer given with clauses queued, and without that condition
the run Smt refutes them; where searches are not resumed nothing is ever queued
(`OrdinarySatRight`).

Without one (to see it, give the named definition as an INVARIANT to the
configuration of its part, or follow the action):

- `AnalysisPanics`: in non-resumable mode a valid literal above level 0 is recorded
  at level 0 (`sat/solver.rs:1015`); two of them can falsify a clause none of whose
  literals is of the current level, and the index of `analyze` underflows (803).
  The action fires in SatCalls.
- `DeclaredUsable` (CmdContext, run Smt): a name declared again inside a scope is
  taken out of the functions by the `pop`, though its outer declaration stays
  (`cmd_context/smt2.rs:4998`).  `RawIsGoal`: a `pop` of too many levels fails
  after it popped, before it trims the assertions kept as written.
  `MentionsScoped`: `reset-assertions` leaves the mentions in place.  `CoreUnsat`:
  a core asked for after other commands is of what is asserted by then.
- `define-funs-rec` adds its axioms one by one and drops the model only after the
  last (`cmd_context/smt2.rs:5589`): an ill-sorted later body leaves the first axiom
  asserted and the model of before it readable.  `ModelCurrent` excepts such axioms
  (`half`, run Smt).  A `pop` keeps the macros of its scope (4984), so that a
  `define-fun` made there stays usable while a `declare-fun` does not.
- `ArithOnline::model` (`smt/arith_online.rs:70`) is said to be a model of the
  asserted bounds after a pass without a conflict.  A pass that reports a conflict
  retracts its bounds but not the values it moved, and a next pass with nothing to
  assert does not check; the values may then miss bounds that are kept.
  `PassComplete` claims the values only while `moved` is false; what holds without
  it is that a silent pass leaves a trail that can be met.
- `DeletesEqual`, `Fixpoint` (Drat): clauses with a repeated literal.  `same_clause`
  compares lengths and one inclusion only, so such a clause deletes another, and a
  unit written twice does not propagate.  Neither makes the checker accept a wrong
  proof: `Certified` is proved with both.
- `IteSettled` (Rewriter): a simplified `ite` with a Boolean constant can be
  simplified again.
- The product of an open end at zero with a closed one at zero is right, of two
  zero ends one of them open is closed (`math/interval.rs:307`): sound, less tight.
- `over_soft_limit` (`util/memory.rs:72`), which the solver is said to consult, is
  called by nothing.

## Proofs

Each proof module extends one model and proves its theorems for every value of
the constants its ASSUME allows.  In all of them the shape is the same: a typing
or bookkeeping invariant, the strengthening the property needs, one step per
action, and the property as a consequence.

| Module | Theorems | The inductive invariant, and why it is needed |
|---|---|---|
| `SatSolver_proofs` | `BooksInStep`: `TypeOK` and the books of the search (`TrailOK`, `ReasonOK`, `DbOK`, `LocalsOK`).  `TheoryPrefixStable`: `StablePrefix`.  `SearchIsSound`: `SearchSound`.  `UnsatIsCertain`: no `Unsat` of a satisfiable instance.  `ListsAndHeapExact`; without chronological backtracking `BothVerdictsRight`: `VerdictsRight`; without a theory either `SearchOverlooksNothing`: `SearchComplete` | `IndInv`: levels start at increasing trail positions (`TrailOK`), antecedents and watches name clauses (`ReasonOK`, `DbOK`), each place of `search` knows its locals (`LocalsOK`).  `StableOK` says the prefix literal by literal; the heart is `StableAfterFacts`: what `cancel_until` keeps below the lowered mark stays in place, even when literals above the cut are kept and move down.  `Sound` and `Complete` are explained below |
| `Tables_proofs` | of SymbolIntern: `Safety`: `Interned` (exclusion, one record per text, equality by address), `Refinement`: the table implements `InternTable`; of DeclTable: `ProbesAreSound` (`ProbesSound`), `TableCounts` (`Counts`): the table implements `NameBag`; of Memory: `BytesAreCounted`; `MemoryIsExact`, `SmallRequestsExact`: `MemoryExact` | SymbolIntern: the holder of the lock, and what each `pc` knows of the table it read.  DeclTable: `DeclInv`: every name is found from its hash, each is counted at least once, the counters are exact, the capacity is `InitialCapacity` doubled some number of times, and taken slots never fill the table: a table at most three quarters full has two more slots, as no capacity is below 8.  `VacateKeeps` is why a slot may be freed rather than marked when the next is free; `MoveKeeps` is the induction over the slots a rehash copies.  Memory: `KeepInv`, see below |
| `Smt_proofs` | of SmtCore: `NoneLost`, `SatRight`, `OrdinarySatRight`, `Implements` (of `Decision`), `RoundsGetSomewhere` (`RoundsProgress`); of CmdContext: `ScopesExact` (`StackExact`), `AnswersStayCurrent` (`AnswersCurrent`) | SmtCore: `IInv`: formulas stay in the clauses, marks know the kinds of atoms, the assignment satisfies the clauses that are not queued, nothing is queued unless searches are resumed, a core under verification is inconsistent, verdicts are right; for the rounds also `KindsExact` (the solver's atoms are in the lists of all their kinds) and `CoreReal` (a core under verification consists of literals of the assignment).  CmdContext: `Fine`: what a level recorded when it was opened is a prefix of what is there now, so that cutting back gives the state of then, level by level; labels denote, what is usable is declared, every recorded level is as exact; `Answers`: the model read satisfies what is asserted, and a verdict `unsat` refutes what it was `about`, so that the tests of the core minimization, which may give up, only ever drop what is not needed |
| `Clauses_proofs` | of Drat: `Redundancy`, `Certifies`, `PropagatesSoundly`; of Tseitin: `EncodingsAreExact` (`EncodingExact`), `LiteralsAreKept`; of Datalog: `DerivesOnlyConsequences`, `ReachesModel`, `ReachesLeastModel`: `LeastModel`; `AnswersCorrectly` | Drat: the database keeps satisfiability; what propagation made true holds in every model that refutes the goal; resolvents tried so far are entailed; a derived empty clause refutes.  Tseitin: `EncodedInv`: a cached node has its clauses over the literals of its arguments, and the clauses have exactly one model for each value of the atoms.  A new variable is either free (an atom) or fixed by its clauses to a function of those before it, so one model stays one.  Datalog: `ModelInv`: the frontier is exactly the substitutions that match the body so far, for the facts there were; a pass without a new fact closed every rule before this one |
| `EufOnline_proofs` | `UndoIsExact`: `UndoExact` | `IInv`: the e-graph, and each of the past it can go back to, has circular member lists that are its classes and a proof forest whose trees lead to the class roots (`GraphRight`); undoing the last merge gives the e-graph before it (`Past`); the marks name lengths of the undo trail that rise from 0, and what was noted at a mark is the e-graph of that length (`Marked`).  `JoinBack` is the heart: splicing two lists twice gives the two lists, and turning the path up a proof tree back from its old root restores every edge (`InvertBack`), which needs that the path ends there; the entries a merge files under new signatures are not among those it left in the table |
| `Simplex_proofs` | `SimplexIsExact`, `AnswersAreRight`, for every run whose tableau stays unimodular; `DifferencesAreExact`: it does for differences; `BoundsAreExact`; `SimplexIsRight` (`SimplexRight`) | `SimplexInv`: rows and basic variables name each other, rows use nonbasic variables only and say what the forms say, columns list the rows that use a variable, the values satisfy the rows, a violated basic variable is dirty.  See below |
| `BitGates_proofs` | of BitGates: `GatesAreExact`, `InputsStayFree`, `GatesAreShared`, together `GatesAreRight`: `GatesRight`; of BitBlast: `BlastIsExact` (`BlastExact`), `DivisionIsExact`, `OrdersAreTotal` | gates: the cache is a function, its outputs are defined by clauses, every choice of inputs extends to a model.  Circuits: `BlastInv`: every term has a width of at least one, at which its bits are its value; the work is one lemma per circuit, see below |
| `Terms_proofs` | of AstManager: `NodesAreHashConsed`, `BucketsAreExact`, `WalksAreRight` (`WalkRight`); of AstTranslation: `CopiesAreRight` (`CopiesRight`) | every id is in the bucket of its hash, through growth; `WalkSound`: no stamp is ahead of the epoch, a stamp of the epoch is a node of this walk, the children of an opened node are done or above it on the stack; `CopySound`: a memo entry, and every frame of a copy under way, says what its source says, each read with the family ids of its own manager |

**The search is sound** (`SearchIsSound`, for any number of variables, any
clauses and calls, resumable or not, with or without a theory and chronological
backtracking).  `SearchSound` is not inductive: that a learnt clause is entailed
rests on every antecedent met by `analyze`, and those on the trail they were read
from.  `Sound` adds

- `TrailSound`: no variable twice (`Distinct`); a literal's level is at most that of
  the segment of the trail it stands in (`Bounded`), and exactly that or 0 without
  chronological backtracking (`Reached`); literals of level 0 hold in every model
  (`Rooted`); an antecedent is a live clause with the literal in position 0 and the
  others false earlier on the trail (`Implied`), at levels no higher (`Graded`);
- `DbSound`, `QueueSound`: clauses stored, and clauses queued, hold in every model;
- `ConflictSound`, `AnalysisSound`, `AnswerSound`: at each place of `search`, what it
  has in hand (the conflict, the resolvent so far, the clause about to be learnt, the
  theory's answer) holds in every model and is false, or supported, on this trail;
- `UnsatIsReal`.

Three facts carry the steps.  `cancel_until` keeps a subsequence of the trail, with
chronological backtracking not a prefix; `Graded` is what makes the antecedents of
the literals it keeps consist of literals it keeps.  Resolving the resolvent in hand
with an antecedent leaves a clause that holds in every model and is still false.  A
learnt clause is asserted at the level of its second highest literal, so `Graded`
holds of the new literal.  Of the theory it is assumed only that its models are
assignments (`TheoryModels \subseteq Assignments`) and that what it says is true of
them; the hook's contract is what `smt/` is modelled to keep.

**The search overlooks nothing** (`SearchOverlooksNothing`).  That `Sat` comes with a
model rests on propagation having missed no false clause, which no state shows
locally: `propagate` leaves a clause alone when its blocker or its other watch is
true, moves a watch, stops in the middle of a list at a conflict, and `cancel_until`
later takes back some of the literals it relied on.  `Complete` says what remains
true throughout:

- `WatchesOK`: a live clause has one entry in the list of each watch, with a blocker
  of its own, and none elsewhere, in the middle of a visit too; `HeapOK`: an
  unassigned variable is in the heap.  These hold in every mode
  (`ListsAndHeapExact`);
- `QueueOK`: nothing is queued, a level starts at or before the head of the
  propagation queue, a search that branches has propagated everything;
- `NeverBoth`: call a watch *missed* when it is false, the list of its complement
  has been visited, and no true literal of the clause outlasts it (none that every
  backtrack that keeps the false one keeps as well).  Never are both watches of a
  clause missed.  A justifying literal has to outlast the false one, or a backjump
  would free the first and leave the second; while a conflict is handled only the
  positions that the backjump must keep count, as the list was left half visited;
- `InputsKept`: a clause added is a tautology, stored as given, or satisfied at the
  root; `AssumeKept`: the level opened for an assumption holds it; `StatusOK`.

When every variable has a value and everything is propagated, a stored clause without
a true literal would have both watches missed; so `SatIsModel` follows.
`SearchComplete` speaks of every fixpoint, at which a clause must not be left with one
free literal: for it the invariant is `NeverOne`, neither watch is missed.

Both hypotheses are the code's own limits.  With chronological backtracking
(`Resumable`) `VerdictsRight` is false, SatQueued is the counterexample.  With a
theory `NeverOne` is: a clause the theory gives is attached when all but one of its
literals may long have been false and visited; its second watch is missed from the
start, and after a backjump may be false beside a free one that nothing implies.
The search assigns that literal later or finds the conflict, so both answers stay
right, and `BothVerdictsRight` needs `~Resumable` alone.

**The simplex** (`SimplexIsExact`).  A pivot solves a row for the entering variable and
substitutes it in every other row that uses it; what the rows say of the values is
kept because the sums of a row are those of `MapThenSumSet`, which change by what
changes (`SumOver`).  The model's reciprocal of a coefficient is the coefficient
itself, so the step needs that all are -1, 0 or 1.  Where the forms are differences
this holds of every tableau there can be (`DifferencesUnimodular`): the column of a
nonbasic variable, with that variable at 1 and the other nonbasic ones at 0, is a
solution of the rows; every variable is the difference of two nodes, so raising the
nodes at or above a level against the others is a solution as well, and it gives
every variable 1, 0 or -1.  The two solutions agree on the nonbasic variables, so they are
the same.  This uses that what satisfies the forms satisfies the rows (`FollowInv`).
The bounds are told by levels: those of a scope are the tightest of the tags
asserted up to it (`LevelsInv`).  A core is infeasible since its row equates what
its bounds keep apart (`StuckClash`); the delta is a minimum of quotients, one for
each strict pair (`ModelRead`).

**Recursive functions** (Tseitin's literals, valuations and graphs, the terms of
AstTranslation, the tables `MoveTable` goes through, the orbits of EufOnline, the
circuits of BitBlast).  The
induction theorems of the library take an operator and cannot be used; `NatInductive` and `FromBelow` say the same of a set, from the library's
theorem that finite sets are well founded under inclusion.  A recursive function
`f[n \in 0 .. N] == Step(n, f)` is then shown to exist by induction on `N`, and what
its definition chooses to satisfy its equation.

**The memory counters** (`MemoryIsExact`).  `Books`: threads that ask keep to blocks of
their own, and one that charges asks for more than its block has.  `Rounds`: what is
live and in flight is the counter plus a multiple of `Width`, so `BytesAreCounted`
holds even when the counter wraps.  The peak and the ceiling compare totals, which a
wrapped counter does not give: there the theorem assumes `NoWrap`, what is live and
in flight fits a usize.  It is a condition on the behaviour, true in every state of
the run `Tables` (at most 30 of 32 there), and `SmallRequestsExact` derives it where
the system's bytes and a largest request of every thread together fit.
`PeakKnown` speaks of every set of charged growths: the peak covers them, or one of
them is about to raise it to a total that does; this survives any order in which
threads reach the exchange.  `CeilingKnown` does the same for the ceiling, with the
charges that are still to be tested against an older one.  The sums are those of
`MapThenSumSet`; `SumRuns` to `TotalBound` show that they exist, do not depend on the
order, and change by what changes.

**The circuits** (`BlastIsExact`, for every width; the run `Bits` goes up to 4).
`Low(a)[k]` is the number of the `k` lowest bits of `a`, defined by its recursion
from below, which fits carries and stages; `NumberIs` shows that `Number`, which the
model reads from the top as the code does, is `Low(a)[w]`.  Each circuit has its
induction: `AdderIs` (sum plus carry out is what went in, bit by bit; subtraction,
negation and both comparisons follow from the carry), `MulRight` (after `i` rounds
the product with the lowest `i` bits, modulo `2^w`), `UpRight` and `DownRight` (after
`i` stages the shift by the lowest `i` bits of the amount, where a stage of `w` or
more leaves only the fill), `DivRight` (the dividend is the quotient so far times the
divisor, plus the remainder, plus the bits not brought down, and the remainder is
less than the divisor, so that it fits `w` bits again), `BitIs` for the bitwise
operations.  A signed number is the unsigned one less `2^w` when the top bit is set;
what is equal modulo `2^w` is shown by naming the multiple (`Same`).  `2^n` has
its laws from the number of subsets of `1 .. n`.

What stays with TLC: liveness under fairness and everything with ENABLED; of the
SAT solver, what a search that backtracks chronologically promises beyond soundness
(`NothingFalsified`, `TheorySawModel` of `TheoryRight`); modules that use RECURSIVE
operators (`NlsatIntervals`, `Rewrites`, `Cooper` and those above them); and, for
want of proofs rather than of means, what the e-graph of EufOnline means
(`GraphExact`, `GraphTells`), ArithOnline (`HookRight`), `OnlineComplete` and Icp.

## Not modelled

- Text: the parsers (SMT-LIB, DIMACS, DRAT, Datalog), printers, models as text.
- Preprocessing of the command context (`cmd_context/*_simp.rs`, `elim_uncnstr.rs`,
  `algebraic_pp.rs`): simplification of terms with no state beyond a call, and the
  decision pipeline behind a check, taken by its contract.
- Exact arithmetic on unbounded data: algebraic numbers, resultants,
  factorization, projection, transcendental enclosures; the models take what it
  computes as given (the roots and signs of NlsatSearch).
- Lemma generators (`smt/nla.rs` and others), the offline closure `smt/euf.rs`,
  `math/lar.rs`, optimization and projection in `smt/arith.rs`.
- Bit-vector, floating-point and theory simplification in the rewriters.
- Wrappers and placeholders: `api/`, `ffi.rs`, `main.rs` beyond the allocator,
  `opt`, `qe`, `solver`, `params`, `model`; `util/rlimit.rs`, which nothing uses.

## Running

    tlc -workers 2 -config SatSearch.cfg MCSatSolver
    tlapm SatSolver_proofs.tla

The longest runs take about three minutes.  The longest proofs, SatSolver_proofs
and Simplex_proofs, take about ten minutes each from nothing, Smt_proofs about six.
