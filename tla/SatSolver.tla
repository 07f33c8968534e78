------------------------------ MODULE SatSolver ------------------------------
(***************************************************************************)
(* The CDCL SAT solver of src/sat/solver.rs: incremental clause addition,  *)
(* two-watched-literal propagation, 1-UIP conflict analysis, backjumping   *)
(* (chronological in resumable mode), restarts, deletion of learnt         *)
(* clauses, assumptions, a conflict budget, and the online theory hook.    *)
(*                                                                         *)
(* A literal is a nonzero integer, -l the complement of l.  A clause is    *)
(* the set of its literals plus the two at positions 0 and 1 of the code's *)
(* vector (w0, w1), which are the ones the solver watches; the order of    *)
(* the others only decides which of several replacements is taken, and is  *)
(* left open.  So are activities and saved phases: a decision takes any    *)
(* variable of the heap, with either sign, and reduce_db deletes any half. *)
(*                                                                         *)
(* search() is cut at the places the code loops: pc names the place.       *)
(***************************************************************************)
EXTENDS Integers, Sequences, FiniteSets, FiniteSetsExt, Functions

CONSTANTS
  NumVars,          \* the variables are 1..NumVars
  Pool,             \* the clauses (sets of literals) a caller may add, in
                    \* this order, skipping any (bounds the calls)
  AssumptionLists,  \* the assumption sequences a caller may pass
  ConflictLimits,   \* the conflict budgets a caller may pass
  TheoryModels,     \* the theory: its total assignments, as sets of literals
  TheoryLits,       \* the literals the hook talks about
  MaxImplied,       \* bound: implications in one answer of the hook
  EmptyReasons,     \* may the hook return an implication without a reason?
  TheoryCalls,      \* {FALSE}, {TRUE} or both: does a call pass a hook?
  WatchAll,         \* theory_vars is None: every literal concerns the theory
  WatchedVars,      \* otherwise the variables given to watch_theory_var
  Resumable,        \* set_resumable was called
  ChronoLevels,     \* chrono_levels (100 in the code)
  RestartUnit,      \* conflicts per Luby unit (100 in the code)
  InitialMaxLearnt, \* initial max_learnt (2000 in the code)
  MaxMkVar,         \* bound: variables allocated by a call of mk_var
  MaxSolves,        \* bound: calls of solve
  MaxPending        \* bound: clauses queued between two searches

Var == 1..NumVars
Lit == Var \cup {-v : v \in Var}
VarOf(l) == IF l > 0 THEN l ELSE -l
Negation(c) == {-l : l \in c}

\* Lit::index: the order in which add_clause sorts a clause.
Index(l) == 2 * VarOf(l) + (IF l < 0 THEN 1 ELSE 0)

\* The total assignments of the variables.
Assignments == {m \in SUBSET Lit : \A v \in Var : (v \in m) # (-v \in m)}

ASSUME SatAssumption ==
  /\ NumVars \in Nat
  /\ Pool \in Seq(SUBSET Lit)
  /\ AssumptionLists \subseteq Seq(Lit)
  /\ ConflictLimits \subseteq Nat
  /\ TheoryModels \subseteq Assignments
  /\ TheoryLits \subseteq Lit
  /\ MaxImplied \in Nat /\ EmptyReasons \in BOOLEAN
  /\ TheoryCalls \subseteq BOOLEAN
  /\ WatchAll \in BOOLEAN /\ WatchedVars \subseteq Var
  /\ Resumable \in BOOLEAN
  /\ ChronoLevels \in Nat /\ RestartUnit \in Nat /\ InitialMaxLearnt \in Nat
  /\ MaxMkVar \in 0..NumVars /\ MaxSolves \in Nat /\ MaxPending \in Nat

NoReason == 0         \* REASON_NONE
UsizeMax == 1000000   \* usize::MAX, above every trail length

VARIABLES
  ok,        \* no contradiction at level 0 so far
  nvars,     \* variables allocated by mk_var are 1..nvars
  clauses,   \* clause database; index = clause reference
  watches,   \* watches[p]: entries of the clauses that watch -p
  maxLearnt, \* learnt clauses kept before reduce_db acts
  trail,     \* assigned literals, in assignment order
  lims,      \* trail length at which each decision level began
  level,     \* level of a variable; a stale value outlives the assignment
  reason,    \* clause that implied a variable
  heap,      \* variables in the decision heap
  qhead,     \* trail literals already propagated
  stable,    \* theory_stable: trail prefix unchanged since the last pass
  seenLen,   \* theory_seen: trail length at the last theory pass
  pending,   \* clauses queued above level 0 in resumable mode
  pc,        \* place in search()
  run,       \* arguments and counters of the running (or last) search
  todo,      \* watch entries of the propagated literal still to visit
  confl,     \* clause reference of the conflict being handled
  resolvent, \* literals of the clause analyze has resolved so far
  cursor,    \* analyze's index into the trail
  uip,       \* asserting literal found by analyze, 0 before
  answer,    \* implications of the hook's answer still to process
  progress,  \* did this theory pass enqueue a literal?
  verdict,   \* result of the last search
  inputs,    \* history: every clause added
  passTrail, \* history: the trail the hook saw last
  offered,   \* position of the last clause added in the pool
  solves     \* calls of solve so far

dbVars       == <<clauses, watches>>
trailVars    == <<trail, lims, level, reason, heap, qhead, stable>>
passVars     == <<seenLen, passTrail>>
theoryVars   == <<answer, progress>>
analysisVars == <<resolvent, cursor, uip>>
apiVars      == <<inputs, offered, solves>>
vars == <<ok, nvars, dbVars, maxLearnt, trailVars, passVars, pending, pc, run,
          todo, confl, analysisVars, theoryVars, verdict, apiVars>>

Phases == {"idle", "attach", "bcp", "theory", "branch", "conflict", "analyze",
           "learn", "account", "reduce", "panic"}
Verdicts == {"none", "sat", "unsat", "unknown"}

Clause == [lits : SUBSET Lit, w0 : Lit, w1 : Lit, learnt : BOOLEAN]
Watch  == [cref : Nat, blocker : Lit]
Search == [assume : Seq(Lit), limit : Nat, theory : BOOLEAN,
           spent : Nat, since : Nat, luby : Nat]

-----------------------------------------------------------------------------
(* Reading the assignment.                                                 *)

Holds(l) == l \in Range(trail)
Fails(l) == -l \in Range(trail)
Free(l)  == ~Holds(l) /\ ~Fails(l)
Assigned == {VarOf(l) : l \in Range(trail)}
DecisionLevel == Len(lims)
Lv(l)    == level[VarOf(l)]
Known    == 1..nvars

\* ensure_var: the variables of the literals of c exist afterwards, and the
\* new ones are in the heap.
\* A slip: one variable too many.
VarsAfterSlip(c) == Max({nvars} \cup {VarOf(l) + 1 : l \in c})
VarsAfter(c) == Max({nvars} \cup {VarOf(l) : l \in c})
NewVars(c)   == (nvars + 1)..VarsAfter(c)

-----------------------------------------------------------------------------
(* Assigning and retracting.                                               *)

\* Trail length below which cancel_until(k) keeps everything.
Target(k) == lims[k + 1]

\* Positions above the cut whose literals cancel_until(k) keeps.
Kept(k) == {i \in (Target(k) + 1)..Len(trail) :
              Resumable /\ Lv(trail[i]) <= k}

\* The j-th smallest element of a finite set of numbers.
Nth(S, j) == CHOOSE i \in S : Cardinality({h \in S : h <= i}) = j

TrailAfter(k) ==
  IF DecisionLevel <= k THEN trail
  ELSE SubSeq(trail, 1, Target(k))
         \o [j \in 1..Cardinality(Kept(k)) |-> trail[Nth(Kept(k), j)]]

Undone(k) == {VarOf(l) : l \in Range(trail) \ Range(TrailAfter(k))}

ReasonsAfter(k) ==
  [v \in Var |-> IF v \in Undone(k) THEN NoReason ELSE reason[v]]

\* A slip: backtracking is not reported to the theory.
StableAfterSlip(k, from) == from

LimsAfter(k)  == IF DecisionLevel <= k THEN lims ELSE SubSeq(lims, 1, k)
QheadAfter(k) == IF DecisionLevel <= k THEN qhead ELSE Target(k)
StableAfter(k, from) ==
  IF DecisionLevel <= k \/ from <= Target(k) THEN from ELSE Target(k)

\* A slip: an unassigned variable does not return to the heap.
RetractSlip(k) ==
  /\ lims' = LimsAfter(k)
  /\ heap' = heap
  /\ qhead' = QheadAfter(k)
  /\ stable' = StableAfter(k, stable)

\* What cancel_until(k) does besides cutting the trail and the reasons.
Retract(k) ==
  /\ lims' = LimsAfter(k)
  /\ heap' = heap \cup Undone(k)
  /\ qhead' = QheadAfter(k)
  /\ stable' = StableAfter(k, stable)

CancelUntil(k) ==
  /\ trail' = TrailAfter(k)
  /\ reason' = ReasonsAfter(k)
  /\ Retract(k)
  /\ UNCHANGED level

\* cancel_until(k), then enqueue_at(l, r, lv).
CancelAndAssign(k, l, r, lv) ==
  /\ trail' = Append(TrailAfter(k), l)
  /\ reason' = [ReasonsAfter(k) EXCEPT ![VarOf(l)] = r]
  /\ level' = [level EXCEPT ![VarOf(l)] = lv]
  /\ Retract(k)

Assign(l, r, lv) == CancelAndAssign(DecisionLevel, l, r, lv)

\* The level enqueue gives a literal implied by a clause whose other
\* literals are others, at decision level dl.
ImpliedLevel(others, dl) ==
  IF Resumable THEN Max({0} \cup {Lv(q) : q \in others}) ELSE dl

\* A slip: the clause is filed under the first literal it watches, not
\* under its complement.
AttachSlip(c, w0, w1, isLearnt) ==
  LET cref == Len(clauses) + 1 IN
  /\ clauses' = Append(clauses,
       [lits |-> c, w0 |-> w0, w1 |-> w1, learnt |-> isLearnt])
  /\ watches' = [watches EXCEPT
       ![w0] = @ \cup {[cref |-> cref, blocker |-> w1]},
       ![-w1] = @ \cup {[cref |-> cref, blocker |-> w0]}]

\* attach_clause: watch the literals at positions 0 and 1.
Attach(c, w0, w1, isLearnt) ==
  LET cref == Len(clauses) + 1 IN
  /\ clauses' = Append(clauses,
       [lits |-> c, w0 |-> w0, w1 |-> w1, learnt |-> isLearnt])
  /\ watches' = [watches EXCEPT
       ![-w0] = @ \cup {[cref |-> cref, blocker |-> w1]},
       ![-w1] = @ \cup {[cref |-> cref, blocker |-> w0]}]

\* w0 and w1 come first when c is sorted by the order before, a set of pairs.
FirstTwo(c, before, w0, w1) ==
  /\ w0 \in c /\ w1 \in c \ {w0}
  /\ \A x \in c \ {w0} : <<w0, x>> \in before
  /\ \A x \in c \ {w0, w1} : <<w1, x>> \in before

Tautology(c) == \E l \in c : -l \in c

-----------------------------------------------------------------------------
(* Leaving search().                                                       *)

EndLocals ==
  /\ todo' = {} /\ confl' = NoReason
  /\ resolvent' = {} /\ cursor' = 0 /\ uip' = 0
  /\ answer' = {} /\ progress' = FALSE

Return(v) ==
  /\ pc' = "idle"
  /\ verdict' = v
  /\ EndLocals

\* The head of search()'s loop: attach what is pending, then propagate.
ToLoopHead == pc' = IF pending = <<>> THEN "bcp" ELSE "attach"

-----------------------------------------------------------------------------
(* The caller's operations, between searches.                              *)

Init ==
  /\ ok = TRUE /\ nvars = 0
  /\ clauses = <<>> /\ watches = [l \in Lit |-> {}]
  /\ maxLearnt = InitialMaxLearnt
  /\ trail = <<>> /\ lims = <<>> /\ qhead = 0 /\ stable = 0
  /\ level = [v \in Var |-> 0] /\ reason = [v \in Var |-> NoReason]
  /\ heap = {} /\ seenLen = 0 /\ pending = <<>>
  /\ pc = "idle" /\ verdict = "none"
  /\ run = [assume |-> <<>>, limit |-> 0, theory |-> FALSE,
            spent |-> 0, since |-> 0, luby |-> 1]
  /\ todo = {} /\ confl = NoReason
  /\ resolvent = {} /\ cursor = 0 /\ uip = 0
  /\ answer = {} /\ progress = FALSE
  /\ inputs = {} /\ passTrail = <<>> /\ offered = 0 /\ solves = 0

\* mk_var: allocate the next variable.
MkVar ==
  /\ pc = "idle" /\ nvars < MaxMkVar
  /\ nvars' = nvars + 1
  /\ heap' = heap \cup {nvars + 1}
  /\ verdict' = "none"
  /\ UNCHANGED <<ok, dbVars, maxLearnt, trail, lims, level, reason, qhead,
                 stable, passVars, pending, pc, run, todo, confl,
                 analysisVars, theoryVars, apiVars>>

\* What every add_clause records; the locals of a search are at rest.
CallAdd(c) ==
  /\ pc = "idle"
  /\ \E i \in (offered + 1)..Len(Pool) : c = Pool[i] /\ offered' = i
  /\ inputs' = inputs \cup {c}
  /\ verdict' = "none"
  /\ UNCHANGED <<maxLearnt, passVars, pc, run, todo, confl, analysisVars,
                 theoryVars, solves>>

\* A solver already contradictory ignores the clause.
AddIgnored(c) ==
  /\ CallAdd(c)
  /\ ~ok
  /\ UNCHANGED <<ok, nvars, dbVars, trailVars, pending>>

Deferred == Resumable /\ DecisionLevel > 0

\* Above level 0 in resumable mode the clause is queued.
AddDeferred(c) ==
  /\ CallAdd(c)
  /\ ok /\ Deferred
  /\ Len(pending) < MaxPending
  /\ nvars' = VarsAfter(c)
  /\ heap' = heap \cup NewVars(c)
  /\ ok' = (c # {})
  /\ pending' = IF c = {} \/ Tautology(c) THEN pending
                ELSE Append(pending, c)
  /\ UNCHANGED <<dbVars, trail, lims, level, reason, qhead, stable>>

\* The level-0 assignment the solver backtracks to.
RootTrail == TrailAfter(0)

\* Otherwise the solver backtracks to level 0 and adds it there.
AddAtRoot(c) ==
  /\ CallAdd(c)
  /\ ok /\ ~Deferred
  /\ nvars' = VarsAfter(c)
  /\ lims' = <<>>
  /\ heap' = heap \cup Undone(0) \cup NewVars(c)
  /\ qhead' = QheadAfter(0)
  /\ stable' = StableAfter(0, stable)
  /\ UNCHANGED pending
  /\ LET root == Range(RootTrail) IN
     \/ /\ Tautology(c) \/ (\E l \in root : c = {l})
        /\ trail' = RootTrail /\ reason' = ReasonsAfter(0)
        /\ UNCHANGED <<ok, dbVars, level>>
     \/ /\ c = {} \/ (\E l \in root : c = {-l})
        /\ ok' = FALSE
        /\ trail' = RootTrail /\ reason' = ReasonsAfter(0)
        /\ UNCHANGED <<dbVars, level>>
     \/ \E l \in Lit :
        /\ c = {l} /\ {l, -l} \cap root = {}
        /\ trail' = Append(RootTrail, l)
        /\ level' = [level EXCEPT ![VarOf(l)] = 0]
        /\ reason' = [ReasonsAfter(0) EXCEPT ![VarOf(l)] = NoReason]
        /\ UNCHANGED <<ok, dbVars>>
     \/ /\ ~Tautology(c)
        /\ \E w0, w1 \in c :
             /\ FirstTwo(c, {p \in c \X c : Index(p[1]) < Index(p[2])}, w0, w1)
             /\ Attach(c, w0, w1, FALSE)
        /\ trail' = RootTrail /\ reason' = ReasonsAfter(0)
        /\ UNCHANGED <<ok, level>>

\* reset_theory: a theory rebuilt from scratch has seen nothing.
ResetTheory ==
  /\ pc = "idle" /\ TRUE \in TheoryCalls
  /\ seenLen # UsizeMax
  /\ stable' = 0 /\ seenLen' = UsizeMax /\ passTrail' = <<>>
  /\ verdict' = "none"
  /\ UNCHANGED <<ok, nvars, dbVars, maxLearnt, trail, lims, level, reason,
                 heap, qhead, pending, pc, run, todo, confl, analysisVars,
                 theoryVars, apiVars>>

\* solve_assumptions, solve_budgeted and solve_with_theory: enter search().
Solve(assume, limit, theory) ==
  /\ pc = "idle" /\ solves < MaxSolves
  /\ solves' = solves + 1
  /\ run' = [assume |-> assume, limit |-> limit, theory |-> theory,
             spent |-> 0, since |-> 0, luby |-> 1]
  /\ UNCHANGED <<ok, dbVars, maxLearnt, passVars, pending, todo, confl,
                 analysisVars, theoryVars, inputs, offered>>
  /\ \/ /\ ~ok
        /\ verdict' = "unsat"
        /\ UNCHANGED <<nvars, trailVars, pc>>
     \/ /\ ok
        /\ verdict' = "none"
        /\ nvars' = VarsAfter(Range(assume))
        /\ ToLoopHead
        /\ IF Deferred /\ assume = <<>>
             THEN UNCHANGED trailVars
             ELSE /\ trail' = TrailAfter(0)
                  /\ reason' = ReasonsAfter(0)
                  /\ lims' = <<>>
                  /\ heap' = heap \cup Undone(0) \cup NewVars(Range(assume))
                  /\ qhead' = 0
                  /\ stable' = StableAfter(0, stable)
                  /\ UNCHANGED level

-----------------------------------------------------------------------------
(* attach_pending: the queued clauses meet the current assignment.         *)

\* True literals first, by increasing level, then unassigned ones, then
\* false ones by decreasing level.
BetterWatch(x, y) ==
  \/ Holds(x) /\ (Holds(y) => Lv(x) <= Lv(y))
  \/ Free(x) /\ ~Holds(y)
  \/ Fails(x) /\ Fails(y) /\ Lv(x) >= Lv(y)

TakePending ==
  /\ pc = "attach" /\ pending # <<>>
  /\ pending' = Tail(pending)
  /\ UNCHANGED <<nvars, maxLearnt, passVars, run, apiVars>>

\* After a clause that changed nothing the loop takes the next one.
NextPending ==
  /\ pc' = IF Len(pending) = 1 THEN "bcp" ELSE "attach"
  /\ UNCHANGED <<verdict, todo, confl, analysisVars, theoryVars>>

\* A clause that enqueued a literal makes search() propagate at once, with
\* the rest of the queue left for its next turn.
StopAttaching ==
  /\ pc' = "bcp"
  /\ UNCHANGED <<verdict, todo, confl, analysisVars, theoryVars>>

PendingUnit ==
  /\ TakePending
  /\ UNCHANGED dbVars
  /\ \E l \in Lit :
     /\ Head(pending) = {l}
     /\ \/ /\ Holds(l)
           /\ level' = [level EXCEPT ![VarOf(l)] = 0]
           /\ reason' = [reason EXCEPT ![VarOf(l)] = NoReason]
           /\ UNCHANGED <<ok, trail, lims, heap, qhead, stable>>
           /\ NextPending
        \/ /\ Fails(l) /\ Lv(l) = 0
           /\ ok' = FALSE
           /\ UNCHANGED trailVars
           /\ Return("unsat")
        \/ /\ Fails(l) /\ Lv(l) > 0
           /\ CancelAndAssign(Lv(l) - 1, l, NoReason, 0)
           /\ UNCHANGED ok
           /\ StopAttaching
        \/ /\ Free(l)
           /\ Assign(l, NoReason, 0)
           /\ UNCHANGED ok
           /\ StopAttaching

PendingClause ==
  /\ TakePending
  /\ UNCHANGED ok
  /\ LET c == Head(pending) IN \E w0, w1 \in c :
     /\ FirstTwo(c, {p \in c \X c : BetterWatch(p[1], p[2])}, w0, w1)
     /\ Attach(c, w0, w1, FALSE)
     /\ \/ /\ Holds(w0) \/ ~Fails(w1)
           /\ UNCHANGED trailVars
           /\ NextPending
        \/ /\ Free(w0) /\ Fails(w1)
           /\ Assign(w0, Len(clauses) + 1,
                     ImpliedLevel(c \ {w0}, DecisionLevel))
           /\ StopAttaching
        \/ /\ Fails(w0)
           /\ pc' = "conflict" /\ confl' = Len(clauses) + 1
           /\ UNCHANGED <<trailVars, verdict, todo, analysisVars, theoryVars>>

-----------------------------------------------------------------------------
(* propagate: visit the clauses that watch the complement of each literal  *)
(* of the trail.  todo stands for the part of the list not yet visited.    *)

Propagating == /\ pc = "bcp"
               /\ UNCHANGED <<ok, nvars, maxLearnt, passVars, pending, run,
                              analysisVars, theoryVars, verdict, apiVars>>

\* Take the next literal of the trail.
PropagateNext ==
  /\ Propagating
  /\ todo = {} /\ qhead < Len(trail)
  /\ qhead' = qhead + 1
  /\ todo' = watches[trail[qhead + 1]]
  /\ UNCHANGED <<dbVars, trail, lims, level, reason, heap, stable, pc, confl>>

\* The literal being propagated: its complement is the false watch.
Propagated == trail[qhead]
OtherWatch(c) == IF c.w0 = -Propagated THEN c.w1 ELSE c.w0

\* The false watch of clause cref is put at position 1.
Reordered(cref) ==
  [clauses EXCEPT ![cref].w0 = OtherWatch(clauses[cref]),
                  ![cref].w1 = -Propagated]

Deleted(cref) == clauses[cref].lits = {}

\* A watch that a deleted clause left behind is dropped.
DropStaleWatch(w) ==
  /\ Propagating /\ w \in todo
  /\ Deleted(w.cref)
  /\ todo' = todo \ {w}
  /\ watches' = [watches EXCEPT ![Propagated] = @ \ {w}]
  /\ UNCHANGED <<clauses, trailVars, pc, confl>>

\* A slip: the scan does not advance.
SkipBlockedSlip(w) ==
  /\ Propagating /\ w \in todo
  /\ ~Deleted(w.cref) /\ Holds(w.blocker)
  /\ UNCHANGED <<dbVars, trailVars, pc, confl, todo>>

\* A true blocker spares reading the clause.
SkipBlocked(w) ==
  /\ Propagating /\ w \in todo
  /\ ~Deleted(w.cref) /\ Holds(w.blocker)
  /\ todo' = todo \ {w}
  /\ UNCHANGED <<dbVars, trailVars, pc, confl>>

\* The other watch is true: it becomes the blocker.
Visit(w) ==
  /\ Propagating /\ w \in todo
  /\ ~Deleted(w.cref) /\ ~Holds(w.blocker)

KeepSatisfied(w) ==
  /\ Visit(w)
  /\ LET first == OtherWatch(clauses[w.cref]) IN
     /\ Holds(first)
     /\ clauses' = Reordered(w.cref)
     /\ watches' = [watches EXCEPT ![Propagated] =
                      (@ \ {w}) \cup {[w EXCEPT !.blocker = first]}]
  /\ todo' = todo \ {w}
  /\ UNCHANGED <<trailVars, pc, confl>>

\* The literals of clause cref that could replace the false watch.
Replacements(cref) ==
  {l \in clauses[cref].lits \ {OtherWatch(clauses[cref]), -Propagated} :
     ~Fails(l)}

MoveWatch(w) ==
  /\ Visit(w)
  /\ LET first == OtherWatch(clauses[w.cref]) IN
     /\ ~Holds(first)
     /\ \E l \in Replacements(w.cref) :
          /\ clauses' = [clauses EXCEPT ![w.cref].w0 = first,
                                        ![w.cref].w1 = l]
          /\ watches' = [watches EXCEPT
               ![Propagated] = @ \ {w},
               ![-l] = @ \cup {[cref |-> w.cref, blocker |-> first]}]
  /\ todo' = todo \ {w}
  /\ UNCHANGED <<trailVars, pc, confl>>

ImplyUnit(w) ==
  /\ Visit(w)
  /\ LET c == clauses[w.cref]
         first == OtherWatch(c) IN
     /\ Free(first) /\ Replacements(w.cref) = {}
     /\ clauses' = Reordered(w.cref)
     /\ Assign(first, w.cref, ImpliedLevel(c.lits \ {first}, DecisionLevel))
  /\ todo' = todo \ {w}
  /\ UNCHANGED <<watches, pc, confl>>

FindConflict(w) ==
  /\ Visit(w)
  /\ Fails(OtherWatch(clauses[w.cref])) /\ Replacements(w.cref) = {}
  /\ clauses' = Reordered(w.cref)
  /\ qhead' = Len(trail)
  /\ todo' = {}
  /\ confl' = w.cref /\ pc' = "conflict"
  /\ UNCHANGED <<watches, trail, lims, level, reason, heap, stable>>

-----------------------------------------------------------------------------
(* theory_pass: the online theory hook, at the Boolean fixpoint.           *)

AtFixpoint == pc = "bcp" /\ todo = {} /\ qhead = Len(trail)

Watched(l) == VarOf(l) \in WatchedVars

\* A slip: a backtrack is no reason to consult the theory again.
TheoryDueSlip ==
  WatchAll \/ \E i \in (stable + 1)..Len(trail) : Watched(trail[i])

\* theory_due
TheoryDue ==
  \/ WatchAll
  \/ stable < seenLen
  \/ \E i \in (stable + 1)..Len(trail) : Watched(trail[i])

ConsultsTheory ==
  run.theory /\ DecisionLevel >= Len(run.assume) /\ TheoryDue

\* The hook's contract: an implication's reasons hold and entail it in the
\* theory, the literals of a conflict hold and are inconsistent in it.  An
\* implication of a literal that holds changes nothing and is left out.
Entails(R, p) == \A m \in TheoryModels : R \subseteq m => p \in m
Implications ==
  {[lit |-> p, why |-> R] : p \in TheoryLits,
                            R \in SUBSET (Range(trail) \cap TheoryLits)}
Answers ==
  {i \in Implications : /\ ~Holds(i.lit) /\ -i.lit \notin i.why
                        /\ i.why = {} => EmptyReasons
                        /\ Entails(i.why, i.lit)}
Conflicts ==
  {C \in SUBSET (Range(trail) \cap TheoryLits) :
     C # {} /\ \A m \in TheoryModels : ~(C \subseteq m)}

Consult ==
  /\ AtFixpoint /\ ConsultsTheory
  /\ passTrail' = trail
  /\ seenLen' = Len(trail)
  /\ UNCHANGED <<ok, nvars, maxLearnt, pending, run, todo, analysisVars,
                 verdict, apiVars>>

\* attach_conflict_clause: backjump to the highest level of the all-false
\* clause c, watch two literals of the highest levels, and analyze it.
AttachConflict(c, stableNow) ==
  \E top \in {Lv(l) : l \in c} :
    /\ \A l \in c : Lv(l) <= top
    /\ trail' = TrailAfter(top)
    /\ reason' = ReasonsAfter(top)
    /\ lims' = LimsAfter(top)
    /\ heap' = heap \cup Undone(top)
    /\ qhead' = QheadAfter(top)
    /\ stable' = StableAfter(top, stableNow)
    /\ UNCHANGED level
    /\ \E w0, w1 \in c :
         /\ FirstTwo(c, {p \in c \X c : Lv(p[1]) >= Lv(p[2])}, w0, w1)
         /\ Attach(c, w0, w1, TRUE)
    /\ confl' = Len(clauses) + 1 /\ pc' = "conflict"

\* The hook returns a conflict; one of a single literal is ignored, which
\* TheoryAnswer covers.
TheoryConflict ==
  /\ Consult
  /\ \E C \in Conflicts :
       /\ Cardinality(C) >= 2
       /\ AttachConflict(Negation(C), Len(trail))
  /\ UNCHANGED theoryVars

\* The hook returns implications, or only a conflict that
\* attach_conflict_clause refuses.
TheoryAnswer ==
  /\ Consult
  /\ answer' \in {A \in SUBSET Answers : Cardinality(A) <= MaxImplied}
  /\ progress' = FALSE
  /\ stable' = Len(trail)
  /\ pc' = "theory"
  /\ UNCHANGED <<dbVars, trail, lims, level, reason, heap, qhead, confl>>

Answering == /\ pc = "theory"
             /\ UNCHANGED <<maxLearnt, passVars, pending, run, todo,
                            analysisVars, apiVars>>

\* ensure_var of the implied literal, for actions that leave the heap alone.
Allocate(l) == nvars' = VarsAfter({l})

\* The rest of the answer is dropped: back to the head of the loop.
LeavePass(next) ==
  /\ pc' = next
  /\ answer' = {} /\ progress' = FALSE

\* An implication met after an earlier one of the answer made it hold.
ImpliedHolds(i) ==
  /\ Answering /\ i \in answer /\ Holds(i.lit)
  /\ answer' = answer \ {i}
  /\ UNCHANGED <<ok, nvars, dbVars, trailVars, pc, confl, progress, verdict>>

\* A valid literal assigned false: undo that assignment and assert it.
ValidFails(i) ==
  /\ Answering /\ i \in answer
  /\ i.why = {} /\ Fails(i.lit)
  /\ UNCHANGED <<nvars, dbVars, confl>>
  /\ \/ /\ Lv(i.lit) = 0
        /\ ok' = FALSE
        /\ pc' = "idle" /\ verdict' = "unsat"
        /\ answer' = {} /\ progress' = FALSE
        /\ UNCHANGED trailVars
     \/ /\ Lv(i.lit) > 0
        /\ CancelAndAssign(Lv(i.lit) - 1, i.lit, NoReason, 0)
        /\ LeavePass(IF pending = <<>> THEN "bcp" ELSE "attach")
        /\ UNCHANGED <<ok, verdict>>

\* An implied literal that is false: its clause is a conflict.
ImpliedFails(i) ==
  /\ Answering /\ i \in answer
  /\ i.why # {} /\ Fails(i.lit)
  /\ AttachConflict({i.lit} \cup Negation(i.why), stable)
  /\ answer' = {} /\ progress' = FALSE
  /\ UNCHANGED <<ok, nvars, verdict>>

\* A valid literal still free becomes a level-0 fact where it stands.
ValidAssigned(i) ==
  /\ Answering /\ i \in answer
  /\ i.why = {} /\ Free(i.lit)
  /\ Allocate(i.lit)
  /\ trail' = Append(trail, i.lit)
  /\ level' = [level EXCEPT ![VarOf(i.lit)] = 0]
  /\ reason' = [reason EXCEPT ![VarOf(i.lit)] = NoReason]
  /\ heap' = heap \cup NewVars({i.lit})
  /\ answer' = answer \ {i} /\ progress' = TRUE
  /\ UNCHANGED <<ok, dbVars, lims, qhead, stable, pc, confl, verdict>>

\* An implied literal still free: its clause is attached, watching the
\* literal and a highest-level reason, and the literal is enqueued.
ImpliedAssigned(i) ==
  /\ Answering /\ i \in answer
  /\ i.why # {} /\ Free(i.lit)
  /\ Allocate(i.lit)
  /\ LET others == Negation(i.why) IN
     /\ \E w \in others :
          /\ \A x \in others : Lv(x) <= Lv(w)
          /\ Attach({i.lit} \cup others, i.lit, w, TRUE)
     /\ trail' = Append(trail, i.lit)
     /\ level' = [level EXCEPT ![VarOf(i.lit)] =
                    ImpliedLevel(others, DecisionLevel)]
     /\ reason' = [reason EXCEPT ![VarOf(i.lit)] = Len(clauses) + 1]
  /\ heap' = heap \cup NewVars({i.lit})
  /\ answer' = answer \ {i} /\ progress' = TRUE
  /\ UNCHANGED <<ok, lims, qhead, stable, pc, confl, verdict>>

\* The whole answer is processed.
EndPass ==
  /\ Answering /\ answer = {}
  /\ LeavePass(IF ~progress THEN "branch"
               ELSE IF pending = <<>> THEN "bcp" ELSE "attach")
  /\ UNCHANGED <<ok, nvars, dbVars, trailVars, confl, verdict>>

-----------------------------------------------------------------------------
(* Conflicts.                                                              *)

Chronological == Resumable /\ run.assume = <<>>
ConflictClause == clauses[confl]
ConflictLevel == Max({0} \cup {Lv(l) : l \in ConflictClause.lits})
TopLits == {l \in ConflictClause.lits : Lv(l) = ConflictLevel}

Conflicting == /\ pc = "conflict"
               /\ UNCHANGED <<nvars, maxLearnt, passVars, pending, run,
                              theoryVars, apiVars>>

\* A clause false at level 0 is a contradiction.
RootConflict ==
  /\ Conflicting
  /\ IF Chronological THEN ConflictLevel = 0 ELSE DecisionLevel = 0
  /\ ok' = FALSE
  /\ Return("unsat")
  /\ UNCHANGED <<dbVars, trailVars>>

\* conflict_level, one literal of the top level: it is moved to position 0
\* and watched, and the clause is unit just below that level.
UnitBelow ==
  /\ Conflicting /\ Chronological /\ ConflictLevel > 0
  /\ \E u \in TopLits :
     /\ TopLits = {u}
     /\ LET c == ConflictClause
            other == IF u = c.w0 THEN c.w1 ELSE c.w0
        IN /\ clauses' = [clauses EXCEPT ![confl].w0 = u, ![confl].w1 = other]
           /\ watches' =
                IF u \in {c.w0, c.w1} THEN watches
                ELSE [watches EXCEPT
                  ![-c.w1] = {w \in @ : w.cref # confl},
                  ![-u] = @ \cup {[cref |-> confl, blocker |-> c.w0]}]
           /\ CancelAndAssign(ConflictLevel - 1, u, confl,
                ImpliedLevel(c.lits \ {u}, ConflictLevel - 1))
  /\ confl' = NoReason
  /\ ToLoopHead
  /\ UNCHANGED <<ok, verdict, todo, analysisVars>>

\* Enter analyze: mark the literals of the conflict above level 0.
StartAnalysis ==
  /\ Conflicting
  /\ UNCHANGED <<ok, dbVars, verdict, todo, uip>>
  /\ \/ /\ Chronological /\ ConflictLevel > 0
        /\ Cardinality(TopLits) > 1
        /\ CancelUntil(ConflictLevel)
     \/ /\ ~Chronological /\ DecisionLevel > 0
        /\ UNCHANGED trailVars
  /\ resolvent' = {l \in ConflictClause.lits : Lv(l) > 0}
  /\ cursor' = Len(trail') + 1
  /\ confl' = NoReason
  /\ pc' = "analyze"

\* The literals of the resolvent at the current level, path_c in number.
Open == {l \in resolvent : Lv(l) >= DecisionLevel}

\* The trail positions below the cursor analyze may resolve on.
OpenBelow == {i \in 1..(cursor - 1) : -trail[i] \in Open}

Analyzing == /\ pc = "analyze"
             /\ UNCHANGED <<ok, nvars, dbVars, maxLearnt, trailVars, passVars,
                            pending, run, todo, confl, theoryVars, verdict,
                            apiVars>>

\* The most recent open literal is the last one: the first UIP.
FindUIP ==
  /\ Analyzing
  /\ \E i \in OpenBelow :
     /\ \A j \in OpenBelow : j <= i
     /\ Open = {-trail[i]}
     /\ uip' = -trail[i] /\ cursor' = 0
  /\ pc' = "learn"
  /\ UNCHANGED resolvent

\* A slip: analyze marks the literals of the conflict level only.
AntecedentsSlip(r) ==
  {l \in clauses[r].lits \ {clauses[r].w0} : Lv(l) >= DecisionLevel}

\* The literals of antecedent r that analyze marks: all but position 0 and
\* the level-0 ones.
Antecedents(r) == {l \in clauses[r].lits \ {clauses[r].w0} : Lv(l) > 0}

\* Otherwise it is resolved away with its reason, whose position 0 it is.
Resolve ==
  /\ Analyzing
  /\ \E i \in OpenBelow :
     /\ \A j \in OpenBelow : j <= i
     /\ Open # {-trail[i]}
     /\ reason[VarOf(trail[i])] # NoReason
     /\ resolvent' = (resolvent \ {-trail[i]})
                       \cup Antecedents(reason[VarOf(trail[i])])
     /\ cursor' = i
  /\ UNCHANGED <<pc, uip>>

\* The code indexes out of bounds: no open literal is left on the trail, or
\* the one to resolve on has no reason.
AnalysisPanics ==
  /\ Analyzing
  /\ \A i \in OpenBelow :
       \/ \E j \in OpenBelow : j > i
       \/ Open # {-trail[i]} /\ reason[VarOf(trail[i])] = NoReason
  /\ pc' = "panic"
  /\ resolvent' = {} /\ cursor' = 0 /\ uip' = 0

BackjumpLevel == Max({0} \cup {Lv(l) : l \in resolvent \ {uip}})

Learning == /\ pc = "learn"
            /\ UNCHANGED <<ok, nvars, maxLearnt, passVars, pending, run,
                           theoryVars, apiVars>>

\* The backjump would undo an assumption.
AssumptionConflict ==
  /\ Learning
  /\ BackjumpLevel < Len(run.assume)
  /\ CancelUntil(0)
  /\ Return("unsat")
  /\ UNCHANGED dbVars

\* The level search() backtracks to.
BacktrackLevel ==
  IF Chronological /\ DecisionLevel - BackjumpLevel > ChronoLevels
    THEN DecisionLevel - 1
    ELSE BackjumpLevel

\* Backtrack, attach the learnt clause, and assert its literal.
Learn ==
  /\ Learning
  /\ BackjumpLevel >= Len(run.assume)
  /\ LET others == resolvent \ {uip} IN
     \/ /\ others = {}
        /\ CancelAndAssign(BacktrackLevel, uip, NoReason, 0)
        /\ UNCHANGED dbVars
     \/ \E w \in others :
        /\ Lv(w) = BackjumpLevel
        /\ Attach(resolvent, uip, w, TRUE)
        /\ CancelAndAssign(BacktrackLevel, uip, Len(clauses) + 1,
             ImpliedLevel(others, BacktrackLevel))
  /\ pc' = "account"
  /\ resolvent' = {} /\ uip' = 0
  /\ UNCHANGED <<verdict, todo, confl, cursor>>

\* The Luby sequence, 1-indexed.
Luby[i \in Nat \ {0}] ==
  LET k == CHOOSE n \in 1..i : 2^(n - 1) <= i /\ i < 2^n IN
  IF i = 2^k - 1 THEN 2^(k - 1) ELSE Luby[i - (2^(k - 1) - 1)]

\* Conflict counters: out of budget, restart, or go on.
Account ==
  /\ pc = "account"
  /\ UNCHANGED <<ok, nvars, dbVars, maxLearnt, passVars, pending, theoryVars,
                 analysisVars, todo, confl, apiVars>>
  /\ LET spent == run.spent + 1
         since == run.since + 1
     IN \/ /\ spent > run.limit
           /\ CancelUntil(0)
           /\ pc' = "idle" /\ verdict' = "unknown"
           /\ run' = [run EXCEPT !.spent = spent]
        \/ /\ spent <= run.limit
           /\ since >= Luby[run.luby] * RestartUnit
           /\ CancelUntil(Len(run.assume))
           /\ run' = [run EXCEPT !.spent = spent, !.since = 0, !.luby = @ + 1]
           /\ pc' = "reduce"
           /\ UNCHANGED verdict
        \/ /\ spent <= run.limit
           /\ since < Luby[run.luby] * RestartUnit
           /\ run' = [run EXCEPT !.spent = spent, !.since = since]
           /\ ToLoopHead
           /\ UNCHANGED <<trailVars, verdict>>

LiveLearnt == {c \in DOMAIN clauses : clauses[c].learnt /\ ~Deleted(c)}

\* locked: the clause is the reason of the literal at its position 0.
Locked(c) == /\ Holds(clauses[c].w0)
             /\ reason[VarOf(clauses[c].w0)] = c

\* reduce_db after a restart: half of the unlocked learnt clauses go, the
\* least active ones (any half here), and the cap grows.
Reduce ==
  /\ pc = "reduce"
  /\ UNCHANGED <<ok, nvars, watches, trailVars, passVars, pending, run, todo,
                 confl, analysisVars, theoryVars, verdict, apiVars>>
  /\ ToLoopHead
  /\ IF Cardinality(LiveLearnt) > maxLearnt
       THEN /\ LET free == {c \in LiveLearnt : ~Locked(c)} IN
               \E gone \in SUBSET free :
                 /\ Cardinality(gone) = Cardinality(free) \div 2
                 /\ clauses' = [c \in DOMAIN clauses |->
                      IF c \in gone THEN [clauses[c] EXCEPT !.lits = {}]
                      ELSE clauses[c]]
            /\ maxLearnt' = maxLearnt + maxLearnt \div 2
       ELSE UNCHANGED <<clauses, maxLearnt>>

-----------------------------------------------------------------------------
(* Branching, once propagation and the theory have nothing to add.         *)

Branching ==
  /\ \/ pc = "branch"
     \/ AtFixpoint /\ ~ConsultsTheory
  /\ UNCHANGED <<ok, nvars, dbVars, maxLearnt, passVars, pending, run, apiVars>>

\* Open a decision level, and assign l in it.
OpenLevel(l) ==
  /\ lims' = Append(lims, Len(trail))
  /\ trail' = Append(trail, l)
  /\ level' = [level EXCEPT ![VarOf(l)] = DecisionLevel + 1]
  /\ reason' = [reason EXCEPT ![VarOf(l)] = NoReason]

\* The next assumption takes a decision level of its own.
PlaceAssumption ==
  /\ Branching /\ DecisionLevel < Len(run.assume)
  /\ LET a == run.assume[DecisionLevel + 1] IN
     \/ /\ Fails(a)
        /\ CancelUntil(0)
        /\ Return("unsat")
     \/ /\ Holds(a)
        /\ lims' = Append(lims, Len(trail))
        /\ ToLoopHead
        /\ UNCHANGED <<trail, level, reason, heap, qhead, stable, verdict,
                       todo, confl, analysisVars, theoryVars>>
     \/ /\ Free(a)
        /\ OpenLevel(a)
        /\ ToLoopHead
        /\ UNCHANGED <<heap, qhead, stable, verdict, todo, confl,
                       analysisVars, theoryVars>>

\* pick_branch_var: pop the heap down to an unassigned variable.  Assigned
\* variables met on the way are dropped; all of them are here, so that each
\* must be put back by what unassigns it.
Decide ==
  /\ Branching /\ DecisionLevel >= Len(run.assume)
  /\ \E v \in heap \ Assigned :
       /\ heap' = heap \ ({v} \cup Assigned)
       /\ \E l \in {v, -v} : OpenLevel(l)
  /\ ToLoopHead
  /\ UNCHANGED <<qhead, stable, verdict, todo, confl, analysisVars, theoryVars>>

\* The heap holds no unassigned variable: the assignment is a model.
AnswerSat ==
  /\ Branching /\ DecisionLevel >= Len(run.assume)
  /\ heap \subseteq Assigned
  /\ heap' = {}
  /\ Return("sat")
  /\ UNCHANGED <<trail, lims, level, reason, qhead, stable>>

-----------------------------------------------------------------------------

Call ==
  \/ MkVar
  \/ \E c \in Range(Pool) : AddIgnored(c) \/ AddDeferred(c) \/ AddAtRoot(c)
  \/ ResetTheory
  \/ \E assume \in AssumptionLists, limit \in ConflictLimits,
       theory \in TheoryCalls : Solve(assume, limit, theory)

AttachPending == PendingUnit \/ PendingClause

Propagate ==
  \/ PropagateNext
  \/ \E w \in todo : \/ DropStaleWatch(w) \/ SkipBlocked(w)
                     \/ KeepSatisfied(w) \/ MoveWatch(w)
                     \/ ImplyUnit(w) \/ FindConflict(w)

TheoryPass ==
  \/ TheoryConflict \/ TheoryAnswer
  \/ \E i \in answer : \/ ImpliedHolds(i) \/ ValidFails(i) \/ ImpliedFails(i)
                       \/ ValidAssigned(i) \/ ImpliedAssigned(i)
  \/ EndPass

HandleConflict ==
  \/ RootConflict \/ UnitBelow \/ StartAnalysis
  \/ Resolve \/ FindUIP \/ AnalysisPanics
  \/ AssumptionConflict \/ Learn \/ Account \/ Reduce

Branch == PlaceAssumption \/ Decide \/ AnswerSat

SearchStep == AttachPending \/ Propagate \/ TheoryPass \/ HandleConflict \/ Branch

Next == Call \/ SearchStep

Spec == Init /\ [][Next]_vars

\* A search is a loop of one thread: it keeps running.
FairSpec == Spec /\ WF_vars(SearchStep)

-----------------------------------------------------------------------------
(* What the solver promises.                                               *)

\* The assignments that satisfy the theory and every clause added.
Models == {m \in TheoryModels : \A c \in inputs : c \cap m # {}}
Entailed(c) == \A m \in Models : c \cap m # {}

\* Types of the variables.
TypeOK ==
  /\ ok \in BOOLEAN /\ nvars \in 0..NumVars
  /\ clauses \in Seq(Clause)
  /\ watches \in [Lit -> SUBSET Watch]
  /\ maxLearnt \in Nat
  /\ trail \in Seq(Lit) /\ lims \in Seq(Nat)
  /\ level \in [Var -> Nat] /\ reason \in [Var -> Nat]
  /\ heap \subseteq Var
  /\ qhead \in Nat /\ stable \in Nat /\ seenLen \in Nat
  /\ pending \in Seq(SUBSET Lit)
  /\ pc \in Phases /\ run \in Search
  /\ todo \subseteq Watch /\ confl \in Nat
  /\ resolvent \subseteq Lit /\ cursor \in Nat /\ uip \in Lit \cup {0}
  /\ answer \subseteq [lit : Lit, why : SUBSET Lit] /\ progress \in BOOLEAN
  /\ verdict \in Verdicts
  /\ inputs \subseteq SUBSET Lit /\ passTrail \in Seq(Lit)
  /\ offered \in 0..Len(Pool) /\ solves \in Nat

\* Every live clause is in exactly the watch lists of the complements of its
\* first two literals, once in each, and the blocker kept there is one of its
\* own literals (a foreign blocker would hide a falsified clause).
WatchesExact ==
  \A i \in DOMAIN clauses : ~Deleted(i) =>
    \A l \in Lit :
      LET entries == {w \in watches[l] : w.cref = i} IN
      IF -l \in {clauses[i].w0, clauses[i].w1}
        THEN /\ Cardinality(entries) = 1
             /\ \A w \in entries : w.blocker \in clauses[i].lits
        ELSE entries = {}

\* The antecedent of an assigned variable is a live clause that has the
\* variable's true literal at position 0 and only literals falsified earlier
\* on the trail besides: what analyze resolves on without looking again.
ReasonsImply ==
  \A j \in DOMAIN trail :
    LET r == reason[VarOf(trail[j])] IN
    r # NoReason =>
      /\ r \in DOMAIN clauses /\ ~Deleted(r)
      /\ clauses[r].w0 = trail[j]
      /\ \A q \in clauses[r].lits \ {trail[j]} :
           \E i \in 1..(j - 1) : trail[i] = -q

\* Every literal belongs to the decision level whose segment holds it, or to
\* a lower one, so a backjump never keeps what depends on a retracted literal.
LevelsFit ==
  /\ \A i \in DOMAIN trail :
       Lv(trail[i]) <= Cardinality({d \in DOMAIN lims : lims[d] < i})
  /\ \A j \in DOMAIN trail :
       LET r == reason[VarOf(trail[j])] IN
       r # NoReason => \A q \in clauses[r].lits : Lv(q) <= Lv(trail[j])

\* Each clause of the database, learnt by resolution or given by the theory,
\* and each literal assigned at level 0 follows from the clauses added and
\* the theory: learning never loses a model.
LemmasEntailed ==
  /\ \A i \in DOMAIN clauses : ~Deleted(i) => Entailed(clauses[i].lits)
  /\ \A l \in Range(trail) : Lv(l) = 0 => Entailed({l})

\* At a propagation fixpoint every clause of the database is satisfied or has
\* two unassigned literals: no implication or conflict is missed.
PropagationComplete ==
  AtFixpoint => \A i \in DOMAIN clauses :
    \/ Deleted(i)
    \/ \E l \in clauses[i].lits : Holds(l)
    \/ Cardinality({l \in clauses[i].lits : Free(l)}) >= 2

\* Nor does a fixpoint ever leave a clause false.  Backtracking
\* chronologically this is all propagation promises: a literal may be implied
\* late, at a level above its antecedent's.
NothingFalsified ==
  AtFixpoint => \A i \in DOMAIN clauses :
    Deleted(i) \/ \E l \in clauses[i].lits : ~Fails(l)

\* "On Sat, the assignment is a model": every allocated variable has a value,
\* and every clause added so far, queued ones included, and every assumption
\* holds.
SatIsModel ==
  verdict = "sat" =>
    /\ Known \subseteq Assigned
    /\ \A c \in inputs : \E l \in c : Holds(l)
    /\ \A i \in DOMAIN run.assume : Holds(run.assume[i])

\* Unsat without assumptions means that no assignment satisfies the clauses
\* and the theory, and the solver only turns itself off in that case.
UnsatIsReal ==
  (verdict = "unsat" /\ run.assume = <<>>) \/ ~ok => Models = {}

\* Unsat under assumptions means that no assignment satisfies the clauses, the
\* theory and the assumptions.
UnsatUnderAssumptions ==
  verdict = "unsat" => ~\E m \in Models : Range(run.assume) \subseteq m

\* Every unassigned variable is in the decision heap, whatever was popped,
\* retracted and kept before: otherwise a search answers Sat too early.
HeapComplete == Known \ Assigned \subseteq heap

\* The trail prefix the theory is told is unchanged since its last pass is.
StablePrefix ==
  /\ stable <= Len(trail) /\ stable <= Len(passTrail)
  /\ SubSeq(trail, 1, stable) = SubSeq(passTrail, 1, stable)

\* A search with a theory answers Sat only once the theory has seen every
\* literal that concerns it and nothing of what it saw was retracted since.
TheorySawModel ==
  verdict = "sat" /\ run.theory =>
    /\ Range(passTrail) \subseteq Range(trail)
    /\ \A l \in Range(trail) : WatchAll \/ Watched(l) => l \in Range(passTrail)

\* What a search concludes is sound: antecedents imply, levels fit, every
\* clause learnt or given and every literal of level 0 is entailed, and Unsat
\* without assumptions is real.
SearchSound == ReasonsImply /\ LevelsFit /\ LemmasEntailed /\ UnsatIsReal

\* And it overlooks nothing: the watch lists and the decision heap are exact,
\* a fixpoint misses no implication, and Sat comes with a model.
SearchComplete ==
  WatchesExact /\ PropagationComplete /\ HeapComplete /\ SatIsModel

\* Both answers are right, and the solver turns itself off only for a reason.
VerdictsRight == SatIsModel /\ UnsatIsReal

\* A search that backtracks chronologically and consults a theory: what it
\* concludes is sound, a fixpoint leaves no clause false, and the theory has
\* seen the model it answers with.
TheoryRight == SearchSound /\ NothingFalsified /\ TheorySawModel

\* Every search ends, although restarts forget the trail and reduce_db
\* forgets learnt clauses.
Termination == pc # "idle" ~> pc = "idle"

=============================================================================
