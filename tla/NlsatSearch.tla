------------------------------ MODULE NlsatSearch ------------------------------
(***************************************************************************)
(* The search of the nonlinear solver (src/src/nlsat/solver.rs): Boolean   *)
(* variables first, then one stage per arithmetic variable.  In its stage  *)
(* a variable's clauses are satisfied by literals whose infeasible sets    *)
(* leave a value; a conflict is resolved along the trail, with conflicts   *)
(* of the arithmetic explained by a cell of the lower variables, and the   *)
(* lemma takes the search back.  A variable ranges over the cells of       *)
(* NlsatIntervals; a polynomial is the roots and signs it has above each   *)
(* point of the lower variables.                                           *)
(***************************************************************************)
EXTENDS NlsatIntervals, FiniteSets, TLC

CONSTANTS
    NumVars,       \* the arithmetic variables are 1 .. NumVars
    NumBools,      \* the pure Boolean variables are 1 .. NumBools
    Atoms,         \* the atoms of the Boolean variables after these, in literal order
    Problems,      \* the inputs explored: sequences of clauses
    Ints,          \* the integer variables
    Zero           \* the cell of the value zero

\* The points a cell of the variables below x can be.
Lower(x) == [1 .. x - 1 -> Cells]

\* x = i, x < i or x > i: what the cells of an explanation are made of.
Comparison(x, kind, i) ==
    [x |-> x, kind |-> kind, roots |-> [p \in Lower(x) |-> <<i>>],
     signs |-> [p \in Lower(x) |-> <<-1, 1>>]]

BoolVars == 1 .. NumBools + Len(Atoms)
Atom(b) == Atoms[b - NumBools]
IsAtom(b) == b > NumBools

ASSUME NlsatAssumption ==
    /\ NumVars \in Nat /\ NumBools \in Nat /\ Zero \in Cells /\ Ints \subseteq 1 .. NumVars
    /\ \A y \in 1 .. NumVars, k \in Kinds, i \in 1 .. Points :
          \E a \in DOMAIN Atoms : Atoms[a] = Comparison(y, k, i)
    /\ \A a, b \in DOMAIN Atoms : a < b =>
          \/ Atoms[a].x < Atoms[b].x
          \/ Atoms[a].x = Atoms[b].x /\ (Atoms[a].kind = "Eq" => Atoms[b].kind = "Eq")
    /\ \A p \in Problems : \A c \in DOMAIN p : \A i \in DOMAIN p[c] :
          p[c][i] # 0 /\ -NumBools - Len(Atoms) <= p[c][i] /\ p[c][i] \in Int

\* A literal is a variable or its negative.
Abs(l) == IF l < 0 THEN -l ELSE l
Neg(l) == l < 0
Lits(s) == {s[i] : i \in DOMAIN s}

\* 0 stands for the Boolean variables' stage; a clause belongs to its last variable.
MaxVar(l) == IF IsAtom(Abs(l)) THEN Atom(Abs(l)).x ELSE 0
Largest(S) == IF S = {} THEN 0 ELSE CHOOSE n \in S : \A m \in S : m <= n
ClauseVar(c) == Largest({MaxVar(l) : l \in Lits(c)})

VARIABLES
    sol,           \* the assignment, its trail and the infeasible sets
    clauses,       \* the input, then the lemmas
    numInput,
    pc,            \* where the loops are
    todo,          \* the clauses left to process in this stage
    conflict,      \* the conflicting clause being resolved
    marks, numMarks, lemma, top, decided

vars == <<sol, clauses, numInput, pc, todo, conflict, marks, numMarks, lemma, top, decided>>
resolution == <<conflict, marks, numMarks, lemma, top, decided>>

\* Where a variable, a value or an interval set is missing.
None == -1

Init ==
    /\ clauses \in Problems /\ numInput = Len(clauses)
    /\ sol = [value |-> [b \in BoolVars |-> 0], level |-> [b \in BoolVars |-> None],
              just |-> [b \in BoolVars |-> [kind |-> "none"]], trail |-> << >>, scope |-> 0,
              infeasible |-> [x \in 1 .. NumVars |-> EmptySet],
              assignment |-> [x \in 1 .. NumVars |-> None], xk |-> 0, bk |-> 1]
    /\ pc = "stage" /\ todo = << >> /\ conflict = << >>
    /\ marks = {} /\ numMarks = 0 /\ lemma = << >> /\ top = 0 /\ decided = FALSE

-----------------------------------------------------------------------------
(* Values *)

\* The value of a literal: 1, -1, or 0 if it is not assigned.
AssignedValue(s, l) == IF Neg(l) THEN -s.value[Abs(l)] ELSE s.value[Abs(l)]

\* Whether a literal of an atom holds when its variable has the value c.
HoldsAt(l, below, c) ==
    LET a == Atom(Abs(l))
        roots == a.roots[below]
        sign == IF c % 2 = 1 /\ \E i \in DOMAIN roots : 2 * roots[i] - 1 = c THEN 0
                ELSE a.signs[below][Cardinality({i \in DOMAIN roots : 2 * roots[i] - 1 < c}) + 1]
    IN  Satisfied(sign, a.kind) # Neg(l)

Below(s, x) == [y \in 1 .. x - 1 |-> s.assignment[y]]

Value(s, l) ==
    LET x == MaxVar(l)
    IN  IF AssignedValue(s, l) # 0 \/ x = 0 \/ (x > 0 /\ s.assignment[x] = None)
        THEN AssignedValue(s, l)
        ELSE IF HoldsAt(l, Below(s, x), s.assignment[x]) THEN 1 ELSE -1

InfeasibleIntervals(s, l) ==
    LET a == Atom(Abs(l))
        p == Below(s, a.x)
    IN  SignInfeasible(a.kind, Neg(l), a.roots[p], a.signs[p], l)

-----------------------------------------------------------------------------
(* The trail *)

Push(s, entry) == [s EXCEPT !.trail = Append(@, entry)]

SetLiteralTrue(s, l, j) ==
    LET b == Abs(l)
    IN  Push([s EXCEPT !.value[b] = IF Neg(l) THEN -1 ELSE 1, !.level[b] = s.scope, !.just[b] = j],
             [kind |-> "assign", b |-> b])

NewLevel(s) == Push([s EXCEPT !.scope = @ + 1], [kind |-> "level"])
NewStage(s) == Push([s EXCEPT !.xk = @ + 1], [kind |-> "stage"])
Decide(s, l) == SetLiteralTrue(NewLevel(s), l, [kind |-> "decision"])

\* One entry taken back.
Undone(s, e) ==
    CASE e.kind = "assign" ->
            [s EXCEPT !.value[e.b] = 0, !.level[e.b] = None, !.just[e.b] = [kind |-> "none"],
                      !.bk = IF ~IsAtom(e.b) /\ (@ = None \/ e.b < @) THEN e.b ELSE @]
      [] e.kind = "infeasible" -> [s EXCEPT !.infeasible[s.xk] = e.old]
      [] e.kind = "stage" ->
            [s EXCEPT !.xk = @ - 1,
                      !.assignment = IF s.xk > 1 THEN [@ EXCEPT ![s.xk - 1] = None] ELSE @]
      [] e.kind = "level" -> [s EXCEPT !.scope = @ - 1]

\* All entries after the first n taken back, the last first.
RECURSIVE UndoTo(_, _)
UndoTo(s, n) ==
    LET last == Len(s.trail)
    IN  IF last <= n THEN s
        ELSE UndoTo(Undone([s EXCEPT !.trail = SubSeq(@, 1, last - 1)], s.trail[last]), n)

\* The trail's length before the first entry that P holds of.
Before(s, P(_)) ==
    LET found == {i \in DOMAIN s.trail : P(i)}
    IN  IF found = {} THEN Len(s.trail) ELSE (CHOOSE i \in found : \A j \in found : i <= j) - 1

Count(s, kind, i) == Cardinality({j \in 1 .. i : s.trail[j].kind = kind})
UndoUntilLevel(s, lvl) == UndoTo(s, Before(s, LAMBDA i : Count(s, "level", i) > lvl))
UndoUntilStage(s, x) == UndoTo(s, Before(s, LAMBDA i : Count(s, "stage", i) > x))
UndoUntilUnassigned(s, b) == UndoTo(s, Before(s, LAMBDA i : s.trail[i] = [kind |-> "assign", b |-> b]))

-----------------------------------------------------------------------------
(* Processing a clause *)

\* lit_lt: by Boolean variable, which Atoms has put in order.
Sorted(c) ==
    SortSeq(c, LAMBDA l, m : Abs(l) < Abs(m) \/ (Abs(l) = Abs(m) /\ m < l))

\* The literal follows from the intervals' literals (and its own atom).
RPropagate(s, l, set, own) ==
    SetLiteralTrue(s, l, [kind |-> "lazy",
                          core |-> Justifications(set) \o (IF own THEN <<-l>> ELSE << >>)])

UpdtInfeasible(s, set) ==
    Push([s EXCEPT !.infeasible[s.xk] = Union(set, @)],
         [kind |-> "infeasible", old |-> s.infeasible[s.xk]])

IsSatisfied(s, c) == \E i \in DOMAIN c : Value(s, c[i]) = 1

\* The first undefined literal is made true: implied if it is the only one.
\* The result says whether the clause is satisfied now.
ProcessBoolean(s, id) ==
    LET undef == SelectSeq(clauses'[id], LAMBDA l : Value(s, l) = 0)
    IN  CASE Len(undef) = 0 -> [s |-> s, ok |-> FALSE]
          [] Len(undef) = 1 -> [s |-> SetLiteralTrue(s, undef[1], [kind |-> "clause", id |-> id]),
                                ok |-> TRUE]
          [] OTHER -> [s |-> Decide(s, undef[1]), ok |-> TRUE]

\* An undefined literal by the values it leaves, `curr' the ones it does not and `old'
\* those the stage has lost: all, none, none that the stage still has, all that the
\* stage still has; the first that leaves some is kept.
Weigh(r, l, curr, old) ==
    CASE curr.ivs = << >> -> [r EXCEPT !.s = RPropagate(@, l, EmptySet, TRUE), !.true = TRUE]
      [] curr.ivs # << >> /\ curr.full -> [r EXCEPT !.s = RPropagate(@, -l, EmptySet, TRUE)]
      [] OTHER ->
           IF Subset(curr, old) THEN [r EXCEPT !.s = RPropagate(@, l, old, TRUE), !.true = TRUE]
           ELSE LET all == Union(curr, old)
                IN  IF all.full THEN [r EXCEPT !.s = RPropagate(@, -l, all, FALSE)]
                    ELSE IF r.undef = 0 THEN [r EXCEPT !.undef = 1, !.lit = l, !.set = curr]
                    ELSE [r EXCEPT !.undef = @ + 1]

\* The next literal of the clause.
Consider(r, l) ==
    IF r.true \/ Value(r.s, l) = -1 THEN r
    ELSE IF Value(r.s, l) = 1 THEN [r EXCEPT !.true = TRUE]
    ELSE Weigh(r, l, InfeasibleIntervals(r.s, l), r.s.infeasible[r.s.xk])

\* The clause is true, false, or a literal of it is made true.
Settle(end, id) ==
    IF end.true \/ end.undef = 0 THEN [s |-> end.s, ok |-> end.true]
    ELSE [s |-> UpdtInfeasible(IF end.undef = 1
                               THEN SetLiteralTrue(end.s, end.lit, [kind |-> "clause", id |-> id])
                               ELSE Decide(end.s, end.lit), end.set),
          ok |-> TRUE]

ProcessArith(s, id) ==
    LET c == clauses'[id]
        Step[i \in 0 .. Len(c)] ==
            IF i = 0 THEN [s |-> s, undef |-> 0, lit |-> 0, set |-> EmptySet, true |-> FALSE]
            ELSE Consider(Step[i - 1], c[i])
    IN  Settle(Step[Len(c)], id)

ProcessClause(s, id) ==
    IF IsSatisfied(s, clauses'[id]) THEN [s |-> s, ok |-> TRUE]
    ELSE IF s.xk = 0 THEN ProcessBoolean(s, id) ELSE ProcessArith(s, id)

-----------------------------------------------------------------------------
(* The search *)

\* bwatches and watches: the clauses of the Boolean variable or of the stage.
Watched(s, cs) ==
    SelectSeq([i \in DOMAIN cs |-> i],
              LAMBDA i : /\ ClauseVar(cs[i]) = s.xk
                         /\ s.xk = 0 => Largest({Abs(l) : l \in Lits(cs[i])}) = s.bk)

PeekNextBoolVar(s) ==
    LET free == {b \in 1 .. NumBools : s.value[b] = 0 /\ b >= s.bk}
    IN  [s EXCEPT !.bk = IF @ = None \/ free = {} THEN None
                         ELSE CHOOSE b \in free : \A c \in free : b <= c]

EnterStage ==
    /\ pc = "stage"
    /\ LET peeked == PeekNextBoolVar(sol)
           s == IF sol.xk # 0 THEN NewStage(sol)
                ELSE IF peeked.bk = None THEN NewStage(peeked) ELSE peeked
       IN  /\ sol' = s
           /\ IF s.bk = None /\ s.xk > NumVars
              THEN pc' = "check" /\ todo' = << >>
              ELSE pc' = "process" /\ todo' = Watched(s, clauses)
    /\ UNCHANGED <<clauses, numInput, resolution>>

\* resolve begins: the literals of the conflicting clause.
Antecedents(s, lits, r) ==
    LET Step[i \in 0 .. Len(lits)] ==
            IF i = 0 THEN r
            ELSE LET q == Step[i - 1]
                     l == lits[i]
                     b == Abs(l)
                 IN  IF b \in q.marks THEN q
                     ELSE IF /\ AssignedValue(s, l) # 0
                             /\ s.level[b] = s.scope /\ MaxVar(l) = s.xk
                     THEN [q EXCEPT !.marks = @ \cup {b}, !.num = @ + 1]
                     ELSE [q EXCEPT !.marks = @ \cup {b}, !.lemma = Append(@, l)]
    IN  Step[Len(lits)]

Resolving(r) == marks' = r.marks /\ numMarks' = r.num /\ lemma' = r.lemma

StartResolve(s, id) ==
    /\ pc' = "resolve" /\ conflict' = id /\ top' = Len(s.trail) /\ decided' = FALSE
    /\ Resolving(Antecedents(s, clauses'[id], [marks |-> {}, num |-> 0, lemma |-> << >>]))

ProcessNext ==
    /\ pc = "process" /\ todo # << >>
    /\ UNCHANGED <<clauses, numInput>>
    /\ \E r \in {ProcessClause(sol, Head(todo))} :
           /\ sol' = r.s
           /\ IF r.ok THEN todo' = Tail(todo) /\ UNCHANGED <<pc, resolution>>
              ELSE StartResolve(r.s, Head(todo)) /\ todo' = << >>

\* The stage's clauses hold: a Boolean variable is false unless they say
\* otherwise, an arithmetic one gets a value they leave.
FinishStage ==
    /\ pc = "process" /\ todo = << >>
    /\ IF sol.xk = 0
       THEN /\ sol' = [(IF sol.value[sol.bk] = 0 THEN Decide(sol, -sol.bk) ELSE sol)
                          EXCEPT !.bk = sol.bk + 1]
            /\ pc' = "stage"
       ELSE LET values == PickInComplement(sol.infeasible[sol.xk], Zero)
            IN  IF values = {} THEN pc' = "abort" /\ UNCHANGED sol
                ELSE /\ \E c \in values : sol' = [sol EXCEPT !.assignment[sol.xk] = c]
                     /\ pc' = "stage"
    /\ UNCHANGED <<clauses, numInput, todo, resolution>>

-----------------------------------------------------------------------------
(* Conflict resolution *)

Number(y, kind, i) ==
    NumBools + (CHOOSE a \in DOMAIN Atoms : Atoms[a] = Comparison(y, kind, i))

\* find_cell_roots: a point, or the interval between two.
CellsAround(c) ==
    {<<lo, hi>> \in Cells \X Cells :
        /\ lo <= c /\ c <= hi
        /\ (lo % 2 = 0 /\ hi % 2 = 0) \/ (c % 2 = 1 /\ lo = hi)}

\* Slip: a literal is taken for a strict one whatever its kind.
FullDimensionalSlip == TRUE

\* is_full_dimensional: every literal of the input is a strict inequality or a negated
\* equality (the flag is set once, before the search).
FullDimensional ==
    \A i \in 1 .. numInput : \A l \in Lits(clauses[i]) :
        IsAtom(Abs(l)) => (Neg(l) <=> Atom(Abs(l)).kind = "Eq")

\* The literals that y is at most point i, and at least: where the input is
\* full-dimensional that it is below i, and above.
AtMost(y, i) == IF FullDimensional THEN Number(y, "Lt", i) ELSE -Number(y, "Gt", i)
AtLeast(y, i) == IF FullDimensional THEN Number(y, "Gt", i) ELSE -Number(y, "Lt", i)

\* add_cell_lits: the negated bounds of a cell, which the lemma takes to be open, or
\* closed where the input is full-dimensional.
Bounds(y, cell) ==
    IF cell[1] % 2 = 1 THEN <<-Number(y, "Eq", (cell[1] + 1) \div 2)>>
    ELSE (IF cell[1] = 0 THEN << >> ELSE <<AtMost(y, cell[1] \div 2)>>)
         \o (IF cell[2] = 2 * Points THEN << >> ELSE <<AtLeast(y, cell[2] \div 2 + 1)>>)

RECURSIVE BoundsOf(_, _)
BoundsOf(box, y) == IF y = 0 THEN << >> ELSE BoundsOf(box, y - 1) \o Bounds(y, box[y])

\* explain: a cell around the lower variables' values, over all of which the core
\* leaves its variable no value; which one depends on the polynomials projected.  The
\* ends of an interval are not looked at, whether or not its literals take them in.
Explanations(s, core) ==
    LET x == Largest({MaxVar(l) : l \in Lits(core)})
        boxes == {f \in [1 .. x - 1 -> Cells \X Cells] :
                     \A y \in 1 .. x - 1 : f[y] \in CellsAround(s.assignment[y])}
        covers(box) ==
            \A p \in Lower(x) :
               (\A y \in 1 .. x - 1 : box[y][1] <= p[y] /\ p[y] <= box[y][2])
               => \A c \in Cells : \E l \in Lits(core) : ~HoldsAt(l, p, c)
    IN  {BoundsOf(box, x - 1) : box \in {f \in boxes : covers(f)}}

\* The literal that says a decision was wrong.
Refuted(b) == -sol.value[b] * b

\* The next marked entry of the trail, the last first, replaced by its reason.
MarkStep ==
    /\ pc = "resolve" /\ numMarks > 0
    /\ LET marked == {i \in 1 .. top : sol.trail[i].kind = "assign" /\ sol.trail[i].b \in marks}
           i == Largest(marked)
           b == sol.trail[i].b
           j == sol.just[b]
           r == [marks |-> marks \ {b}, num |-> numMarks - 1, lemma |-> lemma]
           others(lits) == SelectSeq(lits, LAMBDA l : Abs(l) # b)
       IN  IF marked = {} \/ (marked # {} /\ j.kind = "none")
           THEN pc' = "abort" /\ UNCHANGED resolution
           ELSE /\ top' = i - 1
                /\ UNCHANGED <<pc, conflict>>
                /\ \/ /\ j.kind = "clause"
                      /\ Resolving(Antecedents(sol, others(clauses[j.id]), r))
                      /\ UNCHANGED decided
                   \/ /\ j.kind = "lazy"
                      /\ \E e \in Explanations(sol, j.core) :
                            Resolving(Antecedents(sol,
                                others(e \o [k \in DOMAIN j.core |-> -j.core[k]]), r))
                      /\ UNCHANGED decided
                   \/ /\ j.kind = "decision"
                      /\ decided' = TRUE
                      /\ Resolving([r EXCEPT !.lemma = Append(@, Refuted(b))])
    /\ UNCHANGED <<sol, clauses, numInput, todo>>

OnlyPreviousStages(lits) == \A l \in Lits(lits) : MaxVar(l) # sol.xk
MaxScopeLevel(lits) == Largest({sol.level[Abs(l)] : l \in {m \in Lits(lits) : AssignedValue(sol, m) = -1}})

\* No decision at this level: the resolution goes on at the last level below that
\* the lemma has a literal of.
EndMarks ==
    /\ pc = "resolve" /\ numMarks = 0
    /\ LET lvl == MaxScopeLevel(lemma)
           moved(l) == AssignedValue(sol, l) = -1 /\ sol.level[Abs(l)] = lvl /\ MaxVar(l) = sol.xk
           s == UndoUntilLevel(sol, lvl)
       IN  IF decided \/ OnlyPreviousStages(lemma)
           THEN /\ pc' = IF lemma = << >> THEN "unsat" ELSE "backjump"
                /\ UNCHANGED <<sol, top, numMarks, lemma>>
           ELSE IF lvl >= sol.scope THEN pc' = "abort" /\ UNCHANGED <<sol, top, numMarks, lemma>>
           ELSE /\ sol' = s /\ top' = Len(s.trail)
                /\ lemma' = SelectSeq(lemma, LAMBDA l : ~moved(l))
                /\ numMarks' = Len(lemma) - Len(lemma')
                /\ UNCHANGED pc
    /\ UNCHANGED <<clauses, numInput, todo, conflict, marks, decided>>

\* The last level but the decision's that the lemma has a literal of this stage at.
NewLevelOf(s, lits) ==
    LET levels == {s.level[Abs(lits[i])] : i \in {k \in 1 .. Len(lits) - 1 : MaxVar(lits[k]) = s.xk}}
    IN  IF levels = {} THEN s.scope - 1 ELSE Largest(levels)

\* The lemma takes the search back, and is processed where it is; when it is the
\* conflicting clause itself, that clause is.
Backjump ==
    /\ pc = "backjump"
    /\ LET s == IF ~decided THEN UndoUntilStage(sol, ClauseVar(lemma))
                ELSE IF ClauseVar(lemma) = 0 THEN UndoUntilUnassigned(sol, Abs(lemma[Len(lemma)]))
                ELSE UndoUntilLevel(sol, NewLevelOf(sol, lemma))
           again == /\ decided /\ Len(lemma) = Len(clauses[conflict])
                    /\ Lits(lemma) \subseteq Lits(clauses[conflict])
           id == IF again THEN conflict ELSE Len(clauses) + 1
       IN  /\ clauses' = IF again THEN clauses ELSE Append(clauses, Sorted(lemma))
           /\ \E r \in {ProcessClause(s, id)} :
              /\ sol' = r.s
              /\ IF r.ok
                 THEN /\ IF r.s.xk = 0 /\ r.s.bk = None THEN pc' = "abort" /\ todo' = << >>
                         ELSE pc' = "process" /\ todo' = Watched(r.s, clauses')
                      /\ conflict' = 0 /\ marks' = {} /\ numMarks' = 0 /\ lemma' = << >>
                      /\ top' = 0 /\ decided' = FALSE
                 ELSE /\ todo' = << >>
                      /\ IF again THEN pc' = "abort" /\ UNCHANGED resolution
                         ELSE StartResolve(r.s, id)
    /\ UNCHANGED numInput

-----------------------------------------------------------------------------
(* Branch and bound *)

\* A value between two points is no integer.
Apart(c) == c % 2 = 0 /\ c > 0 /\ c < 2 * Points

\* x <= i or x >= i + 1.
CutBetween(x, i) == Sorted(<<-Number(x, "Gt", i), -Number(x, "Lt", i + 1)>>)

\* search_check: an integer variable with a value between two points gets the
\* clause that it is not between them, and the search starts again.
Split ==
    /\ pc = "check"
    /\ LET s == UndoTo(sol, 0)
           apart == {x \in Ints : Apart(sol.assignment[x])}
           cuts[x \in 0 .. NumVars] ==
               IF x = 0 THEN << >>
               ELSE IF x \in apart THEN Append(cuts[x - 1], CutBetween(x, sol.assignment[x] \div 2))
               ELSE cuts[x - 1]
       IN  IF apart = {} THEN pc' = "sat" /\ UNCHANGED <<sol, clauses>>
           ELSE /\ clauses' = clauses \o cuts[NumVars]
                /\ sol' = [s EXCEPT !.bk = 1, !.xk = 0]
                /\ pc' = "stage"
    /\ UNCHANGED <<numInput, todo, resolution>>

Next == \/ EnterStage \/ ProcessNext \/ FinishStage
        \/ MarkStep \/ EndMarks \/ Backjump \/ Split
        \/ pc \in {"sat", "unsat"} /\ UNCHANGED vars

Spec == Init /\ [][Next]_vars

-----------------------------------------------------------------------------
(* Properties *)

\* The valuations, and those that make a clause true.
Valuations ==
    [bool : [1 .. NumBools -> BOOLEAN],
     at : {p \in [1 .. NumVars -> Cells] :
              \A x \in Ints : p[x] % 2 = 1 \/ p[x] \in {0, 2 * Points}}]
LitTrue(v, l) ==
    IF IsAtom(Abs(l)) THEN HoldsAt(l, [y \in 1 .. MaxVar(l) - 1 |-> v.at[y]], v.at[MaxVar(l)])
    ELSE v.bool[Abs(l)] # Neg(l)
ClauseTrue(v, c) == \E l \in Lits(c) : LitTrue(v, l)
Models == {v \in Valuations : \A i \in 1 .. numInput : ClauseTrue(v, clauses[i])}

LitsOfBools == BoolVars \cup {-b : b \in BoolVars}
TypeOK ==
    /\ pc \in {"stage", "process", "resolve", "backjump", "check", "sat", "unsat", "abort"}
    /\ sol.value \in [BoolVars -> {-1, 0, 1}] /\ sol.xk \in 0 .. NumVars + 1
    /\ sol.bk \in {None} \cup 1 .. NumBools + 1
    /\ sol.assignment \in [1 .. NumVars -> Cells \cup {None}]
    /\ sol.scope = Count(sol, "level", Len(sol.trail))
    /\ sol.xk = Count(sol, "stage", Len(sol.trail))
    /\ marks \subseteq BoolVars /\ top \in 0 .. Len(sol.trail)
    /\ \A i \in DOMAIN todo : todo[i] \in DOMAIN clauses
    /\ Lits(lemma) \subseteq LitsOfBools

\* Every clause learned holds wherever the input does: explanations generalise one
\* conflict to a cell, resolutions leave out the literals they resolve on, and the
\* cuts lose no integer.  A step learns one clause or a cut for each variable, so
\* the last NumVars clauses are the ones to look at.
LemmasValid ==
    \A i \in Largest({numInput, Len(clauses) - NumVars}) + 1 .. Len(clauses) : \A v \in Valuations :
        \/ ClauseTrue(v, clauses[i])
        \/ \E k \in 1 .. numInput : ~ClauseTrue(v, clauses[k])

\* unsat only of an input without a model.
UnsatRight == pc = "unsat" => Models = {}

\* sat with a model: the clauses hold at the values assigned, and the integers are
\* integral (verify_model never refuses).
SatRight ==
    pc = "sat" =>
        [bool |-> [b \in 1 .. NumBools |-> sol.value[b] = 1], at |-> sol.assignment] \in Models

\* What the resolution refuses cannot be: a marked literal is found on the trail
\* with its reason, the lemma's last level is a lower one, a clause is not false
\* again right after the jump, the uncovered line has a value, and back among the
\* Boolean variables there is one to go on with.
NeverAborts == pc # "abort"

\* A literal made true in its stage or before is true at the values chosen since:
\* the interval sets, the implied literals and the decisions agree with them.
ValuesAgree ==
    \A b \in BoolVars :
        IsAtom(b) /\ sol.value[b] # 0 /\ sol.assignment[Atom(b).x] # None
        => HoldsAt(b, Below(sol, Atom(b).x), sol.assignment[Atom(b).x]) = (sol.value[b] = 1)

\* The stage's infeasible values are those its true literals rule out, each
\* interval by the literal it names: what a lazy reason rests on.
InfeasibleJustified ==
    sol.xk \in 1 .. NumVars =>
        \A i \in DOMAIN sol.infeasible[sol.xk].ivs :
            LET iv == sol.infeasible[sol.xk].ivs[i]
            IN  /\ AssignedValue(sol, iv.just) = 1 /\ MaxVar(iv.just) = sol.xk
                /\ \A c \in CellsOf(iv) : ~HoldsAt(iv.just, Below(sol, sol.xk), c)

\* The clauses of the stages done are true, lemmas too: the search looks at a
\* clause again only when it comes back to its stage.
StagesDone ==
    \A i \in DOMAIN clauses :
        ClauseVar(clauses[i]) < sol.xk /\ pc # "backjump" /\ pc # "resolve"
        => IsSatisfied(sol, clauses[i])

\* The conflicting clause and the lemma are false while they are resolved.
LemmaFalse ==
    (pc = "resolve" /\ numMarks = 0) \/ pc = "backjump"
    => \A l \in Lits(lemma) : Value(sol, l) = -1

\* The search is right in what it learns and answers, and never in a state its own
\* checks refuse.
NlsatRight ==
    LemmasValid /\ SatRight /\ UnsatRight /\ NeverAborts /\ ValuesAgree /\ InfeasibleJustified
        /\ StagesDone /\ LemmaFalse
=============================================================================
