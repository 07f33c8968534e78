------------------------------ MODULE Simplex ------------------------------
(***************************************************************************)
(* The bounded simplex of src/math/simplex.rs, the feasibility core of     *)
(* linear arithmetic.  Every variable has optional bounds; each row gives  *)
(* a basic variable as a sum of non-basic ones.  Bounds are asserted and   *)
(* retracted in scopes while rows and values stay; check repairs the       *)
(* violated bounds by pivoting under Bland's rule, or names the bounds     *)
(* that cannot hold together.                                              *)
(*                                                                         *)
(* A number r + k * delta, delta an infinitesimal, is the integer          *)
(* r * Unit + k: these add, negate and compare as the pairs do while k is  *)
(* small.  The forms are such that every pivot is 1 or -1 (the rows of a   *)
(* totally unimodular matrix), so no other reciprocal is taken.            *)
(***************************************************************************)
EXTENDS Integers, Sequences, FiniteSets, FiniteSetsExt

CONSTANTS
  NumStruct,   \* structural variables 1..NumStruct
  Forms,       \* Forms[i][x]: coefficient of x in the form of slack NumStruct + i
  Bounds,      \* the bounds callers assert: [var, lower, val]; the index is the tag
  MaxScopes    \* bound: open scopes

Unit == 100
NumLinear == NumStruct + Len(Forms)
Var == 1..NumLinear
Tag == DOMAIN Bounds
NoBound == [val |-> 0, tag |-> 0]
Coeffs == [Var -> -1..1]

ASSUME SimplexAssumption ==
  /\ NumStruct \in Nat \ {0}
  /\ Forms \in Seq([1..NumStruct -> -1..1])
  /\ Bounds \in Seq([var : Var, lower : BOOLEAN, val : Int])

VARIABLES
  lower, upper,  \* the bound of a variable and its tag
  assignment,         \* the current assignment
  rows,          \* rows in the order they were added: [basic, coeffs]
  rowOf,         \* row of a basic variable, 0 for a non-basic one
  col,           \* the rows in which a non-basic variable occurs
  undoBounds,          \* replaced bounds: [var, lower, old]
  scopes,        \* length of undo at each open push
  dirty,         \* basic variables that may violate a bound
  checking,      \* check is running
  answer,        \* of the last call: [kind, core]
  live           \* history: the tags asserted, one set for each scope level

tableau == <<rows, rowOf, col>>
boundVars == <<lower, upper, undoBounds, scopes, live>>
simplexVars == <<boundVars, assignment, tableau, dirty, checking, answer>>

Ok == [kind |-> "ok", core |-> {}]
Made(v) == v <= NumStruct + Len(rows)
IsBasic(v) == rowOf[v] # 0
SumOver(f, S) == MapThenSumSet(LAMBDA x : f[x], S)
\* The value of a linear form.
Eval(coeffs, val) == SumOver([x \in Var |-> coeffs[x] * val[x]], Var)

BelowLower(v) == lower[v].tag # 0 /\ assignment[v] < lower[v].val
AboveUpper(v) == upper[v].tag # 0 /\ assignment[v] > upper[v].val
Violated(v) == BelowLower(v) \/ AboveUpper(v)

CanIncrease(v) == upper[v].tag = 0 \/ assignment[v] < upper[v].val
CanDecrease(v) == lower[v].tag = 0 \/ assignment[v] > lower[v].val

SimplexInit ==
  /\ lower = [v \in Var |-> NoBound] /\ upper = [v \in Var |-> NoBound]
  /\ assignment = [v \in Var |-> 0]
  /\ rows = <<>> /\ rowOf = [v \in Var |-> 0] /\ col = [v \in Var |-> {}]
  /\ undoBounds = <<>> /\ scopes = <<>> /\ dirty = {}
  /\ checking = FALSE /\ answer = Ok /\ live = <<{}>>

-----------------------------------------------------------------------------
(* add_row: the next slack.  Basic variables of its form are replaced by   *)
(* their rows.                                                             *)

UnitRow(x) == [y \in Var |-> IF y = x THEN 1 ELSE 0]

\* The form over the non-basic variables.
Solved(form) ==
  [y \in Var |->
     SumOver([x \in 1..NumStruct |->
            form[x] * (IF IsBasic(x) THEN rows[rowOf[x]].coeffs ELSE UnitRow(x))[y]],
         1..NumStruct)]

AddRow ==
  LET r == Len(rows) + 1
      s == NumStruct + r
      coeffs == Solved(Forms[r])
  IN
  /\ ~checking /\ Len(rows) < Len(Forms)
  /\ rows' = Append(rows, [basic |-> s, coeffs |-> coeffs])
  /\ rowOf' = [rowOf EXCEPT ![s] = r]
  /\ col' = [y \in Var |-> IF coeffs[y] # 0 THEN col[y] \cup {r} ELSE col[y]]
  /\ assignment' = [assignment EXCEPT ![s] = Eval(coeffs, assignment)]
  /\ dirty' = dirty \cup {s}
  /\ answer' = Ok
  /\ UNCHANGED <<boundVars, checking>>

-----------------------------------------------------------------------------
(* Bounds and scopes.                                                      *)

\* update: non-basic v takes the value val, and the basic variables follow.
Moved(v, val) ==
  [x \in Var |-> IF x = v THEN val
                 ELSE IF rowOf[x] \in col[v]
                      THEN assignment[x] + rows[rowOf[x]].coeffs[v] * (val - assignment[v])
                      ELSE assignment[x]]

Disturbed(v) == {rows[r].basic : r \in col[v]}

\* A slip: a non-basic variable keeps its value when its bound passes it.
OutsideSlip(v, isLower, val) == FALSE
Outside(v, isLower, val) == IF isLower THEN assignment[v] < val ELSE assignment[v] > val

\* assert_lower and assert_upper.
Tightens(v, isLower, val) ==
  IF isLower THEN lower[v].tag = 0 \/ val > lower[v].val
  ELSE upper[v].tag = 0 \/ val < upper[v].val

BoundClashes(v, isLower, val) ==
  IF isLower THEN upper[v].tag # 0 /\ val > upper[v].val
  ELSE lower[v].tag # 0 /\ val < lower[v].val

AlreadyHolds(v, isLower, val) ==
  /\ ~Tightens(v, isLower, val)
  /\ answer' = Ok
  /\ UNCHANGED <<lower, upper, undoBounds, assignment, dirty>>

Refuse(v, isLower, val, tag) ==
  /\ Tightens(v, isLower, val) /\ BoundClashes(v, isLower, val)
  /\ answer' = [kind |-> "unsat",
                core |-> {tag, IF isLower THEN upper[v].tag ELSE lower[v].tag}]
  /\ UNCHANGED <<lower, upper, undoBounds, assignment, dirty>>

Tighten(v, isLower, val, tag) ==
  LET b == [val |-> val, tag |-> tag]
      move == ~IsBasic(v) /\ Outside(v, isLower, val)
  IN
  /\ Tightens(v, isLower, val) /\ ~BoundClashes(v, isLower, val)
  /\ lower' = IF isLower THEN [lower EXCEPT ![v] = b] ELSE lower
  /\ upper' = IF isLower THEN upper ELSE [upper EXCEPT ![v] = b]
  /\ assignment' = IF move THEN Moved(v, val) ELSE assignment
  /\ dirty' = dirty \cup (IF move THEN Disturbed(v) ELSE {})
                    \cup (IF IsBasic(v) THEN {v} ELSE {})
  /\ undoBounds' = IF scopes = <<>> THEN undoBounds
                   ELSE Append(undoBounds, [var |-> v, lower |-> isLower,
                                            old |-> IF isLower THEN lower[v] ELSE upper[v]])
  /\ answer' = Ok

AssertBound(v, isLower, val, tag) ==
  \/ AlreadyHolds(v, isLower, val)
  \/ Refuse(v, isLower, val, tag)
  \/ Tighten(v, isLower, val, tag)

AssertTag(t) ==
  LET b == Bounds[t] IN
  /\ ~checking /\ Made(b.var)
  /\ AssertBound(b.var, b.lower, b.val, t)
  /\ live' = IF answer'.kind = "unsat" THEN live
             ELSE [live EXCEPT ![Len(live)] = @ \cup {t}]
  /\ UNCHANGED <<tableau, scopes, checking>>

Push ==
  /\ ~checking
  /\ scopes' = Append(scopes, Len(undoBounds))
  /\ live' = Append(live, {})
  /\ answer' = Ok
  /\ UNCHANGED <<lower, upper, undoBounds, assignment, tableau, dirty, checking>>

\* A slip: the latest replaced bound of a variable comes back, not the first.
RestoredSlip(side, isLower, mark) ==
  [v \in Var |->
     LET hits == {i \in (mark + 1)..Len(undoBounds) :
                    undoBounds[i].var = v /\ undoBounds[i].lower = isLower}
     IN  IF hits = {} THEN side[v] ELSE undoBounds[Max(hits)].old]

\* The bounds once the log is undone, latest entry first, down to mark.
Restored(side, isLower, mark) ==
  [v \in Var |->
     LET hits == {i \in (mark + 1)..Len(undoBounds) :
                    undoBounds[i].var = v /\ undoBounds[i].lower = isLower}
     IN  IF hits = {} THEN side[v] ELSE undoBounds[Min(hits)].old]

\* Pop down to k open scopes.
PopTo(k) ==
  LET mark == IF k < Len(scopes) THEN scopes[k + 1] ELSE Len(undoBounds) IN
  /\ lower' = Restored(lower, TRUE, mark)
  /\ upper' = Restored(upper, FALSE, mark)
  /\ undoBounds' = SubSeq(undoBounds, 1, mark)
  /\ scopes' = SubSeq(scopes, 1, k)
  /\ live' = SubSeq(live, 1, k + 1)
  /\ UNCHANGED <<assignment, tableau, dirty, checking>>

Pop ==
  /\ ~checking /\ scopes # <<>>
  /\ PopTo(Len(scopes) - 1)
  /\ answer' = Ok

-----------------------------------------------------------------------------
(* check, one round of its loop at a time.                                 *)

StartCheck ==
  /\ ~checking
  /\ checking' = TRUE /\ answer' = Ok
  /\ UNCHANGED <<boundVars, assignment, tableau, dirty>>

\* The leaving variable: the smallest dirty basic variable out of its bounds.
ViolatedDirty == {b \in dirty : IsBasic(b) /\ Violated(b)}
Leaving == Min(ViolatedDirty)
Increase == BelowLower(Leaving)
LeavingCoeffs == rows[rowOf[Leaving]].coeffs

\* The non-basic variables that can move it toward the bound.
Helpful == {x \in Var : /\ LeavingCoeffs[x] # 0
                        /\ IF (LeavingCoeffs[x] > 0) = Increase
                           THEN CanIncrease(x) ELSE CanDecrease(x)}

CheckSat ==
  /\ checking /\ ViolatedDirty = {}
  /\ dirty' = {} /\ checking' = FALSE
  /\ answer' = [kind |-> "sat", core |-> {}]
  /\ UNCHANGED <<boundVars, assignment, tableau>>

\* The bound that keeps x from helping.
Blocking(x) == IF (LeavingCoeffs[x] > 0) = Increase THEN upper[x].tag
               ELSE lower[x].tag

CheckUnsat ==
  /\ checking /\ ViolatedDirty # {} /\ Helpful = {}
  /\ dirty' = {b \in dirty : b >= Leaving} /\ checking' = FALSE
  /\ answer' = [kind |-> "unsat",
                core |-> {IF Increase THEN lower[Leaving].tag ELSE upper[Leaving].tag}
                           \cup {Blocking(x) : x \in {y \in Var : LeavingCoeffs[y] # 0}}]
  /\ UNCHANGED <<boundVars, assignment, tableau>>

\* The budget may be spent before any pivot.
CheckExhausted ==
  /\ checking /\ ViolatedDirty # {} /\ Helpful # {}
  /\ dirty' = {b \in dirty : b >= Leaving} /\ checking' = FALSE
  /\ answer' = [kind |-> "exhausted", core |-> {}]
  /\ UNCHANGED <<boundVars, assignment, tableau>>

\* Row r solved for xj: xi = a*xj + rest becomes xj = (1/a)*xi - (1/a)*rest.
Swapped(r, xi, xj) ==
  [y \in Var |-> CASE y = xi -> rows[r].coeffs[xj]
                   [] y = xj -> 0
                   [] OTHER -> -(rows[r].coeffs[xj] * rows[r].coeffs[y])]

\* The rows in which y cancelled out.
Vanished(after, users, y) == {u \in users : after[u].coeffs[y] = 0}

\* pivot: xj becomes basic in row r and is eliminated from the others.
PivotRows(r, xi, xj) ==
  LET new == Swapped(r, xi, xj)
      users == col[xj] \ {r}
      after == [u \in DOMAIN rows |->
                  CASE u = r -> [basic |-> xj, coeffs |-> new]
                    [] u \in users ->
                         [rows[u] EXCEPT !.coeffs =
                            [y \in Var |-> (IF y = xj THEN 0 ELSE @[y])
                                             + @[xj] * new[y]]]
                    [] OTHER -> rows[u]]
  IN
  /\ rows' = after
  /\ rowOf' = [rowOf EXCEPT ![xi] = 0, ![xj] = r]
  /\ col' = [y \in Var |->
               CASE y = xj -> {}
                 [] y # xj /\ new[y] # 0 ->
                      (col[y] \cup {r} \cup users) \ Vanished(after, users, y)
                 [] OTHER -> col[y]]

CheckPivot ==
  LET xi == Leaving
      xj == Min(Helpful)
      r == rowOf[xi]
      goal == IF Increase THEN lower[xi].val ELSE upper[xi].val
      theta == (goal - assignment[xi]) * rows[r].coeffs[xj]
  IN
  /\ checking /\ ViolatedDirty # {} /\ Helpful # {}
  /\ assignment' = Moved(xj, assignment[xj] + theta)
  /\ dirty' = {b \in dirty : b >= xi} \cup Disturbed(xj) \cup {xj}
  /\ PivotRows(r, xi, xj)
  /\ UNCHANGED <<boundVars, checking, answer>>

CheckStep == CheckSat \/ CheckUnsat \/ CheckExhausted \/ CheckPivot

SimplexNext ==
  \/ AddRow \/ (Len(scopes) < MaxScopes /\ Push) \/ Pop \/ StartCheck \/ CheckStep
  \/ \E t \in Tag : AssertTag(t)

SimplexSpec == SimplexInit /\ [][SimplexNext]_simplexVars

\* check is a loop in one thread.
SimplexFairSpec == SimplexSpec /\ WF_simplexVars(CheckStep)

-----------------------------------------------------------------------------
(* Reading the model: delta becomes a number small enough for all bounds.  *)

Infinitesimals(n) == ((n + Unit \div 2) % Unit) - Unit \div 2
Rational(n) == (n - Infinitesimals(n)) \div Unit

\* The pairs of numbers (lo, hi) with lo <= hi that delta must not turn round.
OrderedPairs ==
  {<<lower[v].val, assignment[v]>> : v \in {x \in Var : lower[x].tag # 0}}
    \cup {<<assignment[v], upper[v].val>> : v \in {x \in Var : upper[x].tag # 0}}

\* Delta as a fraction: 1, or the least quotient of the pairs that need it.
Delta ==
  LET quotients == {<<Rational(p[2]) - Rational(p[1]),
                      Infinitesimals(p[1]) - Infinitesimals(p[2])>> :
                      p \in {q \in OrderedPairs :
                               /\ Rational(q[1]) < Rational(q[2])
                               /\ Infinitesimals(q[1]) > Infinitesimals(q[2])}}
               \cup {<<1, 1>>}
  IN  CHOOSE d \in quotients : \A e \in quotients : d[1] * e[2] <= e[1] * d[2]

\* The number n for that delta, times the denominator of delta.
At(n, d) == Rational(n) * d[2] + Infinitesimals(n) * d[1]

-----------------------------------------------------------------------------
(* The tables on which the model is the code, and which of them are so.    *)

\* The entries of the tableau stay -1, 0 or 1: every pivot is its own inverse.
Unimodular == \A r \in DOMAIN rows : rows[r].coeffs \in Coeffs

\* Each form is x, -x or x - y, a difference of two nodes of which 0 is the ground.
OneAt(x, a) == IF x = a THEN 1 ELSE 0
Differences ==
  \A i \in 1..Len(Forms) : \E a, b \in 0..NumStruct :
    \A x \in 1..NumStruct : Forms[i][x] = OneAt(x, a) - OneAt(x, b)

\* A strict lower bound is just above a rational number, a strict upper one just below.
BoundsAreStrict ==
  \A t \in Tag : IF Bounds[t].lower THEN Infinitesimals(Bounds[t].val) >= 0
                 ELSE Infinitesimals(Bounds[t].val) <= 0

-----------------------------------------------------------------------------
(* Correctness.                                                            *)

SimplexTypeOK ==
  /\ assignment \in [Var -> Int]
  /\ \A r \in DOMAIN rows : rows[r] \in [basic : Var, coeffs : Coeffs]
  /\ rowOf \in [Var -> 0..Len(Forms)]
  /\ col \in [Var -> SUBSET DOMAIN rows]
  /\ {lower[v].tag : v \in Var} \cup {upper[v].tag : v \in Var} \subseteq Tag \cup {0}
  /\ \A i \in DOMAIN scopes : scopes[i] <= Len(undoBounds)
  /\ dirty \subseteq Var
  /\ answer.kind \in {"ok", "sat", "unsat", "exhausted"}

LiveTags == UNION {live[i] : i \in DOMAIN live}

\* However rows were added and pivoted, each slack is still its linear form,
\* rows mention only non-basic variables, and the assignment satisfies them.
TableauExact ==
  /\ \A r \in DOMAIN rows :
       /\ rowOf[rows[r].basic] = r
       /\ \A v \in Var : rows[r].coeffs[v] # 0 => ~IsBasic(v)
       /\ assignment[rows[r].basic] = Eval(rows[r].coeffs, assignment)
  /\ \A i \in DOMAIN rows :
       LET s == NumStruct + i
           own == IF IsBasic(s) THEN rows[rowOf[s]].coeffs ELSE UnitRow(s)
       IN  own = Solved(Forms[i])

\* The column of a variable lists exactly the rows it occurs in: an update
\* that misses a row would leave its basic variable behind.
ColumnsExact ==
  \A v \in Var : col[v] = {r \in DOMAIN rows : rows[r].coeffs[v] # 0}

\* A non-basic variable is within its bounds, whatever was retracted.
NonbasicWithin == \A v \in Var : ~IsBasic(v) => ~Violated(v)

\* check looks at dirty variables only: all violated ones are among them, also
\* after a check that gave up and after bounds were retracted.
DirtyCovers == \A v \in Var : Violated(v) => v \in dirty

\* However rows were added, pivoted and updated, and bounds retracted, the tableau
\* and the assignment are those of the forms, and check will see every violation.
SimplexExact == TableauExact /\ ColumnsExact /\ NonbasicWithin /\ DirtyCovers

\* The bounds are the tightest of the asserted ones that were not retracted.
BoundsExact ==
  \A v \in Var :
    LET low == {Bounds[t].val : t \in {u \in LiveTags : Bounds[u].var = v /\ Bounds[u].lower}}
        high == {Bounds[t].val : t \in {u \in LiveTags : Bounds[u].var = v /\ ~Bounds[u].lower}}
    IN
    /\ IF low = {} THEN lower[v] = NoBound
       ELSE lower[v].tag \in LiveTags /\ lower[v].val = Max(low)
    /\ IF high = {} THEN upper[v] = NoBound
       ELSE upper[v].tag \in LiveTags /\ upper[v].val = Min(high)

\* Reference definition, by enumeration: the bounds of some tags hold together.
\* A feasible system over unimodular rows has a solution near its bounds.
Near == {r * Unit + k : r \in -2..2, k \in -2..2}
Satisfies(x, t) ==
  LET b == Bounds[t]
      val == IF b.var <= NumStruct THEN x[b.var]
             ELSE SumOver([y \in 1..NumStruct |-> Forms[b.var - NumStruct][y] * x[y]],
                      1..NumStruct)
  IN  IF b.lower THEN val >= b.val ELSE val <= b.val
Feasible ==
  LET meets == [x \in [1..NumStruct -> Near] |-> {t \in Tag : Satisfies(x, t)}]
      sets == {meets[x] : x \in DOMAIN meets}
  IN  [S \in SUBSET Tag |-> \E m \in sets : S \subseteq m]

\* An unsat answer names bounds that were asserted, or the one refused, and
\* that cannot hold together; a sat answer is given only at a solution of all.
CoreInfeasible ==
  /\ answer.kind = "unsat" =>
       /\ Cardinality(answer.core \ LiveTags) <= 1
       /\ 0 \notin answer.core
       /\ ~Feasible[answer.core]
  /\ answer.kind = "sat" => \A t \in LiveTags : Satisfies(assignment, t)

\* After a sat answer the model that is read meets every bound that was
\* asserted, the strict ones strictly.
ModelMeetsBounds ==
  answer.kind = "sat" => \A t \in LiveTags :
    LET b == Bounds[t]
        d == Delta
        x == At(assignment[b.var], d)
        c == Rational(b.val) * d[2]
        strict == Infinitesimals(b.val) # 0
    IN  /\ IF b.lower THEN x >= c ELSE x <= c
        /\ strict => x # c

\* What its caller may rely on, whatever was asserted, retracted and checked.
AnswersRight == BoundsExact /\ CoreInfeasible /\ ModelMeetsBounds

\* Pivoting under Bland's rule ends.
CheckEnds == checking ~> ~checking

=============================================================================
