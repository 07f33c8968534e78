---------------------------------- MODULE Icp ----------------------------------
(***************************************************************************)
(* Interval constraint propagation (src/src/nlsat/icp.rs): a box of one    *)
(* interval for each variable, narrowed by every constraint in turn, and   *)
(* the two decisions taken on it: refutation over the reals, and the       *)
(* search of a bounded box of integers.                                    *)
(***************************************************************************)
EXTENDS IntervalOps, FiniteSets

CONSTANTS
    NumVars,       \* the variables are 1 .. NumVars
    Constraints,   \* [poly, rel]; a polynomial is a sequence of [c, mono]
    MaxCount,      \* the constraints of a call
    RootUnit,      \* roots are rounded to multiples of 1/RootUnit
    MaxRoot,       \* and are at most MaxRoot/RootUnit
    Grid,          \* the rationals solutions are looked for in
    MaxSearch      \* the largest box of integers searched

ASSUME IcpAssumption == NumVars \in Nat \ {0} /\ MaxCount \in Nat /\ RootUnit \in Nat \ {0} /\ MaxRoot \in Nat

VARIABLES
    cs,            \* the constraints of the call
    box,           \* [variable -> interval]
    pos,           \* the next constraint and variable of the round
    changed,       \* this round has narrowed something
    rounds,
    phase,         \* "narrow", "decide", "done"
    verdict        \* of refute and of decide_bounded_int

icpVars == <<cs, box, pos, changed, rounds, phase, verdict>>

IcpVars == 1 .. NumVars
Rels == {"<", "<=", "=", "#", ">=", ">"}

-----------------------------------------------------------------------------
(* Polynomials *)

SumOf(n, f(_), zero, plus(_, _)) ==
    LET S[i \in 0 .. n] == IF i = 0 THEN zero
                           ELSE LET before == S[i - 1]
                                    here == f(i)
                                IN  plus(before, here)
    IN  S[n]

VarsOf(p) == UNION {{v \in IcpVars : p[i].mono[v] > 0} : i \in DOMAIN p}
Degree(mono) == SumOf(NumVars, LAMBDA v : mono[v], 0, LAMBDA a, b : a + b)

\* Polynomial::eval.
At(p, x) ==
    LET power(i, v) == RPower(x[v], p[i].mono[v])
        term(i) == RTimes(p[i].c, SumOf(NumVars, LAMBDA v : power(i, v), Rat(1), RTimes))
    IN  SumOf(Len(p), term, Zero, RPlus)

Holds(z, rel) ==
    CASE rel = "<" -> z[1] < 0 [] rel = "<=" -> z[1] <= 0 [] rel = "=" -> z[1] = 0
      [] rel = "#" -> z[1] # 0 [] rel = ">=" -> z[1] >= 0 [] rel = ">" -> z[1] > 0

\* eval_interval: a term without a factor is 1, and its first factor is its start
\* (a factor of power 0 is none: Times by the point 1 would widen half-infinite ends).
EvalInterval(p, b) ==
    LET factors(mono, n) == {v \in 1 .. n : mono[v] > 0}
        product(mono) == SumOf(NumVars, LAMBDA v : v, Point(Rat(1)), LAMBDA t, v :
                             IF mono[v] = 0 THEN t
                             ELSE IF factors(mono, v - 1) = {} THEN Power(b[v], mono[v])
                             ELSE Times(t, Power(b[v], mono[v])))
    IN  SumOf(Len(p), LAMBDA i : Scale(product(p[i].mono), p[i].c), Point(Zero), Plus)

\* relation_feasible.
Feasible(i, rel) ==
    LET below == i.lo.inf \/ i.lo.value[1] < 0
        above == i.hi.inf \/ i.hi.value[1] > 0
    IN  ~i.empty /\ (CASE rel = "<" -> below
                       [] rel = "<=" -> below \/ (i.lo.value = Zero /\ ~i.lo.open)
                       [] rel = ">" -> above
                       [] rel = ">=" -> above \/ (i.hi.value = Zero /\ ~i.hi.open)
                       [] rel = "=" -> Contains(i, Zero)
                       [] rel = "#" -> i # Point(Zero))

-----------------------------------------------------------------------------
(* The rules: an interval for a variable, or All when a rule says nothing *)

\* Slip: a negative factor keeps the direction.
FlippedSlip(rel) == rel
Flipped(rel) ==
    IF rel = "<" THEN ">" ELSE IF rel = "<=" THEN ">=" ELSE IF rel = ">" THEN "<"
    ELSE IF rel = ">=" THEN "<=" ELSE rel

Coefficient(p, mono) ==
    SumOf(Len(p), LAMBDA i : IF p[i].mono = mono THEN p[i].c ELSE Zero, Zero, RPlus)
One == [v \in IcpVars |-> 0]
Just(v) == [One EXCEPT ![v] = 1]

\* linear_bound: a x + b of one variable.
Linear(p) == Cardinality(VarsOf(p)) = 1 /\ \A i \in DOMAIN p : Degree(p[i].mono) <= 1

LinearBound(c, v) ==
    LET a == Coefficient(c.poly, Just(v))
        at == RTimes(RNeg(Coefficient(c.poly, One)), Recip(a))
        rel == IF a[1] < 0 THEN Flipped(c.rel) ELSE c.rel
    IN  IF ~(Linear(c.poly) /\ v \in VarsOf(c.poly)) THEN All
        ELSE CASE rel = "<" -> New(Infinite, End(at, TRUE)) [] rel = "<=" -> New(Infinite, End(at, FALSE))
               [] rel = ">" -> New(End(at, TRUE), Infinite) [] rel = ">=" -> New(End(at, FALSE), Infinite)
               [] rel = "=" -> Point(at) [] rel = "#" -> All

\* sqrt_upper: a number whose square is at least b, close to the least (by 48
\* bisections in the code, to the next multiple of 1/RootUnit here).
SqrtUpper(b) ==
    LET n == CHOOSE n \in 0 .. MaxRoot :
                 /\ RLeq(b, Ratio(n * n, RootUnit * RootUnit))
                 /\ \A m \in 0 .. n - 1 : RLess(Ratio(m * m, RootUnit * RootUnit), b)
    IN  Ratio(n, RootUnit)

Square(v) == [One EXCEPT ![v] = 2]
Without(p, v) == SelectSeq(p, LAMBDA t : t.mono[v] = 0)
NegPoly(p) == [i \in DOMAIN p |-> [p[i] EXCEPT !.c = RNeg(@)]]

\* square_bound: a v^2 + rest <= 0 with a > 0 bounds v on both sides.
SquareBound(c, v, b) ==
    LET fits == /\ c.rel \in {"<", "<=", "="}
                /\ \A i \in DOMAIN c.poly : c.poly[i].mono[v] = 0 \/ c.poly[i].mono = Square(v)
        a0 == Coefficient(c.poly, Square(v))
        flip == a0[1] < 0 /\ c.rel = "="
        a == IF flip THEN RNeg(a0) ELSE a0
        rest == IF flip THEN NegPoly(Without(c.poly, v)) ELSE Without(c.poly, v)
        range == EvalInterval(rest, b)
        bound == RTimes(RNeg(range.lo.value), Recip(a))
        u == SqrtUpper(bound)
    IN  IF ~fits \/ a[1] <= 0 \/ range.empty \/ range.lo.inf THEN All
        ELSE IF bound[1] < 0 THEN Empty
        ELSE IF bound = Zero THEN (IF c.rel = "<" THEN Empty ELSE Point(Zero))
        ELSE New(End(RNeg(u), FALSE), End(u, FALSE))

\* coeff_of_var(v, e).
PartOf(p, v, e) ==
    LET part == SelectSeq(p, LAMBDA t : t.mono[v] = e)
    IN  [i \in DOMAIN part |-> [part[i] EXCEPT !.mono[v] = 0]]

\* product_bound: c1 v + c0 with c1 of one sign over the box.
ProductBound(c, v, b) ==
    LET fits == /\ \A i \in DOMAIN c.poly : c.poly[i].mono[v] <= 1
                /\ v \in VarsOf(c.poly)
        a == EvalInterval(PartOf(c.poly, v, 1), b)
        k == EvalInterval(PartOf(c.poly, v, 0), b)
        positive == AboveZero(a.lo)
        sol == IF k = Point(Zero) THEN Point(Zero) ELSE Times(Negated(k), Reciprocal(a))
    IN  IF ~fits \/ c.rel = "#" \/ a.empty \/ ~(positive \/ BelowZero(a.hi)) \/ sol.empty THEN All
        ELSE IF c.rel = "=" THEN sol
        ELSE IF (c.rel \in {"<=", "<"}) = positive THEN New(Infinite, sol.hi)
        ELSE New(sol.lo, Infinite)

-----------------------------------------------------------------------------
(* Narrowing *)

IcpStart(constraints) ==
    /\ cs = constraints
    /\ box = [v \in IcpVars |-> All] /\ pos = <<1, 1>>
    /\ changed = FALSE /\ rounds = 0
    /\ phase = "round" /\ verdict = [real |-> "none", int |-> "none"]

IcpInit == \E n \in 1 .. MaxCount : \E constraints \in [1 .. n -> Constraints] : IcpStart(constraints)

Tightened(b, v, i) == [b EXCEPT ![v] = Intersect(@, i)]

\* The head of the loop.
BeginRound ==
    /\ phase = "round"
    /\ rounds = 0 \/ (changed /\ rounds < 2 * NumVars + 6)
    /\ changed' = FALSE /\ rounds' = rounds + 1 /\ pos' = <<1, 1>> /\ phase' = "narrow"
    /\ UNCHANGED <<cs, box, verdict>>

StopRounds ==
    /\ phase = "round"
    /\ ~(rounds = 0 \/ (changed /\ rounds < 2 * NumVars + 6))
    /\ phase' = "decide"
    /\ UNCHANGED <<cs, box, pos, changed, rounds, verdict>>

\* A constraint bounds a variable: linearly, by a square and by a product, each over
\* the box as it is by then.  (The linear bound, which the code intersects with before
\* it turns to the first variable, concerns only constraints of that one variable.)
Narrow ==
    /\ phase = "narrow" /\ pos[1] <= Len(cs)
    /\ LET c == cs[pos[1]]
           v == pos[2]
           b1 == Tightened(box, v, LinearBound(c, v))
           b2 == Tightened(b1, v, SquareBound(c, v, b1))
       IN  box' = Tightened(b2, v, ProductBound(c, v, b2))
    /\ changed' = (changed \/ box' # box)
    /\ pos' = IF pos[2] < NumVars THEN <<pos[1], pos[2] + 1>> ELSE <<pos[1] + 1, 1>>
    /\ UNCHANGED <<cs, rounds, phase, verdict>>

\* An empty interval refutes, after the round.
EndRound ==
    /\ phase = "narrow" /\ pos[1] > Len(cs)
    /\ IF \E v \in IcpVars : box[v].empty
       THEN phase' = "done" /\ verdict' = [real |-> "refuted", int |-> "unsat"]
       ELSE phase' = "round" /\ UNCHANGED verdict
    /\ UNCHANGED <<cs, box, pos, changed, rounds>>

-----------------------------------------------------------------------------
(* Decisions *)

\* int_range.
LeastInt(b) == IF b.open THEN Floor(b.value) + 1 ELSE Ceil(b.value)
GreatestInt(b) == IF b.open THEN Ceil(b.value) - 1 ELSE Floor(b.value)

Satisfied(x) == \A i \in DOMAIN cs : Holds(At(cs[i].poly, x), cs[i].rel)

\* The integers of the first v variables' ranges, multiplied.
IntRange(v) == LeastInt(box[v].lo) .. GreatestInt(box[v].hi)
BoxSize(v) == SumOf(v, LAMBDA w : Cardinality(IntRange(w)), 1, LAMBDA m, n : m * n)

\* decide_bounded_int on the narrowed box: variable by variable, and the first without
\* a bound, without an integer or with too many points so far settles the answer.
IntVerdict ==
    LET Unbounded(v) == box[v].lo.inf \/ box[v].hi.inf
        Settles(v) == Unbounded(v) \/ IntRange(v) = {} \/ BoxSize(v) > MaxSearch
        settling == {v \in IcpVars : /\ \A w \in 1 .. v - 1 : ~Settles(w)
                                     /\ Settles(v)}
        points == {x \in [IcpVars -> UNION {IntRange(v) : v \in IcpVars}] :
                       \A v \in IcpVars : x[v] \in IntRange(v)}
    IN  IF settling # {}
        THEN IF \E v \in settling : ~Unbounded(v) /\ IntRange(v) = {} THEN "unsat" ELSE "declined"
        ELSE IF \E x \in points : Satisfied([v \in IcpVars |-> Rat(x[v])]) THEN "sat" ELSE "unsat"

\* refute on the narrowed box.
RealVerdict ==
    IF \E i \in DOMAIN cs : ~Feasible(EvalInterval(cs[i].poly, box), cs[i].rel) THEN "refuted" ELSE "open"

Decide ==
    /\ phase = "decide" /\ phase' = "done"
    /\ verdict' = [real |-> RealVerdict, int |-> IntVerdict]
    /\ UNCHANGED <<cs, box, pos, changed, rounds>>

IcpNext == BeginRound \/ StopRounds \/ Narrow \/ EndRound \/ Decide

IcpSpec == IcpInit /\ [][IcpNext]_icpVars

-----------------------------------------------------------------------------
(* Properties *)

Satisfying == {cx \in Constraints \X [IcpVars -> Grid] : Holds(At(cx[1].poly, cx[2]), cx[1].rel)}
Solutions == {x \in [IcpVars -> Grid] : \A i \in DOMAIN cs : <<cs[i], x>> \in Satisfying}
IntSolutions == {x \in Solutions : \A v \in IcpVars : x[v][2] = 1}

IcpTypeOK ==
    /\ phase \in {"round", "narrow", "decide", "done"}
    /\ verdict.real \in {"none", "refuted", "open"}
    /\ verdict.int \in {"none", "sat", "unsat", "declined"}
    /\ rounds \in 0 .. 2 * NumVars + 6

\* No rule, alone or after any others, narrows a solution away.
BoxKeeps == \A x \in Solutions : \A v \in IcpVars : Contains(box[v], x[v])

\* A refuted conjunction has no solution.
RefuteRight == verdict.real = "refuted" => Solutions = {}

\* The search of the integers is right both ways, whatever it was narrowed to.
IntRight ==
    /\ verdict.int = "unsat" => IntSolutions = {}
    /\ verdict.int = "sat" => IntSolutions # {} /\ verdict.real # "refuted"

\* A conjunction of bounds on single variables is decided: what is left open has
\* a solution.
LinearDecided ==
    verdict.real = "open" /\ (\A i \in DOMAIN cs : Linear(cs[i].poly)) => Solutions # {}

\* The box never grows.
Within(i, j) ==
    i.empty \/ (/\ ~j.empty
                /\ j.lo.inf \/ (~i.lo.inf /\ RLeq(j.lo.value, i.lo.value))
                /\ j.hi.inf \/ (~i.hi.inf /\ RLeq(i.hi.value, j.hi.value)))
OnlyNarrows == [][\A v \in IcpVars : Within(box'[v], box[v])]_icpVars

\* What the box answers is so: it keeps the solutions, refutes nothing that has
\* one, and searches its integers right, whatever rules narrowed it in what order.
BoxRight == BoxKeeps /\ RefuteRight /\ IntRight
=============================================================================
