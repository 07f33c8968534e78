--------------------------------- MODULE Cooper ---------------------------------
(***************************************************************************)
(* Cooper's elimination of quantifiers over the integers                   *)
(* (src/src/smt/cooper.rs): a formula is a set of cubes, a cube a set of   *)
(* atoms, an atom compares a linear expression with zero or divides it.    *)
(***************************************************************************)
EXTENDS Integers, Sequences, FiniteSets

CONSTANTS
    CooperVars,          \* the variables, numbers in the order of the terms
    Formulas,      \* the formulas quantifiers are eliminated from
    MaxSpan,       \* the largest period expanded
    Near, Far      \* how far the outermost or free variable is looked at, and the others

ASSUME CooperAssumption == CooperVars \subseteq Nat /\ MaxSpan \in Nat /\ Near \in Nat /\ Far \in Nat

VARIABLES
    formula,       \* what the elimination was called with
    prefix,        \* the quantifiers eliminated, the innermost first
    dnf,           \* an equivalent formula over the other variables
    declined       \* the budget was exhausted or a period too long

cooperVars == <<formula, prefix, dnf, declined>>

-----------------------------------------------------------------------------
(* Expressions and atoms *)

CooperAbs(n) == IF n < 0 THEN -n ELSE n
Sign(n) == IF n < 0 THEN -1 ELSE 1
Divides(m, n) == n % m = 0
CooperGcd[m \in Nat, n \in Nat] == IF n = 0 THEN m ELSE CooperGcd[n, m % n]
Lcm(m, n) == (m * n) \div CooperGcd[m, n]
FoldOver(S, f(_, _), start) ==
    LET F[T \in SUBSET S] ==
            IF T = {} THEN start ELSE LET n == CHOOSE n \in T : TRUE IN f(n, F[T \ {n}])
    IN  F[S]
LcmOf(S) == FoldOver(S, Lcm, 1)
GcdOf(S) == FoldOver(S, LAMBDA m, n : CooperGcd[m, n], 0)

Expr(c, k) == [c |-> c, k |-> k]
Const(k) == Expr([v \in CooperVars |-> 0], k)
CooperAdd(e, f) == Expr([v \in CooperVars |-> e.c[v] + f.c[v]], e.k + f.k)
CooperTimes(n, e) == Expr([v \in CooperVars |-> n * e.c[v]], n * e.k)
IsConst(e) == \A v \in CooperVars : e.c[v] = 0
Rest(e, x) == Expr([e.c EXCEPT ![x] = 0], e.k)

\* Modulus 0: an atom that is not a divisibility.
Kinds == {"<", "<=", "=", "#", "|", "!|"}
Atom(kind, m, e) == [kind |-> kind, m |-> m, e |-> e]
WithExpr(a, e) == [a EXCEPT !.e = e]

\* eval_ground.
Ground(kind, m, n) ==
    CASE kind = "<" -> n < 0 [] kind = "<=" -> n <= 0 [] kind = "=" -> n = 0 [] kind = "#" -> n # 0
      [] kind = "|" -> Divides(m, n) [] kind = "!|" -> ~Divides(m, n)
EvalGround(a) == Ground(a.kind, a.m, a.e.k)

ScaleAtom(a, f) == [a EXCEPT !.e = CooperTimes(f, @), !.m = f * @]
Unitize(a, x) == WithExpr(a, [a.e EXCEPT !.c[x] = Sign(@)])
Subst(a, x, val) == WithExpr(a, CooperAdd(Rest(a.e, x), CooperTimes(a.e.c[x], val)))

\* neg_atom.
CooperNegated(a) ==
    LET kind == CASE a.kind = "<" -> "<=" [] a.kind = "<=" -> "<" [] a.kind = "=" -> "#"
                  [] a.kind = "#" -> "=" [] a.kind = "|" -> "!|" [] a.kind = "!|" -> "|"
    IN  [a EXCEPT !.kind = kind, !.e = IF a.kind \in {"<", "<="} THEN CooperTimes(-1, @) ELSE @]

-----------------------------------------------------------------------------
(* Elimination from one cube *)

Divisibility(a) == a.kind \in {"|", "!|"}
With(cube, x) == {a \in cube : a.e.c[x] # 0}
Delta(cube, x) == LcmOf({CooperAbs(a.e.c[x]) : a \in With(cube, x)})

\* x's coefficient is +1 or -1 everywhere; x stands for delta x.
Normal(cube, x) ==
    LET delta == Delta(cube, x)
        unit == [v \in CooperVars |-> IF v = x THEN 1 ELSE 0]
    IN  {Unitize(ScaleAtom(a, delta \div CooperAbs(a.e.c[x])), x) : a \in With(cube, x)}
        \cup (IF delta = 1 THEN {} ELSE {Atom("|", delta, Expr(unit, 0))})

CooperSpan(atoms) == LcmOf({a.m : a \in {b \in atoms : Divisibility(b)}})

\* Slip: a disequality bounds nothing.
LowerPointsSlip(atoms, x) ==
    {Rest(a.e, x) : a \in {b \in atoms : b.kind = "<" /\ b.e.c[x] < 0}}
    \cup {CooperAdd(Rest(a.e, x), Const(-1)) : a \in {b \in atoms : b.kind = "<=" /\ b.e.c[x] < 0}}
    \cup {CooperAdd(CooperTimes(-a.e.c[x], Rest(a.e, x)), Const(-1)) : a \in {b \in atoms : b.kind = "="}}

\* The points just below which x begins to satisfy a bound.
LowerPoints(atoms, x) ==
    {Rest(a.e, x) : a \in {b \in atoms : b.kind = "<" /\ b.e.c[x] < 0}}
    \cup {CooperAdd(Rest(a.e, x), Const(-1)) : a \in {b \in atoms : b.kind = "<=" /\ b.e.c[x] < 0}}
    \cup {CooperAdd(CooperTimes(-a.e.c[x], Rest(a.e, x)), Const(-1)) : a \in {b \in atoms : b.kind = "="}}
    \cup {CooperTimes(-a.e.c[x], Rest(a.e, x)) : a \in {b \in atoms : b.kind = "#"}}

\* minus_inf: no bound that fails far below; only divisibilities are left.
FalseFarBelow(a, x) == a.kind = "=" \/ (a.kind \in {"<", "<="} /\ a.e.c[x] < 0)

\* push_subst: the cube with x := val, or nothing when an atom is false.
Placed(without, atoms, x, val) ==
    LET placed == {Subst(a, x, val) : a \in atoms}
        open == {a \in placed : ~IsConst(a.e)}
    IN  IF \A a \in placed \ open : EvalGround(a) THEN {without \cup open} ELSE {}

\* cube_exists.
CubeExists(cube, x) ==
    LET without == cube \ With(cube, x)
        norm == Normal(cube, x)
        below == {a \in norm : Divisibility(a)}
        js == 1 .. CooperSpan(norm)
        fromBelow == IF \E a \in norm : FalseFarBelow(a, x) THEN {}
                     ELSE UNION {Placed(without, below, x, Const(j)) : j \in js}
        fromPoints == UNION {Placed(without, norm, x, CooperAdd(b, Const(j))) :
                                 b \in LowerPoints(norm, x), j \in js}
    IN  IF With(cube, x) = {} THEN {cube} ELSE fromBelow \cup fromPoints

-----------------------------------------------------------------------------
(* Simplification *)

CeilDiv(n, g) == -((-n) \div g)
DivideBy(c, g) == [v \in CooperVars |-> IF c[v] < 0 THEN -((-c[v]) \div g) ELSE c[v] \div g]
FirstVar(c) == CHOOSE v \in {u \in CooperVars : c[u] # 0} : \A u \in CooperVars : c[u] # 0 => v <= u

\* normalize: TRUE or FALSE as Const atoms, an atom otherwise.
CooperBool(b) == Atom("=", 0, Const(IF b THEN 0 ELSE 1))
NormalAtom(a) ==
    LET c == a.e.c
        k == a.e.k
        g == GcdOf({CooperAbs(c[v]) : v \in CooperVars})
        s == IF c[FirstVar(c)] < 0 THEN -1 ELSE 1
        reduced == Atom(a.kind, a.m, Expr([v \in CooperVars |-> c[v] % a.m], k % a.m))
    IN  IF IsConst(a.e) THEN CooperBool(EvalGround(a))
        ELSE IF a.kind \in {"<", "<="}
             THEN Atom("<=", 0, Expr(DivideBy(c, g), CeilDiv(IF a.kind = "<" THEN k + 1 ELSE k, g)))
        ELSE IF ~Divisibility(a)
             THEN IF ~Divides(g, k) THEN CooperBool(a.kind = "#")
                  ELSE Atom(a.kind, 0, CooperTimes(s, Expr(DivideBy(c, g), Sign(k) * (CooperAbs(k) \div g))))
        ELSE IF IsConst(reduced.e) THEN CooperBool(EvalGround(reduced)) ELSE reduced

Clash(a, b) ==
    \/ /\ a.kind = "<=" /\ b.kind = "<="
       /\ IsConst(CooperAdd(a.e, b.e)) /\ a.e.k + b.e.k > 0
    \/ {a.kind, b.kind} = {"=", "#"} /\ a.e = b.e

\* simplify: false cubes go, true atoms go, and cubes that a smaller one subsumes.
Simplify(cubes) ==
    LET normal(cube) == {NormalAtom(a) : a \in cube}
        alive == {cube \in {normal(c) : c \in cubes} :
                      /\ CooperBool(FALSE) \notin cube
                      /\ \A a, b \in cube : ~Clash(a, b)}
        bare == {cube \ {CooperBool(TRUE)} : cube \in alive}
    IN  {cube \in bare : \A smaller \in bare : smaller \subseteq cube => smaller = cube}

-----------------------------------------------------------------------------
(* Quantifiers *)

Exists(cubes, x) == Simplify(UNION {CubeExists(cube, x) : cube \in cubes})

\* negate: one atom of every cube fails; simplified after every cube.
Negate(cubes) ==
    LET N[T \in SUBSET cubes] ==
            IF T = {} THEN {{}}
            ELSE LET cube == CHOOSE cube \in T : TRUE
                     before == N[T \ {cube}]
                 IN  Simplify({c \cup {CooperNegated(a)} : c \in before, a \in cube})
    IN  N[cubes]

ForAll(cubes, x) == Negate(Exists(Negate(cubes), x))

\* A period too long to expand declines the call.
TooLong(cubes, x) == \E cube \in cubes : CooperSpan(Normal(cube, x)) > MaxSpan

CooperStart(f) == formula = f /\ dnf = f /\ prefix = <<>> /\ declined = FALSE
CooperInit == \E f \in Formulas : CooperStart(f)

Bound(x) == \E i \in DOMAIN prefix : prefix[i].x = x

Eliminate(q, x) ==
    /\ ~declined /\ ~Bound(x)
    /\ prefix' = prefix \o <<[q |-> q, x |-> x]>>
    /\ IF TooLong(IF q = "exists" THEN dnf ELSE Negate(dnf), x)
       THEN declined' = TRUE /\ UNCHANGED dnf
       ELSE dnf' = (IF q = "exists" THEN Exists(dnf, x) ELSE ForAll(dnf, x)) /\ UNCHANGED declined
    /\ UNCHANGED formula

CooperNext == \E q \in {"exists", "forall"}, x \in CooperVars : Eliminate(q, x)

CooperSpec == CooperInit /\ [][CooperNext]_cooperVars

-----------------------------------------------------------------------------
(* Properties *)

ValueAt(e, p) == e.k + FoldOver(CooperVars, LAMBDA v, n : n + e.c[v] * p[v], 0)
Models(cubes, p) == \E cube \in cubes : \A a \in cube : Ground(a.kind, a.m, ValueAt(a.e, p))

\* The meaning of the first n quantifiers over the formula, by trying numbers.
Means(n, point) ==
    LET M[i \in 0 .. n, p \in [CooperVars -> Int]] ==
            IF i = 0 THEN Models(formula, p)
            ELSE LET range == IF i = Cardinality(CooperVars) THEN -Near .. Near ELSE -Far .. Far
                     at(t) == M[i - 1, [p EXCEPT ![prefix[i].x] = t]]
                 IN  IF prefix[i].q = "exists" THEN \E t \in range : at(t) ELSE \A t \in range : at(t)
    IN  M[n, point]

\* Elimination is exact: the cubes hold of the other variables exactly where the
\* quantified formula does, through scaling, periods, rounding and subsumption.
Exact ==
    ~declined =>
        \A p \in {q \in [CooperVars -> -Near .. Near] : \A v \in CooperVars : Bound(v) => q[v] = 0} :
            Models(dnf, p) = Means(Len(prefix), p)

\* What was eliminated is gone, so that without free variables a verdict is read off.
Eliminated ==
    ~declined => \A cube \in dnf : \A a \in cube, v \in CooperVars : Bound(v) => a.e.c[v] = 0
=============================================================================
