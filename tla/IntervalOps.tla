------------------------------ MODULE IntervalOps ------------------------------
(***************************************************************************)
(* Exact interval arithmetic (src/src/math/interval.rs) and the parts of   *)
(* the interval engine that are functions of intervals                     *)
(* (src/src/nlsat/icp.rs).  A rational is <<numerator, denominator>> in    *)
(* lowest terms, an end is infinite or a value that is open or not.        *)
(***************************************************************************)
EXTENDS Integers, Sequences

-----------------------------------------------------------------------------
(* Rationals *)

Magnitude(n) == IF n < 0 THEN -n ELSE n
Gcd[m \in Nat, n \in Nat] == IF n = 0 THEN m ELSE Gcd[n, m % n]
Ratio(n, d) == LET g == Gcd[Magnitude(n), d] IN <<n \div g, d \div g>>
Rat(n) == <<n, 1>>
Zero == Rat(0)

RPlus(x, y) == Ratio(x[1] * y[2] + y[1] * x[2], x[2] * y[2])
RTimes(x, y) == Ratio(x[1] * y[1], x[2] * y[2])
RNeg(x) == <<-x[1], x[2]>>
RLess(x, y) == x[1] * y[2] < y[1] * x[2]
RLeq(x, y) == x[1] * y[2] <= y[1] * x[2]
Recip(x) == IF x[1] < 0 THEN <<-x[2], -x[1]>> ELSE <<x[2], x[1]>>
RPower(x, e) == LET P[i \in 0 .. e] == IF i = 0 THEN Rat(1) ELSE RTimes(P[i - 1], x) IN P[e]
Floor(x) == x[1] \div x[2]
Ceil(x) == -((-x[1]) \div x[2])

-----------------------------------------------------------------------------
(* Intervals *)

Infinite == [inf |-> TRUE, value |-> Zero, open |-> TRUE]
End(v, open) == [inf |-> FALSE, value |-> v, open |-> open]
Span(lo, hi) == [empty |-> FALSE, lo |-> lo, hi |-> hi]
Empty == [empty |-> TRUE, lo |-> Infinite, hi |-> Infinite]

\* Interval::new: no points, no interval.
New(lo, hi) ==
    IF ~lo.inf /\ ~hi.inf /\ (RLess(hi.value, lo.value)
                              \/ (lo.value = hi.value /\ (lo.open \/ hi.open)))
    THEN Empty ELSE Span(lo, hi)

All == New(Infinite, Infinite)
Point(v) == New(End(v, FALSE), End(v, FALSE))

Contains(i, x) ==
    /\ ~i.empty
    /\ i.lo.inf \/ RLess(i.lo.value, x) \/ (i.lo.value = x /\ ~i.lo.open)
    /\ i.hi.inf \/ RLess(x, i.hi.value) \/ (i.hi.value = x /\ ~i.hi.open)

NegEnd(b) == IF b.inf THEN b ELSE End(RNeg(b.value), b.open)
Negated(i) == IF i.empty THEN Empty ELSE New(NegEnd(i.hi), NegEnd(i.lo))

AddEnd(a, b) ==
    IF a.inf \/ b.inf THEN Infinite ELSE End(RPlus(a.value, b.value), a.open \/ b.open)
Plus(i, j) ==
    IF i.empty \/ j.empty THEN Empty ELSE New(AddEnd(i.lo, j.lo), AddEnd(i.hi, j.hi))
Minus(i, j) == Plus(i, Negated(j))

-----------------------------------------------------------------------------
(* Products: the ends on the extended line, infinities with their sign *)

Extended(b, sign) == [sign |-> IF b.inf THEN sign ELSE 0, value |-> b.value, open |-> b.open]
Finite(e) == e.sign = 0
SignOf(e) == IF ~Finite(e) THEN e.sign ELSE IF e.value[1] < 0 THEN -1 ELSE IF e.value[1] > 0 THEN 1 ELSE 0

\* ev_cmp.
Below(a, b) ==
    IF Finite(a) /\ Finite(b) THEN RLess(a.value, b.value) ELSE a.sign < b.sign

IsZero(e) == Finite(e) /\ e.value = Zero

\* ev_mul: zero times anything is an attained zero.
Corner(a, b) ==
    IF Finite(a) /\ Finite(b)
    THEN [sign |-> 0, value |-> RTimes(a.value, b.value),
          open |-> (a.open /\ ~IsZero(b)) \/ (b.open /\ ~IsZero(a))]
    ELSE IF IsZero(a) \/ IsZero(b) THEN [sign |-> 0, value |-> Zero, open |-> FALSE]
    ELSE [sign |-> SignOf(a) * SignOf(b), value |-> Zero, open |-> TRUE]

\* ev_extreme: the least or greatest corner, open when no corner attains it.
Extreme(corners, least) ==
    LET best == CHOOSE c \in corners :
                    \A d \in corners : IF least THEN ~Below(d, c) ELSE ~Below(c, d)
        same == {c \in corners : Finite(c) /\ c.value = best.value}
    IN  IF Finite(best) THEN End(best.value, \A c \in same : c.open) ELSE Infinite

Times(i, j) ==
    IF i.empty \/ j.empty THEN Empty
    ELSE LET ends(k) == {Extended(k.lo, -1), Extended(k.hi, 1)}
             corners == {Corner(a, b) : a \in ends(i), b \in ends(j)}
         IN  New(Extreme(corners, TRUE), Extreme(corners, FALSE))

-----------------------------------------------------------------------------
(* Intersection *)

MaxLower(a, b) ==
    IF a.inf THEN b ELSE IF b.inf THEN a
    ELSE IF RLess(b.value, a.value) THEN a ELSE IF RLess(a.value, b.value) THEN b
    ELSE End(a.value, a.open \/ b.open)

MinUpper(a, b) ==
    IF a.inf THEN b ELSE IF b.inf THEN a
    ELSE IF RLess(a.value, b.value) THEN a ELSE IF RLess(b.value, a.value) THEN b
    ELSE End(a.value, a.open \/ b.open)

Intersect(i, j) ==
    IF i.empty \/ j.empty THEN Empty ELSE New(MaxLower(i.lo, j.lo), MinUpper(i.hi, j.hi))

-----------------------------------------------------------------------------
(* Scaling and powers (icp.rs) *)

Scale(i, c) ==
    LET end(b) == IF b.inf THEN Infinite ELSE End(RTimes(b.value, c), b.open)
    IN  IF c = Zero THEN Point(Zero)
        ELSE IF i.empty THEN Empty
        ELSE IF c[1] < 0 THEN New(end(i.hi), end(i.lo)) ELSE New(end(i.lo), end(i.hi))

\* The larger of two ends of an even power.
Larger(p, q) ==
    IF p.inf \/ q.inf THEN Infinite
    ELSE IF RLess(q.value, p.value) THEN p ELSE IF RLess(p.value, q.value) THEN q
    ELSE End(q.value, p.open /\ q.open)

\* ipow: an even power falls up to zero and rises from it.
Power(i, e) ==
    LET end(b) == IF b.inf THEN Infinite ELSE End(RPower(b.value, e), b.open)
    IN  IF e = 0 THEN Point(Rat(1))
        ELSE IF e = 1 \/ i.empty THEN i
        ELSE IF e % 2 = 1 THEN New(end(i.lo), end(i.hi))
        ELSE IF ~i.lo.inf /\ i.lo.value[1] >= 0 THEN New(end(i.lo), end(i.hi))
        ELSE IF ~i.hi.inf /\ i.hi.value[1] <= 0 THEN New(end(i.hi), end(i.lo))
        ELSE New(End(Zero, FALSE), Larger(end(i.lo), end(i.hi)))

\* The reciprocal of an interval without zero, or Empty where the code has none.
AboveZero(b) == ~b.inf /\ (b.value[1] > 0 \/ (b.value = Zero /\ b.open))
BelowZero(b) == ~b.inf /\ (b.value[1] < 0 \/ (b.value = Zero /\ b.open))
RecipEnd(b) ==
    IF b.inf THEN End(Zero, TRUE) ELSE IF b.value = Zero THEN Infinite
    ELSE End(Recip(b.value), b.open)
Reciprocal(i) ==
    IF i.empty \/ ~(AboveZero(i.lo) \/ BelowZero(i.hi)) THEN Empty
    ELSE New(RecipEnd(i.hi), RecipEnd(i.lo))
=============================================================================
