---------------------------- MODULE NlsatIntervals ----------------------------
(***************************************************************************)
(* The sets of infeasible intervals of the nonlinear solver                *)
(* (src/src/nlsat/solver.rs): the values of a variable at which a literal  *)
(* is false, as sorted intervals, each with the literal it comes from.     *)
(* Endpoints are the points 1 .. Points of the line; 0 stands where an end *)
(* is infinite.                                                            *)
(***************************************************************************)
EXTENDS Integers, Sequences

CONSTANT Points

ASSUME PointsAssumption == Points \in Nat

NoPoint == 0

Interval(lo, u, l) ==
    [lowerOpen |-> lo.open, lowerInf |-> lo.inf, lower |-> lo.at,
     upperOpen |-> u.open, upperInf |-> u.inf, upper |-> u.at, just |-> l]

Open(p) == [open |-> TRUE, inf |-> FALSE, at |-> p]
Closed(p) == [open |-> FALSE, inf |-> FALSE, at |-> p]
Infinite == [open |-> TRUE, inf |-> TRUE, at |-> NoPoint]

\* An interval set: its intervals in order, and whether they cover the line.
EmptySet == [ivs |-> << >>, full |-> FALSE]
Single(iv) == [ivs |-> <<iv>>, full |-> iv.lowerInf /\ iv.upperInf]
Line(l) == Single(Interval(Infinite, Infinite, l))

-----------------------------------------------------------------------------
(* Comparing ends: negative, zero or positive *)

CompareLowerLower(a, b) ==
    CASE a.lowerInf /\ b.lowerInf -> 0
      [] a.lowerInf /\ ~b.lowerInf -> -1
      [] ~a.lowerInf /\ b.lowerInf -> 1
      [] OTHER -> IF a.lower # b.lower THEN a.lower - b.lower
                  ELSE IF a.lowerOpen = b.lowerOpen THEN 0 ELSE IF a.lowerOpen THEN 1 ELSE -1

CompareUpperUpper(a, b) ==
    CASE a.upperInf /\ b.upperInf -> 0
      [] a.upperInf /\ ~b.upperInf -> 1
      [] ~a.upperInf /\ b.upperInf -> -1
      [] OTHER -> IF a.upper # b.upper THEN a.upper - b.upper
                  ELSE IF a.upperOpen = b.upperOpen THEN 0 ELSE IF a.upperOpen THEN -1 ELSE 1

CompareUpperLower(a, b) ==
    IF a.upperInf \/ b.lowerInf THEN 1
    ELSE IF a.upper # b.lower THEN a.upper - b.lower
    ELSE IF ~a.upperOpen /\ ~b.lowerOpen THEN 0 ELSE -1

\* Nothing is left out between the two.
Adjacent(a, b) ==
    ~a.upperInf /\ ~b.lowerInf /\ a.upper = b.lower /\ (~a.upperOpen \/ ~b.lowerOpen)

-----------------------------------------------------------------------------
(* Union *)

\* The part of a before b.
Cut(a, b) == [a EXCEPT !.upperOpen = ~b.lowerOpen, !.upperInf = FALSE, !.upper = b.lower]

\* Where a starts no later than b: what goes out now, and which of the two are
\* dealt with.
Lead(a, b) ==
    LET u == CompareUpperUpper(a, b)
        meets == CompareUpperLower(a, b)
        same == CompareLowerLower(a, b) = 0
        gone(out) == [out |-> out, a |-> TRUE, b |-> FALSE]
    IN  CASE u = 0 -> [out |-> <<a>>, a |-> TRUE, b |-> TRUE]
          [] u > 0 -> [out |-> << >>, a |-> FALSE, b |-> TRUE]
          [] u < 0 /\ meets < 0 -> gone(<<a>>)
          [] u < 0 /\ meets >= 0 /\ same -> gone(<< >>)
          [] u < 0 /\ meets = 0 /\ ~same ->
                gone(<<[a EXCEPT !.upperOpen = TRUE, !.upperInf = FALSE]>>)
          [] u < 0 /\ meets > 0 /\ ~same -> gone(<<Cut(a, b)>>)

RECURSIVE Merge(_, _), Onward(_, _, _, _)
Merge(s, t) ==
    IF s = << >> THEN t
    ELSE IF t = << >> THEN s
    ELSE LET first == CompareLowerLower(Head(s), Head(t)) <= 0
         IN  Onward(IF first THEN Lead(Head(s), Head(t)) ELSE Lead(Head(t), Head(s)), first, s, t)

Onward(lead, first, s, t) ==
    lead.out \o Merge(IF (first /\ lead.a) \/ (~first /\ lead.b) THEN Tail(s) ELSE s,
                      IF (first /\ lead.b) \/ (~first /\ lead.a) THEN Tail(t) ELSE t)

\* Neighbours with one justification are joined.
RECURSIVE Joined(_)
Joined(s) ==
    IF Len(s) < 2 THEN s
    ELSE IF s[1].just = s[2].just /\ Adjacent(s[1], s[2])
         THEN Joined(<<[s[1] EXCEPT !.upperInf = s[2].upperInf, !.upperOpen = s[2].upperOpen,
                                    !.upper = s[2].upper]>> \o Tail(Tail(s)))
         ELSE <<s[1]>> \o Joined(Tail(s))

Whole(ivs) ==
    [ivs |-> ivs,
     full |-> /\ ivs[1].lowerInf /\ ivs[Len(ivs)].upperInf
              /\ \A i \in 1 .. Len(ivs) - 1 : Adjacent(ivs[i], ivs[i + 1])]

Union(s, t) ==
    IF s.ivs = << >> \/ (t.ivs # << >> /\ ~s.full /\ t.full) THEN t
    ELSE IF t.ivs = << >> \/ s.full THEN s
    ELSE Whole(Joined(Merge(s.ivs, t.ivs)))

-----------------------------------------------------------------------------
(* Inclusion and justifications *)

\* The inner loop, with t's interval k: the first interval of s is inside it, before
\* its end, behind it, or goes on into the next.
RECURSIVE Within(_, _), WithinFrom(_, _, _)
Within(s, t) ==
    IF s = << >> \/ t = << >> THEN s = << >>
    ELSE CompareLowerLower(s[1], t[1]) >= 0 /\ WithinFrom(s, t, 1)

WithinFrom(s, t, k) ==
    LET u == CompareUpperUpper(s[1], t[k])
        rest(n) == SubSeq(t, n, Len(t))
    IN  IF u <= 0 THEN Within(Tail(s), rest(IF u = 0 THEN k + 1 ELSE k))
        ELSE IF CompareUpperLower(t[k], s[1]) < 0 THEN Within(s, rest(k + 1))
        ELSE k < Len(t) /\ Adjacent(t[k], t[k + 1]) /\ WithinFrom(s, t, k + 1)

Subset(s, t) ==
    \/ s.ivs = << >>
    \/ t.ivs # << >> /\ (t.full \/ (~s.full /\ Within(s.ivs, t.ivs)))

RECURSIVE Distinct(_)
Distinct(lits) ==
    IF lits = << >> THEN << >>
    ELSE <<lits[1]>> \o Distinct(SelectSeq(Tail(lits), LAMBDA l : l # lits[1]))

Justifications(s) == Distinct([i \in DOMAIN s.ivs |-> s.ivs[i].just])

-----------------------------------------------------------------------------
(* The values at which a literal is false *)

\* The atoms: p = 0, p < 0, p > 0, and comparisons with the i-th root of p.
Kinds == {"Eq", "Lt", "Gt"}
RootKinds == {"RootEq", "RootLt", "RootGt", "RootLe", "RootGe"}

Satisfied(sign, kind) ==
    \/ sign = 0 /\ kind \in {"Eq", "RootEq", "RootLe", "RootGe"}
    \/ sign < 0 /\ kind \in {"Lt", "RootLt", "RootLe"}
    \/ sign > 0 /\ kind \in {"Gt", "RootGt", "RootGe"}

\* A comparison with the i-th root; without such a root it is false.
RootInfeasible(kind, neg, roots, i, l) ==
    LET r == roots[i]
        below(end) == Single(Interval(Infinite, end, l))
        above(end) == Single(Interval(end, Infinite, l))
    IN  IF i > Len(roots) THEN IF neg THEN EmptySet ELSE Line(l)
        ELSE CASE kind = "RootEq" /\ neg -> Single(Interval(Closed(r), Closed(r), l))
               [] kind = "RootEq" /\ ~neg -> Union(below(Open(r)), above(Open(r)))
               [] (kind = "RootLt" /\ neg) \/ (kind = "RootGe" /\ ~neg) -> below(Open(r))
               [] (kind = "RootLt" /\ ~neg) \/ (kind = "RootGe" /\ neg) -> above(Closed(r))
               [] (kind = "RootGt" /\ neg) \/ (kind = "RootLe" /\ ~neg) -> above(Open(r))
               [] (kind = "RootGt" /\ ~neg) \/ (kind = "RootLe" /\ neg) -> below(Closed(r))

\* The sign of the polynomial on its c-th cell: sectors are even, roots odd.
SignAt(signs, c) == IF c % 2 = 1 THEN 0 ELSE signs[c \div 2 + 1]

\* Where an interval starts whose first cell is c, and ends whose last is c - 1.
Start(roots, c) ==
    IF c = 0 THEN Infinite
    ELSE IF c % 2 = 1 THEN Closed(roots[c \div 2 + 1]) ELSE Open(roots[(c - 1) \div 2 + 1])
End(roots, c) ==
    IF c % 2 = 1 THEN Open(roots[c \div 2 + 1]) ELSE Closed(roots[(c - 1) \div 2 + 1])

\* A cell more: a run where the condition fails is closed where it holds again, and
\* begins where it fails first.
CellStep(s, holds, roots, c, l) ==
    CASE holds = s.sat -> s
      [] holds /\ ~s.sat ->
            [s EXCEPT !.sat = TRUE, !.set = Union(@, Single(Interval(s.start, End(roots, c), l)))]
      [] ~holds /\ s.sat -> [s EXCEPT !.sat = FALSE, !.start = Start(roots, c)]

LastRun(s, l) == IF s.sat THEN s.set ELSE Union(s.set, Single(Interval(s.start, Infinite, l)))

\* A sign condition: runs of cells where it fails, joined one by one.
SignInfeasible(kind, neg, roots, signs, l) ==
    LET last == 2 * Len(roots)
        Step[c \in -1 .. last] ==
            IF c = -1 THEN [set |-> EmptySet, sat |-> TRUE, start |-> Infinite]
            ELSE CellStep(Step[c - 1], Satisfied(SignAt(signs, c), kind) # neg, roots, c, l)
    IN  LastRun(Step[last], l)

-----------------------------------------------------------------------------
(* Cells of the line: point p is cell 2p - 1, the sectors are even *)

Cells == 0 .. 2 * Points

CellsOf(iv) ==
    (IF iv.lowerInf THEN 0 ELSE IF iv.lowerOpen THEN 2 * iv.lower ELSE 2 * iv.lower - 1)
    .. (IF iv.upperInf THEN 2 * Points
        ELSE IF iv.upperOpen THEN 2 * iv.upper - 2 ELSE 2 * iv.upper - 1)

Covered(s) == UNION {CellsOf(s.ivs[i]) : i \in DOMAIN s.ivs}

\* Neighbours that leave a point out.
LeftOpen(iv, next) == iv.upperOpen /\ next.lowerOpen

\* pick_in_complement: zero where it is free, else a value of a gap (below the
\* first interval rather than above the last, or between two: the random generator
\* decides), else a point that two intervals leave open.
PickInComplement(s, zero) ==
    LET n == Len(s.ivs)
        below == IF s.ivs[1].lowerInf THEN {} ELSE 0 .. 2 * s.ivs[1].lower - 2
        above == IF s.ivs[n].upperInf THEN {} ELSE 2 * s.ivs[n].upper .. 2 * Points
        between == UNION {2 * s.ivs[i].upper .. 2 * s.ivs[i + 1].lower - 2 :
                             i \in {j \in 1 .. n - 1 : s.ivs[j].upper < s.ivs[j + 1].lower}}
        shared == {i \in 1 .. n - 1 : LeftOpen(s.ivs[i], s.ivs[i + 1])}
    IN  IF n = 0 \/ zero \notin Covered(s) THEN {zero}
        ELSE IF below \cup above \cup between # {}
             THEN (IF below = {} THEN above ELSE below) \cup between
        ELSE {2 * s.ivs[i].upper - 1 : i \in shared}
=============================================================================
