----------------------------- MODULE MCNlsatSearch -----------------------------
(***************************************************************************)
(* Inputs for the nonlinear search over an integer x and a real y, each    *)
(* with the points 0 and 1.                                                *)
(***************************************************************************)
EXTENDS NlsatSearch, SequencesExt

\* x * y: its sign over a negative, zero and positive x.
Product(kind) ==
    [x |-> 2, kind |-> kind,
     roots |-> [p \in Lower(2) |-> IF p[1] = 1 THEN << >> ELSE <<1>>],
     signs |-> [p \in Lower(2) |-> IF p[1] = 0 THEN <<1, -1>> ELSE IF p[1] = 1 THEN <<0>> ELSE <<-1, 1>>]]

\* x * y * (1 - y): two roots, or zero everywhere.
Cubic(kind) ==
    [x |-> 2, kind |-> kind,
     roots |-> [p \in Lower(2) |-> IF p[1] = 1 THEN << >> ELSE <<1, 2>>],
     signs |-> [p \in Lower(2) |-> IF p[1] = 0 THEN <<1, -1, 1>> ELSE IF p[1] = 1 THEN <<0>> ELSE <<-1, 1, -1>>]]

\* The literals 2 .. 7 compare x with 0 and 1, 8, 9 and 12 .. 15 compare y.
Atoms2 ==
    <<Comparison(1, "Lt", 1), Comparison(1, "Lt", 2), Comparison(1, "Gt", 1), Comparison(1, "Gt", 2),
      Comparison(1, "Eq", 1), Comparison(1, "Eq", 2),
      Comparison(2, "Lt", 1), Comparison(2, "Lt", 2), Product("Lt"), Cubic("Gt"),
      Comparison(2, "Gt", 1), Comparison(2, "Gt", 2), Comparison(2, "Eq", 1), Comparison(2, "Eq", 2),
      Product("Eq")>>

Clauses(lits, sizes) ==
    {Sorted(SetToSeq(S)) : S \in {T \in SUBSET lits : Cardinality(T) \in sizes /\ \A l \in T : -l \notin T}}

\* Three clauses about a Boolean, x > 0, x * y < 0, x * y * (1 - y) > 0 and x * y = 0.
PlaneProblems ==
    (Clauses({1, 4, 10, -11}, {2}) \X Clauses({-1, 4, 10, 11}, {2}) \X {<<-10>>})
        \cup {<<1, 10>>, <<10, -11>>} \X {<<-1, 4>>, <<4, 10>>} \X {<<16>>}
\* Two about a Boolean and where x is between 0 and 1.
LineProblems ==
    LET cs == Clauses({1, -1, 3, -3, 4, -6, 7}, {1, 2}) IN cs \X cs
\* A conflict that the last decision has no part in.
LevelProblems ==
    {<<4, 3>>, <<12, 10>>} \X {<<3, 5>>, <<9, 11>>} \X {<<2>>, <<8>>}
\* One whose only models are at the end of a cell to be explained: open, for the equality
\* is no literal of a full-dimensional input.
EndProblems == {<<4, 6>>, <<4, 5, 6>>} \X {<<12>>, <<13>>} \X {<<16>>}
AllProblems == PlaneProblems \cup LineProblems \cup LevelProblems \cup EndProblems
=============================================================================
