---------------------------- MODULE MCTheories ----------------------------
(***************************************************************************)
(* The congruence closure, the simplex and the arithmetic that follows the *)
(* trail, side by side: a run lives in one part, the others stay where     *)
(* they start.  The simplex alone takes the bounds of one caller; under    *)
(* ArithOnline it is driven by the trail.                                  *)
(***************************************************************************)
EXTENDS EufOnline, ArithOnline

VARIABLE part

all == <<part, vars, hvars>>

\* true, false, the numerals 0 and 1, a, p(a), p(0): values and predicates.
\* The terms of p come with the second stage.
PredDecl == <<"true", "false", "0", "1", "a", "p", "p">>
PredArgs == <<<<>>, <<>>, <<>>, <<>>, <<>>, <<5>>, <<3>>>>
PredVal == [n \in 1..7 |-> IF n <= 4 THEN PredDecl[n] ELSE NoVal]
PredAtoms == <<[kind |-> "eq", lit |-> 1, x |-> 5, y |-> 3],
               [kind |-> "eq", lit |-> 2, x |-> 5, y |-> 4],
               [kind |-> "pred", lit |-> 3, x |-> 6, y |-> 1],
               [kind |-> "pred", lit |-> 4, x |-> 7, y |-> 1]>>
PredStages == <<<<5, 2>>, <<7, 4>>>>
PredArith == 3..5

Low(v, n)  == [var |-> v, lower |-> TRUE, val |-> n]
High(v, n) == [var |-> v, lower |-> FALSE, val |-> n]

\* x, y, z with x - y and y - z.  1: x <= 1 or x > 1; 2: y = 1 or nothing;
\* 3: x - y >= 1 or x - y < 1.  The other theory derives x - y = 1 and x = 2.
OnlineForms == <<<<1, -1, 0>>, <<0, 1, -1>>>>
OnlineAtoms == <<[p \in BOOLEAN |-> IF p THEN <<High(1, 100)>> ELSE <<Low(1, 101)>>],
                 [p \in BOOLEAN |-> IF p THEN <<Low(2, 100), High(2, 100)>> ELSE <<>>],
                 [p \in BOOLEAN |-> IF p THEN <<Low(4, 100)>> ELSE <<High(4, 99)>>]>>
OnlineEquations == <<[why |-> {-1, 2}, bounds |-> <<Low(4, 100), High(4, 100)>>],
                     [why |-> {-2, 3}, bounds |-> <<Low(1, 200), High(1, 200)>>]>>

\* x < 1, then x <= 1; x - y > 0, y - z > 0, z >= 1.
DiffBounds == <<High(1, 99), High(1, 100), Low(4, 1), Low(5, 1), Low(3, 100)>>

\* The run is within the limits of the model of numbers and pivots.
ASSUME ParametersAssumption == Differences /\ BoundsAreStrict

TheoriesInit == part \in {"closure", "simplex", "arithmetic"} /\ Init /\ HInit

TheoriesNext ==
  \/ part = "closure" /\ Next /\ UNCHANGED <<part, hvars>>
  \/ part = "simplex" /\ SimplexNext /\ UNCHANGED <<part, vars, hookVars>>
  \/ part = "arithmetic" /\ HNext /\ UNCHANGED <<part, vars>>

TheoriesSpec == TheoriesInit /\ [][TheoriesNext]_all

\* The answers of the simplex to its one caller: the bounds are the tightest
\* of the asserted ones, an unsat core cannot hold together, a model meets all.
SimplexRight == part = "simplex" => AnswersRight

\* Under the trail the simplex and the hook's own books do what the trail asks.
HookRight == part = "arithmetic" => HookExact
=============================================================================
