----------------------------- MODULE MCClauses -----------------------------
(***************************************************************************)
(* What works on clauses and rules, side by side: the proof checker, the   *)
(* encoding of formulas and the fixed point of rules.  A run lives in one  *)
(* part, the others stay where they start.                                 *)
(***************************************************************************)
EXTENDS Drat, Tseitin, Datalog

\* A satisfiable formula over two variables; the proofs also add clauses on a
\* third, new one.
CONSTANTS a, b, x

Pos(v) == [var |-> v, sign |-> FALSE]
Opp(v) == [var |-> v, sign |-> TRUE]

Open == <<<<Pos(a), Pos(b)>>, <<Opp(a), Pos(b)>>, <<Pos(a), Opp(b)>>>>
OpenSteps ==
    {<<Pos(b)>>, <<Opp(a)>>, << >>, <<Pos(a), Pos(b)>>, <<Pos(x), Pos(a)>>, <<Opp(x), Opp(b)>>,
     <<Opp(x), Pos(x)>>, <<Opp(b), Pos(a)>>}

\* Graphs of two atoms and two connectives of every kind, encoded in two calls in
\* either order.
AllOps ==
    [k \in 0 .. 3 |->
        CASE k = 0 -> {"true", "false"} [] k = 1 -> {"not"}
          [] k = 2 -> {"and", "or", "implies", "xor", "iff"} [] k = 3 -> {"and", "or", "ite"}]

\* Every program of three rules from a pool: facts, a transitive closure written
\* both ways, joins, repeated variables, constants, an unsafe rule and one
\* predicate with two arities.
P(v) == [pred |-> "p", args |-> <<v>>]
E(v, w) == [pred |-> "e", args |-> <<v, w>>]
EAlone(v) == [pred |-> "e", args |-> <<v>>]
Rule(head, atoms) == [head |-> head, body |-> atoms]

Pool ==
    {Rule(E("a", "b"), << >>),
     Rule(P("b"), << >>),
     Rule(E("Y", "X"), <<E("X", "Y")>>),
     Rule(E("X", "Z"), <<E("X", "Y"), E("Y", "Z")>>),
     Rule(P("X"), <<E("X", "X")>>),
     Rule(P("X"), <<P("Y"), E("Y", "X")>>),
     Rule(E("X", "X"), <<P("X")>>),
     Rule(P("X"), <<P("Y")>>),
     Rule(EAlone("X"), <<P("X"), E("X", "b")>>),
     Rule(P("X"), <<EAlone("X")>>)}

ThreeRules == [1 .. 3 -> Pool]
AskedAtoms == {P("X"), E("X", "X"), E("a", "Y"), P("a")}
AllFacts ==
    {P(v) : v \in Consts} \cup {E(v, w) : v, w \in Consts} \cup {EAlone(v) : v \in Consts}

VARIABLE part
clausesVars == <<part, vars, tseitinVars, datalogVars>>

AGraph == CHOOSE graphs \in Graphs : TRUE
AProgram == CHOOSE rules \in Programs : TRUE

ClausesInit ==
    \/ part = "proof" /\ Init /\ TseitinStart(AGraph) /\ DatalogStart(AProgram)
    \/ part = "encoding" /\ Init /\ TseitinInit /\ DatalogStart(AProgram)
    \/ part = "rules" /\ Init /\ TseitinStart(AGraph) /\ DatalogInit

ClausesNext ==
    \/ part = "proof" /\ Next /\ UNCHANGED <<part, tseitinVars, datalogVars>>
    \/ part = "encoding" /\ TseitinNext /\ UNCHANGED <<part, vars, datalogVars>>
    \/ part = "rules" /\ DatalogNext /\ UNCHANGED <<part, vars, tseitinVars>>

ClausesSpec == ClausesInit /\ [][ClausesNext]_clausesVars
=============================================================================
