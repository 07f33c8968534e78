------------------------------- MODULE MCSmt -------------------------------
(***************************************************************************)
(* The core loop of the solver and the session above it, side by side: a   *)
(* run lives in one part, the other stays where it starts.  The session    *)
(* takes a check by its contract, which is what the loop is checked and    *)
(* proved to keep.                                                         *)
(***************************************************************************)
EXTENDS SmtCore, CmdContext

CONSTANTS x, y, rec, con, rel, la, lb, lu, le, g, conj, every, some, axiom, value, goal,
          unnamed

MCNames == {x, y, rec, con, rel}
MCFormulas == {la, lb, lu, le, g, conj, every, some, axiom, value, goal}
MCWorlds == 1 .. 3
MCModelsOf ==
    [f \in MCFormulas |->
        CASE f = la -> {1, 2} [] f = lb -> {3} [] f = lu -> {1, 3} [] f = le -> {2, 3}
          [] f = g -> {2} [] f = every -> {1, 3} [] f = some -> {1, 2} [] f = conj -> {1}
          [] f = axiom -> {1, 2} [] f = value -> {2, 3} [] f = goal -> {3}]
MCUses ==
    [f \in MCFormulas |->
        CASE f \in {some, conj} -> {x, y} [] f = axiom -> {rec} [] f = value -> {con} [] f = goal -> {rel}
          [] f \in {g} -> {y} [] OTHER -> {x}]
MCKind ==
    [f \in MCFormulas |->
        CASE f \in {lu, every, axiom, goal} -> "forall" [] f \in {le, some} -> "expanded"
          [] f = conj -> "and" [] OTHER -> "ground"]
MCParts == [f \in {conj} |-> <<every, some>>]
MCLabel == [f \in MCFormulas |-> IF f \in {la, lb, lu, le} THEN f ELSE unnamed]
MCAxiom == [n \in {rec, con} |-> IF n = rec THEN axiom ELSE value]
MCMutual == {<<con, rec>>}
MCRelGoal == [r \in {rel} |-> goal]
OneDeclared == <<x>>
MCIds == {"a", "b"}

\* The core: one integer n in -1 .. 1 and a predicate p on integers, with its
\* atoms px = p(n) and p0 = p(0).
V(S) == {[a \in Atoms |-> s[a]] : s \in S}

\* eq0: n = 0, lt: n <= -1, gt: n >= 1.
IntWorlds ==
    {[a \in Atoms |-> CASE a = "eq0" -> n = 0
                        [] a = "lt" -> n <= -1
                        [] a = "gt" -> n >= 1
                        [] a = "px" -> px
                        [] a = "p0" -> p0] :
        n \in -1 .. 1, px \in BOOLEAN, p0 \in BOOLEAN}

\* Congruence: n = 0 makes p(n) and p(0) the same.
Congruent(w) == w["eq0"] => w["px"] = w["p0"]

Both == {w \in IntWorlds : Congruent(w)}
Euf == {w \in Valuations : Congruent(w)}
\* The simplex refutes lt and gt together, and each with eq0.
Online == {w \in Euf : Cardinality({a \in {"eq0", "lt", "gt"} : w[a]}) <= 1}

AllAtoms == {"eq0", "lt", "gt", "px", "p0"}
EufAtoms == {"eq0", "px", "p0"}
Arith == {"eq0", "lt", "gt"}
Splits == [e \in {"eq0"} |-> <<"lt", "gt">>]

T(a) == <<a, TRUE>>
F(a) == <<a, FALSE>>
Lower == {"lt"}
Eq0 == {"eq0"}

\* p(n) or p(0), not both; n < 1: the theories share n without an equality; n = 0
\* cannot be with the first.
Combine == {{{T("px"), T("p0")}, {F("px"), F("p0")}},
            {{F("gt")}},
            {{T("eq0")}}}

VARIABLE part
smtVars == <<part, vars, cmdVars>>

\* Three kinds of session: of declarations, of recursive definitions, and of
\* queries, with scopes and, the last two, with checks.
Scopes == RunPush \/ RunPop \/ RunReset \/ RunResetAssertions \/ RunAssert
Declares == RunDeclare \/ RunDefine \/ RunDeclareRel \/ RunSoft
Defines == RunDefineRec \/ RunDefineFuns
Queries == RunDeclareRel \/ RunQuery
Checks == RunCheck \/ RunCore

Core == part = "core" /\ Round /\ UNCHANGED <<part, cmdVars>>

SmtInit == part \in {"core", "declares", "defines", "queries"} /\ Init /\ CmdInit
SmtNext ==
    \/ Core
    \/ part = "core" /\ UNCHANGED <<part, cmdVars>> /\ (StartCheck \/ \E f \in Formulas : AssertRoot(f))
    \/ part # "core" /\ Scopes /\ UNCHANGED <<part, vars>>
    \/ part = "declares" /\ Declares /\ UNCHANGED <<part, vars>>
    \/ part = "defines" /\ Defines /\ UNCHANGED <<part, vars>>
    \/ part = "queries" /\ Queries /\ UNCHANGED <<part, vars>>
    \/ part \in {"defines", "queries"} /\ Checks /\ UNCHANGED <<part, vars>>
SmtSpec == SmtInit /\ [][SmtNext]_smtVars
=============================================================================
