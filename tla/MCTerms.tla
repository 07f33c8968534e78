-------------------------------- MODULE MCTerms --------------------------------
(***************************************************************************)
(* Terms: the table and its walks, copies between managers, rewriting, and *)
(* the tactics over rewriting, side by side.  A run lives in one part, the *)
(* others stay where they start.                                           *)
(***************************************************************************)
EXTENDS AstTranslation, Rewriter, Tactic, TLC

CONSTANTS
    WalkHeads,     \* the symbols of the terms that are walked over
    WalkNodes      \* and their number

-----------------------------------------------------------------------------
(* The table: constants, a unary and a binary symbol, in three families; a hash *)
(* that confuses symbols *)

AllHeads == {"x", "f", "g"} \X (0 .. 2)
FewHeads == {<<"x", 0>>, <<"x", 1>>, <<"f", 0>>, <<"g", 0>>}
ArityOf == [h \in AllHeads |-> CASE h[1] = "x" -> 0 [] h[1] = "f" -> 1 [] h[1] = "g" -> 2]
HashOf(n) == IF n[2] = <<>> THEN 0 ELSE n[2][1] + n[2][Len(n[2])]

\* Sources that register their families in different orders.
FamilyNames == {"basic", "arith"}
Graph == <<<<<<"x", 0>>, <<>>>>, <<<<"x", 2>>, <<>>>>, <<<<"f", 1>>, <<2>>>>, <<<<"g", 2>>, <<3, 2>>>>>>
Cross == <<<<<<"x", 2>>, <<>>>>, <<<<"x", 1>>, <<>>>>, <<<<"g", 1>>, <<1, 1>>>>, <<<<"g", 2>>, <<3, 2>>>>>>
OwnTerms == {<<<<"x", 0>>, <<>>>>, <<<<"x", 1>>, <<>>>>, <<<<"f", 2>>, <<1>>>>, <<<<"g", 2>>, <<2, 1>>>>}
Managers == {[nodes |-> ns, families |-> fams] :
                ns \in {Graph, Cross}, fams \in {<<"basic", "arith">>, <<"arith", "basic">>}}

-----------------------------------------------------------------------------
(* Rewriting: terms two operators deep over truth values, integers and arrays *)

V(x) == <<"var", x>>
Apps(op, S, T) == {App(op, <<s, t>>) : s \in S, t \in T}
Ites(C, S, T) == {App("ite", <<c, s, t>>) : c \in C, s \in S, t \in T}

B0 == {True, False, V("p"), V("q")}
BN == B0 \cup {Not(b) : b \in B0}
BOps == {"and", "or", "=>", "xor", "="}
B1 == BN \cup UNION {Apps(op, {True, V("p")}, B0) : op \in BOps}
         \cup {App(">=", <<V("x"), V("x")>>), App("<", <<Num(1), Num(2)>>)}
BRoots == UNION {Apps(op, B1, B0) : op \in BOps} \cup Ites(BN, BN, B0)
          \cup {App(op, <<a, b, c>>) : op \in {"and", "or"}, a \in BN, b \in B0, c \in BN}
NnfRoots == UNION {Apps(op, B1, BN) : op \in BOps \ {"xor", "="}} \cup {Not(b) : b \in B1}

I0 == {V("x"), V("y"), Num(0), Num(2)}
IFew == {V("x"), Num(2)}
I1 == I0 \cup {App("neg", <<i>>) : i \in I0} \cup UNION {Apps(op, IFew, I0) : op \in {"+", "*", "-"}}
IRoots == Apps("+", I1, I1) \cup {App("+", <<a, b, c>>) : a \in I0, b \in I1, c \in IFew}
          \cup {App("neg", <<i>>) : i \in I1}
          \cup UNION {Apps(op, I1, I0) : op \in {"<=", "<", ">=", ">", "=", "*", "-"}}
          \cup Ites({App("<", <<V("x"), Num(2)>>), App("=", <<Num(0), Num(2)>>)}, I1, IFew)

X0 == {Num(0), Num(1), V("x")}
A0 == {V("a"), App("const", <<Num(0)>>)}
Stores(A) == {App("store", <<a, i, v>>) : a \in A, i \in X0, v \in {Num(1), V("x")}}
ARoots == Stores(A0 \cup Stores(A0)) \cup Apps("select", A0 \cup Stores(A0 \cup Stores(A0)), X0)
          \cup {App("store", <<a, i, App("select", <<b, j>>)>>) : a, b \in A0, i, j \in X0}
SimplifyRoots == BRoots \cup IRoots \cup ARoots

SubstRoots == Apps("+", I1, I0) \cup Apps("<=", I1, IFew)
SubstMaps == {{<<V("x"), V("y")>>, <<V("y"), V("x")>>}, {<<V("x"), App("+", <<V("x"), Num(2)>>)>>},
              {<<App("+", <<V("x"), V("y")>>), V("x")>>, <<V("x"), V("y")>>}}
Values == {[p |-> b, q |-> c, x |-> m, y |-> n, a |-> (-1 :> 1 @@ 0 :> 0 @@ 1 :> m @@ 2 :> 2)] :
              b, c \in BOOLEAN, m, n \in {-1, 2}}

-----------------------------------------------------------------------------
(* Tactics: goals of one or two formulas, every combinator *)

F0 == {True, False, V("p"), V("q"), Not(V("p")), App("=", <<Num(1), Num(2)>>), App("<", <<Num(1), Num(2)>>)}
F1 == F0 \cup {App(op, <<a, b>>) : op \in {"and", "or", "xor"}, a, b \in F0}
F2 == {App("and", <<a, b>>) : a \in F1, b \in F0} \cup {App("ite", <<a, b, c>>) : a, b, c \in F0 \ {V("q")}}
SomeGoals == {<<f>> : f \in F1 \cup F2} \cup {<<f, g>> : f \in F0, g \in F1}

Basic(k) == [kind |-> k]
Two(k, a, b) == [kind |-> k, a |-> a, b |-> b]
Repeat(a, n) == [kind |-> "repeat", a |-> a, max |-> n]
If(p, n, a, b) == [kind |-> "cond", probe |-> p, max |-> n, a |-> a, b |-> b]
EveryTactic ==
    {Repeat(Portfolio, 5), Basic("simplify"), Basic("split"),
     Two("or_else", Two("then", Basic("split"), Basic("fail")), Basic("skip")),
     Two("par", Basic("fail"), Basic("simplify")), Two("par", Basic("split"), Basic("simplify")),
     Repeat(If("num-assertions", 2, Basic("fail"), Basic("split")), 2),
     If("num-exprs", 4, Portfolio, Basic("fail"))}
TruthValues == {[p |-> b, q |-> c] : b, c \in BOOLEAN}

-----------------------------------------------------------------------------

VARIABLE part
termsVars == <<part, allVars, rewriterVars, tacticVars>>

TermsInit ==
    /\ part \in {"walk", "copy", "rewrite", "tactic"}
    /\ IF part = "copy" THEN TranslateInit ELSE TranslateStart(CHOOSE s \in Managers : TRUE)
    /\ IF part = "rewrite" THEN RewriterInit ELSE RewriterStart("nnf", True, {})
    /\ IF part = "tactic" THEN TacticInit ELSE TacticStart(<<>>)

\* Terms of few symbols, and walks from one root or two.
MakeOne == Len(nodes) < WalkNodes /\ \E n \in Contents : n[1] \in WalkHeads /\ Intern(n)
WalkAll == MakeOne \/ (\E i, j \in Ids : Start(<<i>>) \/ Start(<<i, j>>)) \/ Walk

TermsNext ==
    /\ UNCHANGED part
    /\ \/ part = "walk" /\ WalkAll /\ UNCHANGED <<families, copy, rewriterVars, tacticVars>>
       \/ part = "copy" /\ TranslateNext /\ UNCHANGED <<rewriterVars, tacticVars>>
       \/ part = "rewrite" /\ RewriterNext /\ UNCHANGED <<allVars, tacticVars>>
       \/ part = "tactic" /\ TacticNext /\ UNCHANGED <<allVars, rewriterVars>>

TermsSpec == TermsInit /\ [][TermsNext]_termsVars
=============================================================================
