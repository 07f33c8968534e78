------------------------------- MODULE Tseitin -------------------------------
(***************************************************************************)
(* The clauses that stand for Boolean formulas (src/src/sat/tseitin.rs).   *)
(* Formulas are the nodes of a graph whose arguments have smaller numbers; *)
(* encode_more adds one more formula to the solver, sharing what was       *)
(* encoded before.  New variables are numbered in argument-first order;    *)
(* which such order it is only renames them.                               *)
(***************************************************************************)
EXTENDS Integers, Sequences, FiniteSets

CONSTANTS
    Ops,           \* Ops[k]: the operators of the graphs explored, by arity
    Nodes,         \* the number of nodes of a graph
    AtomNodes,         \* the first nodes: atoms
    MaxRoots       \* bound: the formulas encoded one after another

\* The operators of k arguments; "and" and "or" take any number.
OpsOf(k) ==
    {"and", "or"} \cup (IF k = 0 THEN {"true", "false"} ELSE {}) \cup (IF k = 1 THEN {"not"} ELSE {})
        \cup (IF k = 2 THEN {"implies", "xor", "iff"} ELSE {}) \cup (IF k = 3 THEN {"ite"} ELSE {})

ASSUME TseitinAssumption ==
    /\ Nodes \in Nat /\ AtomNodes \in 0 .. Nodes /\ MaxRoots \in Nat
    /\ \A k \in DOMAIN Ops : k \in Nat /\ Ops[k] \subseteq OpsOf(k)

\* A literal is a variable or its negative.
NoLit == 0

VARIABLES
    graph,         \* graph[f]: the operator and arguments of node f
    clauses,       \* the clauses given to the solver
    cache,         \* the literal of each node encoded, atoms included
    trueLit,       \* the literal that is always true, or NoLit
    numVars,
    asserted       \* the formulas encoded

tseitinVars == <<graph, clauses, cache, trueLit, numVars, asserted>>

Node(op, args) == [op |-> op, args |-> args]

\* The nodes that may have number f, and the graphs they build.
NodesAt(f) ==
    IF f <= AtomNodes THEN {Node("atom", << >>)}
    ELSE UNION {[op : Ops[k], args : [1 .. k -> 1 .. f - 1]] : k \in DOMAIN Ops}

Graphs ==
    LET upTo[n \in 0 .. Nodes] ==
            IF n = 0 THEN {<< >>}
            ELSE UNION {{Append(g, node) : node \in NodesAt(n)} : g \in upTo[n - 1]}
    IN  upTo[Nodes]

TseitinStart(g) ==
    /\ graph = g
    /\ clauses = {} /\ numVars = 0 /\ trueLit = NoLit
    /\ cache = [f \in 1 .. Nodes |-> NoLit]
    /\ asserted = {}

TseitinInit == \E g \in Graphs : TseitinStart(g)

-----------------------------------------------------------------------------
(* The clauses of a connective: y if and only if op of the literals *)

Literals(s) == {s[i] : i \in DOMAIN s}

\* Slip: the clause back from the conjuncts is left out.
DefineAndSlip(y, s) == {{-y, l} : l \in Literals(s)}

DefineAnd(y, s) ==
    {{-y, l} : l \in Literals(s)} \cup {{y} \cup {-l : l \in Literals(s)}}

DefineOr(y, s) ==
    {{-l, y} : l \in Literals(s)} \cup {{-y} \cup Literals(s)}

DefineXor(y, a, b) == {{-y, a, b}, {-y, -a, -b}, {y, -a, b}, {y, a, -b}}
DefineIff(y, a, b) == {{-y, -a, b}, {-y, a, -b}, {y, a, b}, {y, -a, -b}}

DefineIte(y, c, t, e) == {{-y, -c, t}, {-y, c, e}, {y, -c, -t}, {y, c, -e}}

Define(op, y, s) ==
    CASE op = "and" -> DefineAnd(y, s)
      [] op = "or" -> DefineOr(y, s)
      [] op = "implies" -> DefineOr(y, <<-s[1], s[2]>>)
      [] op = "xor" -> DefineXor(y, s[1], s[2])
      [] op = "iff" -> DefineIff(y, s[1], s[2])
      [] op = "ite" -> DefineIte(y, s[1], s[2], s[3])
      [] op = "atom" -> {}

-----------------------------------------------------------------------------
(* encode_more *)

\* What the encoding of one formula works on.
Encoder == [clauses |-> clauses, cache |-> cache, trueLit |-> trueLit, numVars |-> numVars]

\* The literal of a node whose negations are stripped; "not" is never cached.
LitOf(enc, f) ==
    LET lit[g \in 1 .. Nodes] ==
            IF graph[g].op = "not" THEN -lit[graph[g].args[1]] ELSE enc.cache[g]
    IN  lit[f]

\* The true literal is created once, with its unit clause.
WithTrue(enc) ==
    IF enc.trueLit # NoLit THEN enc
    ELSE [enc EXCEPT !.numVars = @ + 1, !.trueLit = enc.numVars + 1,
                     !.clauses = @ \cup {{enc.numVars + 1}}]

EncodeNode(enc, f) ==
    LET node == graph[f]
        y == enc.numVars + 1
        lits == [i \in DOMAIN node.args |-> LitOf(enc, node.args[i])]
    IN  IF node.op = "not" \/ enc.cache[f] # NoLit THEN enc
        ELSE CASE node.op = "true" -> [WithTrue(enc) EXCEPT !.cache[f] = WithTrue(enc).trueLit]
               [] node.op = "false" -> [WithTrue(enc) EXCEPT !.cache[f] = -WithTrue(enc).trueLit]
               [] OTHER -> [enc EXCEPT !.numVars = y, !.cache[f] = y,
                                       !.clauses = @ \cup Define(node.op, y, lits)]

\* The nodes below f, itself included.
Below(f) ==
    LET reach[g \in 1 .. Nodes] == {g} \cup UNION {reach[h] : h \in Literals(graph[g].args)}
    IN  reach[f]

EncodeMore(f) ==
    LET after[g \in 0 .. Nodes] ==
            IF g = 0 THEN Encoder
            ELSE IF g \in Below(f) THEN EncodeNode(after[g - 1], g) ELSE after[g - 1]
        enc == after[Nodes]
    IN  /\ Cardinality(asserted) < MaxRoots /\ f \notin asserted
        /\ clauses' = enc.clauses /\ cache' = enc.cache
        /\ trueLit' = enc.trueLit /\ numVars' = enc.numVars
        /\ asserted' = asserted \cup {f}
        /\ UNCHANGED graph

TseitinNext == \E f \in 1 .. Nodes : EncodeMore(f)

TseitinSpec == TseitinInit /\ [][TseitinNext]_tseitinVars

-----------------------------------------------------------------------------
(* Properties *)

TseitinValuations == [1 .. numVars -> BOOLEAN]
HoldsIn(v, l) == IF l > 0 THEN v[l] ELSE ~v[-l]
Satisfies(v) == \A c \in clauses : \E l \in c : HoldsIn(v, l)

\* A connective of the values p.
Applied(op, p) ==
    CASE op = "true" -> TRUE
      [] op = "false" -> FALSE
      [] op = "not" -> ~p[1]
      [] op = "and" -> \A i \in DOMAIN p : p[i]
      [] op = "or" -> \E i \in DOMAIN p : p[i]
      [] op = "implies" -> p[1] => p[2]
      [] op = "xor" -> p[1] # p[2]
      [] op = "iff" -> p[1] = p[2]
      [] op = "ite" -> IF p[1] THEN p[2] ELSE p[3]

\* What the nodes mean when their atoms have the values of their variables.
Meaning(v) ==
    LET value[f \in 1 .. Nodes] ==
            IF graph[f].op = "atom" THEN cache[f] # NoLit /\ HoldsIn(v, cache[f])
            ELSE Applied(graph[f].op, [i \in DOMAIN graph[f].args |-> value[graph[f].args[i]]])
    IN  value

AtomVars == {cache[f] : f \in 1 .. AtomNodes} \ {NoLit}

TseitinTypeOK ==
    /\ \A c \in clauses : c \subseteq (-numVars .. numVars) \ {0}
    /\ \A f \in 1 .. Nodes : cache[f] \in -numVars .. numVars
    /\ trueLit \in 0 .. numVars
    /\ asserted \subseteq 1 .. Nodes

\* In every model of the clauses the literal of each formula has the value the
\* formula has under the model's atoms: an assignment the SAT core finds is one
\* of the formulas, and a clause learned from the encoding loses none.
LiteralsMean ==
    \A v \in {w \in TseitinValuations : Satisfies(w)} :
        \A f \in 1 .. Nodes : cache[f] # NoLit => (HoldsIn(v, cache[f]) = Meaning(v)[f])

\* Whatever the atoms are worth, the clauses have exactly one model: encoding a
\* formula, also one that shares parts with others, constrains nothing.
ExtendsUniquely ==
    \A atoms \in [AtomVars -> BOOLEAN] :
        \E v \in TseitinValuations :
            /\ \A x \in AtomVars : v[x] = atoms[x]
            /\ \A w \in TseitinValuations :
                   (\A x \in AtomVars : w[x] = atoms[x]) => (Satisfies(w) <=> w = v)

\* The clauses say exactly what the formulas say.
EncodingExact == LiteralsMean /\ ExtendsUniquely

\* Every formula and subformula has one literal for good: an encoding made later
\* leaves those before it in place.
LiteralsStay ==
    [][\A f \in 1 .. Nodes : cache[f] # NoLit => cache'[f] = cache[f]]_tseitinVars
=============================================================================
