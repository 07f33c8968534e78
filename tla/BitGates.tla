------------------------------- MODULE BitGates -------------------------------
(***************************************************************************)
(* The gates of the bit-blaster (src/src/smt/bv.rs): each returns a        *)
(* literal equal to a function of its inputs, folding constants, sharing   *)
(* equal gates, and adding the clauses of a fresh variable for the rest.   *)
(* Variable 1 is true; a literal is a variable or its negative.            *)
(***************************************************************************)
EXTENDS Integers

CONSTANT MaxVars       \* the variables explored

ASSUME MaxVarsAssumption == MaxVars \in Nat \ {0}

VARIABLES
    numVars,           \* the variables of the SAT solver
    clauses,           \* its clauses
    gateCache,         \* [tag, a, b] |-> its output, as a set of records
    inputs,            \* the variables that stand for bits of the formula
    built              \* every gate asked for, with what was returned

vars == <<numVars, clauses, gateCache, inputs, built>>

TrueLit == 1
Abs(l) == IF l < 0 THEN -l ELSE l
Lits == {l \in -numVars .. numVars : l # 0}
Tags == {"and", "or", "xor"}

Init ==
    /\ numVars = 1 /\ clauses = {{TrueLit}}
    /\ gateCache = {} /\ inputs = {} /\ built = {}

\* A variable of its own for a bit of the formula.
Fresh ==
    /\ numVars < MaxVars
    /\ numVars' = numVars + 1 /\ inputs' = inputs \cup {numVars + 1}
    /\ UNCHANGED <<clauses, gateCache, built>>

-----------------------------------------------------------------------------
(* Folding: what a gate returns without a variable, or 0 *)

FoldedAnd(a, b) ==
    IF a = TrueLit \/ a = b THEN b
    ELSE IF b = TrueLit THEN a
    ELSE IF a = -TrueLit \/ b = -TrueLit \/ a = -b THEN -TrueLit ELSE 0

FoldedOr(a, b) ==
    IF a = -TrueLit \/ a = b THEN b
    ELSE IF b = -TrueLit THEN a
    ELSE IF a = TrueLit \/ b = TrueLit \/ a = -b THEN TrueLit ELSE 0

\* Slip: the exclusive or of a literal with itself is true.
FoldedXorSlip(a, b) == IF a = b THEN TrueLit ELSE IF a = -b THEN TrueLit ELSE 0

FoldedXor(a, b) ==
    IF a = -TrueLit THEN b
    ELSE IF b = -TrueLit THEN a
    ELSE IF a = TrueLit THEN -b
    ELSE IF b = TrueLit THEN -a
    ELSE IF a = b THEN -TrueLit
    ELSE IF a = -b THEN TrueLit ELSE 0

Folded(tag, a, b) ==
    IF tag = "and" THEN FoldedAnd(a, b)
    ELSE IF tag = "or" THEN FoldedOr(a, b) ELSE FoldedXor(a, b)

\* The clauses that make c the gate's value.
Defining(tag, a, b, c) ==
    IF tag = "and" THEN {{-c, a}, {-c, b}, {c, -a, -b}}
    ELSE IF tag = "or" THEN {{c, -a}, {c, -b}, {-c, a, b}}
    ELSE {{-c, a, b}, {-c, -a, -b}, {c, -a, b}, {c, a, -b}}

\* gate_key: the inputs in order, as every gate is commutative.
Key(tag, a, b) == [tag |-> tag, a |-> IF a <= b THEN a ELSE b, b |-> IF a <= b THEN b ELSE a]

Cached(tag, a, b) == {e \in gateCache : e.key = Key(tag, a, b)}

Returned(tag, a, b, c) == built' = built \cup {[tag |-> tag, a |-> a, b |-> b, out |-> c]}

\* and2, or2, xor2.
Fold(tag, a, b) ==
    /\ Folded(tag, a, b) # 0
    /\ Returned(tag, a, b, Folded(tag, a, b))
    /\ UNCHANGED <<numVars, clauses, gateCache, inputs>>

Share(tag, a, b) ==
    /\ Folded(tag, a, b) = 0
    /\ \E e \in Cached(tag, a, b) : Returned(tag, a, b, e.out)
    /\ UNCHANGED <<numVars, clauses, gateCache, inputs>>

Define(tag, a, b) ==
    /\ Folded(tag, a, b) = 0 /\ Cached(tag, a, b) = {}
    /\ numVars < MaxVars
    /\ numVars' = numVars + 1
    /\ clauses' = clauses \cup Defining(tag, a, b, numVars + 1)
    /\ gateCache' = gateCache \cup {[key |-> Key(tag, a, b), out |-> numVars + 1]}
    /\ Returned(tag, a, b, numVars + 1)
    /\ UNCHANGED inputs

Gate(tag, a, b) == Fold(tag, a, b) \/ Share(tag, a, b) \/ Define(tag, a, b)

Next == Fresh \/ \E tag \in Tags, a, b \in Lits : Gate(tag, a, b)

Spec == Init /\ [][Next]_vars

-----------------------------------------------------------------------------
(* Properties *)

LitTrue(v, l) == IF l > 0 THEN v[l] ELSE ~v[-l]
Valuations(n) == [1 .. n -> BOOLEAN]
Satisfies(v) == \A c \in clauses : \E l \in c : LitTrue(v, l)

\* What each gate is to be.
Value(tag, p, q) == IF tag = "and" THEN p /\ q ELSE IF tag = "or" THEN p \/ q ELSE p # q

TypeOK ==
    /\ numVars \in 1 .. MaxVars
    /\ clauses \subseteq SUBSET Lits
    /\ inputs \subseteq 2 .. numVars
    /\ gateCache \subseteq [key : [tag : Tags, a : Lits, b : Lits], out : Lits]
    /\ built \subseteq [tag : Tags, a : Lits, b : Lits, out : Lits]

\* Every literal returned has the value of its gate in every model of the clauses,
\* folded, shared or defined, whatever was built in between.
GatesExact ==
    \A v \in Valuations(numVars) :
        Satisfies(v) =>
            \A g \in built : LitTrue(v, g.out) = Value(g.tag, LitTrue(v, g.a), LitTrue(v, g.b))

\* The clauses decide nothing about the formula: every choice of its bits is still
\* possible, so unsat is never an artefact of the circuit.
InputsFree ==
    \A f \in [inputs -> BOOLEAN] :
        \E v \in Valuations(numVars) : (\A i \in inputs : v[i] = f[i]) /\ Satisfies(v)

\* One gate has one output: asking again, with the inputs in either order, never
\* gives another literal.
Shared ==
    \A g, h \in built : g.tag = h.tag /\ {g.a, g.b} = {h.a, h.b} => g.out = h.out

\* A gate returns exactly its function, once, and at no cost to the formula.
GatesRight == GatesExact /\ InputsFree /\ Shared
=============================================================================
