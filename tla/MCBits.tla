-------------------------------- MODULE MCBits --------------------------------
(***************************************************************************)
(* The procedures that decide by computing on numbers, side by side: the   *)
(* gates and circuits of bit-vectors, the boxes of interval propagation    *)
(* and Cooper's elimination.  A run lives in one part, the others stay     *)
(* where they start.                                                       *)
(***************************************************************************)
EXTENDS BitGates, BitBlast, Icp, Cooper

CONSTANT MaxGates      \* the gates asked for: what one returns does not depend on
                       \* those that defined nothing

\* Interval propagation over two variables: circles, hyperbolas, products, bounds.
M(c, m, n) == [c |-> Rat(c), mono |-> <<m, n>>]
C(poly, rel) == [poly |-> poly, rel |-> rel]

Curves ==
    {C(<<M(1, 2, 0), M(1, 0, 2), M(-2, 0, 0)>>, "<="),      \* x2 + y2 <= 2
     C(<<M(1, 2, 0), M(-2, 0, 2)>>, "="),                   \* x2 = 2 y2
     C(<<M(1, 1, 1), M(-1, 0, 0)>>, "="),                   \* xy = 1
     C(<<M(1, 1, 1), M(-1, 1, 0)>>, "="),                   \* xy = x
     C(<<M(1, 1, 1), M(1, 0, 0)>>, ">"),                    \* xy > -1
     C(<<M(1, 2, 0), M(1, 0, 1)>>, "<"),                    \* x2 + y < 0
     C(<<M(1, 1, 0), M(-2, 0, 0)>>, "<"),                   \* x < 2
     C(<<M(1, 1, 0), M(-1, 0, 0)>>, ">="),                  \* x >= 1
     C(<<M(-2, 1, 0), M(1, 0, 0)>>, "#"),                   \* -2x # -1
     C(<<M(2, 1, 0), M(-1, 0, 0)>>, "="),                   \* 2x = 1, whatever y
     C(<<M(-1, 0, 1)>>, ">"),                               \* y < 0
     C(<<M(2, 0, 1), M(-1, 0, 0)>>, ">="),                  \* y >= 1/2
     C(<<M(-1, 1, 0), M(1, 0, 1)>>, "<="),                  \* y <= x
     C(<<M(2, 1, 0), M(-1, 0, 1)>>, "<=")}                  \* 2x <= y, halving forever
Halves == {Ratio(n, 2) : n \in -5 .. 5}

\* Elimination over two variables; coefficients of the first up to 3, so that
\* scales multiply.
A(kind, m, a, b, k) == Atom(kind, m, Expr(<<a, b>>, k))

CooperAtoms ==
    {A("<", 0, -2, 1, 1), A("<", 0, 3, 0, -5), A("<=", 0, 1, 1, -2), A("<=", 0, -1, 2, 0),
     A("=", 0, 2, -1, 0), A("#", 0, 1, -1, 0), A("|", 2, 1, 1, 1), A("!|", 3, 1, 0, 0),
     A("<=", 0, 0, -1, -1)}
FewAtoms ==
    {A("<", 0, -2, 1, 1), A("<=", 0, 1, 1, -2), A("=", 0, 2, -1, 0), A("#", 0, 1, -1, 0),
     A("!|", 3, 1, 0, 0)}
CubesOf(atoms) == {cube \in SUBSET atoms : Cardinality(cube) \in {1, 2}}
\* A cube, or two.
CubesUpToTwo == {{cube} : cube \in CubesOf(CooperAtoms)}
                    \cup {f \in SUBSET CubesOf(FewAtoms) : Cardinality(f) = 2}

NoInput == [i \in 1 .. 1 |-> FALSE]
OneConstraint == <<CHOOSE c \in Curves : TRUE>>
OneCube == {{A("<=", 0, 0, -1, -1)}}

VARIABLE part
bitsVars == <<part, vars, blastVars, icpVars, cooperVars>>

BitsInit ==
    /\ part \in {"gates", "blast", "box", "cooper"}
    /\ Init
    /\ IF part = "blast" THEN BlastInit ELSE BlastStart(NoInput, NoInput)
    /\ IF part = "box" THEN IcpInit ELSE IcpStart(OneConstraint)
    /\ IF part = "cooper" THEN CooperInit ELSE CooperStart(OneCube)

\* The gates after the bits of the formula, the calls in any order, again too.
FewGates == Fresh \/ (Cardinality(built) < MaxGates /\ Next)

BitsNext ==
    /\ UNCHANGED part
    /\ \/ part = "gates" /\ FewGates /\ UNCHANGED <<blastVars, icpVars, cooperVars>>
       \/ part = "blast" /\ BlastNext /\ UNCHANGED <<vars, icpVars, cooperVars>>
       \/ part = "box" /\ IcpNext /\ UNCHANGED <<vars, blastVars, cooperVars>>
       \/ part = "cooper" /\ CooperNext /\ UNCHANGED <<vars, blastVars, icpVars>>

BitsSpec == BitsInit /\ [][BitsNext]_bitsVars
=============================================================================
