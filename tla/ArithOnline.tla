---------------------------- MODULE ArithOnline ----------------------------
(***************************************************************************)
(* The online arithmetic of src/smt/arith_online.rs: the simplex follows   *)
(* the trail of the SAT search.  Every trail literal with constraints      *)
(* opens a scope, and its bounds go in under tags that stand for the       *)
(* literals that explain them; equalities that the congruence closure      *)
(* derived come in at their trail positions.  The composition with         *)
(* Simplex: the hook calls the simplex's operations.                       *)
(***************************************************************************)
EXTENDS Simplex, SequencesExt

CONSTANTS
  SatVars,    \* SAT variables 1..SatVars
  AtomBounds, \* AtomBounds[v][p]: the constraint of the atom of v when it has
              \* the polarity p: <<>> for none, or a sequence of bounds
  ArithEquations,  \* what the other theory may derive: [why, bounds]
  MaxArithTrail,   \* bound: length of the trail
  MaxArithPasses   \* bound: calls of propagate

ArithLit == (1..SatVars) \cup {-v : v \in 1..SatVars}
ArithVarOf(l) == IF l > 0 THEN l ELSE -l
NoTag == 0

ASSUME ArithAssumption ==
  /\ SatVars \in Nat
  /\ \A v \in 1..SatVars, p \in BOOLEAN :
       \A i \in DOMAIN AtomBounds[v][p] :
         AtomBounds[v][p][i] \in [var : Var, lower : BOOLEAN, val : Int]
  /\ \A i \in DOMAIN ArithEquations : ArithEquations[i].why \subseteq ArithLit

ArithTrails == {t \in BoundedSeq(ArithLit, MaxArithTrail) :
                  \A i, j \in DOMAIN t : i # j => ArithVarOf(t[i]) # ArithVarOf(t[j])}

VARIABLES
  arithTrail, arithPasses,
  arithProcessed,  \* trail literals asserted
  arithMarks,      \* per asserted literal: its position, number of tags before it
  tags,       \* tag -> the literals it stands for
  arithTodo,       \* bounds of the current literal still to assert: [bound, why, new]
  arithPos, arithStart, asserted,
  arithConflict,   \* answer of the last pass
  arithPc,
  gaveUp,     \* history: since the last check that answered sat a check ran out of
              \* budget,
  moved       \* or one did, or a pass reported a conflict

hookVars == <<arithTrail, arithPasses, arithProcessed, arithMarks, tags, arithTodo, arithPos, arithStart,
              asserted, arithConflict, arithPc, gaveUp, moved>>
hvars == <<simplexVars, hookVars>>

-----------------------------------------------------------------------------

\* The constraint of the trail literal l as a sequence of bounds.
BoundsOf(l) == AtomBounds[ArithVarOf(l)][l > 0]

\* The equations that hold at the end of a trail, each at the position of the
\* last literal of its explanation: the log of the congruence closure.
PositionOf(t, why) == Max({i \in DOMAIN t : t[i] \in why})
Derived(t, p) == {e \in DOMAIN ArithEquations : /\ ArithEquations[e].why \subseteq Range(t)
                                                /\ PositionOf(t, ArithEquations[e].why) = p}

\* The bounds of one constraint; the first of them makes its tag.
Items(bounds, why) ==
  [i \in DOMAIN bounds |-> [bound |-> bounds[i], why |-> why, new |-> i = 1]]

\* What trail position p asserts: the literal's own constraint, then the
\* equations derived at it.
ItemsAt(t, p) ==
  LET derived == Derived(t, p)
      upTo[e \in 0..Len(ArithEquations)] ==
        IF e = 0 THEN Items(BoundsOf(t[p]), {t[p]})
        ELSE IF e \in derived
        THEN upTo[e - 1] \o Items(ArithEquations[e].bounds, ArithEquations[e].why)
        ELSE upTo[e - 1]
  IN  upTo[Len(ArithEquations)]

HInit ==
  /\ SimplexInit
  /\ arithTrail = <<>> /\ arithPasses = 0 /\ arithProcessed = 0 /\ arithMarks = <<>> /\ tags = <<>>
  /\ arithTodo = <<>> /\ arithPos = 0 /\ arithStart = 0 /\ asserted = FALSE /\ arithConflict = {}
  /\ arithPc = "idle" /\ gaveUp = FALSE /\ moved = FALSE

\* add_atom compiles the constraint of a new atom, which may need a row.
AddAtom ==
  /\ arithPc = "idle"
  /\ AddRow
  /\ UNCHANGED hookVars

\* A slip: a mark at the position itself survives.
ArithKeptMarksSlip(s) == Cardinality({i \in DOMAIN arithMarks : arithMarks[i].pos <= s + 1})

\* rollback: the marks of the first s trail positions survive.
ArithKeptMarks(s) == Cardinality({i \in DOMAIN arithMarks : arithMarks[i].pos <= s})

KeptTags(k) == IF k < Len(arithMarks) THEN SubSeq(tags, 1, arithMarks[k + 1].tags) ELSE tags

Rollback(s) ==
  LET k == ArithKeptMarks(s) IN
  /\ PopTo(k)
  /\ tags' = KeptTags(k)
  /\ arithMarks' = SubSeq(arithMarks, 1, k)
  /\ arithProcessed' = Min({arithProcessed, s})

\* retract_all, before the congruence closure starts afresh.
RetractAll ==
  /\ arithPc = "idle" /\ arithMarks # <<>>
  /\ Rollback(0)
  /\ UNCHANGED <<answer, arithTrail, arithPasses, arithTodo, arithPos, arithStart, asserted, arithConflict, arithPc,
                 gaveUp, moved>>

ArithStartPass(t, s) ==
  /\ s <= Len(arithTrail) /\ s <= Len(t)
  /\ SubSeq(t, 1, s) = SubSeq(arithTrail, 1, s)
  /\ arithTrail' = t /\ arithPasses' = arithPasses + 1
  /\ IF s < arithProcessed THEN Rollback(s)
     ELSE UNCHANGED <<boundVars, assignment, tableau, dirty, checking, tags, arithMarks,
                      arithProcessed>>
  /\ arithStart' = arithProcessed' /\ arithPos' = arithProcessed'
  /\ asserted' = FALSE /\ arithConflict' = {} /\ arithTodo' = <<>>
  /\ arithPc' = "assert"
  /\ UNCHANGED <<answer, gaveUp, moved>>

ArithRelevant == {p \in (arithPos + 1)..Len(arithTrail) : ItemsAt(arithTrail, p) # <<>>}

\* The next literal with something to assert opens a scope.
ArithAssertLiteral ==
  /\ arithPc = "assert" /\ ArithRelevant # {}
  /\ Push
  /\ arithPos' = Min(ArithRelevant)
  /\ arithMarks' = Append(arithMarks, [pos |-> arithPos', tags |-> Len(tags)])
  /\ arithTodo' = ItemsAt(arithTrail, arithPos')
  /\ asserted' = TRUE /\ arithPc' = "bound"
  /\ UNCHANGED <<arithTrail, arithPasses, arithProcessed, tags, arithStart, arithConflict, gaveUp, moved>>

\* An equation over a form the simplex has not seen gets its row now.
PrepareRow ==
  /\ arithPc = "bound" /\ ~Made(Head(arithTodo).bound.var)
  /\ AddRow
  /\ UNCHANGED hookVars

\* The literals a core of tags stands for.
LitsOf(core) == UNION {tags'[t] : t \in core}

AssertItem ==
  LET item == Head(arithTodo)
      b == item.bound
  IN
  /\ arithPc = "bound" /\ Made(b.var)
  /\ tags' = IF item.new THEN Append(tags, item.why) ELSE tags
  /\ AssertBound(b.var, b.lower, b.val, Len(tags'))
  /\ IF answer'.kind = "unsat"
       THEN /\ arithConflict' = LitsOf(answer'.core)
            /\ arithTodo' = <<>> /\ arithPc' = "conflict"
       ELSE /\ arithTodo' = Tail(arithTodo) /\ arithConflict' = {}
            /\ arithPc' = IF arithTodo' = <<>> THEN "assert" ELSE "bound"
  /\ UNCHANGED <<tableau, scopes, live, checking, arithTrail, arithPasses, arithProcessed, arithMarks,
                 arithPos, arithStart, asserted, gaveUp, moved>>

\* Nothing new: the pass reports nothing.  Otherwise the bounds are checked.
TrailAsserted ==
  /\ arithPc = "assert" /\ ArithRelevant = {}
  /\ arithProcessed' = Len(arithTrail)
  /\ IF asserted THEN StartCheck /\ arithPc' = "check"
     ELSE arithPc' = "idle" /\ UNCHANGED simplexVars
  /\ UNCHANGED <<arithTrail, arithPasses, arithMarks, tags, arithTodo, arithPos, arithStart, asserted, arithConflict,
                 gaveUp, moved>>

CheckRound ==
  /\ arithPc = "check"
  /\ CheckStep
  /\ IF checking' THEN UNCHANGED <<arithConflict, gaveUp, moved, arithPc>>
     ELSE /\ arithConflict' = IF answer'.kind = "unsat"
                              THEN UNION {tags[t] : t \in answer'.core} ELSE {}
          /\ gaveUp' = (answer'.kind = "exhausted"
                          \/ (gaveUp /\ answer'.kind # "sat"))
          /\ moved' = (answer'.kind # "sat")
          /\ arithPc' = IF answer'.kind = "unsat" THEN "conflict" ELSE "idle"
  /\ UNCHANGED <<arithTrail, arithPasses, arithProcessed, arithMarks, tags, arithTodo, arithPos, arithStart, asserted>>

\* The search backjumps below this pass: it is forgotten at once.
ForgetPass == Rollback(arithStart)

ReportConflict ==
  /\ arithPc = "conflict"
  /\ ForgetPass
  /\ arithPc' = "idle" /\ moved' = TRUE
  /\ UNCHANGED <<answer, arithTrail, arithPasses, arithTodo, arithPos, arithStart, asserted, arithConflict,
                 gaveUp>>

ArithPassStep ==
  \/ ArithAssertLiteral \/ PrepareRow \/ AssertItem \/ TrailAsserted \/ CheckRound
  \/ ReportConflict

HNext ==
  \/ AddAtom \/ RetractAll
  \/ /\ arithPc = "idle" /\ arithPasses < MaxArithPasses
     /\ \E t \in ArithTrails, s \in 0..MaxArithTrail : ArithStartPass(t, s)
  \/ ArithPassStep

HSpec == HInit /\ [][HNext]_hvars

-----------------------------------------------------------------------------
(* Correctness.                                                            *)

HTypeOK ==
  /\ arithPc \in {"idle", "assert", "bound", "check", "conflict"}
  /\ checking <=> arithPc = "check"
  /\ {arithProcessed, arithStart, arithPos} \subseteq 0..MaxArithTrail
  /\ Range(tags) \subseteq SUBSET ArithLit
  /\ \A i \in DOMAIN arithMarks : arithMarks[i].tags <= Len(tags)
  /\ arithConflict \subseteq ArithLit

\* The positions whose bounds are in the simplex, and those bounds.
ArithSettled == arithPc \in {"idle", "assert"}
Followed == IF arithPc = "assert" THEN arithPos ELSE arithProcessed
AssertedItems == UNION {Range(ItemsAt(arithTrail, p)) : p \in 1..Followed}

\* Scopes, marks and tags stay in step: one scope for each mark, in the order
\* of the trail, and one tag for each constraint below it.
MarksInStep ==
  ArithSettled => \A items \in {[p \in 1..Followed |-> Range(ItemsAt(arithTrail, p))]} :
    /\ Len(scopes) = Len(arithMarks)
    /\ \A i, j \in DOMAIN arithMarks : i < j => arithMarks[i].pos < arithMarks[j].pos
    /\ {arithMarks[i].pos : i \in DOMAIN arithMarks} = {p \in 1..Followed : items[p] # {}}
    /\ \A i \in DOMAIN arithMarks : \A t \in DOMAIN tags :
         t > arithMarks[i].tags /\ (i < Len(arithMarks) => t <= arithMarks[i + 1].tags)
           => \E x \in items[arithMarks[i].pos] : x.why = tags[t]

\* The bounds in the simplex are the tightest of those the asserted part of
\* the trail calls for, and each has the tag of an explanation of it.
BoundsFollowTrail ==
  ArithSettled => \A items \in {AssertedItems} : \A v \in Var :
    LET low == {x \in items : x.bound.var = v /\ x.bound.lower}
        high == {x \in items : x.bound.var = v /\ ~x.bound.lower}
    IN
    /\ IF low = {} THEN lower[v].tag = NoTag
       ELSE \E x \in low : /\ \A y \in low : y.bound.val <= x.bound.val
                           /\ lower[v].val = x.bound.val
                           /\ lower[v].tag # NoTag /\ tags[lower[v].tag] = x.why
    /\ IF high = {} THEN upper[v].tag = NoTag
       ELSE \E x \in high : /\ \A y \in high : y.bound.val >= x.bound.val
                            /\ upper[v].val = x.bound.val
                            /\ upper[v].tag # NoTag /\ tags[upper[v].tag] = x.why

\* Reference definition: the literals S and the equations they derive have a
\* common solution, one of the values Near for each structural variable.
BoundsOfSet(S) ==
  UNION {Range(BoundsOf(l)) : l \in S}
    \cup UNION {Range(e.bounds) : e \in {d \in Range(ArithEquations) : d.why \subseteq S}}
Meets(x, b) ==
  LET val == IF b.var <= NumStruct THEN x[b.var]
             ELSE SumOver([y \in 1..NumStruct |-> Forms[b.var - NumStruct][y] * x[y]],
                      1..NumStruct)
  IN  IF b.lower THEN val >= b.val ELSE val <= b.val
Solutions ==
  {{b \in BoundsOfSet(ArithLit) : Meets(x, b)} : x \in [1..NumStruct -> Near]}
Consistent(S) == \E met \in Solutions : BoundsOfSet(S) \subseteq met

\* A conflict is a set of literals of the trail that cannot hold together.
ConflictSound ==
  arithPc = "conflict" => arithConflict \subseteq Range(arithTrail) /\ ~Consistent(arithConflict)

\* A pass that reports no conflict leaves a trail that can be met, unless a budget was
\* spent; and values that meet it, unless a conflict came after the last check.  A
\* conflict retracts its pass but keeps the values it moved, and a pass with nothing to
\* assert does not check: the values may then miss bounds that are kept.
PassComplete ==
  /\ arithPc = "idle" /\ ~gaveUp =>
       Consistent(Range(SubSeq(arithTrail, 1, arithProcessed)))
  /\ arithPc = "idle" /\ ~moved => \A v \in Var : ~Violated(v)

\* The hook does what the trail asks: its scopes and bounds follow the trail, its
\* conflicts are conflicts, a silent pass leaves a trail that can be met, and the
\* simplex meets it as long as no pass was retracted since the last check.
HookExact == MarksInStep /\ BoundsFollowTrail /\ ConflictSound /\ PassComplete

=============================================================================
