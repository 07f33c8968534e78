-------------------------------- MODULE Drat --------------------------------
(***************************************************************************)
(* The checker of DRAT proofs (src/src/sat/drat.rs).  Each clause a proof  *)
(* adds must follow by reverse unit propagation (RUP), or every resolvent  *)
(* on its first literal must (RAT); a proof that adds the empty clause     *)
(* certifies that the formula is unsatisfiable.                            *)
(*                                                                         *)
(* Unit propagation takes its clauses in any order: the code's rescans of  *)
(* the list are one of the orders.                                         *)
(***************************************************************************)
EXTENDS Integers, Sequences, FiniteSets

CONSTANTS
    Vars,
    Cnf,          \* the formula: a sequence of clauses
    Clauses,      \* the clauses a proof may add or delete
    MaxSteps      \* bound: the steps of a proof

Lits == [var : Vars, sign : BOOLEAN]

ASSUME DratAssumption ==
    /\ Clauses \subseteq Seq(Lits)
    /\ Cnf \in Seq(Seq(Lits))
    /\ MaxSteps \in Nat

VARIABLES
    db,           \* the clauses of the formula now
    phase,        \* "idle", "check" while a clause is checked, or the verdict
    clause,       \* the clause being added
    target,       \* 0: is it RUP?  k: is its resolvent with db[k]?
    assign,       \* the literals that propagation made true
    derived,      \* derived_empty
    steps

vars == <<db, phase, clause, target, assign, derived, steps>>

Neg(l) == [l EXCEPT !.sign = ~@]
In(l, c) == \E i \in DOMAIN c : c[i] = l

Init ==
    /\ db = Cnf
    /\ phase = "idle"
    /\ clause = << >> /\ target = 0 /\ assign = {}
    /\ derived = FALSE
    /\ steps = 0

-----------------------------------------------------------------------------
(* Unit propagation *)

TrueLit(l) == l \in assign
FalseLit(l) == Neg(l) \in assign
\* Slip: one false literal is enough.
FalsifiedSlip(c) == \E i \in DOMAIN c : FalseLit(c[i])

Falsified(c) == \A i \in DOMAIN c : FalseLit(c[i])
Satisfied(c) == \E i \in DOMAIN c : TrueLit(c[i])

\* The only literal of c that has no value, each occurrence counted.
UnitAt(c, i) ==
    /\ ~Satisfied(c)
    /\ ~FalseLit(c[i])
    /\ \A j \in DOMAIN c \ {i} : FalseLit(c[j])

\* The literals of the resolvent of c and d on the first of c.
ResolventLits(c, d) ==
    {c[i] : i \in DOMAIN c} \cup ({d[i] : i \in DOMAIN d} \ {Neg(c[1])})

\* The literals to refute: those of the clause or of a resolvent.
GoalLits(t) ==
    IF t = 0 THEN {clause[i] : i \in DOMAIN clause} ELSE ResolventLits(clause, db[t])
Tautology(lits) == \E l \in lits : Neg(l) \in lits

Propagate ==
    /\ phase = "check"
    /\ ~Tautology(GoalLits(target))
    /\ ~\E k \in DOMAIN db : Falsified(db[k])
    /\ \E k \in DOMAIN db : \E i \in DOMAIN db[k] :
          UnitAt(db[k], i) /\ assign' = assign \cup {db[k][i]}
    /\ UNCHANGED <<db, phase, clause, target, derived, steps>>

Conflict ==
    \/ Tautology(GoalLits(target))
    \/ \E k \in DOMAIN db : Falsified(db[k])
Stuck ==
    /\ ~Conflict
    /\ \A k \in DOMAIN db : \A i \in DOMAIN db[k] : ~UnitAt(db[k], i)

-----------------------------------------------------------------------------
(* RUP and RAT *)

\* Slip: the first clause with the negated pivot is the only one.
PivotsSlip(t) == {k \in DOMAIN db : t = 0 /\ k > t /\ In(Neg(clause[1]), db[k])}

\* The clauses after the t-th with the negated pivot, and the next of them.
Pivots(t) == {k \in DOMAIN db : k > t /\ In(Neg(clause[1]), db[k])}

CheckNext(t) ==
    \E k \in Pivots(t) :
        /\ \A j \in Pivots(t) : k <= j
        /\ target' = k
        /\ assign' = {Neg(l) : l \in ResolventLits(clause, db[k])}
        /\ UNCHANGED <<db, phase, clause, derived, steps>>

\* The clause is redundant: it joins the formula.
Accept ==
    /\ db' = Append(db, clause)
    /\ derived' = (derived \/ clause = << >>)
    /\ phase' = "idle"
    /\ clause' = << >> /\ target' = 0 /\ assign' = {}
    /\ UNCHANGED steps

Reject ==
    /\ phase' = "rejected"
    /\ UNCHANGED <<db, clause, target, assign, derived, steps>>

\* Propagation found a conflict: the clause is RUP, or one resolvent more is.
Redundant ==
    /\ phase = "check" /\ Conflict
    /\ IF target = 0 \/ Pivots(target) = {} THEN Accept
       ELSE CheckNext(target)

\* It found none: a clause that is not RUP may be RAT, the empty one may not.
NotRup ==
    /\ phase = "check" /\ Stuck
    /\ IF target # 0 \/ clause = << >> THEN Reject
       ELSE IF Pivots(0) = {} THEN Accept
       ELSE CheckNext(0)

-----------------------------------------------------------------------------
(* The steps of a proof *)

Add(c) ==
    /\ phase = "idle" /\ steps < MaxSteps
    /\ clause' = c /\ target' = 0
    /\ assign' = {Neg(c[i]) : i \in DOMAIN c}
    /\ phase' = "check"
    /\ steps' = steps + 1
    /\ UNCHANGED <<db, derived>>

SameClause(a, b) == Len(a) = Len(b) /\ \A i \in DOMAIN a : In(a[i], b)

\* Vec::swap_remove
SwapRemove(s, k) ==
    [i \in 1 .. Len(s) - 1 |-> IF i = k THEN s[Len(s)] ELSE s[i]]

Matches(c) == {k \in DOMAIN db : SameClause(db[k], c)}

\* One clause equal to c is removed, if there is one.
Delete(c) ==
    /\ phase = "idle" /\ steps < MaxSteps
    /\ IF Matches(c) = {} THEN UNCHANGED db
       ELSE \E k \in Matches(c) :
               (\A j \in Matches(c) : k <= j) /\ db' = SwapRemove(db, k)
    /\ steps' = steps + 1
    /\ UNCHANGED <<phase, clause, target, assign, derived>>

Finish ==
    /\ phase = "idle"
    /\ phase' = IF derived THEN "verified" ELSE "incomplete"
    /\ UNCHANGED <<db, clause, target, assign, derived, steps>>

Next ==
    \/ \E c \in Clauses : Add(c) \/ Delete(c)
    \/ Propagate \/ Redundant \/ NotRup \/ Finish

\* The loop of the checker runs to its end.
Fairness == WF_vars(Propagate) /\ WF_vars(Redundant) /\ WF_vars(NotRup)

Spec == Init /\ [][Next]_vars /\ Fairness

-----------------------------------------------------------------------------
(* Properties *)

Valuations == [Vars -> BOOLEAN]
Holds(tau, l) == tau[l.var] # l.sign
Sat(tau, c) == \E i \in DOMAIN c : Holds(tau, c[i])
SatLits(tau, lits) == \E l \in lits : Holds(tau, l)
Models(cs) == {tau \in Valuations : \A k \in DOMAIN cs : Sat(tau, cs[k])}

TypeOK ==
    /\ db \in Seq(Seq(Lits))
    /\ phase \in {"idle", "check", "rejected", "verified", "incomplete"}
    /\ clause \in Seq(Lits)
    /\ target \in 0 .. Len(db)
    /\ assign \subseteq Lits
    /\ derived \in BOOLEAN
    /\ steps \in 0 .. MaxSteps

\* Every addition the checker lets through keeps the formula satisfiable, in
\* whatever order clauses were added and deleted (drat.rs:152).
KeepsSatisfiable == Models(Cnf) # {} => Models(db) # {}

\* A verified proof refutes the formula it was given (drat.rs:221).
Certified == derived \/ phase = "verified" => Models(Cnf) = {}

\* While a clause is checked, what propagation made true holds in every model
\* that makes the clause (or the resolvent) false: a conflict refutes it.
PropagationSound ==
    phase = "check" =>
        \A tau \in Models(db) :
            ~SatLits(tau, GoalLits(target)) => \A l \in assign : Holds(tau, l)

\* A check ends with a verdict on its clause.
ChecksEnd == phase = "check" ~> phase \in {"idle", "rejected"}

\* drat.rs:214: "Remove one clause equal as a set."
ClauseSet(c) == {c[i] : i \in DOMAIN c}
DeletesEqual ==
    [][\A c \in Clauses : Delete(c) /\ db' # db =>
          \E k \in DOMAIN db :
              ClauseSet(db[k]) = ClauseSet(c) /\ db' = SwapRemove(db, k)]_vars

\* drat.rs:92: "Runs to fixpoint": a check gives up when no clause has all its
\* literals but one false and none true.
Fixpoint ==
    phase = "check" /\ Stuck =>
        \A k \in DOMAIN db :
            Satisfied(db[k]) \/ Cardinality({l \in ClauseSet(db[k]) : ~FalseLit(l)}) # 1
=============================================================================
