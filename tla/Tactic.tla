--------------------------------- MODULE Tactic ---------------------------------
(***************************************************************************)
(* Goals, tactics and their combinators (src/src/tactic/mod.rs).  A goal   *)
(* is a list of formulas that must all hold; a tactic makes a list of      *)
(* goals of it that must all hold, or fails.                               *)
(***************************************************************************)
EXTENDS Rewrites
LOCAL INSTANCE SequencesExt

CONSTANTS
    Goals,         \* the goals to begin with
    Tactics,       \* the tactics applied
    TacticEnvs,          \* the values of the constants
    TacticMaxCalls       \* bound: applications in a row

ASSUME TacticAssumption == TacticMaxCalls \in Nat

VARIABLES
    first,         \* the goal begun with
    goals,         \* what has become of it
    calls          \* the tactics applied to all of them

tacticVars == <<first, goals, calls>>

-----------------------------------------------------------------------------
(* Goals and probes *)

DecidedUnsat(g) == In(False, g)
DecidedSat(g) == \A k \in DOMAIN g : g[k] = True

NumAssertions(g) == Len(g)
NumExprs(g) == FoldLeft(LAMBDA n, f : n + Cardinality(Subterms(f)), 0, g)
Probe(p, g) == IF p = "num-assertions" THEN NumAssertions(g) ELSE NumExprs(g)

\* A list of goals, or a failure.
Fine(gs) == [ok |-> TRUE, goals |-> gs]
Failed == [ok |-> FALSE, goals |-> <<>>]

-----------------------------------------------------------------------------
(* Tactics *)

\* Simplify: a false formula is all of the goal, true ones go.
SimplifiedGoal(g) ==
    LET all == [k \in DOMAIN g |-> Simplified(g[k])]
    IN  IF In(False, all) THEN <<False>> ELSE SelectSeq(all, LAMBDA f : f # True)

\* flatten_and.
RECURSIVE Conjuncts(_)
Conjuncts(f) ==
    IF Op(f) = "and" THEN FlattenSeq([k \in DOMAIN Args(f) |-> Conjuncts(Args(f)[k])]) ELSE <<f>>

\* The results of a tactic on every goal, one after the other.
Joined(results) ==
    IF \A k \in DOMAIN results : results[k].ok
    THEN Fine(FlattenSeq([k \in DOMAIN results |-> results[k].goals])) ELSE Failed

Size(gs) == FoldLeft(LAMBDA n, g : n + Len(g), 0, gs)

\* repeat, one round: a goal on which the tactic fails stays.
Once(results, gs) ==
    FlattenSeq([k \in DOMAIN gs |-> IF results[k].ok THEN results[k].goals ELSE <<gs[k]>>])

\* Slip: the side with fewer formulas wins though it failed.
SmallerSlip(a, b) == IF Size(a.goals) <= Size(b.goals) THEN Fine(a.goals) ELSE Fine(b.goals)

\* par: the side with fewer formulas, of those that did not fail.
Smaller(a, b) == IF a.ok /\ (~b.ok \/ Size(a.goals) <= Size(b.goals)) THEN a ELSE b

RECURSIVE Apply(_, _), Repeated(_, _, _)

Repeated(t, n, gs) ==
    IF n = 0 THEN gs
    ELSE LET next == Once([k \in DOMAIN gs |-> Apply(t, gs[k])], gs)
         IN  IF next = gs THEN gs ELSE Repeated(t, n - 1, next)
Apply(t, g) ==
    CASE t.kind = "skip" -> Fine(<<g>>)
      [] t.kind = "fail" -> Failed
      [] t.kind = "simplify" -> Fine(<<SimplifiedGoal(g)>>)
      [] t.kind = "split" -> Fine(<<FlattenSeq([k \in DOMAIN g |-> Conjuncts(g[k])])>>)
      [] t.kind = "then" ->
            LET mid == Apply(t.a, g)
            IN  IF mid.ok THEN Joined([k \in DOMAIN mid.goals |-> Apply(t.b, mid.goals[k])]) ELSE Failed
      [] t.kind = "or_else" -> LET a == Apply(t.a, g) IN IF a.ok THEN a ELSE Apply(t.b, g)
      [] t.kind = "par" -> Smaller(Apply(t.a, g), Apply(t.b, g))
      [] t.kind = "repeat" -> Fine(Repeated(t.a, t.max, <<g>>))
      [] t.kind = "cond" -> IF Probe(t.probe, g) >= t.max THEN Apply(t.a, g) ELSE Apply(t.b, g)

\* A caller applies a tactic to all goals it has; one that fails changes nothing.
Call(t) ==
    /\ Len(calls) < TacticMaxCalls
    /\ LET result == Joined([k \in DOMAIN goals |-> Apply(t, goals[k])])
       IN  goals' = IF result.ok THEN result.goals ELSE goals
    /\ calls' = Append(calls, t)
    /\ UNCHANGED first

TacticStart(g) == first = g /\ goals = <<g>> /\ calls = <<>>
TacticInit == \E g \in Goals : TacticStart(g)

TacticNext == \E t \in Tactics : Call(t)

TacticSpec == TacticInit /\ [][TacticNext]_tacticVars

-----------------------------------------------------------------------------
(* Properties *)

Holds(g, env) == \A k \in DOMAIN g : Value(g[k], env)
AllHold(gs, env) == \A k \in DOMAIN gs : Holds(gs[k], env)

\* Together the goals say what the first goal said, whatever failed, was repeated
\* or was chosen on the way.
Equivalent == \A env \in TacticEnvs : AllHold(goals, env) = Holds(first, env)

\* What is decided by looking is right.
DecidedRight ==
    /\ (\E k \in DOMAIN goals : DecidedUnsat(goals[k])) => \A env \in TacticEnvs : ~Holds(first, env)
    /\ (\A k \in DOMAIN goals : DecidedSat(goals[k])) => \A env \in TacticEnvs : Holds(first, env)

\* Repeating split and simplify often enough leaves nothing for either to do, and
\* decides a goal without constants.
Portfolio == [kind |-> "then", a |-> [kind |-> "split"], b |-> [kind |-> "simplify"]]
Ground(g) == \A k \in DOMAIN g : \A t \in Subterms(g[k]) : Op(t) # "var"
Settled ==
    (calls # <<>> /\ Last(calls).kind = "repeat" /\ Last(calls).a = Portfolio) =>
        \A k \in DOMAIN goals :
            /\ Apply(Portfolio, goals[k]) = Fine(<<goals[k]>>)
            /\ \A l \in DOMAIN goals[k] : Op(goals[k][l]) # "and"
            /\ Ground(first) => DecidedUnsat(goals[k]) \/ DecidedSat(goals[k])

\* A portfolio keeps the goal and says rightly when it is decided.
TacticsRight == Equivalent /\ DecidedRight /\ Settled
=============================================================================
