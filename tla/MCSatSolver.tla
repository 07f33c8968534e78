---------------------------- MODULE MCSatSolver ----------------------------
(***************************************************************************)
(* Small instances of SatSolver.  A pool is offered in order, and any of   *)
(* its clauses may be skipped, so one pool stands for all its subsets.     *)
(***************************************************************************)
EXTENDS SatSolver

NoAssumptions == {<<>>}
NoTheory == Assignments

\* Conflicts below the top level, non-chronological backjumps and learnt
\* clauses of two literals.
SearchPool == <<{1, 2, 3}, {1, -2}, {-1, 2, 3}, {-1, -2}, {2, -3}>>

\* A choice between 1 and 2, a tautology and the empty clause.
CallsPool == <<{1, 2}, {-1, -2}, {1, -1}, {}>>
CallsAssumptions == {<<>>, <<1>>}

OneAssumption == {<<1>>}

\* 2 is impossible whatever the assumption 1 says.
AssumedPool == <<{-2, 3}, {-2, -3}>>

\* The theory says that 1 implies 2, and does not care about 3.
ImplyPool == <<{1, 3}, {-2, 3}, {1, 2}, {1, -3}, {-3}>>
ImplyLits == {1, 2, -1, -2}
ImplyModels == {m \in Assignments : 1 \in m => 2 \in m}

\* The theory says 1 and 2: both literals are valid.
ValidLits == {1, 2}
ValidModels == {m \in Assignments : {1, 2} \subseteq m}

\* Two facts queued after a search.
QueuePool == <<{1}, {2}>>
============================================================================
