----------------------------- MODULE EufOnline -----------------------------
(***************************************************************************)
(* The online congruence closure of src/smt/euf_online.rs: an e-graph that *)
(* follows the trail of the SAT search.  A pass of the theory hook undoes  *)
(* the merges of retracted literals from an undo trail, asserts the new    *)
(* literals one by one, merges classes, closes them under congruence, and  *)
(* answers with a conflict or with implied literals, each explained from   *)
(* the proof forest.  Congruences between arithmetic terms go to a log     *)
(* that the arithmetic theory mirrors (src/smt/solver.rs).                 *)
(*                                                                         *)
(* Terms are hash-consed, so the known nodes have different signatures     *)
(* and no congruence holds before a literal is asserted.  The congruence   *)
(* table keeps for each entry the signature it was filed under; a lookup   *)
(* finds an entry only under its current one.  The undo entries of one     *)
(* merge form one record.  The implied literals of a pass are a set.       *)
(***************************************************************************)
EXTENDS Integers, Sequences, FiniteSets, FiniteSetsExt, SequencesExt

CONSTANTS
  NumNodes,   \* the nodes are 1..NumNodes; 1 is true and 2 is false
  Decl,       \* declaration of each node
  Args,       \* argument nodes of each node, <<>> for a constant
  Val,        \* interpreted value of a node, or NoVal
  NoVal,
  ArithNodes, \* the nodes of an arithmetic sort
  Atoms,      \* the watched atoms [kind, lit, x, y]: lit <=> x = y, or
              \* lit <=> x for a predicate (y = 1, the node of true)
  NumVars,    \* SAT variables 1..NumVars
  Stages,     \* what is known: <<nodes, atoms>>, growing
  MaxTrail,   \* bound: length of the trail
  MaxPasses   \* bound: calls of propagate

Node == 1..NumNodes
TrueNode  == 1
FalseNode == 2
None == 0
Lit == (1..NumVars) \cup {-v : v \in 1..NumVars}
VarOf(l) == IF l > 0 THEN l ELSE -l
Infinity == 1000000   \* usize::MAX

ASSUME EufAssumption ==
  /\ NumNodes \in Nat /\ NumNodes >= 2
  /\ Args \in [Node -> Seq(Node)]
  /\ DOMAIN Decl = Node /\ DOMAIN Val = Node
  /\ Val[TrueNode] # NoVal /\ Val[FalseNode] # NoVal
  /\ Val[TrueNode] # Val[FalseNode]
  /\ \A n \in Node :     \* a term true or false never joins a class
       Val[n] \in {Val[TrueNode], Val[FalseNode]} => n <= FalseNode
  /\ ArithNodes \subseteq Node
  /\ Atoms \in Seq([kind : {"eq", "pred"}, lit : Lit, x : Node, y : Node])
  /\ Stages \in Seq(Node \X (0..Len(Atoms))) /\ Stages # <<>>
  /\ MaxTrail \in Nat
  /\ \A m, n \in Node :    \* hash-consing
       m # n /\ Args[m] # <<>> => <<Decl[m], Args[m]>> # <<Decl[n], Args[n]>>

\* The trails of the solver: no variable twice.
Trails == {t \in BoundedSeq(Lit, MaxTrail) :
             \A i, j \in DOMAIN t : i # j => VarOf(t[i]) # VarOf(t[j])}

VARIABLES
  stage,     \* what new and extend have made known so far
  root,      \* union-find root, kept exact by relabelling
  next,      \* circular member list of a class
  size,      \* at a root: size of the class
  parents,   \* at a root: applications with an argument in the class
  watch,     \* at a root: atoms with a side in the class
  value,     \* at a root: a node of the class with an interpreted value
  cg,        \* congruence table: the signature an application is filed under
  target,    \* proof forest
  just,      \* why the edge out of a node holds
  undo,      \* one record per merge
  pending,   \* congruences found and not merged yet
  marks,     \* per asserted literal: its position, length of undo before it
  processed, \* trail literals asserted
  eqLog,     \* congruences between arithmetic terms, by position
  eqLow,     \* shortest length of eqLog since it was read
  eqs,       \* the reader's copy of eqLog
  trail,     \* the solver's trail
  pc, goal, pos, todo, start, firstMark,  \* locals of propagate
  implied, conflict, done,                \* the answer of the running pass
  passes,    \* calls so far
  before     \* history: the e-graph at each mark

graph  == <<root, next, size, parents, watch, value, cg, target>>
envVars == <<stage, trail, passes>>
logVars == <<eqLog, eqLow, eqs>>
passVars == <<start, firstMark>>
answerVars == <<implied, conflict, done>>
vars == <<graph, just, undo, pending, marks, processed, logVars, envVars, pc,
          goal, pos, todo, passVars, answerVars, before>>

ByLit(l)     == [lit |-> l, p |-> None, q |-> None]
ByCong(p, q) == [lit |-> 0, p |-> p, q |-> q]
IsCong(j)    == j.lit = 0

KnownNodes == 1..Stages[stage][1]
KnownAtoms == 1..Stages[stage][2]
IsTrue(l)  == l \in Range(trail)
AtomsOf(v) == {i \in KnownAtoms : VarOf(Atoms[i].lit) = v}

-----------------------------------------------------------------------------
(* Operators on a candidate state of the e-graph.                          *)

\* Signature of an application over the roots rt.
Key(rt, p) == <<Decl[p], [i \in DOMAIN Args[p] |-> rt[Args[p][i]]]>>

Entry(rt, p) == [key |-> Key(rt, p), app |-> p]

\* cg_find: the entries filed under p's signature that still have it.
Found(table, rt, p) ==
  {e.app : e \in {d \in table : d.key = Key(rt, p)
                              /\ Key(rt, d.app) = Key(rt, p)}}

\* The members of a class, along its circular list.
Members(nx, n) ==
  LET at[k \in 0..NumNodes] == IF k = 0 THEN n ELSE nx[at[k - 1]]
  IN  {at[k] : k \in 0..NumNodes}

\* n and the nodes above it in the proof forest tg.
Above(tg, n) ==
  LET step == [m \in Node \cup {None} |-> IF m = None THEN None ELSE tg[m]]
      at[k \in 0..NumNodes] == IF k = 0 THEN n ELSE step[at[k - 1]]
  IN  {at[k] : k \in 0..NumNodes} \ {None}

\* invert_trans: n becomes the root of its proof tree; the edges above it turn
\* round, each taking its reason along.
InvertedTarget(tg, n) ==
  LET up == Above(tg, n)
      turned == {<<tg[c], c>> : c \in {m \in up : tg[m] # None}}
  IN  [m \in Node |-> CASE m = n -> None
                        [] m \in up \ {n} -> (CHOOSE e \in turned : e[1] = m)[2]
                        [] OTHER -> tg[m]]
InvertedJust(tg, js, n) ==
  LET up == Above(tg, n)
      turned == {<<tg[c], js[c]>> : c \in {m \in up : tg[m] # None}}
  IN  [m \in Node |-> IF m \in up \ {n} THEN (CHOOSE e \in turned : e[1] = m)[2]
                      ELSE js[m]]

\* The nodes whose edge lies on the tree path from x to y.
PathEdges(tg, x, y) ==
  LET up == Above(tg, x)
      down == Above(tg, y)
  IN  (up \ down) \cup (down \ up)

\* The edges an explanation of x = y reads: those of its path, and those that
\* explain the arguments of each congruence on the way.
ExplanationEdges(tg, js, x, y) ==
  LET read[k \in 0..NumNodes] ==
        PathEdges(tg, x, y) \cup
          IF k = 0 THEN {}
          ELSE UNION {UNION {PathEdges(tg, Args[js[n].p][i], Args[js[n].q][i]) :
                               i \in DOMAIN Args[js[n].p]} :
                        n \in {m \in read[k - 1] : IsCong(js[m])}}
  IN  read[NumNodes]

\* A slip: the arguments of a congruence are not explained.
ExplainSlip(tg, js, x, y) ==
  {js[n].lit : n \in {m \in PathEdges(tg, x, y) : ~IsCong(js[m])}}

\* explain: the literals that force x = y.
Explain(tg, js, x, y) ==
  {js[n].lit : n \in {m \in ExplanationEdges(tg, js, x, y) : ~IsCong(js[m])}}

-----------------------------------------------------------------------------
(* Building and growing.                                                   *)

\* The k-th element has k - 1 smaller ones.
Ascending(S) ==
  [k \in 1..Cardinality(S) |-> CHOOSE x \in S : Cardinality({y \in S : y < x}) = k - 1]
NewNodes(s) == {n \in Node : /\ n <= Stages[s][1]
                             /\ s > 1 => n > Stages[s - 1][1]}
NewAtoms(s) == {i \in DOMAIN Atoms : /\ i <= Stages[s][2]
                                     /\ s > 1 => i > Stages[s - 1][2]}
NewParents(s, n) == Ascending({p \in NewNodes(s) : n \in Range(Args[p])})
Sides(i) == IF Atoms[i].kind = "eq" THEN {Atoms[i].x, Atoms[i].y}
            ELSE {Atoms[i].x}
NewWatch(s, n) == Ascending({i \in NewAtoms(s) : n \in Sides(i)})
NewEntries(s, rt) == {Entry(rt, p) : p \in {q \in NewNodes(s) : Args[q] # <<>>}}

Init ==
  /\ stage = 1
  /\ root = [n \in Node |-> n] /\ next = [n \in Node |-> n]
  /\ size = [n \in Node |-> 1]
  /\ parents = [n \in Node |-> NewParents(1, n)]
  /\ watch = [n \in Node |-> NewWatch(1, n)]
  /\ value = [n \in Node |-> IF Val[n] = NoVal THEN None ELSE n]
  /\ cg = NewEntries(1, root)
  /\ target = [n \in Node |-> None]
  /\ just = [n \in Node |-> ByCong(n, n)]
  /\ undo = <<>> /\ pending = <<>> /\ marks = <<>> /\ processed = 0
  /\ eqLog = <<>> /\ eqLow = Infinity /\ eqs = <<>>
  /\ trail = <<>> /\ pc = "idle" /\ goal = 0 /\ pos = 0 /\ todo = <<>>
  /\ start = 0 /\ firstMark = 0
  /\ implied = {} /\ conflict = {} /\ done = {}
  /\ passes = 0 /\ before = <<>>

\* extend: back to the permanent state first.  The caller (sync_online) also
\* forgets its copy of the log.
Extend ==
  /\ pc = "idle" /\ stage < Len(Stages)
  /\ goal' = IF marks = <<>> THEN Len(undo) ELSE marks[1].len
  /\ marks' = <<>> /\ before' = SubSeq(before, 1, Min({1, Len(before)}))
  /\ processed' = 0
  /\ eqLog' = <<>> /\ eqLow' = 0 /\ eqs' = <<>>
  /\ pending' = <<>> /\ implied' = {} /\ conflict' = {}
  /\ pc' = "grow"
  /\ UNCHANGED <<graph, just, undo, envVars, pos, todo, passVars, done>>

GrowTable == cg \cup NewEntries(stage + 1, root)

Grow ==
  /\ pc = "grow" /\ Len(undo) = goal
  /\ stage' = stage + 1
  /\ parents' = [n \in Node |-> parents[n] \o NewParents(stage + 1, n)]
  /\ watch' = [n \in Node |-> watch[n] \o NewWatch(stage + 1, n)]
  /\ cg' = GrowTable
  /\ before' = <<>>
  /\ pc' = "idle"
  /\ UNCHANGED <<root, next, size, value, target, just, undo, pending, marks,
                 processed, logVars, trail, passes, goal, pos, todo, passVars,
                 answerVars>>

-----------------------------------------------------------------------------
(* merge.                                                                  *)

BoolValue(n) == IF n # None /\ Val[n] \in {Val[TrueNode], Val[FalseNode]}
                THEN Val[n] ELSE NoVal

\* The congruences found while the parents ps return to the table: each that
\* meets another application of its new signature.
Clashes(table, rt, ps) ==
  LET hits == {i \in DOMAIN ps :
                 \A q \in Found(table, rt, ps[i]) : rt[q] # rt[ps[i]]}
      order == Ascending(hits)
  IN  [k \in DOMAIN order |->
         LET p == ps[order[k]]
             q == CHOOSE e \in Found(table, rt, p) : TRUE
         IN  [a |-> p, b |-> q, j |-> ByCong(p, q)]]

\* The applications that return to the table under their new signature: the
\* first of each signature that has no entry.
Reentered(table, rt, ps) ==
  {ps[i] : i \in {h \in DOMAIN ps :
     /\ Found(table, rt, ps[h]) = {}
     /\ \A g \in 1..(h - 1) : Key(rt, ps[g]) # Key(rt, ps[h])}}

\* A slip: the entries of the relabelled parents stay under old signatures.
TakenSlip(r1) == {}
\* The parents of the class that are in the table.
Taken(r1) == {p \in Range(parents[r1]) : p \in Found(cg, root, p)}

\* The classes of a and b become one, the class of a (not the larger) joining
\* the other.  rest is what the caller leaves pending.
Join(a, b, j, rest) ==
  LET r1 == root[a]
      r2 == root[b]
      ps == parents[r1]
      kept == cg \ {Entry(root, p) : p \in Taken(r1)}
      class == Members(next, r1)
      rt == [n \in Node |-> IF n \in class THEN r2 ELSE root[n]]
      tg == [InvertedTarget(target, a) EXCEPT ![a] = b]
      js == [InvertedJust(target, just, a) EXCEPT ![a] = j]
      back == Reentered(kept, rt, ps)
      table == kept \cup {Entry(rt, p) : p \in back}
      v1 == value[r1]
      v2 == value[r2]
      equal == {i \in Range(watch[r1]) \ done :
                  /\ Atoms[i].kind = "eq"
                  /\ rt[Atoms[i].x] = rt[Atoms[i].y]
                  /\ ~IsTrue(Atoms[i].lit)}
      \* the class that now has a truth value, and that value's node
      valued == CASE BoolValue(v1) = NoVal /\ BoolValue(v2) # NoVal -> <<r1, v2>>
                  [] BoolValue(v1) # NoVal /\ BoolValue(v2) = NoVal -> <<r2, v1>>
                  [] OTHER -> <<None, None>>
      truth == valued[1] # None /\ Val[valued[2]] = Val[TrueNode]
      constant == IF truth THEN TrueNode ELSE FalseNode
      LitOf(i) == IF Atoms[i].kind = "eq" \/ truth THEN Atoms[i].lit
                  ELSE -Atoms[i].lit
      preds == IF valued[1] = None THEN {}
               ELSE {i \in Range(watch[valued[1]]) \ done :
                       Atoms[i].kind = "pred" /\ ~IsTrue(LitOf(i))}
  IN
  /\ root' = rt
  /\ next' = [next EXCEPT ![r1] = next[r2], ![r2] = next[r1]]
  /\ size' = [size EXCEPT ![r2] = @ + size[r1]]
  /\ parents' = [parents EXCEPT ![r2] = @ \o ps]
  /\ watch' = [watch EXCEPT ![r2] = @ \o watch[r1]]
  /\ value' = [value EXCEPT ![r2] = IF v2 = None THEN v1 ELSE v2]
  /\ cg' = table /\ target' = tg /\ just' = js
  /\ undo' = Append(undo, [r1 |-> r1, r2 |-> r2, n1 |-> a,
                           parentsLen |-> Len(parents[r2]),
                           watchLen |-> Len(watch[r2]), value |-> v2,
                           taken |-> Taken(r1), back |-> back])
  /\ pending' = rest \o Clashes(table, rt, ps)
  /\ conflict' = IF v1 # None /\ v2 # None /\ Val[v1] # Val[v2]
                 THEN Explain(tg, js, v1, v2) ELSE conflict
  /\ implied' = implied
       \cup {[lit |-> Atoms[i].lit,
              why |-> Explain(tg, js, Atoms[i].x, Atoms[i].y)] : i \in equal}
       \cup {[lit |-> LitOf(i),
              why |-> Explain(tg, js, Atoms[i].x, constant)] : i \in preds}
  /\ done' = done \cup equal \cup preds
  /\ eqLog' = IF IsCong(j) /\ a \in ArithNodes
              THEN Append(eqLog, [pos |-> pos, a |-> a, b |-> b,
                                  why |-> Explain(tg, js, a, b)])
              ELSE eqLog

\* merge: nothing to do within a class; otherwise the smaller class joins.
Merge(a, b, j, rest) ==
  IF root[a] = root[b]
  THEN /\ pending' = rest
       /\ UNCHANGED <<graph, just, undo, implied, conflict, done, eqLog>>
  ELSE IF size[root[a]] > size[root[b]]
       THEN Join(b, a, j, rest) ELSE Join(a, b, j, rest)

-----------------------------------------------------------------------------
(* undo_to.                                                                *)

\* A slip: the table entries taken out by the merge are not put back.
RestoredTableSlip(u) ==
  {e \in cg : ~\E p \in u.back : e = Entry(root, p)}

\* The congruence table once the merge u is undone: the new entries go under
\* the merged roots, the old ones return under the separate roots.
RestoredTable(u) ==
  {e \in cg : ~\E p \in u.back : e = Entry(root, p)}
    \cup {Entry(root', p) : p \in u.taken}

UndoMerge ==
  LET u == Last(undo)
      nx == [next EXCEPT ![u.r1] = next[u.r2], ![u.r2] = next[u.r1]]
      class == Members(nx, u.r1)
      tg == [target EXCEPT ![u.n1] = None]
  IN
  /\ pc \in {"undo", "drop", "grow"} /\ Len(undo) > goal
  /\ undo' = Front(undo)
  /\ value' = [value EXCEPT ![u.r2] = u.value]
  /\ watch' = [watch EXCEPT ![u.r2] = SubSeq(@, 1, u.watchLen)]
  /\ parents' = [parents EXCEPT ![u.r2] = SubSeq(@, 1, u.parentsLen)]
  /\ size' = [size EXCEPT ![u.r2] = @ - size[u.r1]]
  /\ next' = nx
  /\ root' = [n \in Node |-> IF n \in class THEN u.r1 ELSE root[n]]
  /\ target' = InvertedTarget(tg, u.r1)
  /\ just' = InvertedJust(tg, just, u.r1)
  /\ cg' = RestoredTable(u)
  /\ UNCHANGED <<pending, marks, processed, logVars, envVars, pc, goal, pos,
                 todo, passVars, answerVars, before>>

-----------------------------------------------------------------------------
(* propagate.                                                              *)

\* The marks of the first s trail positions.
KeptMarks(s) == Cardinality({i \in DOMAIN marks : marks[i].pos <= s})

KeptLog(s) == Cardinality({i \in DOMAIN eqLog : eqLog[i].pos <= s})

\* Go back to the state before the literal of mark k + 1.
RewindTo(k) ==
  /\ goal' = IF k < Len(marks) THEN marks[k + 1].len ELSE Len(undo)
  /\ marks' = SubSeq(marks, 1, k)
  /\ before' = SubSeq(before, 1, Min({k + 1, Len(before)}))

TruncateLog(s) ==
  /\ eqLog' = SubSeq(eqLog, 1, KeptLog(s))
  /\ eqLow' = Min({eqLow, KeptLog(s)})

\* The solver calls with a trail whose first s literals are those of the last
\* call.  Nothing more is assumed of it: the answer of the last pass may have
\* been dropped, for a conflict of the arithmetic.
StartPass(t, s) ==
  /\ s <= Len(trail) /\ s <= Len(t)
  /\ SubSeq(t, 1, s) = SubSeq(trail, 1, s)
  /\ trail' = t /\ passes' = passes + 1
  /\ IF s < processed
       THEN /\ RewindTo(KeptMarks(s))
            /\ processed' = s
            /\ TruncateLog(s)
       ELSE /\ goal' = Len(undo)
            /\ UNCHANGED <<marks, before, processed, eqLog, eqLow>>
  /\ pending' = <<>> /\ implied' = {} /\ conflict' = {} /\ done' = {}
  /\ start' = processed' /\ firstMark' = Len(marks') /\ pos' = processed'
  /\ pc' = "undo"
  /\ UNCHANGED <<graph, just, undo, eqs, stage, todo>>

Rewound ==
  /\ pc = "undo" /\ Len(undo) = goal
  /\ pc' = "assert"
  /\ before' = SubSeq(before, 1, Len(marks))
  /\ UNCHANGED <<graph, just, undo, pending, marks, processed, logVars, envVars,
                 goal, pos, todo, passVars, answerVars>>

\* The trail positions after p whose variable has an atom.
Relevant(p) == {i \in (p + 1)..Len(trail) : AtomsOf(VarOf(trail[i])) # {}}

\* The next literal that has an atom opens a mark.
AssertLiteral ==
  /\ pc = "assert" /\ Relevant(pos) # {}
  /\ pos' = Min(Relevant(pos))
  /\ marks' = Append(marks, [pos |-> pos', len |-> Len(undo)])
  /\ before' = Append(before, graph)
  /\ todo' = Ascending(AtomsOf(VarOf(trail[pos'])))
  /\ pc' = "atom"
  /\ UNCHANGED <<graph, just, undo, pending, processed, logVars, envVars, goal,
                 passVars, answerVars>>

TakeAtom ==
  /\ pc = "atom"
  /\ todo' = Tail(todo)
  /\ pc' = "drain"
  /\ UNCHANGED <<marks, processed, eqLow, eqs, envVars, goal, pos, passVars,
                 before>>

AssertEquality ==
  LET atom == Atoms[Head(todo)] IN
  /\ TakeAtom
  /\ atom.kind = "eq" /\ trail[pos] = atom.lit
  /\ Merge(atom.x, atom.y, ByLit(trail[pos]), pending)

\* A disequality between congruent terms implies the (false) equality, which
\* the solver sees as a conflict.
AssertDisequality ==
  LET atom == Atoms[Head(todo)] IN
  /\ TakeAtom
  /\ atom.kind = "eq" /\ trail[pos] # atom.lit
  /\ implied' = IF root[atom.x] = root[atom.y]
                THEN implied \cup {[lit |-> atom.lit,
                                    why |-> Explain(target, just, atom.x, atom.y)]}
                ELSE implied
  /\ UNCHANGED <<graph, just, undo, pending, conflict, done, eqLog>>

AssertPredicate ==
  LET atom == Atoms[Head(todo)] IN
  /\ TakeAtom
  /\ atom.kind = "pred"
  /\ Merge(atom.x, IF trail[pos] = atom.lit THEN TrueNode ELSE FalseNode,
           ByLit(trail[pos]), pending)

Rest == Front(pending)

\* drain: the last congruence found is merged first.
MergeCongruent ==
  LET c == Last(pending) IN
  /\ pc = "drain" /\ conflict = {} /\ pending # <<>>
  /\ Merge(c.a, c.b, c.j, Rest)
  /\ UNCHANGED <<marks, processed, eqLow, eqs, envVars, pc, goal, pos, todo,
                 passVars, before>>

Drained ==
  /\ pc = "drain" /\ conflict = {} /\ pending = <<>>
  /\ pc' = IF todo = <<>> THEN "assert" ELSE "atom"
  /\ UNCHANGED <<graph, just, undo, pending, marks, processed, logVars, envVars,
                 goal, pos, todo, passVars, answerVars, before>>

\* What a pass with a conflict asserted is undone.
DropPass == RewindTo(firstMark)

\* A conflict ends the pass; only the conflict is answered.
AnswerConflict ==
  /\ pc = "drain" /\ conflict # {}
  /\ DropPass
  /\ processed' = start
  /\ pending' = <<>> /\ implied' = {} /\ todo' = <<>>
  /\ TruncateLog(start)
  /\ pc' = "drop"
  /\ UNCHANGED <<graph, just, undo, eqs, envVars, pos, passVars, conflict, done>>

Dropped ==
  /\ pc = "drop" /\ Len(undo) = goal
  /\ pc' = "idle"
  /\ before' = SubSeq(before, 1, Len(marks))
  /\ UNCHANGED <<graph, just, undo, pending, marks, processed, logVars, envVars,
                 goal, pos, todo, passVars, answerVars>>

AnswerImplied ==
  /\ pc = "assert" /\ Relevant(pos) = {}
  /\ processed' = Len(trail)
  /\ pc' = "mirror"
  /\ UNCHANGED <<graph, just, undo, pending, marks, logVars, envVars, goal, pos,
                 todo, passVars, answerVars, before>>

\* The entries of the reader's copy that are still those of the log.
Shared == Min({Len(eqs), Len(eqLog), eqLow})

\* Online::propagate, the arithmetic's copy of the log is brought up to date.
MirrorLog ==
  /\ pc = "mirror"
  /\ eqs' = SubSeq(eqs, 1, Shared) \o SubSeq(eqLog, Shared + 1, Len(eqLog))
  /\ eqLow' = Infinity
  /\ pc' = "idle"
  /\ UNCHANGED <<graph, just, undo, pending, marks, processed, eqLog, envVars,
                 goal, pos, todo, passVars, answerVars, before>>

PassStep ==
  \/ UndoMerge \/ Rewound \/ Grow
  \/ AssertLiteral \/ AssertEquality \/ AssertDisequality \/ AssertPredicate
  \/ MergeCongruent \/ Drained \/ AnswerConflict \/ Dropped
  \/ AnswerImplied \/ MirrorLog

Next ==
  \/ Extend
  \/ /\ pc = "idle" /\ passes < MaxPasses
     /\ \E t \in Trails, s \in 0..MaxTrail : StartPass(t, s)
  \/ PassStep

Spec == Init /\ [][Next]_vars

\* propagate is a loop in one thread with no wait in it.
FairSpec == Spec /\ WF_vars(PassStep)

-----------------------------------------------------------------------------
(* Correctness.                                                            *)

TypeOK ==
  /\ stage \in DOMAIN Stages
  /\ {root, next} \subseteq [Node -> Node] /\ size \in [Node -> 1..NumNodes]
  /\ value \in [Node -> Node \cup {None}]
  /\ target \in [Node -> Node \cup {None}]
  /\ \A n \in Node : /\ Range(parents[n]) \subseteq Node
                     /\ Range(watch[n]) \subseteq DOMAIN Atoms
  /\ {e.app : e \in cg} \subseteq Node
  /\ pc \in {"idle", "undo", "grow", "assert", "atom", "drain", "drop", "mirror"}
  /\ {processed, start, pos} \subseteq 0..MaxTrail
  /\ Len(before) \in Len(marks)..(Len(marks) + 1) /\ passes <= MaxPasses

\* The places where the e-graph stands for a prefix of the trail.
Settled == pc \in {"idle", "assert", "mirror"}
Prefix  == SubSeq(trail, 1, IF pc = "assert" THEN pos ELSE processed)

\* The equations the literals S assert in stage s.
Equations(s, S) ==
  LET known == 1..Stages[s][2] IN
  {<<Atoms[i].x, Atoms[i].y>> : i \in {k \in known : Atoms[k].lit \in S}}
    \cup {<<Atoms[i].x, FalseNode>> :
            i \in {k \in known : Atoms[k].kind = "pred" /\ -Atoms[k].lit \in S}}

\* Reference definition: the least congruence on the nodes of stage s that
\* contains the equations E, as its set of classes.  Each round joins two.
LeastCongruence(s, E) ==
  LET nodes == 1..Stages[s][1]
      Same(P, m, n) == \E C \in P : {m, n} \subseteq C
      Congruent(P, m, n) ==
        /\ Decl[m] = Decl[n] /\ Args[m] # <<>> /\ Len(Args[m]) = Len(Args[n])
        /\ \A i \in DOMAIN Args[m] : Same(P, Args[m][i], Args[n][i])
      Apart(P) == {e \in nodes \X nodes : /\ e \in E \/ Congruent(P, e[1], e[2])
                                         /\ ~Same(P, e[1], e[2])}
      round[k \in 0..NumNodes] ==
        IF k = 0 THEN {{n} : n \in nodes}
        ELSE LET P == round[k - 1]
                 apart == Apart(P)
             IN  IF apart = {} THEN P
                 ELSE LET e == CHOOSE d \in apart : TRUE
                          both == {C \in P : C \cap {e[1], e[2]} # {}}
                      IN  (P \ both) \cup {UNION both}
  IN  round[NumNodes]

\* The classes every set of literals forces, in every stage.
Closure ==
  [s \in DOMAIN Stages |-> [S \in {L \in SUBSET Lit : \A l \in L : -l \notin L} |->
     LeastCongruence(s, Equations(s, S))]]
Forced(S) == Closure[stage][S]

\* Whatever was asserted and retracted before, the classes are exactly those
\* of the least congruence of the literals asserted now.
ClosureExact ==
  Settled => {{m \in KnownNodes : root[m] = root[n]} : n \in KnownNodes}
               = Forced(Range(Prefix))

\* Member lists, sizes, parents, watches and values of every class fit its
\* members, through any sequence of merges and undone merges.
ClassesExact ==
  Settled => \A r \in {root[n] : n \in KnownNodes} :
    LET class == {n \in KnownNodes : root[n] = r} IN
    /\ \A n \in class : Members(next, n) = class
    /\ size[r] = Cardinality(class)
    /\ Range(parents[r]) = {p \in KnownNodes : Range(Args[p]) \cap class # {}}
    /\ Range(watch[r]) = {i \in KnownAtoms : Sides(i) \cap class # {}}
    /\ value[r] = None <=> \A n \in class : Val[n] = NoVal
    /\ value[r] # None => value[r] \in class /\ Val[value[r]] # NoVal

\* Every application finds exactly one application of its signature in the
\* congruence table, and no entry is filed under an old signature: otherwise
\* a congruence would be missed.
TableExact ==
  Settled =>
    /\ \A e \in cg : e.key = Key(root, e.app)
    /\ \A p \in KnownNodes : Args[p] # <<>> => Cardinality(Found(cg, root, p)) = 1

\* The proof forest has one tree for each class, with the class root on top;
\* each edge is an asserted literal or joins applications with congruent
\* arguments, and no explanation of the arguments needs the edge itself.
ForestJustified ==
  Settled => \A n \in KnownNodes :
    /\ {m \in Above(target, n) : target[m] = None} = {root[n]}
    /\ target[n] # None =>
         LET j == just[n] IN
         IF IsCong(j)
         THEN /\ {j.p, j.q} = {n, target[n]}
              /\ Key(root, j.p) = Key(root, j.q)
              /\ \A i \in DOMAIN Args[j.p] :
                   n \notin ExplanationEdges(target, just, Args[j.p][i], Args[j.q][i])
         ELSE /\ j.lit \in Range(Prefix)
              /\ \E e \in Equations(stage, {j.lit}) : {e[1], e[2]} = {n, target[n]}

\* Whatever was asserted and retracted, the e-graph is exactly the one the
\* asserted literals call for, in all its parts.
GraphExact == ClosureExact /\ ClassesExact /\ TableExact /\ ForestJustified

\* Undoing restores the e-graph as it was before the literal was asserted:
\* classes, lists, sizes, values, table and proof forest.
UndoExact ==
  pc \in {"undo", "drop", "grow"} /\ Len(undo) = goal /\ Len(before) > Len(marks)
    => graph = before[Len(marks) + 1]

\* What the classes P say of the literal l, and whether a class has two values.
EntailedIn(P, l) ==
  \E i \in KnownAtoms, C \in P :
    \/ l = Atoms[i].lit /\ {Atoms[i].x, Atoms[i].y} \subseteq C
    \/ Atoms[i].kind = "pred" /\ l = -Atoms[i].lit
         /\ {Atoms[i].x, FalseNode} \subseteq C
ClashIn(P) == \E C \in P : Cardinality({Val[n] : n \in C} \ {NoVal}) > 1

\* An explanation names only literals of the trail, and they force what it
\* explains: an implication, or a class with two values.
AnswersSound ==
  /\ pc = "mirror" => \A a \in implied :
       /\ a.why \subseteq Range(trail)
       /\ EntailedIn(Forced(a.why), a.lit)
  /\ pc = "drop" =>
       /\ conflict \subseteq Range(trail)
       /\ ClashIn(Forced(conflict))

\* A pass that ends without a conflict has told the solver everything that
\* its new literals entail, and left no clash.
AnswersComplete ==
  pc = "mirror" =>
    LET old == Forced(Range(SubSeq(trail, 1, start)))
        all == Forced(Range(trail))
    IN
    /\ ~ClashIn(all)
    /\ \A l \in {k \in Lit : AtomsOf(VarOf(k)) # {}} :
         EntailedIn(all, l) /\ ~EntailedIn(old, l) =>
           IsTrue(l) \/ \E a \in implied : a.lit = l

\* A log entry at a position names only literals up to that position, which
\* entail it; the entries are in the order of their positions.
LogJustified ==
  Settled =>
    /\ \A i, j \in DOMAIN eqLog : i <= j => eqLog[i].pos <= eqLog[j].pos
    /\ \A i \in DOMAIN eqLog :
         LET e == eqLog[i] IN
         /\ e.pos <= Len(Prefix)
         /\ e.why \subseteq Range(SubSeq(trail, 1, e.pos))
         /\ \E C \in Forced(e.why) : {e.a, e.b} \subseteq C

\* The log and the asserted arithmetic equalities make the same arithmetic
\* terms equal as the e-graph: the arithmetic learns every congruence.
LogComplete ==
  Settled =>
    LET links == {{e[1], e[2]} : e \in {d \in Equations(stage, Range(Prefix)) :
                                         d[1] \in ArithNodes}}
                   \cup {{eqLog[i].a, eqLog[i].b} : i \in DOMAIN eqLog}
        near(n) == LET reach[k \in 0..NumNodes] ==
                         IF k = 0 THEN {n}
                         ELSE LET found == reach[k - 1] IN
                              found \cup UNION {d \in links : d \cap found # {}}
                   IN  reach[NumNodes]
    IN  \A n \in ArithNodes \cap KnownNodes :
          {m \in ArithNodes \cap KnownNodes : root[m] = root[n]} \subseteq near(n)

\* What a pass tells the solver and, by the log, the arithmetic is explained by
\* the trail and is all there is to tell.
GraphTells == AnswersSound /\ AnswersComplete /\ LogJustified /\ LogComplete

\* Once a pass has ended without a conflict the reader's copy of the log is
\* the log, although it was not told what was truncated in between.
MirrorExact == [][pc = "mirror" => eqs' = eqLog]_vars

\* Every pass ends.
PassEnds == pc # "idle" ~> pc = "idle"

=============================================================================
