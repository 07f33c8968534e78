------------------------------- MODULE Datalog -------------------------------
(***************************************************************************)
(* The Datalog engine (src/src/muz/datalog.rs): rules are fired one after  *)
(* another over the facts derived so far, until a pass derives nothing     *)
(* new; queries then read the facts.  A rule is matched atom by atom, a    *)
(* frontier of substitutions growing on the way.                           *)
(***************************************************************************)
EXTENDS Integers, Sequences

CONSTANTS
    RuleVars, Consts,      \* the terms
    Preds,             \* the predicates
    Programs,          \* the programs explored: sequences of rules
    Queries,           \* the atoms asked
    Base               \* the facts of the models compared with

Terms == RuleVars \cup Consts
Atoms == [pred : Preds, args : Seq(Terms)]
Facts == [pred : Preds, args : Seq(Consts)]
Rules == [head : Atoms, body : Seq(Atoms)]

ASSUME DatalogAssumption ==
    /\ RuleVars \cap Consts = {} /\ Consts # {}
    /\ Programs \subseteq Seq(Rules)
    /\ Queries \subseteq Atoms
    /\ Base \subseteq Facts

VARIABLES
    program,           \* the rules
    rels,              \* the facts derived: the relations of the model
    pc,                \* "match", "done" or "asked"
    rule, body,        \* the rule and the atom of its body at hand
    frontier,          \* the substitutions that match the atoms before it
    changed,           \* did this pass derive anything?
    answers            \* the substitutions a query returned

datalogVars == <<program, rels, pc, rule, body, frontier, changed, answers>>

Substs == UNION {[D -> Consts] : D \in SUBSET RuleVars}
EmptySubst == [v \in {} |-> v]

VarsOf(a) == {a.args[i] : i \in DOMAIN a.args} \cap RuleVars

DatalogStart(p) ==
    /\ program = p
    /\ rels = {} /\ pc = "match" /\ rule = 1 /\ body = 1
    /\ frontier = {EmptySubst} /\ changed = FALSE /\ answers = {}

DatalogInit == \E p \in Programs : DatalogStart(p)

-----------------------------------------------------------------------------
(* Matching *)

\* Slip: a variable that occurs twice takes the first value and never compares.
UnifiesSlip(a, f, s) ==
    /\ f.pred = a.pred /\ Len(f.args) = Len(a.args)
    /\ \A i \in DOMAIN a.args :
          IF a.args[i] \in Consts THEN f.args[i] = a.args[i]
          ELSE a.args[i] \in DOMAIN s => f.args[i] = s[a.args[i]]

\* Atom a matches fact f by an extension of s ...
Unifies(a, f, s) ==
    /\ f.pred = a.pred /\ Len(f.args) = Len(a.args)
    /\ \A i \in DOMAIN a.args :
          IF a.args[i] \in Consts THEN f.args[i] = a.args[i]
          ELSE /\ a.args[i] \in DOMAIN s => f.args[i] = s[a.args[i]]
               /\ \A j \in DOMAIN a.args : a.args[j] = a.args[i] => f.args[j] = f.args[i]

\* ... and this is the extension.
Extended(a, f, s) ==
    [v \in DOMAIN s \cup VarsOf(a) |->
        IF v \in DOMAIN s THEN s[v]
        ELSE f.args[CHOOSE i \in DOMAIN a.args : a.args[i] = v]]

Ground(a, s) ==
    [pred |-> a.pred,
     args |-> [i \in DOMAIN a.args |->
                 IF a.args[i] \in RuleVars THEN s[a.args[i]] ELSE a.args[i]]]

DatalogMatches(a, substs) ==
    UNION {{Extended(a, f, s) : s \in {t \in substs : Unifies(a, f, t)}} : f \in rels}

-----------------------------------------------------------------------------
(* evaluate *)

Current == program[rule]

Matching == pc = "match" /\ rule <= Len(program)

\* match_body stops at an atom no substitution is left for.
Matched == body > Len(Current.body) \/ frontier = {}

MatchAtom ==
    /\ Matching /\ ~Matched
    /\ frontier' = DatalogMatches(Current.body[body], frontier)
    /\ body' = body + 1
    /\ UNCHANGED <<program, rels, pc, rule, changed, answers>>

\* Slip: only the last rule says whether the pass derived anything.
DeriveSlip ==
    LET new == {Ground(Current.head, s) :
                  s \in {t \in frontier : VarsOf(Current.head) \subseteq DOMAIN t}}
    IN  /\ Matching /\ Matched
        /\ rels' = rels \cup new
        /\ changed' = ~(new \subseteq rels)
        /\ rule' = rule + 1 /\ body' = 1 /\ frontier' = {EmptySubst}
        /\ UNCHANGED <<program, pc, answers>>

\* The heads are added, except where a variable of the head is unbound.
Derive ==
    LET new == {Ground(Current.head, s) :
                  s \in {t \in frontier : VarsOf(Current.head) \subseteq DOMAIN t}}
    IN  /\ Matching /\ Matched
        /\ rels' = rels \cup new
        /\ changed' = (changed \/ ~(new \subseteq rels))
        /\ rule' = rule + 1 /\ body' = 1 /\ frontier' = {EmptySubst}
        /\ UNCHANGED <<program, pc, answers>>

EndPass ==
    /\ pc = "match" /\ rule > Len(program)
    /\ changed' = FALSE
    /\ IF changed THEN rule' = 1 /\ pc' = pc ELSE rule' = rule /\ pc' = "done"
    /\ UNCHANGED <<program, rels, body, frontier, answers>>

\* Model::query: the substitutions of the atom's variables that make it hold.
Query(q) ==
    /\ pc \in {"done", "asked"}
    /\ answers' = DatalogMatches(q, {EmptySubst})
    /\ pc' = "asked"
    /\ UNCHANGED <<program, rels, rule, body, frontier, changed>>

Ask == \E q \in Queries : Query(q)

DatalogNext == MatchAtom \/ Derive \/ EndPass \/ Ask

Evaluation == MatchAtom \/ Derive \/ EndPass

DatalogSpec == DatalogInit /\ [][DatalogNext]_datalogVars
DatalogFairSpec == DatalogSpec /\ WF_datalogVars(Evaluation)

-----------------------------------------------------------------------------
(* Properties *)

DatalogTypeOK ==
    /\ program \in Programs
    /\ rels \subseteq Facts
    /\ pc \in {"match", "done", "asked"}
    /\ rule \in 1 .. Len(program) + 1
    /\ rule <= Len(program) => body \in 1 .. Len(Current.body) + 1
    /\ frontier \subseteq Substs /\ answers \subseteq Substs
    /\ changed \in BOOLEAN

DatalogValuations == [RuleVars -> Consts]

BodyVars(r) == UNION {VarsOf(r.body[i]) : i \in DOMAIN r.body}

\* Rule r derives nothing that facts M do not have.  A rule whose head has a
\* variable its body has not derives nothing at all.
ClosedUnder(M, r) ==
    VarsOf(r.head) \subseteq BodyVars(r) =>
        \A sigma \in DatalogValuations :
            (\A i \in DOMAIN r.body : Ground(r.body[i], sigma) \in M)
                => Ground(r.head, sigma) \in M

IsModel(M) == \A r \in DOMAIN program : ClosedUnder(M, program[r])

\* Every fact derived holds in every model of the rules, whatever the order of
\* rules, atoms and passes: no query is answered yes without a derivation.
Sound == \A M \in SUBSET Base : rels \subseteq M \/ ~IsModel(M)

\* When the evaluation ends its facts are a model: nothing that follows from the
\* rules is missing, although each pass fired them on facts still growing.
Complete == pc # "match" => IsModel(rels)

\* The facts at the end are the least model of the rules, and never beyond it.
LeastModel == Sound /\ Complete

\* A query's answers are the valuations of exactly its variables for which it
\* holds in every model.
AnswersRight ==
    [][\A q \in Queries :
          Query(q) =>
            answers' = {s \in [VarsOf(q) -> Consts] :
                          \A M \in SUBSET Base : IsModel(M) => Ground(q, s) \in M}]_datalogVars

\* The loop over the rules ends: facts are never taken back and there are
\* finitely many.
Ends == <>(pc = "done")
=============================================================================
