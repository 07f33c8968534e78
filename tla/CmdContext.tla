----------------------------- MODULE CmdContext -----------------------------
(***************************************************************************)
(* The assertion stack of src/src/cmd_context/smt2.rs: a session declares, *)
(* asserts, pushes, pops, checks and asks for cores, and goes on after a   *)
(* command that failed (Session::eval, z3_command_error).                  *)
(*                                                                         *)
(* A command is one step: a handler is an operator from the context to     *)
(* [c |-> the context after it, ok |-> whether it succeeded], so that a    *)
(* command made of commands keeps what the first did when a later fails.   *)
(* Sorts, which scope as declarations do, and the switches that only order *)
(* a printed model are left out.  A pop undeclares functions but never     *)
(* macros (define-fun), which outlive the level they were made in.         *)
(* A formula is a model value: the worlds that make it true, the names it  *)
(* uses and how it is asserted are constants.  The decision of a check is  *)
(* its contract (module SmtCore): right, or "unknown".                     *)
(***************************************************************************)
EXTENDS Integers, SequencesExt

CONSTANTS
    Names,         \* the names that can be declared
    CmdFormulas,      \* the formulas that can be asserted
    CmdWorlds,        \* the interpretations of the names
    NoModel,       \* and what a check without a model keeps
    ModelsOf,      \* ModelsOf[f]: the worlds that make f true
    Uses,          \* Uses[f]: the names f mentions
    Kind,          \* Kind[f]: "ground", "forall" (kept), "expanded" (a quantifier
                   \* replaced by a ground formula) or "and" (of quantified parts)
    Parts,         \* Parts[f]: the two conjuncts of an "and"
    Label,         \* Label[f]: its :named label, or NoLabel
    NoLabel,
    Axiom,         \* Axiom[n]: the definition of the recursive function n, a
                   \* universal or, when n has no parameters, a ground equation
    Mutual,        \* the pairs of recursive functions defined together
    RelGoal,       \* RelGoal[r]: the universal that relation r derives nothing
    Literals,      \* the formulas used as assumptions
    Ids,           \* the :id groups of soft constraints
    Preamble,      \* the names declared before the session starts
    Asserts,       \* the formulas the session asserts
    Commands,      \* its commands
    MaxCommands    \* bound: their number

ASSUME CommandsAssumption == MaxCommands \in Nat
ASSUME CmdFormulasAssumption ==
    /\ \A f \in CmdFormulas : ModelsOf[f] \subseteq CmdWorlds /\ Uses[f] \subseteq Names
    /\ Asserts \subseteq CmdFormulas /\ Literals \subseteq CmdFormulas
    /\ \A n \in DOMAIN Axiom : n \in Names /\ Axiom[n] \in CmdFormulas
    /\ Mutual \subseteq (DOMAIN Axiom) \X (DOMAIN Axiom)
    /\ \A r \in DOMAIN RelGoal : /\ r \in Names /\ RelGoal[r] \in CmdFormulas
                               /\ Kind[RelGoal[r]] = "forall"
    /\ \A f \in CmdFormulas : Kind[f] = "and" => Parts[f] \in CmdFormulas \X CmdFormulas
    /\ Preamble \in Seq(Names) /\ IsFiniteSet(Names)

VARIABLES
    ctx,           \* the Context
    answer,        \* what the last command said
    steps          \* the commands run

cmdVars == <<ctx, answer, steps>>

Empty ==
    [assertions |-> << >>,     \* assertions: [f, soft], soft when relaxed by a penalty
     names |-> << >>,          \* assert_names
     universals |-> << >>,
     unames |-> {},            \* universal_names: <<universal, label, position>>
     named |-> {},             \* named_terms: <<label, formula, assertion>>
     decls |-> << >>,          \* decl_order
     funcs |-> {},
     table |-> [n \in Names |-> 0],  \* decl_table: the declarations of each name
     tstack |-> << >>,         \* decl_table_stack
     mentions |-> << >>,       \* asserted_mentions
     macros |-> {},            \* not scoped
     rels |-> {},              \* dl_rels
     objectives |-> << >>,     \* [id, items]
     scopes |-> << >>,         \* scope_stack
     raw |-> {},               \* raw_asserts: <<depth, formula>>
     model |-> NoModel,        \* last_model
     verdict |-> "none",       \* last_verdict
     assumed |-> << >>,        \* last_assumptions
     about |-> << >>,          \* history: what the verdict was found for
     half |-> {},              \* history: axioms added that left the model alone
     inc |-> FALSE,            \* inc_mode
     done |-> FALSE]           \* check_sat_done

NoAnswer == [kind |-> "none", core |-> {}, fresh |-> TRUE]

Ok(c) == [c |-> c, ok |-> TRUE]
Err(c) == [c |-> c, ok |-> FALSE]
Then(r, op(_)) == IF r.ok THEN op(r.c) ELSE r

Truncate(s, n) == IF n < Len(s) THEN SubSeq(s, 1, n) ELSE s

-----------------------------------------------------------------------------
(* push and pop *)

\* What a later pop must bring back: history, kept with the mark.
Stacks(c) == [assertions |-> c.assertions, names |-> c.names, universals |-> c.universals,
              decls |-> c.decls, tstack |-> c.tstack, mentions |-> c.mentions,
              objectives |-> c.objectives]

Mark(c) ==
    [assertions |-> Len(c.assertions), decls |-> Len(c.decls),
     universals |-> Len(c.universals), table |-> Len(c.tstack),
     mentions |-> Len(c.mentions),
     objectives |-> [i \in DOMAIN c.objectives |-> Len(c.objectives[i].items)],
     was |-> Stacks(c)]

PushLevel(c) == [c EXCEPT !.scopes = Append(@, Mark(c)), !.inc = TRUE]

Levels(op(_), c, n) ==
    LET L[i \in 0 .. n] == IF i = 0 THEN c ELSE op(L[i - 1]) IN L[n]

Push(c, n) == Ok([Levels(PushLevel, c, n) EXCEPT !.model = NoModel])

\* The groups there were, with the soft constraints they had.
ObjectivesAt(objs, mark) ==
    LET kept == Truncate(objs, Len(mark))
    IN  [i \in DOMAIN kept |-> [kept[i] EXCEPT !.items = Truncate(@, mark[i])]]

Dropped(s, n) == SubSeq(s, n + 1, Len(s))
At(s, x) == {i \in DOMAIN s : s[i] = x}
Count(s, x) == Cardinality(At(s, x))
Erased(table, s) == [n \in Names |-> table[n] - Count(s, n)]

PopLevel(c) ==
    LET m == c.scopes[Len(c.scopes)]
    IN  [c EXCEPT !.scopes = Front(@),
            !.assertions = Truncate(@, m.assertions),
            !.names = Truncate(@, m.assertions),
            !.named = {t \in @ : t[3] <= m.assertions},
            !.universals = Truncate(@, m.universals),
            !.unames = {t \in @ : t[1] <= m.universals},
            !.decls = Truncate(@, m.decls),
            !.funcs = @ \ ToSet(Dropped(c.decls, m.decls)),
            !.table = Erased(@, Dropped(c.tstack, m.table)),
            !.tstack = Truncate(@, m.table),
            !.mentions = Truncate(@, m.mentions),
            !.objectives = ObjectivesAt(@, m.objectives),
            !.inc = TRUE]

\* A level too many fails after the levels there are were popped.
Pop(c, n) ==
    IF n > Len(c.scopes) THEN Err(Levels(PopLevel, c, Len(c.scopes)))
    ELSE LET d == Levels(PopLevel, c, n)
         IN  Ok([d EXCEPT !.raw = {a \in @ : a[1] <= Len(d.scopes)},
                          !.model = NoModel])

\* reset keeps the relations and the assumptions of the last check.
Reset(c) == Ok([Empty EXCEPT !.rels = c.rels, !.assumed = c.assumed])

\* Slip: the scope stack outlives the assertions it marks.
ResetAssertionsSlip(c) ==
    Ok([c EXCEPT !.raw = {}, !.assertions = << >>, !.names = << >>, !.named = {},
                 !.universals = << >>, !.unames = {}, !.objectives = << >>,
                 !.model = NoModel, !.verdict = "none"])

\* Declarations are kept.
ResetAssertions(c) ==
    Ok([c EXCEPT !.raw = {}, !.assertions = << >>, !.names = << >>, !.named = {},
                 !.universals = << >>, !.unames = {}, !.objectives = << >>,
                 !.scopes = << >>, !.model = NoModel, !.verdict = "none"])

-----------------------------------------------------------------------------
(* Declarations *)

Declared(c, n) ==
    [c EXCEPT !.funcs = @ \cup {n}, !.table[n] = @ + 1, !.tstack = Append(@, n),
              !.decls = Append(@, n)]

DeclareFun(c, n) == Ok([Declared(c, n) EXCEPT !.model = NoModel])
DefineFun(c, n) == Ok([c EXCEPT !.macros = @ \cup {n}])
DeclareRel(c, r) == DeclareFun([c EXCEPT !.rels = @ \cup {r}], r)

Entry(f, soft) == [f |-> f, soft |-> soft]

\* add_rec_axiom, whose caller sees to the model.
AddAxiom(c, n) ==
    LET f == Axiom[n]
        d == [c EXCEPT !.half = @ \cup {f}]
    IN  IF Kind[f] = "forall" THEN [d EXCEPT !.universals = Append(@, f)]
        ELSE [d EXCEPT !.assertions = Append(@, Entry(f, FALSE)),
                       !.names = Append(@, NoLabel)]

Defined(c) == Ok([c EXCEPT !.model = NoModel, !.half = {}])

\* The function is declared before its body is found ill-sorted.
DefineFunRec(c, n, wellSorted) ==
    LET d == Declared(c, n)
    IN  IF wellSorted THEN Defined(AddAxiom(d, n)) ELSE Err(d)

\* define-funs-rec of two functions: both are declared, then their axioms are
\* added up to the first body, if any, that is ill-sorted.
DefineFunsRec(c, n, o, wellSorted) ==
    LET d == Declared(Declared(c, n), o)
        e == IF wellSorted = 0 THEN d ELSE AddAxiom(d, n)
    IN  IF wellSorted = 2 THEN Defined(AddAxiom(e, o)) ELSE Err(e)

-----------------------------------------------------------------------------
(* assert *)

Known(c, f) == Uses[f] \subseteq c.funcs \cup c.macros

\* note_mentions, and the switch to the incremental mode.
Noted(c, f) ==
    [c EXCEPT !.mentions = @ \o SetToSeq(Uses[f] \cap (c.funcs \cup c.macros)),
              !.inc = @ \/ c.done]

Stale(c) == [c EXCEPT !.model = NoModel, !.verdict = "none"]

\* Slip: the old model stays.
AddAssertionSlip(c, f, label) ==
    [c EXCEPT !.assertions = Append(@, Entry(f, FALSE)), !.names = Append(@, label),
              !.verdict = "none"]

AddAssertion(c, f, label) ==
    Stale([c EXCEPT !.assertions = Append(@, Entry(f, FALSE)), !.names = Append(@, label)])

AddUniversal(c, f) == Stale([c EXCEPT !.universals = Append(@, f)])

\* A quantified formula, its label aside.
AssertQuantified(c, f) ==
    LET d == Noted(c, f)
    IN  IF ~Known(c, f) THEN Err(d)
        ELSE IF Kind[f] = "forall" THEN Ok(AddUniversal(d, f))
        ELSE Ok(AddAssertion(d, f, NoLabel))

\* The label goes to the universal or the assertion it became.
AssertLabelled(c, f) ==
    Then(AssertQuantified(Noted(c, f), f), LAMBDA d :
        Ok(IF Len(d.universals) > Len(c.universals)
           THEN [d EXCEPT !.unames =
                     @ \cup {<<Len(d.universals), Label[f], Len(c.assertions)>>}]
           ELSE [d EXCEPT !.names[Len(d.names)] = Label[f]]))

AssertGround(c, f) ==
    LET d == Noted(c, f)
        named == IF Label[f] = NoLabel THEN {}
                 ELSE {<<Label[f], f, Len(c.assertions) + 1>>}
    IN  IF ~Known(c, f) THEN Err(d)
        ELSE Ok(AddAssertion([d EXCEPT !.named = @ \cup named], f, Label[f]))

AssertBasic(c, f) ==
    IF Kind[f] = "ground" THEN AssertGround(c, f)
    ELSE IF Label[f] = NoLabel THEN AssertQuantified(c, f)
    ELSE AssertLabelled(c, f)

\* Conjunct by conjunct when one of them is quantified.
AssertFormula(c, f) ==
    IF Kind[f] # "and" THEN AssertBasic(c, f)
    ELSE Then(AssertBasic(Noted(c, f), Parts[f][1]),
              LAMBDA d : AssertBasic(d, Parts[f][2]))

\* top_command keeps an assertion that was accepted as it was written.
TopAssert(c, f) ==
    Then(AssertFormula(c, f), LAMBDA d : Ok([d EXCEPT !.raw = @ \cup {<<Len(d.scopes), f>>}]))

\* assert-soft: the formula is relaxed by a fresh penalty.
AssertSoft(c, f, id) ==
    IF ~Known(c, f) THEN Err(c)
    ELSE LET groups == {i \in DOMAIN c.objectives : c.objectives[i].id = id}
             d == [c EXCEPT !.assertions = Append(@, Entry(f, TRUE)),
                            !.names = Append(@, NoLabel), !.model = NoModel]
         IN  Ok(IF groups = {}
                THEN [d EXCEPT !.objectives = Append(@, [id |-> id, items |-> <<f>>])]
                ELSE [d EXCEPT !.objectives[Min(groups)].items = Append(@, f)])

-----------------------------------------------------------------------------
(* check-sat, query and get-unsat-core *)

\* The worlds that make everything asserted true; a relaxed formula excludes none.
ModelsOfSet(fs) == {w \in CmdWorlds : \A f \in fs : w \in ModelsOf[f]}
Hard(c) == {c.assertions[i].f : i \in {j \in DOMAIN c.assertions : ~c.assertions[j].soft}}
Asserted(c) == Hard(c) \cup ToSet(c.universals)

\* The assumptions before the first that is not a term.
Resolved(c, as) ==
    LET bad == {i \in DOMAIN as : ~Known(c, as[i])}
    IN  IF bad = {} THEN as ELSE Truncate(as, Min(bad) - 1)

\* The answers a check may give: the verdict with its model.
Outcomes(c, as) ==
    LET models == ModelsOfSet(Asserted(c) \cup ToSet(as))
    IN  {<<"unknown", NoModel>>} \cup
        IF models = {} THEN {<<"unsat", NoModel>>} ELSE {<<"sat", w>> : w \in models \cup {NoModel}}

\* What a verdict is about.
Subject(c) == <<c.assertions, c.universals, c.assumed>>

Check(c, as, out) ==
    LET d == [c EXCEPT !.assumed = Resolved(c, as)]
    IN  IF d.assumed # as THEN Err(d)
        ELSE Ok([d EXCEPT !.done = TRUE, !.inc = @ \/ as # << >>, !.about = Subject(d),
                          !.verdict = out[1], !.model = out[2], !.half = {}])

\* The goal is asserted in a level of its own, which stays open when a step of
\* the command fails.
Query(c, r, out) ==
    IF r \notin c.rels THEN Err(c)
    ELSE Then(Then(Then(Push(c, 1), LAMBDA d : AssertFormula(d, RelGoal[r])),
                   LAMBDA d : Check(d, << >>, out)),
              LAMBDA d : Pop(d, 1))

\* Candidates are dropped one by one while the rest is refuted; a test that
\* answers "unknown" (one of weak) keeps its candidate.
Minimized(candidates, rest, weak) ==
    LET Kept[k \in 0 .. Len(candidates)] ==
            IF k = 0 THEN DOMAIN candidates
            ELSE IF k \notin weak
                    /\ ModelsOfSet(rest \cup {candidates[i] : i \in Kept[k - 1] \ {k}}) = {}
                 THEN Kept[k - 1] \ {k} ELSE Kept[k - 1]
    IN  Kept[Len(candidates)]

\* Numbers in ascending order.
Rank(S, x) == Cardinality({y \in S : y <= x})
Ascending(S) == [i \in 1 .. Cardinality(S) |-> CHOOSE x \in S : Rank(S, x) = i]

LabelledUniversals(c) == {t[1] : t \in c.unames}
LabelledAssertions(c) == {i \in DOMAIN c.names : c.names[i] # NoLabel}

\* What a core stands for: the assumptions kept with all that is asserted, or
\* the labelled formulas kept with the unlabelled; universals come first.
Labelled(c) ==
    LET us == Ascending(LabelledUniversals(c))
        as == Ascending(LabelledAssertions(c))
    IN  [i \in DOMAIN us |-> c.universals[us[i]]] \o [i \in DOMAIN as |-> c.assertions[as[i]].f]

Unlabelled(c) ==
    {c.assertions[i].f : i \in {j \in DOMAIN c.assertions \ LabelledAssertions(c) :
                                   ~c.assertions[j].soft}}
    \cup {c.universals[u] : u \in DOMAIN c.universals \ LabelledUniversals(c)}

CoreOf(c, weak) ==
    IF c.assumed # << >>
    THEN Asserted(c) \cup {c.assumed[i] : i \in Minimized(c.assumed, Asserted(c), weak)}
    ELSE LET all == Labelled(c)
             kept == Minimized(all, Unlabelled(c), weak)
         IN  Unlabelled(c) \cup {all[i] : i \in kept}

-----------------------------------------------------------------------------
(* The session *)

Run(command, r) ==
    /\ command \in Commands
    /\ steps < MaxCommands
    /\ steps' = steps + 1
    /\ ctx' = r.c
    /\ answer' = NoAnswer

Assumptions == {<< >>} \cup {<<a>> : a \in Literals} \cup Literals \X Literals

CmdInit ==
    /\ ctx = [Empty EXCEPT !.funcs = ToSet(Preamble), !.decls = Preamble, !.tstack = Preamble,
                           !.table = [n \in Names |-> Count(Preamble, n)]]
    /\ answer = NoAnswer /\ steps = 0

RunPush == \E n \in 1 .. 2 : Run("push", Push(ctx, n))
RunPop == \E n \in 1 .. 2 : Run("pop", Pop(ctx, n))
RunReset == Run("reset", Reset(ctx))
RunResetAssertions == Run("reset-assertions", ResetAssertions(ctx))
RunDeclare == \E n \in Names \ DOMAIN RelGoal : Run("declare-fun", DeclareFun(ctx, n))
RunDefine == \E n \in Names \ DOMAIN RelGoal : Run("define-fun", DefineFun(ctx, n))
RunDefineRec ==
    \E n \in DOMAIN Axiom, ws \in BOOLEAN : Run("define-fun-rec", DefineFunRec(ctx, n, ws))
RunDefineFuns ==
    \E p \in Mutual, ws \in 0 .. 2 :
        Run("define-funs-rec", DefineFunsRec(ctx, p[1], p[2], ws))
RunDeclareRel == \E r \in DOMAIN RelGoal : Run("declare-rel", DeclareRel(ctx, r))
RunAssert == \E f \in Asserts : Run("assert", TopAssert(ctx, f))
RunSoft == \E f \in Literals, id \in Ids : Run("assert-soft", AssertSoft(ctx, f, id))
RunCheck ==
    \E as \in Assumptions : \E out \in Outcomes(ctx, as) : Run("check-sat", Check(ctx, as, out))
RunQuery ==
    \E r \in DOMAIN RelGoal :
        \E out \in Outcomes(ctx, <<RelGoal[r]>>) : Run("query", Query(ctx, r, out))

\* get-unsat-core and get-proof ask that the last verdict be "unsat".
RunCore ==
    /\ "get-unsat-core" \in Commands
    /\ ctx.verdict = "unsat" /\ answer = NoAnswer
    /\ steps < MaxCommands /\ steps' = steps + 1
    /\ \E weak \in {{}, {1}} :
          answer' = [kind |-> "core", core |-> CoreOf(ctx, weak),
                     fresh |-> ctx.about = Subject(ctx)]
    /\ UNCHANGED ctx

CmdNext ==
    \/ RunPush \/ RunPop \/ RunReset \/ RunResetAssertions
    \/ RunDeclare \/ RunDefine \/ RunDefineRec \/ RunDefineFuns
    \/ RunDeclareRel
    \/ RunAssert \/ RunSoft \/ RunCheck \/ RunQuery \/ RunCore

CmdSpec == CmdInit /\ [][CmdNext]_cmdVars

-----------------------------------------------------------------------------
(* Properties *)

CmdTypeOK ==
    /\ DOMAIN ctx = DOMAIN Empty
    /\ ctx.assertions \in Seq([f : CmdFormulas, soft : BOOLEAN])
    /\ ctx.universals \in Seq(CmdFormulas)
    /\ ctx.decls \in Seq(Names) /\ ctx.tstack \in Seq(Names) /\ ctx.mentions \in Seq(Names)
    /\ ctx.funcs \subseteq Names /\ ctx.macros \subseteq Names
    /\ ctx.table \in [Names -> Nat]
    /\ ctx.model \in CmdWorlds \cup {NoModel}
    /\ ctx.verdict \in {"none", "sat", "unsat", "unknown"}
    /\ steps \in 0 .. MaxCommands

\* Whatever was asserted and popped, failed or reset in between, an open level
\* can be undone exactly: its marks are within the stacks and cut them back to
\* what they were at the push (smt2.rs:4983).
LevelsRestore ==
    \A i \in DOMAIN ctx.scopes :
        LET m == ctx.scopes[i]
        IN  m.was = [assertions |-> Truncate(ctx.assertions, m.assertions),
                     names |-> Truncate(ctx.names, m.assertions),
                     universals |-> Truncate(ctx.universals, m.universals),
                     decls |-> Truncate(ctx.decls, m.decls),
                     tstack |-> Truncate(ctx.tstack, m.table),
                     mentions |-> Truncate(ctx.mentions, m.mentions),
                     objectives |-> ObjectivesAt(ctx.objectives, m.objectives)]

\* A label denotes the assertion or universal it was given to, still on the
\* stack: a core never names a formula that was popped.
LabelsDenote ==
    /\ Len(ctx.names) = Len(ctx.assertions)
    /\ \A t \in ctx.named : /\ t[3] \in DOMAIN ctx.assertions
                           /\ ctx.assertions[t[3]].f = t[2] /\ ctx.names[t[3]] = t[1]
    /\ \A t \in ctx.unames :
          t[1] \in DOMAIN ctx.universals /\ Label[ctx.universals[t[1]]] = t[2]

\* A declared function that can be used is declared on the stack, and the
\* dictionary counts exactly its declarations: no function of a popped level
\* can be named (smt2.rs:5000).  A macro can: no pop removes one.
UsableDeclared ==
    /\ ctx.funcs \subseteq ToSet(ctx.decls)
    /\ \A n \in Names : ctx.table[n] = Count(ctx.decls, n)

\* The model that eval and get-value read satisfies what is asserted now,
\* whichever commands came since the check that found it; but not the axioms
\* that a define-funs-rec added before it failed (smt2.rs:5587), which leave
\* the model alone.
ModelCurrent ==
    ctx.model # NoModel => ctx.model \in ModelsOfSet(Asserted(ctx) \ ctx.half)

\* The places of f among the soft constraints of all groups.
Penalties(objs, f) == UNION {{g} \X At(objs[g].items, f) : g \in DOMAIN objs}

\* Every relaxed formula on the stack counts in exactly one group, and no group
\* counts the penalty of a formula that was popped (smt2.rs:5008).
SoftsAsserted ==
    \A f \in CmdFormulas :
        Count(ctx.assertions, Entry(f, TRUE)) = Cardinality(Penalties(ctx.objectives, f))

\* What the scopes promise: whatever commands came, failed ones among them, the
\* context is that of the assertions and declarations on the stack.
StackExact == LevelsRestore /\ LabelsDenote /\ UsableDeclared /\ SoftsAsserted

\* A core asked for what the last verdict was about is unsatisfiable, however
\* many of its checks gave up.
CoreRight ==
    answer.kind = "core" /\ answer.fresh => ModelsOfSet(answer.core) = {}

\* What eval and get-unsat-core read is of the context as it is now.
AnswersCurrent == ModelCurrent /\ CoreRight

\* smt2.rs:41437: "The core is checkable: asserting exactly it is still unsat".
CoreUnsat == answer.kind = "core" => ModelsOfSet(answer.core) = {}

\* smt2.rs:4998: pop undeclares what was declared since the push, and so
\* leaves what was declared before it.
DeclaredUsable == ToSet(ctx.decls) \subseteq ctx.funcs

\* elim_uncnstr.rs:206: the goal of a tactic is the current assertions: what was
\* kept as written has the models of what is asserted.
RawIsGoal ==
    ModelsOfSet({a[2] : a \in ctx.raw}) = ModelsOfSet(Asserted(ctx))

\* smt2.rs:3190: the mentions are scoped like the assertions.
MentionsScoped ==
    ctx.assertions = << >> /\ ctx.universals = << >> => ctx.mentions = << >>
=============================================================================
