-------------------------------- MODULE Rewriter --------------------------------
(***************************************************************************)
(* The bottom-up drivers of src/src/rewriter: th_rewriter.rs simplifies a  *)
(* term, subst.rs replaces subterms, both node by node over a cache, and   *)
(* nnf.rs pushes negations to the atoms.                                   *)
(***************************************************************************)
EXTENDS Rewrites

CONSTANTS
    Roots,         \* the terms simplified
    Subjects,      \* those substituted in
    Formulas,      \* those brought to negation normal form
    Maps,          \* substitutions: sets of <<from, to>>
    RewriterEnvs           \* the values of the constants

VARIABLES
    job,           \* the call: "simplify", "substitute" or "nnf"
    root,          \* its term
    subst,         \* the replacements of a substitution
    cache,         \* the node's result, for every node passed
    result         \* the call's result, {} before it

rewriterVars == <<job, root, subst, cache, result>>

-----------------------------------------------------------------------------
(* Negation normal form *)

\* Slip: the premise of an implication keeps its sign.
RECURSIVE NnfSlip(_, _)
NnfSlip(t, negate) ==
    LET all(op) == App(op, [k \in DOMAIN Args(t) |-> NnfSlip(Args(t)[k], negate)])
        a == Args(t)
    IN  CASE Op(t) = "and" -> all(IF negate THEN "or" ELSE "and")
          [] Op(t) = "or" -> all(IF negate THEN "and" ELSE "or")
          [] Op(t) = "not" -> NnfSlip(a[1], ~negate)
          [] Op(t) = "=>" -> App(IF negate THEN "and" ELSE "or", <<NnfSlip(a[1], FALSE), NnfSlip(a[2], negate)>>)
          [] t \in {True, False} -> IF negate THEN Truth(t = False) ELSE t
          [] OTHER -> IF negate THEN Not(t) ELSE t

\* nnf: `ite', `xor' and equality are atoms.
RECURSIVE Nnf(_, _)
Nnf(t, negate) ==
    LET all(op) == App(op, [k \in DOMAIN Args(t) |-> Nnf(Args(t)[k], negate)])
        a == Args(t)
    IN  CASE Op(t) = "and" -> all(IF negate THEN "or" ELSE "and")
          [] Op(t) = "or" -> all(IF negate THEN "and" ELSE "or")
          [] Op(t) = "not" -> Nnf(a[1], ~negate)
          [] Op(t) = "=>" -> App(IF negate THEN "and" ELSE "or", <<Nnf(a[1], ~negate), Nnf(a[2], negate)>>)
          [] t \in {True, False} -> IF negate THEN Truth(t = False) ELSE t
          [] OTHER -> IF negate THEN Not(t) ELSE t

ToNnf ==
    /\ job = "nnf" /\ result = {}
    /\ result' = {Nnf(root, FALSE)}
    /\ UNCHANGED <<job, root, subst, cache>>

-----------------------------------------------------------------------------
(* The drivers *)

CachedArgs(t) == [k \in DOMAIN Args(t) |-> cache[Args(t)[k]]]
Replacement(t) == {m[2] : m \in {n \in subst : n[1] = t}}

\* Slip: a replacement is replaced in its turn.
RebuiltTwiceSlip(t) ==
    LET once == IF Replacement(t) # {} THEN CHOOSE r \in Replacement(t) : TRUE
                ELSE IF Args(t) # <<>> THEN App(Op(t), CachedArgs(t)) ELSE t
    IN  IF Replacement(t) # {} /\ Replacement(once) # {} THEN CHOOSE r \in Replacement(once) : TRUE ELSE once

\* rebuild.
Rebuilt(t) ==
    IF Replacement(t) # {} THEN CHOOSE r \in Replacement(t) : TRUE
    ELSE IF Args(t) # <<>> THEN App(Op(t), CachedArgs(t)) ELSE t

SimplifyNode(t) == IF Op(t) \in {"num", "var"} THEN t ELSE Fold(Op(t), CachedArgs(t))

\* The next node of the post-order: all its arguments are passed.
Ready == {t \in Subterms(root) \ DOMAIN cache : \A k \in DOMAIN Args(t) : Args(t)[k] \in DOMAIN cache}

Step ==
    /\ job # "nnf" /\ result = {} /\ Ready # {}
    /\ LET t == CHOOSE t \in Ready : TRUE
           r == IF job = "simplify" THEN SimplifyNode(t) ELSE Rebuilt(t)
       IN  cache' = [u \in DOMAIN cache \cup {t} |-> IF u = t THEN r ELSE cache[u]]
    /\ UNCHANGED <<job, root, subst, result>>

Return ==
    /\ result = {} /\ root \in DOMAIN cache
    /\ result' = {cache[root]}
    /\ UNCHANGED <<job, root, subst, cache>>

RewriterStart(j, t, s) == job = j /\ root = t /\ subst = s /\ cache = <<>> /\ result = {}

RewriterInit ==
    \/ \E t \in Roots : RewriterStart("simplify", t, {})
    \/ \E t \in Subjects, s \in Maps : RewriterStart("substitute", t, s)
    \/ \E t \in Formulas : RewriterStart("nnf", t, {})

RewriterNext == Step \/ Return \/ ToNnf

RewriterSpec == RewriterInit /\ [][RewriterNext]_rewriterVars

-----------------------------------------------------------------------------
(* Properties *)

\* Every node's result means what the node means, whatever rules fired below it.
SimplifyKeeps ==
    job = "simplify" => \A t \in DOMAIN cache, env \in RewriterEnvs : Value(cache[t], env) = Value(t, env)

\* The results of the calls too; a normal form negates atoms only.
Negatable(t) == Op(t) \notin {"and", "or", "not", "=>", "true", "false"}
NormalForm ==
    job = "nnf" => \A r \in result :
        /\ \A env \in RewriterEnvs : Value(r, env) = Value(root, env)
        /\ \A t \in Subterms(r) : Op(t) = "not" => Negatable(Args(t)[1]) \/ \E u \in Subterms(root) :
               ~(Op(u) \in {"and", "or", "not", "=>"}) /\ t \in Subterms(u)

\* A simplified term without arrays has no truth value below its top, nor an
\* operation on numerals only: a ground one is a value, which is what decides a goal.
ConstantsGone ==
    (job = "simplify" /\ \A t \in Subterms(root) : Op(t) \notin {"select", "store", "const"}) =>
        \A r \in result : \A t \in Subterms(r) : Args(t) # <<>> =>
            /\ \A k \in DOMAIN Args(t) : Args(t)[k] \notin {True, False}
            /\ \E k \in DOMAIN Args(t) : ~IsNum(Args(t)[k])

\* Substitution is simultaneous: the result means the term where every replaced
\* constant has the value its replacement has before the substitution.
After(env) ==
    [name \in DOMAIN env |->
        LET to == {m[2] : m \in {n \in subst : n[1] = <<"var", name>>}}
        IN  IF to = {} THEN env[name] ELSE Value(CHOOSE t \in to : TRUE, env)]
Simultaneous ==
    (job = "substitute" /\ \A m \in subst : Op(m[1]) = "var") =>
        \A t \in DOMAIN cache, env \in RewriterEnvs : Value(cache[t], env) = Value(t, After(env))

\* A replaced application is gone, and its replacement is put in as it is.
RECURSIVE Put(_)
Put(t) ==
    LET to == {m[2] : m \in {n \in subst : n[1] = t}}
    IN  IF to # {} THEN CHOOSE r \in to : TRUE
        ELSE IF Args(t) = <<>> THEN t ELSE App(Op(t), [k \in DOMAIN Args(t) |-> Put(Args(t)[k])])
Verbatim == job = "substitute" => \A r \in result : r = Put(root)

\* "so the result is itself simplified" (bool_rewriter.rs:192, of an `ite' with a
\* Boolean constant for a branch).
IteSettled ==
    (job = "simplify" /\ Op(root) = "ite" /\ {Args(root)[2], Args(root)[3]} \cap {True, False} # {}) =>
        \A r \in result : Simplified(r) = r

\* Each of the three calls keeps the meaning of its term, and leaves the shape it is
\* called for.
RewritesRight == SimplifyKeeps /\ ConstantsGone /\ Simultaneous /\ Verbatim /\ NormalForm
=============================================================================
