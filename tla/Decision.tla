------------------------------ MODULE Decision ------------------------------
(***************************************************************************)
(* What SmtCore (src/src/smt/solver.rs) promises: formulas are asserted,   *)
(* and a check answers "sat" only when some world of the theories makes    *)
(* every asserted formula true, "unsat" only when none does.               *)
(***************************************************************************)
CONSTANTS Formulas,        \* the formulas that can be asserted
          Worlds,          \* the interpretations of the atoms the theories admit
          ModelsOf         \* ModelsOf[f]: the worlds that make formula f true

VARIABLES asserted, verdict

vars == <<asserted, verdict>>

Satisfiable == \E w \in Worlds : \A f \in asserted : w \in ModelsOf[f]

Init == asserted = {} /\ verdict = "none"

AssertRoot(f) == asserted' = asserted \cup {f} /\ verdict' = "none"

Ask == verdict' = "none" /\ UNCHANGED asserted

Answer ==
    /\ \/ verdict' = "sat" /\ Satisfiable
       \/ verdict' = "unsat" /\ ~Satisfiable
       \/ verdict' = "unknown"
    /\ UNCHANGED asserted

Next == Ask \/ Answer \/ \E f \in Formulas : AssertRoot(f)

Spec == Init /\ [][Next]_vars
=============================================================================
