-------------------------------- MODULE Rewrites --------------------------------
(***************************************************************************)
(* The local rules of the rewriters in src/src/rewriter: what becomes of   *)
(* one application whose arguments are rewritten already.  A term is       *)
(* <<operator, arguments>>, a numeral <<"num", n>>, a constant of any sort *)
(* <<"var", name>>.                                                        *)
(***************************************************************************)
EXTENDS Integers, Sequences, FiniteSets
LOCAL INSTANCE SequencesExt

Op(t) == t[1]
Args(t) == IF Op(t) \in {"num", "var"} THEN <<>> ELSE t[2]
App(op, args) == <<op, args>>
Num(n) == <<"num", n>>
IsNum(t) == Op(t) = "num"
True == App("true", <<>>)
False == App("false", <<>>)
Truth(b) == IF b THEN True ELSE False
Not(a) == App("not", <<a>>)
In(x, s) == \E k \in DOMAIN s : s[k] = x

RECURSIVE Subterms(_)
Subterms(t) == {t} \cup UNION {Subterms(Args(t)[k]) : k \in DOMAIN Args(t)}

-----------------------------------------------------------------------------
(* bool_rewriter *)

FoldNot(a) ==
    CASE a = True -> False
      [] a = False -> True
      [] Op(a) = "not" -> Args(a)[1]
      [] OTHER -> Not(a)

\* The arguments without the identity, each once, in their order.
Kept(args, unit) ==
    FoldLeft(LAMBDA kept, a : IF a = unit \/ In(a, kept) THEN kept ELSE Append(kept, a), <<>>, args)
Complementary(kept) == \E k \in DOMAIN kept : Op(kept[k]) = "not" /\ In(Args(kept[k])[1], kept)

\* simplify_and and simplify_or.
FoldJunction(op, args) ==
    LET unit == Truth(op = "and")
        zero == Truth(op = "or")
        kept == Kept(args, unit)
    IN  IF In(zero, args) \/ Complementary(kept) THEN zero
        ELSE CASE Len(kept) = 0 -> unit [] Len(kept) = 1 -> kept[1] [] OTHER -> App(op, kept)

FoldImplies(a, b) ==
    CASE a = False \/ b = True -> True
      [] a = True -> b
      [] b = False -> Not(a)
      [] OTHER -> App("=>", <<a, b>>)

FoldXor(a, b) ==
    CASE a = b -> False
      [] a = False -> b
      [] b = False -> a
      [] a = True -> Not(b)
      [] b = True -> Not(a)
      [] OTHER -> App("xor", <<a, b>>)

FoldEq(a, b) ==
    CASE a = b -> True
      [] IsNum(a) /\ IsNum(b) -> Truth(a[2] = b[2])
      [] a = True -> b
      [] b = True -> a
      [] a = False -> Not(b)
      [] b = False -> Not(a)
      [] OTHER -> App("=", <<a, b>>)

FoldIte(c, t, e) ==
    CASE c = True -> t
      [] c = False -> e
      [] t = e -> t
      [] t = True -> FoldJunction("or", <<c, e>>)
      [] e = False -> FoldJunction("and", <<c, t>>)
      [] t = False -> FoldJunction("and", <<Not(c), e>>)
      [] e = True -> FoldJunction("or", <<Not(c), t>>)
      [] OTHER -> App("ite", <<c, t, e>>)

-----------------------------------------------------------------------------
(* arith_rewriter *)

\* addend: <<base, coefficient>>; a numeral has no base.
NoBase == <<"none">>
RECURSIVE Addend(_)
Addend(a) ==
    CASE IsNum(a) -> <<NoBase, a[2]>>
      [] Op(a) = "neg" -> LET b == Addend(Args(a)[1]) IN <<b[1], -b[2]>>
      [] Op(a) = "*" /\ Len(Args(a)) = 2 /\ IsNum(Args(a)[1]) -> <<Args(a)[2], Args(a)[1][2]>>
      [] Op(a) = "*" /\ Len(Args(a)) = 2 /\ IsNum(Args(a)[2]) -> <<Args(a)[1], Args(a)[2][2]>>
      [] OTHER -> <<a, 1>>

SumOf(s) == FoldLeft(LAMBDA n, m : n + m, 0, s)
Coefficient(addends, b) ==
    SumOf([k \in DOMAIN addends |-> IF addends[k][1] = b THEN addends[k][2] ELSE 0])

\* collect_sum: like terms together, the numeral first.
CollectSum(args) ==
    LET addends == [k \in DOMAIN args |-> Addend(args[k])]
        constant == Coefficient(addends, NoBase)
        bases == Kept([k \in DOMAIN addends |-> addends[k][1]], NoBase)
        open == SelectSeq(bases, LAMBDA b : Coefficient(addends, b) # 0)
        part(b) == IF Coefficient(addends, b) = 1 THEN b
                   ELSE App("*", <<Num(Coefficient(addends, b)), b>>)
        parts == (IF constant # 0 \/ open = <<>> THEN <<Num(constant)>> ELSE <<>>)
                 \o [k \in DOMAIN open |-> part(open[k])]
    IN  IF Len(parts) = 1 THEN parts[1] ELSE App("+", parts)

Compare(op, m, n) == CASE op = "<=" -> m <= n [] op = "<" -> m < n [] op = ">=" -> m >= n [] op = ">" -> m > n
Calculate(op, ns) ==
    CASE op = "+" -> SumOf(ns)
      [] op = "*" -> FoldLeft(LAMBDA n, m : n * m, 1, ns)
      [] op = "-" -> ns[1] - SumOf(Tail(ns))
      [] op = "neg" -> -ns[1]

FoldArith(op, args) ==
    LET numerals == \A k \in DOMAIN args : IsNum(args[k])
        ns == [k \in DOMAIN args |-> args[k][2]]
    IN  CASE op = "+" /\ ~numerals -> CollectSum(args)
          [] op \in {"<=", ">="} /\ args[1] = args[2] -> True
          [] op \in {"<", ">"} /\ args[1] = args[2] -> False
          [] ~numerals -> App(op, args)
          [] op \in {"<=", "<", ">=", ">"} -> Truth(Compare(op, ns[1], ns[2]))
          [] OTHER -> Num(Calculate(op, ns))

-----------------------------------------------------------------------------
(* array_rewriter *)

Distinct(i, j) == IsNum(i) /\ IsNum(j) /\ i # j

FoldSelect(a, j) ==
    CASE Op(a) = "const" -> Args(a)[1]
      [] Op(a) = "store" /\ Args(a)[2] = j -> Args(a)[3]
      [] Op(a) = "store" /\ Distinct(Args(a)[2], j) -> App("select", <<Args(a)[1], j>>)
      [] OTHER -> App("select", <<a, j>>)

FoldStore(a, i, v) ==
    CASE Op(a) = "store" /\ Args(a)[2] = i -> App("store", <<Args(a)[1], i, v>>)
      [] Op(a) = "const" /\ Args(a)[1] = v -> a
      [] v = App("select", <<a, i>>) -> a
      [] OTHER -> App("store", <<a, i, v>>)

-----------------------------------------------------------------------------
(* th_rewriter *)

\* simplify_app: the first rule that fires, else the application again.
Fold(op, args) ==
    CASE op = "not" -> FoldNot(args[1])
      [] op \in {"and", "or"} -> FoldJunction(op, args)
      [] op = "=>" -> FoldImplies(args[1], args[2])
      [] op = "xor" -> FoldXor(args[1], args[2])
      [] op = "=" -> FoldEq(args[1], args[2])
      [] op = "ite" -> FoldIte(args[1], args[2], args[3])
      [] op \in {"+", "*", "-", "neg", "<=", "<", ">=", ">"} -> FoldArith(op, args)
      [] op = "select" -> FoldSelect(args[1], args[2])
      [] op = "store" -> FoldStore(args[1], args[2], args[3])
      [] OTHER -> App(op, args)

RECURSIVE Simplified(_)
Simplified(t) ==
    IF Op(t) \in {"num", "var"} THEN t
    ELSE Fold(Op(t), [k \in DOMAIN Args(t) |-> Simplified(Args(t)[k])])

-----------------------------------------------------------------------------
(* What terms mean *)

RECURSIVE Value(_, _)
Value(t, env) ==
    LET v(k) == Value(Args(t)[k], env)
        op == Op(t)
    IN  CASE op = "num" -> t[2]
          [] op = "var" -> env[t[2]]
          [] op = "true" -> TRUE
          [] op = "false" -> FALSE
          [] op = "not" -> ~v(1)
          [] op = "and" -> \A k \in DOMAIN Args(t) : v(k)
          [] op = "or" -> \E k \in DOMAIN Args(t) : v(k)
          [] op = "=>" -> v(1) => v(2)
          [] op = "xor" -> v(1) # v(2)
          [] op = "=" -> v(1) = v(2)
          [] op = "ite" -> IF v(1) THEN v(2) ELSE v(3)
          [] op \in {"<=", "<", ">=", ">"} -> Compare(op, v(1), v(2))
          [] op = "const" -> [i \in DOMAIN env.a |-> v(1)]
          [] op = "select" -> v(1)[v(2)]
          [] op = "store" -> [v(1) EXCEPT ![v(2)] = v(3)]
          [] OTHER -> Calculate(op, [k \in DOMAIN Args(t) |-> v(k)])
=============================================================================
