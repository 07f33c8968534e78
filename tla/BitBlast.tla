------------------------------- MODULE BitBlast -------------------------------
(***************************************************************************)
(* The circuits of the bit-blaster (src/src/smt/bv.rs): every bit-vector   *)
(* operation as gates over the bits of its arguments, least significant    *)
(* first.  A gate is its value here: BitGates shows that the literals and  *)
(* clauses of a gate mean exactly that.                                    *)
(***************************************************************************)
EXTENDS Integers, Sequences

CONSTANTS
    Widths,        \* the widths of the formula's constants
    Depth          \* the number of terms blasted

ASSUME BlastAssumption == Widths \subseteq Nat \ {0} /\ Depth \in Nat

VARIABLES
    bits,          \* the bits of the terms blasted so far, in the order of blasting
    value          \* the value each term has by the semantics of SMT-LIB

blastVars == <<bits, value>>

Xor(a, b) == a # b
Inverted(a) == [i \in DOMAIN a |-> ~a[i]]
Constant(w, p) == [i \in 1 .. w |-> p]

-----------------------------------------------------------------------------
(* Circuits *)

\* full_adder: the carry is ab or cin(a xor b).
Sum(a, b, cin) == Xor(Xor(a, b), cin)
Carry(a, b, cin) == (a /\ b) \/ (cin /\ Xor(a, b))

\* The carries of a + b + cin; the i-th is the one into bit i.
Carries(a, b, cin) ==
    LET c[i \in 1 .. Len(a) + 1] == IF i = 1 THEN cin ELSE Carry(a[i - 1], b[i - 1], c[i - 1])
    IN  c

RippleAdd(a, b, cin) ==
    LET c == Carries(a, b, cin) IN [i \in DOMAIN a |-> Sum(a[i], b[i], c[i])]

\* multiply: shift and add.
Multiply(a, b) ==
    LET partial(i) == [j \in DOMAIN a |-> j >= i /\ a[j - i + 1] /\ b[i]]
        Acc[i \in 0 .. Len(a)] ==
            IF i = 0 THEN Constant(Len(a), FALSE) ELSE RippleAdd(Acc[i - 1], partial(i), FALSE)
    IN  Acc[Len(a)]

Mux(sel, then, els) == [i \in DOMAIN then |-> (sel /\ then[i]) \/ (~sel /\ els[i])]

\* Slip: an amount bit beyond the width shifts by nothing.
ShiftedSlip(a, sh, left, fill) ==
    IF sh >= Len(a) THEN a
    ELSE IF left THEN [j \in DOMAIN a |-> IF j > sh THEN a[j - sh] ELSE fill]
    ELSE [j \in DOMAIN a |-> IF j + sh <= Len(a) THEN a[j + sh] ELSE fill]

Shifted(a, sh, left, fill) ==
    IF sh >= Len(a) THEN Constant(Len(a), fill)
    ELSE IF left THEN [j \in DOMAIN a |-> IF j > sh THEN a[j - sh] ELSE fill]
    ELSE [j \in DOMAIN a |-> IF j + sh <= Len(a) THEN a[j + sh] ELSE fill]

\* barrel_shift: by 2^i where bit i of the amount is set.
BarrelShift(a, b, left, fill) ==
    LET Acc[i \in 0 .. Len(b)] ==
            IF i = 0 THEN a ELSE Mux(b[i], Shifted(Acc[i - 1], 2 ^ (i - 1), left, fill), Acc[i - 1])
    IN  Acc[Len(b)]

\* shifted - b in n + 1 bits: the carry out says there was no borrow.
Subtracted(shifted, b) ==
    LET nb == Inverted(b)
    IN  [diff |-> RippleAdd(shifted, nb, TRUE), ge |-> Carries(shifted, nb, TRUE)[Len(b) + 1]]

\* udivrem: restoring division from the most significant bit; by zero the quotient
\* is all ones and the remainder the dividend.
UDivRem(a, b) ==
    LET n == Len(a)
        \* After bits n, n - 1 .. n - i + 1.
        R[i \in 0 .. n] ==
            IF i = 0 THEN [rem |-> Constant(n, FALSE), quot |-> Constant(n, FALSE)]
            ELSE LET k == n - i + 1
                     shifted == <<a[k]>> \o R[i - 1].rem
                     sub == Subtracted(shifted, Append(b, FALSE))
                 IN  [rem |-> SubSeq(Mux(sub.ge, sub.diff, shifted), 1, n),
                      quot |-> [R[i - 1].quot EXCEPT ![k] = sub.ge]]
        isZero == \A i \in DOMAIN b : ~b[i]
    IN  [quot |-> Mux(isZero, Constant(n, TRUE), R[n].quot), rem |-> Mux(isZero, a, R[n].rem)]

UltBits(a, b) == ~Carries(a, Inverted(b), TRUE)[Len(a) + 1]

\* Signed: the top bits flipped.
TopFlipped(a) == [a EXCEPT ![Len(a)] = ~@]
SltBits(a, b) == UltBits(TopFlipped(a), TopFlipped(b))
EqBits(a, b) == \A i \in DOMAIN a : ~Xor(a[i], b[i])

\* A literal as a vector of one bit.
Bool(p) == <<p>>

\* and_all, or_all, the exclusive or of blast_bool: one gate after the other.
Junction(op, ps) ==
    LET gate(p, q) == IF op = "and" THEN p /\ q ELSE IF op = "or" THEN p \/ q ELSE Xor(p, q)
        Acc[i \in 1 .. Len(ps)] == IF i = 1 THEN ps[1] ELSE gate(Acc[i - 1], ps[i])
    IN  Acc[Len(ps)]

-----------------------------------------------------------------------------
(* Blasting *)

Unary == {"bvnot", "bvneg"}
Binary == {"bvand", "bvor", "bvxor", "bvadd", "bvsub", "bvmul", "bvudiv", "bvurem", "bvshl",
           "bvlshr", "bvashr", "bvult", "bvule", "bvslt", "bvsle", "=", "=>"}

BlastExtended(a, k, signed) == a \o Constant(k, signed /\ a[Len(a)])

\* blast_bv of a term whose arguments are blasted.
Blast1(op, a) == IF op = "bvnot" THEN Inverted(a) ELSE RippleAdd(Inverted(a), Constant(Len(a), FALSE), TRUE)

Blast2(op, a, b) ==
    CASE op = "bvand" -> [i \in DOMAIN a |-> a[i] /\ b[i]]
      [] op = "bvor" -> [i \in DOMAIN a |-> a[i] \/ b[i]]
      [] op = "bvxor" -> [i \in DOMAIN a |-> Xor(a[i], b[i])]
      [] op = "bvadd" -> RippleAdd(a, b, FALSE)
      [] op = "bvsub" -> RippleAdd(a, Inverted(b), TRUE)
      [] op = "bvmul" -> Multiply(a, b)
      [] op = "bvudiv" -> UDivRem(a, b).quot
      [] op = "bvurem" -> UDivRem(a, b).rem
      [] op = "bvshl" -> BarrelShift(a, b, TRUE, FALSE)
      [] op = "bvlshr" -> BarrelShift(a, b, FALSE, FALSE)
      [] op = "bvashr" -> BarrelShift(a, b, FALSE, a[Len(a)])
      [] op = "bvult" -> Bool(UltBits(a, b))
      [] op = "bvule" -> Bool(UltBits(a, b) \/ EqBits(a, b))
      [] op = "bvslt" -> Bool(SltBits(a, b))
      [] op = "bvsle" -> Bool(SltBits(a, b) \/ EqBits(a, b))
      [] op = "=" -> Bool(EqBits(a, b))
      [] op = "=>" -> Bool(~a[1] \/ b[1])

\* a is the high part.
Concat(a, b) == b \o a
Extract(a, high, low) == SubSeq(a, low + 1, high + 1)

-----------------------------------------------------------------------------
(* The semantics of the operations *)

\* The model's value of a term is read off its bits, the most significant first.
Number(a) ==
    LET N[i \in 0 .. Len(a)] ==
            IF i = 0 THEN 0 ELSE 2 * N[i - 1] + (IF a[Len(a) - i + 1] THEN 1 ELSE 0)
    IN  N[Len(a)]

Signed(x, w) == IF x >= 2 ^ (w - 1) THEN x - 2 ^ w ELSE x
Bit(x, i) == (x \div (2 ^ i)) % 2
BitSum(w, f(_)) ==
    LET S[i \in 0 .. w] == IF i = 0 THEN 0 ELSE S[i - 1] + f(i - 1) * 2 ^ (i - 1) IN S[w]
Truth(p) == IF p THEN 1 ELSE 0

Meaning1(op, x, w) == IF op = "bvnot" THEN 2 ^ w - 1 - x ELSE (2 ^ w - x) % 2 ^ w

Meaning2(op, x, y, w) ==
    CASE op = "bvand" -> BitSum(w, LAMBDA i : Bit(x, i) * Bit(y, i))
      [] op = "bvor" -> BitSum(w, LAMBDA i : Truth(Bit(x, i) + Bit(y, i) > 0))
      [] op = "bvxor" -> BitSum(w, LAMBDA i : (Bit(x, i) + Bit(y, i)) % 2)
      [] op = "bvadd" -> (x + y) % 2 ^ w
      [] op = "bvsub" -> (x - y) % 2 ^ w
      [] op = "bvmul" -> (x * y) % 2 ^ w
      [] op = "bvudiv" -> IF y = 0 THEN 2 ^ w - 1 ELSE x \div y
      [] op = "bvurem" -> IF y = 0 THEN x ELSE x % y
      [] op = "bvshl" -> (x * 2 ^ y) % 2 ^ w
      [] op = "bvlshr" -> x \div 2 ^ y
      [] op = "bvashr" -> (Signed(x, w) \div 2 ^ y) % 2 ^ w
      [] op = "bvult" -> Truth(x < y)
      [] op = "bvule" -> Truth(x <= y)
      [] op = "bvslt" -> Truth(Signed(x, w) < Signed(y, w))
      [] op = "bvsle" -> Truth(Signed(x, w) <= Signed(y, w))
      [] op = "=" -> Truth(x = y)
      [] op = "=>" -> Truth(x <= y)

-----------------------------------------------------------------------------
(* Terms, arguments first *)

BlastStart(a, b) == bits = <<a, b>> /\ value = <<Number(a), Number(b)>>
BlastInit == \E w \in Widths : \E a, b \in [1 .. w -> BOOLEAN] : BlastStart(a, b)

Add(b, x) == bits' = Append(bits, b) /\ value' = Append(value, x)

Term1 == \E op \in Unary, i \in DOMAIN bits :
             Add(Blast1(op, bits[i]), Meaning1(op, value[i], Len(bits[i])))

Term2 == \E op \in Binary, i, j \in DOMAIN bits :
             /\ Len(bits[i]) = Len(bits[j]) /\ (op = "=>" => Len(bits[i]) = 1)
             /\ Add(Blast2(op, bits[i], bits[j]), Meaning2(op, value[i], value[j], Len(bits[i])))

TermConcat == \E i, j \in DOMAIN bits :
                  Add(Concat(bits[i], bits[j]), value[i] * 2 ^ Len(bits[j]) + value[j])

TermExtract == \E i \in DOMAIN bits : \E high \in 0 .. Len(bits[i]) - 1 : \E low \in 0 .. high :
                   Add(Extract(bits[i], high, low), (value[i] \div 2 ^ low) % 2 ^ (high - low + 1))

TermExtend == \E i \in DOMAIN bits, k \in 0 .. 2, signed \in BOOLEAN :
                  LET w == Len(bits[i])
                  IN  Add(BlastExtended(bits[i], k, signed),
                          IF signed THEN Signed(value[i], w) % 2 ^ (w + k) ELSE value[i])

TermIte == \E c, i, j \in DOMAIN bits :
               /\ Len(bits[c]) = 1 /\ Len(bits[i]) = Len(bits[j])
               /\ Add(Mux(bits[c][1], bits[i], bits[j]), IF value[c] = 1 THEN value[i] ELSE value[j])

\* An n-ary connective.
TermJunction ==
    \E op \in {"and", "or", "xor"}, i, j, k \in DOMAIN bits :
        LET sum == value[i] + value[j] + value[k]
        IN  /\ \A n \in {i, j, k} : Len(bits[n]) = 1
            /\ Add(Bool(Junction(op, <<bits[i][1], bits[j][1], bits[k][1]>>)),
                   IF op = "and" THEN Truth(sum = 3) ELSE IF op = "or" THEN Truth(sum > 0) ELSE sum % 2)

BlastNext == /\ Len(bits) < Depth + 2
             /\ TermJunction \/ Term1 \/ Term2 \/ TermConcat \/ TermExtract \/ TermExtend \/ TermIte

BlastSpec == BlastInit /\ [][BlastNext]_blastVars

-----------------------------------------------------------------------------
(* Properties *)

\* The bits of every term are its value, through whatever operations: sums,
\* products, quotients and shifts wrap, saturate and fill as SMT-LIB has it, at
\* every width down to one bit and for amounts and divisors at the limits.
BlastExact == \A i \in DOMAIN bits : Number(bits[i]) = value[i]

\* Division, said without the operators above: the quotient and remainder of a
\* non-zero divisor rebuild the dividend and leave less than the divisor.
DivisionExact ==
    \A i, j \in DOMAIN bits :
        Len(bits[i]) = Len(bits[j]) /\ value[j] # 0 =>
            LET d == UDivRem(bits[i], bits[j])
            IN  /\ Number(d.quot) * value[j] + Number(d.rem) = value[i]
                /\ Number(d.rem) < value[j]

\* The comparisons are one order each: exactly one of a < b, b < a and a = b.
OrdersTotal ==
    \A i, j \in DOMAIN bits :
        Len(bits[i]) = Len(bits[j]) =>
            LET a == bits[i]
                b == bits[j]
                one(lt(_, _)) == /\ EqBits(a, b) <=> ~lt(a, b) /\ ~lt(b, a)
                                 /\ ~(lt(a, b) /\ lt(b, a))
            IN  one(UltBits) /\ one(SltBits)
=============================================================================
