------------------------------ MODULE Ieee754 ------------------------------
(***************************************************************************)
(* The floating point library of the FPU emulator (fpuemul/math), for one  *)
(* format.  The sources of single and double precision are the same text   *)
(* with different constants: this module follows the one of single         *)
(* precision, and Fpu instantiates it for both.                            *)
(*                                                                         *)
(* An operation takes its operands and the control register csr, of which  *)
(* it reads the rounding mode rm and the flush bit nod, and returns a      *)
(* value and the exceptions it raised (cx).  No exception is enabled in    *)
(* the library itself (mx is never set), so that ieee754sp_xcpt returns    *)
(* its argument, and so does ieee754sp_nanxcpt, which is never given a     *)
(* signalling NaN.                                                         *)
(***************************************************************************)
EXTENDS Integers

CONSTANTS
    MBITS,      \* bits of the mantissa, SP_MBITS or DP_MBITS
    EMAX        \* largest exponent, SP_EMAX or DP_EMAX

EBIAS == EMAX
EMIN == 1 - EMAX
HIDDEN == 2^MBITS

Build(s, bx, m) == [sign |-> s, bexp |-> bx, mant |-> m]
Value == {Build(s, bx, m) : s \in {0, 1}, bx \in 0 .. EMAX + 1 + EBIAS, m \in 0 .. HIDDEN - 1}

\* The special values (ieee754sp_spcvals).
Zero(s)  == Build(s, 0, 0)
One(s)   == Build(s, EBIAS, 0)
Ten(s)   == Build(s, 3 + EBIAS, HIDDEN \div 4)
Inf(s)   == Build(s, EMAX + 1 + EBIAS, 0)
Most(s)  == Build(s, EMAX + EBIAS, HIDDEN - 1)
Least(s) == Build(s, EMIN + EBIAS, 0)
LeastDenormal(s) == Build(s, 0, 1)
Indef    == Build(0, EMAX + 1 + EBIAS, HIDDEN \div 2 - 1)

Returns(v, cx) == [v |-> v, cx |-> cx]
Invalid == Returns(Indef, {"INVALID"})

-----------------------------------------------------------------------------
(* Operands *)

\* The top bit of the mantissa marks a signalling NaN.
Class(v) ==
    CASE v.bexp = EMAX + 1 + EBIAS ->
            IF v.mant = 0 THEN "INF" ELSE IF v.mant >= HIDDEN \div 2 THEN "SNAN" ELSE "QNAN"
      [] v.bexp = 0 -> IF v.mant = 0 THEN "ZERO" ELSE "DNORM"
      [] OTHER -> "NORM"

IsNaN(v) == Class(v) \in {"SNAN", "QNAN"}

\* With the flush bit, a denormal operand is taken for zero.
IsFlushed(v, csr) == csr.nod /\ Class(v) = "DNORM"
Flushed(v, csr)   == IF IsFlushed(v, csr) THEN Zero(v.sign) ELSE v
FlushFlag(v, csr) == IF IsFlushed(v, csr) THEN {"INEXACT"} ELSE {}
FlushFlags(x, y, csr) == FlushFlag(x, csr) \cup FlushFlag(y, csr)

\* The exponent, and the mantissa with its hidden bit: denormals are shifted up.
Exponent(v) ==
    IF Class(v) = "DNORM"
    THEN EMIN - (CHOOSE k \in 1 .. MBITS : v.mant * 2^k \in HIDDEN .. 2 * HIDDEN - 1)
    ELSE v.bexp - EBIAS
Mantissa(v) ==
    IF Class(v) = "DNORM" THEN v.mant * 2^(EMIN - Exponent(v)) ELSE v.mant + HIDDEN

-----------------------------------------------------------------------------
(* Results *)

\* A right shift that keeps a bit for what is lost; SPXSRSXn does not shift by
\* more than the width of an extended mantissa.
Sticky(m, n) ==
    LET q == m \div 2^n IN IF m % 2^n # 0 /\ q % 2 = 0 THEN q + 1 ELSE q
SPXSRS(m, n) == IF n > MBITS + 3 THEN 1 ELSE Sticky(m, n)

\* m * 2^(e - MBITS - 3) as a mantissa with three bits below it for rounding.
TopBit(m) == CHOOSE k \in 0 .. 2 * MBITS + 8 : m \in 2^k .. 2^(k + 1) - 1
Extended(m, e) ==
    LET n == TopBit(m) - (MBITS + 3)
    IN  [m |-> IF n > 0 THEN Sticky(m, n) ELSE m * 2^(-n), e |-> e + n]

get_rounding(s, m, rm) ==
    IF m % 8 = 0 THEN m
    ELSE CASE rm = "RZ" -> m
           [] rm = "RN" -> m + 3 + ((m \div 8) % 2)
           [] rm = "RU" -> IF s = 0 THEN m + 8 ELSE m
           [] rm = "RD" -> IF s = 1 THEN m + 8 ELSE m

\* The rounding mode is away from zero for this sign.
Outward(s, rm) == rm = (IF s = 0 THEN "RU" ELSE "RD")

Packed(s, e, m, csr, cx) ==
    CASE e > EMAX ->
            Returns(IF csr.rm = "RN" \/ Outward(s, csr.rm) THEN Inf(s) ELSE Most(s),
                    cx \cup {"OVERFLOW", "INEXACT"})
      [] e <= EMAX /\ m < HIDDEN -> Returns(Build(s, 0, m), cx)
      [] OTHER -> Returns(Build(s, e + EBIAS, m - HIDDEN), cx)

Rounded(s, e, m, csr, cx) ==
    LET r     == get_rounding(s, m, csr.rm)
        carry == r >= 16 * HIDDEN
    IN  IF m % 8 = 0 THEN Packed(s, e, m \div 8, csr, cx)
        ELSE Packed(s, IF carry THEN e + 1 ELSE e, r \div (IF carry THEN 16 ELSE 8), csr,
                    cx \cup {"INEXACT"} \cup (IF m < 8 * HIDDEN THEN {"UNDERFLOW"} ELSE {}))

\* ieee754sp_format; below EMIN the mantissa is shifted to a denormal one, unless
\* rounding lifts it to the least normal value.
format(s, e, m, csr, cx) ==
    LET r == get_rounding(s, m, csr.rm)
    IN  CASE e >= EMIN -> Rounded(s, e, m, csr, cx)
          [] e < EMIN /\ csr.nod ->
                Returns(IF Outward(s, csr.rm) THEN Least(s) ELSE Zero(s),
                        cx \cup {"UNDERFLOW", "INEXACT"})
          [] e = EMIN - 1 /\ ~csr.nod /\ r >= 16 * HIDDEN ->
                Rounded(s, EMIN, 8 * (r \div 16), csr, cx \cup {"INEXACT"})
          [] OTHER -> Rounded(s, EMIN, SPXSRS(m, EMIN - e), csr, cx)

Formatted(s, x, csr, cx) == format(s, x.e, x.m, csr, cx)

-----------------------------------------------------------------------------
(* Arithmetic *)

\* What all of add, sub, mul and div do with a NaN.
HasNaN(x, y) == IsNaN(x) \/ IsNaN(y)
NaNResult(x, y, cx) ==
    CASE "SNAN" \in {Class(x), Class(y)} -> Returns(Indef, cx \cup {"INVALID"})
      [] Class(x) = "QNAN" -> Returns(x, cx)
      [] OTHER -> Returns(y, cx)

\* The sum of two values that are neither zero nor infinite, with operands
\* aligned to the larger exponent.
Magnitudes(x, y, csr, cx) ==
    LET e  == IF Exponent(x) > Exponent(y) THEN Exponent(x) ELSE Exponent(y)
        xm == SPXSRS(8 * Mantissa(x), e - Exponent(x))
        ym == SPXSRS(8 * Mantissa(y), e - Exponent(y))
    IN  CASE x.sign = y.sign -> Formatted(x.sign, Extended(xm + ym, e), csr, cx)
          [] x.sign # y.sign /\ xm = ym ->
                Returns(Zero(IF csr.rm = "RD" THEN 1 ELSE 0), cx)
          [] x.sign # y.sign /\ xm > ym -> Formatted(x.sign, Extended(xm - ym, e), csr, cx)
          [] OTHER -> Formatted(y.sign, Extended(ym - xm, e), csr, cx)

\* The sum of two numbers, zeros or infinities.
Sum(x, y, csr, cx) ==
    LET xc == Class(x)
        yc == Class(y)
    IN  CASE xc = "INF" /\ yc = "INF" ->
                IF x.sign = y.sign THEN Returns(x, cx)
                ELSE Returns(Indef, cx \cup {"INVALID"})
          [] xc = "INF" /\ yc # "INF" -> Returns(x, cx)
          [] xc # "INF" /\ yc = "INF" -> Returns(y, cx)
          [] xc = "ZERO" /\ yc = "ZERO" ->
                Returns(IF x.sign = y.sign THEN x
                        ELSE Zero(IF csr.rm = "RD" THEN 1 ELSE 0), cx)
          [] xc = "ZERO" /\ yc \in {"NORM", "DNORM"} -> Returns(y, cx)
          [] xc \in {"NORM", "DNORM"} /\ yc = "ZERO" -> Returns(x, cx)
          [] OTHER -> Magnitudes(x, y, csr, cx)

Flip(v) == [v EXCEPT !.sign = 1 - v.sign]

Difference(x, y, csr, cx) == Sum(x, Flip(y), csr, cx)

Product(x, y, csr, cx) ==
    LET s == IF x.sign = y.sign THEN 0 ELSE 1
        C == {Class(x), Class(y)}
    IN  CASE {"INF", "ZERO"} \subseteq C -> Returns(Indef, cx \cup {"INVALID"})
          [] "INF" \in C /\ "ZERO" \notin C -> Returns(Inf(s), cx)
          [] "ZERO" \in C /\ "INF" \notin C -> Returns(Zero(s), cx)
          [] OTHER -> Formatted(s, Extended(Mantissa(x) * Mantissa(y),
                                            Exponent(x) + Exponent(y) - MBITS + 3), csr, cx)

\* Mutant: the remainder does not count.
Quotient_NoRemainder(x, y, csr, cx) ==
    Formatted(IF x.sign = y.sign THEN 0 ELSE 1,
              Extended(2 * ((Mantissa(x) * 2^(MBITS + 2)) \div Mantissa(y)),
                       Exponent(x) - Exponent(y)), csr, cx)

\* The quotient of the mantissas has MBITS + 3 bits, and one for a remainder.
Quotient(x, y, csr, cx) ==
    LET s  == IF x.sign = y.sign THEN 0 ELSE 1
        xc == Class(x)
        yc == Class(y)
        n  == Mantissa(x) * 2^(MBITS + 2)
        q  == 2 * (n \div Mantissa(y)) + (IF n % Mantissa(y) # 0 THEN 1 ELSE 0)
    IN  CASE xc = yc /\ xc \in {"INF", "ZERO"} -> Returns(Indef, cx \cup {"INVALID"})
          [] xc # "INF" /\ yc = "INF" -> Returns(Zero(s), cx)
          [] xc = "INF" /\ yc # "INF" -> Returns(Inf(s), cx)
          [] xc \in {"NORM", "DNORM"} /\ yc = "ZERO" ->
                Returns(Inf(s), cx \cup {"ZERO_DIVIDE"})
          [] xc = "ZERO" /\ yc \in {"NORM", "DNORM"} -> Returns(Zero(s), cx)
          [] OTHER -> Formatted(s, Extended(q, Exponent(x) - Exponent(y)), csr, cx)

\* The operations: a NaN is passed on, and operands are flushed if need be.
Add(x, y, csr) ==
    IF HasNaN(x, y) THEN NaNResult(x, y, FlushFlags(x, y, csr))
    ELSE Sum(Flushed(x, csr), Flushed(y, csr), csr, FlushFlags(x, y, csr))
Sub(x, y, csr) ==
    IF HasNaN(x, y) THEN NaNResult(x, y, FlushFlags(x, y, csr))
    ELSE Difference(Flushed(x, csr), Flushed(y, csr), csr, FlushFlags(x, y, csr))
Mul(x, y, csr) ==
    IF HasNaN(x, y) THEN NaNResult(x, y, FlushFlags(x, y, csr))
    ELSE Product(Flushed(x, csr), Flushed(y, csr), csr, FlushFlags(x, y, csr))
Div(x, y, csr) ==
    IF HasNaN(x, y) THEN NaNResult(x, y, FlushFlags(x, y, csr))
    ELSE Quotient(Flushed(x, csr), Flushed(y, csr), csr, FlushFlags(x, y, csr))

\* The root of the mantissa, doubled if the exponent is odd, has MBITS + 2 bits;
\* it is rounded as it stands and put together by an addition, so that a carry
\* goes to the exponent.
Root(n) == CHOOSE q \in 0 .. 2^(MBITS + 2) : q * q <= n /\ n < (q + 1) * (q + 1)
Sqrt(v, csr) ==
    LET x  == Flushed(v, csr)
        cx == FlushFlag(v, csr)
        e  == Exponent(x)
        n  == Mantissa(x) * 2^(e % 2) * 2^(MBITS + 2)
        q  == Root(n)
        up == CASE q * q = n -> 0 [] q * q # n /\ csr.rm = "RU" -> 2
                [] q * q # n /\ csr.rm = "RN" -> q % 2 [] OTHER -> 0
        packed == ((q + up) \div 2) + (EBIAS - 1) * HIDDEN + (e \div 2) * HIDDEN
    IN  CASE Class(x) = "SNAN" -> Invalid
          [] Class(x) \in {"QNAN", "ZERO"} -> Returns(x, cx)
          [] Class(x) \notin {"SNAN", "QNAN", "ZERO"} /\ x.sign = 1 -> Invalid
          [] Class(x) = "INF" /\ x.sign = 0 -> Returns(x, cx)
          [] OTHER -> Returns(Build(0, packed \div HIDDEN, packed % HIDDEN),
                              IF q * q = n THEN cx ELSE cx \cup {"INEXACT"})

\* Change of sign: not of a NaN.
Neg(v, csr) ==
    LET x == Flushed(v, csr)
    IN  CASE Class(x) = "SNAN" -> Invalid
          [] Class(x) = "QNAN" -> Returns(x, {})
          [] OTHER -> Returns(Flip(x), FlushFlag(v, csr))
Abs(v, csr) ==
    LET x == Flushed(v, csr)
    IN  CASE Class(x) = "SNAN" -> Invalid
          [] Class(x) = "QNAN" -> Returns(x, {})
          [] OTHER -> Returns([x EXCEPT !.sign = 0], FlushFlag(v, csr))

-----------------------------------------------------------------------------
(* Comparison *)

\* The bits of a value as an integer, in the order of the values.
Key(v) == (IF v.sign = 1 THEN -1 ELSE 1) * (v.bexp * HIDDEN + v.mant)

\* Whether one of the relations cmp holds; flushing does not count as inexact.
Compare(x, y, csr, cmp, sig) ==
    LET kx == Key(Flushed(x, csr))
        ky == Key(Flushed(y, csr))
        signalling == sig \/ "SNAN" \in {Class(x), Class(y)}
    IN  IF HasNaN(x, y)
        THEN Returns("CUN" \in cmp, IF signalling THEN {"INVALID"} ELSE {})
        ELSE Returns((IF kx < ky THEN "CLT" ELSE IF kx = ky THEN "CEQ" ELSE "CGT") \in cmp, {})

-----------------------------------------------------------------------------
(* Conversion from and to integers of a number of bits *)

Magnitude(n) == IF n < 0 THEN -n ELSE n
SignOf(n) == IF n < 0 THEN 1 ELSE 0

FromInt(n, csr) ==
    CASE n = 0 -> Returns(Zero(0), {})
      [] Magnitude(n) = 1 -> Returns(One(SignOf(n)), {})
      [] Magnitude(n) = 10 -> Returns(Ten(SignOf(n)), {})
      [] OTHER -> Formatted(SignOf(n), Extended(Magnitude(n), MBITS + 3), csr, {})

\* The integer part of x, and what is cut off: its first bit and the rest.
IntegerPart(x) ==
    LET m == Mantissa(x)
        n == MBITS - Exponent(x)
    IN  CASE n <= 0 -> [n |-> m * 2^(-n), round |-> 0, sticky |-> FALSE]
          [] n > MBITS + 1 -> [n |-> 0, round |-> 0, sticky |-> TRUE]
          [] OTHER -> [n |-> m \div 2^n, round |-> (m \div 2^(n - 1)) % 2,
                       sticky |-> m % 2^(n - 1) # 0]

RoundsUp(i, s, rm) ==
    CASE rm = "RN" -> i.round = 1 /\ (i.sticky \/ i.n % 2 = 1)
      [] rm = "RZ" -> FALSE
      [] OTHER -> (i.round = 1 \/ i.sticky) /\ Outward(s, rm)

\* The integer returned for what is not one: ieee754si_indef, the largest.
IndefInt(bits) == 2^(bits - 1) - 1
InvalidInt(bits, cx) == Returns(IndefInt(bits), cx \cup {"INVALID"})

\* corner: the smallest integer may also be the result of rounding (dp_tint).
ToInt(v, bits, csr, corner) ==
    LET x  == Flushed(v, csr)
        cx == FlushFlag(v, csr)
        i  == IntegerPart(x)
        n  == IF RoundsUp(i, x.sign, csr.rm) THEN i.n + 1 ELSE i.n
    IN  CASE Class(x) \in {"SNAN", "QNAN", "INF"} -> InvalidInt(bits, cx)
          [] Class(x) = "ZERO" -> Returns(0, cx)
          [] Class(x) \in {"NORM", "DNORM"}
             /\ Exponent(x) >= (IF corner THEN bits ELSE bits - 1) ->
                IF ~corner /\ Exponent(x) = bits - 1 /\ x.sign = 1 /\ Mantissa(x) = HIDDEN
                THEN Returns(-(2^(bits - 1)), cx)
                ELSE InvalidInt(bits, cx)
          [] OTHER ->
                IF n >= 2^(bits - 1) /\ ~(corner /\ x.sign = 1 /\ n = 2^(bits - 1))
                THEN InvalidInt(bits, cx)
                ELSE Returns(IF x.sign = 1 THEN -n ELSE n,
                             IF i.round = 1 \/ i.sticky THEN cx \cup {"INEXACT"} ELSE cx)
=============================================================================
