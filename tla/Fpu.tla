-------------------------------- MODULE Fpu --------------------------------
(***************************************************************************)
(* The arithmetic of the FPU emulator: the two formats of Ieee754, the     *)
(* conversions between them and to integers, and what fpuemul/math/        *)
(* cp1emu.c puts together from them.  The formats and integers are small,  *)
(* but related to each other as those of the machine are: every single     *)
(* value is a double one with at least two more than twice the bits, no    *)
(* double denormal is a single value, and a double holds every word but    *)
(* not every long integer.                                                 *)
(*                                                                         *)
(* A behaviour has one operand, and sets the control register as it likes; *)
(* the properties say what every operation makes of them.                  *)
(***************************************************************************)
EXTENDS Integers

CONSTANTS
    SP_MBITS, SP_EMAX, DP_MBITS, DP_EMAX,
    WORD, LONG,         \* bits of an integer
    DPMantissas,        \* those of the double operands
    Few                 \* single operands, for operations of three

\* What the constants must satisfy.
FormatsAssumption ==
    /\ {SP_MBITS, SP_EMAX, DP_MBITS, DP_EMAX, WORD, LONG} \subseteq Nat \ {0, 1}
    /\ DP_MBITS >= 2 * SP_MBITS + 2 /\ DP_EMAX >= SP_EMAX + SP_MBITS + 1
    /\ SP_MBITS + 1 < WORD /\ WORD <= DP_MBITS /\ DP_MBITS + 1 < LONG

VARIABLES
    x,      \* the operand in a register
    csr     \* the part of the control register that operations read

vars == <<x, csr>>

S == INSTANCE Ieee754 WITH MBITS <- SP_MBITS, EMAX <- SP_EMAX
D == INSTANCE Ieee754 WITH MBITS <- DP_MBITS, EMAX <- DP_EMAX

-----------------------------------------------------------------------------
(* Double precision *)

dp_add(a, b, c) == D!Add(a, b, c)
dp_sub(a, b, c) == D!Sub(a, b, c)
dp_mul(a, b, c) == D!Mul(a, b, c)
dp_div(a, b, c) == D!Div(a, b, c)
dp_neg(a, c)    == D!Neg(a, c)
dp_abs(a, c)    == D!Abs(a, c)
dp_cmp(a, b, c, cmp, sig) == D!Compare(a, b, c, cmp, sig)

\* A double holds every word: nothing is rounded.
dp_fint(n) ==
    LET m == D!Magnitude(n)
        k == CHOOSE k \in 0 .. DP_MBITS : m * 2^k \in D!HIDDEN .. 2 * D!HIDDEN - 1
    IN  IF n = 0 THEN D!Returns(D!Zero(0), {})
        ELSE D!Returns(D!Build(D!SignOf(n), DP_MBITS - k + D!EBIAS, m * 2^k - D!HIDDEN), {})
dp_flong(n, c) == D!FromInt(n, c)
dp_tint(a, c)  == D!ToInt(a, WORD, c, TRUE)
dp_tlong(a, c) == D!ToInt(a, LONG, c, FALSE)

sp_fint(n, c)  == S!FromInt(n, c)
sp_flong(n, c) == S!FromInt(n, c)
sp_tint(a, c)  == S!ToInt(a, WORD, c, FALSE)
sp_tlong(a, c) == S!ToInt(a, LONG, c, FALSE)

\* Mutant: what does not fit in a single mantissa is cut off.
sp_fdp_Cut(a, c) ==
    LET v  == D!Flushed(a, c)
    IN  IF D!Class(v) = "NORM"
        THEN S!format(v.sign, D!Exponent(v),
                      D!Mantissa(v) \div 2^(DP_MBITS - SP_MBITS - 3), c, {})
        ELSE S!Returns(S!Zero(v.sign), {})

\* Double to single; no denormal is large enough to be a single value.
sp_fdp(a, c) ==
    LET v  == D!Flushed(a, c)
        cx == D!FlushFlag(a, c)
        n  == v.mant \div 2^(DP_MBITS - SP_MBITS)
        vc == D!Class(v)
    IN  CASE vc = "SNAN" -> S!Invalid
          [] vc = "QNAN" ->
                S!Returns(IF n = 0 THEN S!Indef ELSE S!Build(v.sign, S!Inf(0).bexp, n), cx)
          [] vc = "INF"  -> S!Returns(S!Inf(v.sign), cx)
          [] vc = "ZERO" -> S!Returns(S!Zero(v.sign), cx)
          [] vc = "DNORM" ->
                S!Returns(IF S!Outward(v.sign, c.rm) THEN S!LeastDenormal(v.sign)
                          ELSE S!Zero(v.sign), cx \cup {"UNDERFLOW", "INEXACT"})
          [] OTHER ->
                S!format(v.sign, D!Exponent(v),
                         S!Sticky(D!Mantissa(v), DP_MBITS - SP_MBITS - 3), c, cx)

\* Single to double: never rounded.
dp_fsp(a, c) ==
    LET v  == S!Flushed(a, c)
        cx == S!FlushFlag(a, c)
        m  == 2^(DP_MBITS - SP_MBITS)
        vc == S!Class(v)
    IN  CASE vc = "SNAN" -> D!Invalid
          [] vc = "QNAN" -> D!Returns(D!Build(v.sign, D!Inf(0).bexp, v.mant * m), cx)
          [] vc = "INF"  -> D!Returns(D!Inf(v.sign), cx)
          [] vc = "ZERO" -> D!Returns(D!Zero(v.sign), cx)
          [] OTHER ->
                D!Returns(D!Build(v.sign, S!Exponent(v) + D!EBIAS,
                                  (S!Mantissa(v) - S!HIDDEN) * m), cx)

-----------------------------------------------------------------------------
(* Operations put together from others *)

\* DEF3OP: s * t, then an operation with r, then a change of sign; each rounds, and
\* the exceptions of all count.  q is what follows p.
DEF3OP(p, q) == [v |-> q.v, cx |-> p.cx \cup q.cx]

\* Mutant: the exceptions of the product are forgotten.
fpemu_sp_madd_Untold(r, s, t, c) == S!Add(S!Mul(s, t, c).v, r, c)

fpemu_sp_madd(r, s, t, c)  == LET p == S!Mul(s, t, c) IN DEF3OP(p, S!Add(p.v, r, c))
fpemu_sp_msub(r, s, t, c)  == LET p == S!Mul(s, t, c) IN DEF3OP(p, S!Sub(p.v, r, c))
fpemu_sp_nmadd(r, s, t, c) == LET p == fpemu_sp_madd(r, s, t, c) IN DEF3OP(p, S!Neg(p.v, c))
fpemu_sp_nmsub(r, s, t, c) == LET p == fpemu_sp_msub(r, s, t, c) IN DEF3OP(p, S!Neg(p.v, c))
fpemu_dp_madd(r, s, t, c)  == LET p == dp_mul(s, t, c) IN DEF3OP(p, dp_add(p.v, r, c))
fpemu_dp_msub(r, s, t, c)  == LET p == dp_mul(s, t, c) IN DEF3OP(p, dp_sub(p.v, r, c))
fpemu_dp_nmadd(r, s, t, c) == LET p == fpemu_dp_madd(r, s, t, c) IN DEF3OP(p, dp_neg(p.v, c))
fpemu_dp_nmsub(r, s, t, c) == LET p == fpemu_dp_msub(r, s, t, c) IN DEF3OP(p, dp_neg(p.v, c))

\* The exceptions of the root are cleared by the division.
fpemu_sp_recip(a, c) == S!Div(S!One(0), a, c)
fpemu_sp_rsqrt(a, c) == S!Div(S!One(0), S!Sqrt(a, c).v, c)
fpemu_dp_recip(a, c) == dp_div(D!One(0), a, c)

-----------------------------------------------------------------------------
(* The behaviours *)

ieee_rm == <<"RN", "RZ", "RU", "RD">>

Operand(kind, v) == [kind |-> kind, v |-> v]
Doubles == {D!Build(s, bx, m) :
                s \in {0, 1}, bx \in 0 .. DP_EMAX + 1 + D!EBIAS, m \in DPMantissas}
Longs == -(2^(LONG - 1)) .. 2^(LONG - 1) - 1

\* The register holds what lwc1, ldc1 or mtc1 put there.
Init ==
    /\ \/ \E v \in S!Value : x = Operand("sp", v)
       \/ \E v \in Doubles : x = Operand("dp", v)
       \/ \E n \in Longs : x = Operand("int", n)
    /\ csr = [rm |-> "RN", nod |-> FALSE]

\* ctc1: the rounding mode and the flush bit of the value written.
SetControl ==
    \E value \in 1 .. 4, flush \in BOOLEAN :
        csr' = [rm |-> ieee_rm[value], nod |-> flush] /\ UNCHANGED x

Next == SetControl

Spec == Init /\ [][Next]_vars

-----------------------------------------------------------------------------
(***************************************************************************)
(* What the operations should return.  The magnitudes of the single        *)
(* values, and one past the largest, are numbered by their places; Units   *)
(* is such a magnitude in units of the least denormal.  An exact result is *)
(* a fraction n/d of units, or the root of one.                            *)
(***************************************************************************)
Last == (SP_EMAX + 1 + S!EBIAS) * S!HIDDEN
Units == [p \in 0 .. Last |->
            IF p < 2 * S!HIDDEN THEN p
            ELSE (S!HIDDEN + (p % S!HIDDEN)) * 2^(p \div S!HIDDEN - 1)]
UNIT == 2^(SP_MBITS - S!EMIN)
Number(v) == (IF v.sign = 1 THEN -1 ELSE 1) * Units[v.bexp * S!HIDDEN + v.mant]
Distance(v) == Units[v.bexp * S!HIDDEN + v.mant]

Fraction(n, d) == [n |-> n, d |-> d, root |-> FALSE]
RootOf(n, d)   == [n |-> n, d |-> d, root |-> TRUE]

\* How e compares with a quarters of a unit.
Against(e, a) == IF e.root THEN 16 * e.n - a * a * e.d ELSE 4 * e.n - a * e.d

\* The place of e, or the next one if the rounding mode says so.
Nearest(e, s, rm) ==
    LET p == CHOOSE p \in 0 .. Last :
                /\ Against(e, 4 * Units[p]) >= 0
                /\ p = Last \/ Against(e, 4 * Units[p + 1]) < 0
        half == Against(e, 2 * (Units[p] + Units[p + 1]))
    IN  IF p = Last \/ Against(e, 4 * Units[p]) = 0 THEN p
        ELSE IF IF rm = "RN" THEN half > 0 \/ (half = 0 /\ p % 2 = 1) ELSE S!Outward(s, rm)
        THEN p + 1 ELSE p

\* Rounded with any exponent, e is less than the least normal value.
Tiny(e, s, rm) ==
    CASE rm = "RN" -> Against(e, 4 * S!HIDDEN - 1) < 0
      [] S!Outward(s, rm) -> Against(e, 4 * S!HIDDEN - 2) <= 0
      [] OTHER -> Against(e, 4 * S!HIDDEN) < 0

Want(v, cx) == [v |-> v, cx |-> cx]
Correct(e, s, c) ==
    LET p == Nearest(e, s, c.rm)
        tiny == IF Tiny(e, s, c.rm) THEN {"UNDERFLOW"} ELSE {}
    IN  CASE e.n = 0 -> Want(S!Zero(s), {})
          [] e.n # 0 /\ c.nod /\ Against(e, 4 * S!HIDDEN) < 0 ->
                Want(IF S!Outward(s, c.rm) THEN S!Least(s) ELSE S!Zero(s),
                     {"UNDERFLOW", "INEXACT"})
          [] p = Last -> Want(IF c.rm = "RN" \/ S!Outward(s, c.rm) THEN S!Inf(s) ELSE S!Most(s),
                              {"OVERFLOW", "INEXACT"})
          [] OTHER -> Want(S!Build(s, p \div S!HIDDEN, p % S!HIDDEN),
                           IF Against(e, 4 * Units[p]) = 0 THEN {} ELSE {"INEXACT"} \cup tiny)

IsInf(v)  == S!Class(v) = "INF"
IsZero(v) == S!Class(v) = "ZERO"
Signs(a, b) == IF a.sign = b.sign THEN 0 ELSE 1

CorrectSum(a, b, c) ==
    LET n == Number(a) + Number(b)
    IN  CASE IsInf(a) /\ IsInf(b) /\ a.sign # b.sign -> S!Invalid
          [] IsInf(a) /\ ~(IsInf(b) /\ a.sign # b.sign) -> Want(a, {})
          [] IsInf(b) /\ ~IsInf(a) -> Want(b, {})
          [] ~IsInf(a) /\ ~IsInf(b) /\ n = 0 ->
                Want(S!Zero(IF a.sign = b.sign THEN a.sign ELSE IF c.rm = "RD" THEN 1 ELSE 0), {})
          [] OTHER -> Correct(Fraction(S!Magnitude(n), 1), S!SignOf(n), c)

CorrectProduct(a, b, c) ==
    CASE (IsInf(a) /\ IsZero(b)) \/ (IsZero(a) /\ IsInf(b)) -> S!Invalid
      [] (IsInf(a) /\ ~IsZero(b)) \/ (~IsZero(a) /\ IsInf(b)) -> Want(S!Inf(Signs(a, b)), {})
      [] OTHER -> Correct(Fraction(Distance(a) * Distance(b), UNIT), Signs(a, b), c)

CorrectQuotient(a, b, c) ==
    CASE (IsInf(a) /\ IsInf(b)) \/ (IsZero(a) /\ IsZero(b)) -> S!Invalid
      [] IsInf(a) /\ ~IsInf(b) -> Want(S!Inf(Signs(a, b)), {})
      [] ~IsInf(a) /\ IsInf(b) -> Want(S!Zero(Signs(a, b)), {})
      [] ~IsInf(a) /\ ~IsZero(a) /\ IsZero(b) -> Want(S!Inf(Signs(a, b)), {"ZERO_DIVIDE"})
      [] OTHER -> Correct(Fraction(Distance(a) * UNIT, Distance(b)), Signs(a, b), c)

CorrectRoot(a, c) ==
    CASE a.sign = 1 /\ ~IsZero(a) -> S!Invalid
      [] IsZero(a) \/ (IsInf(a) /\ a.sign = 0) -> Want(a, {})
      [] OTHER -> Correct(RootOf(Distance(a) * UNIT, 1), 0, c)

\* got is what is wanted of a and b, flushed if the flush bit is set; a NaN makes
\* a NaN, and is signalled if it is a signalling one.
Agrees(got, want(_, _, _), a, b, c) ==
    LET fa == S!Flushed(a, c)
        fb == S!Flushed(b, c)
        cx == S!FlushFlag(a, c) \cup S!FlushFlag(b, c)
        w  == want(fa, fb, c)
    IN  IF S!HasNaN(a, b)
        THEN S!Class(got.v) = "QNAN"
             /\ ("INVALID" \in got.cx <=> "SNAN" \in {S!Class(a), S!Class(b)})
        ELSE got.v = w.v /\ got.cx = w.cx \cup cx

CorrectDifference(a, b, c) == CorrectSum(a, S!Flip(b), c)
CorrectRootOf(a, b, c) == CorrectRoot(a, c)

\* n / d of sign s, rounded to an integer.
Integral(n, d, s, rm) ==
    LET q == n \div d
        r == n % d
    IN  IF IF rm = "RN" THEN 2 * r > d \/ (2 * r = d /\ q % 2 = 1) ELSE r # 0 /\ S!Outward(s, rm)
        THEN q + 1 ELSE q

\* m * 2^k as a fraction.
Numerator(m, k)   == IF k < 0 THEN m ELSE m * 2^k
Denominator(k)    == IF k < 0 THEN 2^(-k) ELSE 1

\* got is the integer of these bits that the number m * 2^k, of sign s, is rounded
\* to, or the largest integer if there is none.
IsInteger(got, m, k, s, bits, c) ==
    LET n == Integral(Numerator(m, k), Denominator(k), s, c.rm)
        v == IF s = 1 THEN -n ELSE n
    IN  IF v \in -(2^(bits - 1)) .. 2^(bits - 1) - 1
        THEN /\ got.v = v
             /\ got.cx = IF Numerator(m, k) % Denominator(k) = 0 THEN {} ELSE {"INEXACT"}
        ELSE got = Want(2^(bits - 1) - 1, {"INVALID"})

-----------------------------------------------------------------------------
(***************************************************************************)
(* The arithmetic is what IEEE 754 asks for: every sum, difference,        *)
(* product, quotient and root is the exact one, rounded once as the        *)
(* control register says, and the exceptions raised are those of this      *)
(* rounding, with an underflow if the value rounded is tiny and inexact,   *)
(* and with denormals taken for zero and made zero, or the least normal    *)
(* value, when the flush bit is set.                                       *)
(***************************************************************************)
SinglesAreExact ==
    x.kind = "sp" =>
    /\ \A y \in S!Value :
        /\ Agrees(S!Add(x.v, y, csr), CorrectSum, x.v, y, csr)
        /\ Agrees(S!Sub(x.v, y, csr), CorrectDifference, x.v, y, csr)
        /\ Agrees(S!Mul(x.v, y, csr), CorrectProduct, x.v, y, csr)
        /\ Agrees(S!Div(x.v, y, csr), CorrectQuotient, x.v, y, csr)
    /\ Agrees(S!Sqrt(x.v, csr), CorrectRootOf, x.v, x.v, csr)

\* The relations of cmptab, and what holds between a and b.
Relations == SUBSET {"CLT", "CEQ", "CUN"}
Holds(a, b) ==
    CASE S!HasNaN(a, b) -> "CUN"
      [] ~S!HasNaN(a, b) /\ Number(a) < Number(b) -> "CLT"
      [] ~S!HasNaN(a, b) /\ Number(a) = Number(b) -> "CEQ"
      [] OTHER -> "CGT"

(***************************************************************************)
(* A comparison holds if the relation between the numbers is one of those  *)
(* asked for, unordered if one is no number, which raises an exception     *)
(* only if it is a signalling NaN or the comparison asks for it.  The      *)
(* rounding mode is not looked at.                                         *)
(***************************************************************************)
ComparesNumbers ==
    x.kind = "sp" /\ csr.rm = "RN" =>
    \A y \in S!Value, cmp \in Relations, sig \in BOOLEAN :
        LET got  == S!Compare(x.v, y, csr, cmp, sig)
            same == dp_cmp(dp_fsp(x.v, csr).v, dp_fsp(y, csr).v, csr, cmp, sig)
            a    == S!Flushed(x.v, csr)
            b    == S!Flushed(y, csr)
        IN  /\ got.v = (Holds(a, b) \in cmp)
            /\ "INVALID" \in got.cx <=>
                    S!HasNaN(a, b) /\ (sig \/ "SNAN" \in {S!Class(a), S!Class(b)})
            /\ "SNAN" \notin {S!Class(a), S!Class(b)} => same = got

(***************************************************************************)
(* Conversions: what single and double values have in common survives both *)
(* ways, a double is rounded to a single value once, and integers are      *)
(* rounded as asked or, if they do not fit, signalled.                     *)
(***************************************************************************)
ConversionsAreExact ==
    /\ x.kind = "sp" =>
        LET a == S!Flushed(x.v, csr)
            k == S!Exponent(a) - SP_MBITS
        IN  /\ S!Class(a) \notin {"SNAN", "QNAN"} =>
                  sp_fdp(dp_fsp(a, csr).v, csr) = Want(a, {})
            /\ S!Class(a) \in {"NORM", "DNORM"} =>
                  /\ IsInteger(sp_tint(a, csr), S!Mantissa(a), k, a.sign, WORD, csr)
                  /\ IsInteger(sp_tlong(a, csr), S!Mantissa(a), k, a.sign, LONG, csr)
    /\ x.kind = "dp" =>
        LET a == D!Flushed(x.v, csr)
            m == D!Mantissa(a)
            k == D!Exponent(a) - DP_MBITS
            u == k + SP_MBITS - S!EMIN
        IN  D!Class(a) \in {"NORM", "DNORM"} =>
            /\ IsInteger(dp_tint(a, csr), m, k, a.sign, WORD, csr)
            /\ IsInteger(dp_tlong(a, csr), m, k, a.sign, LONG, csr)
            /\ sp_fdp(a, csr) = Correct(Fraction(Numerator(m, u), Denominator(u)), a.sign, csr)
    /\ x.kind = "int" =>
        LET s  == S!SignOf(x.v)
            m  == S!Magnitude(x.v)
            at == IF m < 2 * D!HIDDEN THEN 1 ELSE 2^(D!TopBit(m) - DP_MBITS)
            d  == dp_flong(x.v, csr)
        IN  /\ sp_flong(x.v, csr) = Correct(Fraction(m * UNIT, 1), s, csr)
            /\ dp_tlong(d.v, csr) =
                  IF at * Integral(m, at, s, csr.rm) = 2^(LONG - 1) /\ s = 0
                  THEN Want(2^(LONG - 1) - 1, {"INVALID"})
                  ELSE Want((IF s = 1 THEN -1 ELSE 1) * at * Integral(m, at, s, csr.rm), {})
            /\ d.cx = IF m % at = 0 THEN {} ELSE {"INEXACT"}
            /\ x.v \in -(2^(WORD - 1)) .. 2^(WORD - 1) - 1 =>
                  sp_fint(x.v, csr) = sp_flong(x.v, csr) /\ dp_fint(x.v) = d

\* Exceptions but for those of tiny results.
Signalled(r) == r.cx \ {"UNDERFLOW"}

(***************************************************************************)
(* Double precision has enough bits that an operation on single values     *)
(* done in it and rounded to single is the operation done in single        *)
(* precision: the two copies of the library agree.                         *)
(***************************************************************************)
DoublesAgree ==
    x.kind = "sp" /\ ~csr.nod /\ ~S!IsNaN(x.v) =>
    /\ sp_fdp(dp_abs(dp_fsp(x.v, csr).v, csr).v, csr) = S!Abs(x.v, csr)
    /\ sp_fdp(dp_neg(dp_fsp(x.v, csr).v, csr).v, csr) = S!Neg(x.v, csr)
    /\ \A y \in S!Value :
        LET a == dp_fsp(x.v, csr)
            b == dp_fsp(y, csr)
            Same2(double(_, _, _), single(_, _, _)) ==
                LET d == double(a.v, b.v, csr)
                    r == sp_fdp(d.v, csr)
                    t == single(x.v, y, csr)
                IN  r.v = t.v /\ Signalled(d) \cup Signalled(r) = Signalled(t)
        IN  ~S!HasNaN(x.v, y) =>
            /\ Same2(dp_add, S!Add) /\ Same2(dp_sub, S!Sub)
            /\ Same2(dp_mul, S!Mul) /\ Same2(dp_div, S!Div)

IsNumber(v) == S!Class(v) \in {"ZERO", "DNORM", "NORM"}

(***************************************************************************)
(* What is put together from several operations tells what they told: a    *)
(* multiply-add that raises no exception is exact, though it rounds twice, *)
(* the reciprocal of a root is off by at most two places, and that of a    *)
(* single value is the same in both formats.                               *)
(***************************************************************************)
CombinedIsTold ==
    x.kind = "sp" /\ IsNumber(x.v) /\ ~csr.nod =>
    /\ \A r \in Few, t \in Few :
        LET n == Number(r) * UNIT + Number(x.v) * Number(t)
            m == Number(x.v) * Number(t) - Number(r) * UNIT
            Exact(got, e) == IsNumber(got.v) /\ Number(got.v) * UNIT = e
            \* In double precision, and rounded to single.
            Double(f(_, _, _, _), e) ==
                LET d == f(dp_fsp(r, csr).v, dp_fsp(x.v, csr).v, dp_fsp(t, csr).v, csr)
                    w == sp_fdp(d.v, csr)
                IN  d.cx \cup w.cx = {} => Exact(w, e)
            Single(f(_, _, _, _), e) ==
                LET g == f(r, x.v, t, csr) IN g.cx = {} => Exact(g, e)
        IN  /\ Single(fpemu_sp_madd, n) /\ Single(fpemu_sp_nmadd, -n)
            /\ Single(fpemu_sp_msub, m) /\ Single(fpemu_sp_nmsub, -m)
            /\ Double(fpemu_dp_madd, n) /\ Double(fpemu_dp_nmadd, -n)
            /\ Double(fpemu_dp_msub, m) /\ Double(fpemu_dp_nmsub, -m)
    /\ x.v.sign = 0 /\ ~IsZero(x.v) =>
        LET g == S!Key(fpemu_sp_rsqrt(x.v, csr).v)
            w == Nearest(RootOf(UNIT * UNIT * UNIT, Distance(x.v)), 0, "RZ")
        IN  g - w \in {-1, 0, 1, 2}
    /\ sp_fdp(fpemu_dp_recip(dp_fsp(x.v, csr).v, csr).v, csr).v = fpemu_sp_recip(x.v, csr).v

=============================================================================
