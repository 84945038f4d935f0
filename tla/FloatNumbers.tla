---------------------------- MODULE FloatNumbers ----------------------------
(***************************************************************************)
(* Binary floating-point numbers, their sums and products, by definition:  *)
(* a finite number is Mantissa * 2^Scale, and a result is the number next  *)
(* to the exact one.  What the example kernels for f16 and f32 are to      *)
(* compute.                                                                *)
(***************************************************************************)
EXTENDS Integers

F16 == [fraction |-> 10, bias |-> 15, top |-> 31]
F32 == [fraction |-> 23, bias |-> 127, top |-> 255]

Number(negative, exponent, fraction) ==
    [negative |-> negative, exponent |-> exponent, fraction |-> fraction]

NumberOfCell(c) == Number(c >= 2^15, (c \div 2^10) % 2^5, c % 2^10)
NumberOfCells(low, high) ==
    Number(high >= 2^15, (high \div 2^7) % 2^8, (high % 2^7) * 2^16 + low)

IsFinite(F, x)   == x.exponent < F.top
IsInfinite(F, x) == x.exponent = F.top /\ x.fraction = 0
IsNaN(F, x)      == x.exponent = F.top /\ x.fraction # 0
IsNormal(F, x)   == x.exponent \in 1..(F.top - 1)
IsZero(x)        == x.exponent = 0 /\ x.fraction = 0

Mantissa(F, x) == x.fraction + (IF x.exponent = 0 THEN 0 ELSE 2^F.fraction)
Scale(F, x) == (IF x.exponent = 0 THEN 1 ELSE x.exponent) - F.bias - F.fraction

\* The position of the highest bit of n > 0.
Log(n) == CHOOSE k \in 0..30 : 2^k <= n /\ n \div 2 < 2^k

Magnitude(n) == IF n < 0 THEN -n ELSE n

-----------------------------------------------------------------------------
(* Products.                                                               *)

\* a * b = high * 2^24 + low, for factors of at most 24 bits.
LimbsOfProduct(a, b) ==
    LET middle == (a \div 2^12) * (b % 2^12) + (a % 2^12) * (b \div 2^12)
        low    == (middle % 2^12) * 2^12 + (a % 2^12) * (b % 2^12)
    IN  [high |-> (a \div 2^12) * (b \div 2^12) + middle \div 2^12 + low \div 2^24,
         low  |-> low % 2^24]

\* A product as quotient * 2^cut and a rest, the quotient with F.fraction + 1 bits.
Cut(F, p) ==
    LET bits == IF p.high > 0 THEN 25 + Log(p.high) ELSE 1 + Log(p.low)
        cut  == bits - (F.fraction + 1)
    IN  IF cut <= 0 THEN [cut |-> cut, quotient |-> p.low * 2^(-cut), rest |-> 0]
        ELSE [cut |-> cut, quotient |-> p.high * 2^(24 - cut) + p.low \div 2^cut,
              rest |-> p.low % 2^cut]

RoundsUp(c) ==
    c.cut > 0 /\ (2 * c.rest > 2^c.cut \/ (2 * c.rest = 2^c.cut /\ c.quotient % 2 = 1))

\* The number next to quotient * 2^scale, to an even one of two.
Rounded(F, negative, c, scale) ==
    LET n        == c.quotient + (IF RoundsUp(c) THEN 1 ELSE 0)
        mantissa == IF n = 2^(F.fraction + 1) THEN n \div 2 ELSE n
        exponent == scale + c.cut + F.bias + F.fraction + (IF mantissa = n THEN 0 ELSE 1)
    IN  IF exponent >= F.top THEN Number(negative, F.top, 0)
        ELSE Number(negative, exponent, mantissa - 2^F.fraction)

\* The exponent of a product before it is rounded: one below 1 has no normal
\* number of its own.
ExponentOfProduct(F, x, y) ==
    Cut(F, LimbsOfProduct(Mantissa(F, x), Mantissa(F, y))).cut
        + Scale(F, x) + Scale(F, y) + F.bias + F.fraction

ProductOf(F, x, y) ==
    Rounded(F, x.negative # y.negative,
            Cut(F, LimbsOfProduct(Mantissa(F, x), Mantissa(F, y))),
            Scale(F, x) + Scale(F, y))

IsExactProduct(F, x, y) ==
    Cut(F, LimbsOfProduct(Mantissa(F, x), Mantissa(F, y))).rest = 0

-----------------------------------------------------------------------------
(* Sums.                                                                   *)

\* The exact sum of x and y is SumOfTwo * 2^LowScale, for numbers whose
\* exponents are not so far apart that it has more than 31 bits.
LowScale(F, x, y) == IF Scale(F, x) < Scale(F, y) THEN Scale(F, x) ELSE Scale(F, y)
Aligned(F, x, scale) ==
    (IF x.negative THEN -1 ELSE 1) * Mantissa(F, x) * 2^(Scale(F, x) - scale)
SumOfTwo(F, x, y) ==
    Aligned(F, x, LowScale(F, x, y)) + Aligned(F, y, LowScale(F, x, y))

AreNear(F, x, y) == Magnitude(Scale(F, x) - Scale(F, y)) <= 29 - (F.fraction + 1)

\* r is within so many units of its last place of n * 2^scale.  An infinite r
\* stands for all that its exponent would begin.
IsWithin(F, r, units, n, scale) ==
    LET d == Scale(F, r) - scale IN
    IF d < 0
    THEN n < 2^(F.fraction + 1) /\ -d <= F.fraction /\ Mantissa(F, r) = n * 2^(-d)
    ELSE /\ d <= 29 - F.fraction
         /\ \/ Magnitude(Mantissa(F, r) * 2^d - n) <= units * 2^d
            \/ IsInfinite(F, r) /\ n >= (Mantissa(F, r) - units) * 2^d

\* n * 2^scale for n > 0, if that is a normal number.
HasNormal(F, n, scale) ==
    LET d == Log(n) - F.fraction IN
    /\ d > 0 => n % 2^d = 0
    /\ scale + Log(n) + F.bias \in 1..(F.top - 1)

NormalOf(F, negative, n, scale) ==
    LET d == Log(n) - F.fraction IN
    Number(negative, scale + Log(n) + F.bias,
           (IF d > 0 THEN n \div 2^d ELSE n * 2^(-d)) - 2^F.fraction)

=============================================================================
