----------------------------- MODULE FloatDigits -----------------------------
(***************************************************************************)
(* The decimal digits of a float (fmt, format.h): by format_dragon(), with *)
(* bigints, or from the first segment of digits of a float or a double,    *)
(* which the table of powers gives and which is exact here.  The shortest  *)
(* digits of a float or double come from Dragonbox, which is left out.     *)
(*                                                                         *)
(* A type of floats has stored bits, a bias, may have an implicit bit, and *)
(* is fast or not; segment is how many digits its first segment has.       *)
(***************************************************************************)
EXTENDS Integers, Sequences, SequencesExt

CONSTANTS
  BigitBits,   \* of a big digit
  MaxDigits,   \* 767: more digits are taken for zeros
  IntMax       \* the greatest precision

Radix == 2 ^ BigitBits
Lesser(a, b) == IF a < b THEN a ELSE b
Greater(a, b) == IF a > b THEN a ELSE b

-----------------------------------------------------------------------------
(* bigint: the unbounded numbers of format_dragon(), as big digits of      *)
(* BigitBits bits, the lowest first, and an exponent of so many bits.  The *)
(* lowest bigits may be zeros, the highest is none.                        *)

NumBigits(b) == Len(b.bigits) + b.exp
GetBigit(b, i) == IF i >= b.exp /\ i < NumBigits(b) THEN b.bigits[i - b.exp + 1] ELSE 0

-----------------------------------------------------------------------------
(* Assignment, shifts and products.                                        *)

RECURSIVE AssignBigits(_)
AssignBigits(v) ==
  <<v % Radix>> \o (IF v < Radix THEN <<>> ELSE AssignBigits(v \div Radix))
Assign(v) == [bigits |-> AssignBigits(v), exp |-> 0]

WithCarry(r) == IF r.carry # 0 THEN Append(r.bigits, r.carry) ELSE r.bigits

\* operator<<=().
ShiftLeft(b, bits) ==
  LET shift == bits % BigitBits
      step(r, bigit) ==
        [bigits |-> Append(r.bigits, ((bigit * 2 ^ shift) % Radix) + r.carry),
         carry |-> bigit \div 2 ^ (BigitBits - shift)]
      shifted == WithCarry(FoldLeft(step, [bigits |-> <<>>, carry |-> 0], b.bigits))
  IN  [bigits |-> IF shift = 0 THEN b.bigits ELSE shifted, exp |-> b.exp + bits \div BigitBits]

\* multiply() by a number of one bigit.
Multiply(b, v) ==
  LET step(r, bigit) ==
        [bigits |-> Append(r.bigits, (bigit * v + r.carry) % Radix),
         carry |-> (bigit * v + r.carry) \div Radix]
  IN  [b EXCEPT !.bigits = WithCarry(FoldLeft(step, [bigits |-> <<>>, carry |-> 0], b.bigits))]

\* multiply() by a number of two halves, each of Half bits.
MultiplyWide(b, v, Half) ==
  LET lower == v % 2 ^ Half
      upper == v \div 2 ^ Half
      step(r, bigit) ==
        LET result == lower * bigit + (r.carry % Radix) IN
        [bigits |-> Append(r.bigits, result % Radix),
         carry |-> upper * bigit * 2 ^ (Half - BigitBits) + result \div Radix + r.carry \div Radix]
      all(product) ==
        product.bigits \o (IF product.carry = 0 THEN <<>> ELSE AssignBigits(product.carry))
  IN  [b EXCEPT !.bigits = all(FoldLeft(step, [bigits |-> <<>>, carry |-> 0], b.bigits))]

RemoveLeadingZeros(bigits) ==
  LET top == {k \in DOMAIN bigits : bigits[k] # 0} IN
  SubSeq(bigits, 1, IF top = {} THEN 1 ELSE CHOOSE k \in top : \A j \in top : j <= k)

\* square(): a bigit of the square is a sum of cross products.
Square(b) ==
  LET count == Len(b.bigits)
      sumAt(k) == FoldLeft(LAMBDA s, i : s + b.bigits[i + 1] * b.bigits[k - i + 1], 0,
                           [j \in 1 .. Lesser(k, count - 1) - Greater(0, k - count + 1) + 1 |->
                              Greater(0, k - count + 1) + j - 1])
      step(r, k) ==
        LET sum == r.carry + sumAt(k) IN
        [bigits |-> Append(r.bigits, sum % Radix), carry |-> sum \div Radix]
      square == FoldLeft(step, [bigits |-> <<>>, carry |-> 0], [k \in 1 .. 2 * count |-> k - 1])
  IN  [bigits |-> RemoveLeadingZeros(square.bigits), exp |-> 2 * b.exp]

\* assign_pow10(): by squares of 5, a bit of the exponent at a time.
RECURSIVE Pow5(_)
Pow5(e) ==
  IF e = 1 THEN Assign(5)
  ELSE LET last(square) == IF e % 2 = 1 THEN Multiply(square, 5) ELSE square
       IN  last(Square(Pow5(e \div 2)))
AssignPow10(e) == IF e = 0 THEN Assign(1) ELSE ShiftLeft(Pow5(e), e)

-----------------------------------------------------------------------------
(* Comparison and division.                                                *)

\* compare(): the highest bigits that differ decide, or else which has more.
Compare(b, c) ==
  LET most == Lesser(Len(b.bigits), Len(c.bigits))
      high(a, k) == a.bigits[Len(a.bigits) - k]
      sign(v) == IF v > 0 THEN 1 ELSE IF v < 0 THEN -1 ELSE 0
      byDigits(differ) ==
        IF differ = {} THEN sign(Len(b.bigits) - Len(c.bigits))
        ELSE LET first == CHOOSE k \in differ : \A j \in differ : k <= j
             IN  sign(high(b, first) - high(c, first))
  IN  IF NumBigits(b) # NumBigits(c) THEN sign(NumBigits(b) - NumBigits(c))
      ELSE byDigits({k \in 0 .. most - 1 : high(b, k) # high(c, k)})

\* add_compare(): b + c and rhs, from the highest bigit on; what is left of
\* rhs is borrowed by the next.
AddCompare(b, c, rhs) ==
  LET low == Lesser(Lesser(b.exp, c.exp), rhs.exp)
      decided(r, sum, left) ==
        CASE sum > left -> [r EXCEPT !.done = TRUE, !.sign = 1]
          [] left - sum > 1 -> [r EXCEPT !.done = TRUE, !.sign = -1]
          [] OTHER -> [r EXCEPT !.borrow = (left - sum) * Radix]
      step(r, i) ==
        IF r.done THEN r
        ELSE decided(r, GetBigit(b, i) + GetBigit(c, i), GetBigit(rhs, i) + r.borrow)
      ended(r) == IF r.done THEN r.sign ELSE IF r.borrow # 0 THEN -1 ELSE 0
      sized(most, size) ==
        CASE most + 1 < size -> -1
          [] most > size -> 1
          [] OTHER -> ended(FoldLeft(step, [done |-> FALSE, sign |-> 0, borrow |-> 0],
                                     [k \in 1 .. size - low |-> size - k]))
  IN  sized(Greater(NumBigits(b), NumBigits(c)), NumBigits(rhs))

\* align(): trailing zeros in place of the exponent.
Align(b, other) ==
  LET more == b.exp - other.exp IN
  IF more <= 0 THEN b
  ELSE [bigits |-> [k \in 1 .. more |-> 0] \o b.bigits, exp |-> other.exp]

\* subtract_aligned().
SubtractAligned(b, other) ==
  LET step(r, k) ==
        LET result == b.bigits[k] - GetBigit(other, k - 1 + b.exp) - r.borrow IN
        [bigits |-> Append(r.bigits, result % Radix), borrow |-> IF result < 0 THEN 1 ELSE 0]
  IN  [b EXCEPT !.bigits = RemoveLeadingZeros(
         FoldLeft(step, [bigits |-> <<>>, borrow |-> 0], [k \in DOMAIN b.bigits |-> k]).bigits)]

\* divmod_assign(): as often as the divisor can be subtracted.
RECURSIVE Subtracted(_, _, _)
Subtracted(b, divisor, quotient) ==
  IF Compare(b, divisor) < 0 THEN [quotient |-> quotient, rest |-> b]
  ELSE Subtracted(SubtractAligned(b, divisor), divisor, quotient + 1)
DivmodAssign(b, divisor) ==
  IF Compare(b, divisor) < 0 THEN [quotient |-> 0, rest |-> b]
  ELSE Subtracted(Align(b, divisor), divisor, 0)

-----------------------------------------------------------------------------
(* What bigints should count.                                              *)

Value(b) == FoldRight(LAMBDA bigit, v : v * Radix + bigit, b.bigits, 0) * Radix ^ b.exp
Canonical(b) == b.bigits # <<>> /\ (Len(b.bigits) = 1 \/ b.bigits[Len(b.bigits)] # 0)
                /\ \A k \in DOMAIN b.bigits : b.bigits[k] \in 0 .. Radix - 1
Is(b, v) == Canonical(b) /\ Value(b) = v
SignOf(v) == IF v > 0 THEN 1 ELSE IF v < 0 THEN -1 ELSE 0

\* Bigints count as integers do, whatever exponents they have
\* (format.h:2653-2889).
OneRight(x, n) ==
  /\ Is(Assign(Value(x)), Value(x)) /\ Is(ShiftLeft(x, n), Value(x) * 2 ^ n)
  /\ Is(Multiply(x, n + 1), Value(x) * (n + 1))
  /\ Is(MultiplyWide(x, 17 * n + 1, BigitBits), Value(x) * (17 * n + 1))
  /\ Is(MultiplyWide(x, 17 * n + 1, 2 * BigitBits), Value(x) * (17 * n + 1))
  /\ NumBigits(x) <= 3 => Is(Square(x), Value(x) * Value(x))
  /\ Is(AssignPow10(n), 10 ^ n)

\* Two are equal only if their exponents are: with trailing zeros in the one, it
\* is the longer and passes for the greater.  An exact division does not see it,
\* for the dividend is the longer then.
TwoRight(x, y, z) ==
  LET divided(d) ==
        /\ Is(d.rest, Value(x) - d.quotient * Value(y)) /\ Canonical(d.rest)
        /\ Value(d.rest) < Value(y)
      divides == Value(x) < 16 * Value(y) /\ (y.exp >= x.exp \/ Value(x) # Value(y))
  IN  /\ Compare(x, y) = IF Value(x) # Value(y) THEN SignOf(Value(x) - Value(y))
                         ELSE SignOf(y.exp - x.exp)
      /\ divides => divided(DivmodAssign(x, y))
      /\ AddCompare(x, y, z) = SignOf(Value(x) + Value(y) - Value(z))

-----------------------------------------------------------------------------
(* Floats.                                                                 *)

\* basic_fp: f * 2 ^ e, and whether the predecessor is closer than the successor,
\* which is not seen without an implicit bit.
Fp(v) ==
  LET t == v.type
      implicit == IF v.biased # 0 /\ t.implicit THEN 2 ^ t.stored ELSE 0
  IN  [f |-> v.fraction + implicit,
       e |-> (IF v.biased = 0 THEN 1 ELSE v.biased) - t.bias - t.stored + (IF t.implicit THEN 0 ELSE 1),
       closer |-> v.fraction = 0 /\ v.biased > 1]
IsZero(v) == Fp(v).f = 0

Bits[f \in Nat] == IF f < 2 THEN 1 ELSE 1 + Bits[f \div 2]

\* The exponent of the first digit by the logarithm of the highest bit, rounded
\* up: 10 ^ (exp - 1) <= value < 10 ^ (exp + 1).
Estimate(fp) == -(((-(fp.e + Bits[fp.f] - 1)) * 30103) \div 100000)

\* adjust_precision(): from behind the point to all digits.
AdjustPrecision(precision, exp10) ==
  [value |-> precision + exp10, error |-> exp10 > 0 /\ precision > IntMax - exp10]

-----------------------------------------------------------------------------
(* format_dragon().                                                        *)

\* The value is num / den; low and up are its distances from the middle to the
\* float before it and behind it.
DragonStart(fp, exp10) ==
  LET shift == IF fp.closer THEN 2 ELSE 1
      larger == Greater(fp.e, 0)
      smaller == Greater(-fp.e, 0)
      start(num, more, den, low) ==
        [num |-> ShiftLeft(num, more + shift), den |-> ShiftLeft(den, smaller + shift),
         low |-> low, up |-> IF fp.closer THEN ShiftLeft(low, 1) ELSE low, exp10 |-> exp10]
      fraction(pow10) == start(MultiplyWide(pow10, fp.f, 2 * BigitBits), 0, Assign(1), pow10)
  IN  IF fp.e < 0 /\ exp10 < 0 THEN fraction(AssignPow10(-exp10))
      ELSE start(Assign(fp.f), larger, AssignPow10(exp10), ShiftLeft(Assign(1), larger))

Times10(b) == Multiply(b, 10)
Even(fp) == IF fp.f % 2 = 0 THEN 1 ELSE 0

\* The exponent that is one too much is found by the float behind the value.
Fixup(s, fp) ==
  IF AddCompare(s.num, s.up, s.den) + Even(fp) <= 0
  THEN [s EXCEPT !.num = Times10(@), !.low = Times10(@), !.up = Times10(@), !.exp10 = @ - 1]
  ELSE s

Half(num, den) == AddCompare(num, num, den)
RoundsUp(digit, half) == half > 0 \/ (half = 0 /\ digit % 2 # 0)

\* Digits until a digit more or less would be another float's.
RECURSIVE Shortest(_, _, _)
Shortest(s, fp, digits) ==
  LET up(d, low, high) == ~low \/ (high /\ RoundsUp(d.quotient, Half(d.rest, s.den)))
      next(d) ==
        Shortest([s EXCEPT !.num = Times10(d.rest), !.low = Times10(@), !.up = Times10(@)], fp,
                 Append(digits, d.quotient))
      ended(d, low, high) ==
        IF low \/ high THEN Append(digits, d.quotient + (IF up(d, low, high) THEN 1 ELSE 0))
        ELSE next(d)
      divided(d) == ended(d, Compare(d.rest, s.low) - Even(fp) < 0,
                          AddCompare(d.rest, s.up, s.den) + Even(fp) > 0)
  IN  divided(DivmodAssign(s.num, s.den))

RECURSIVE Generate(_, _, _)
Generate(num, den, count) ==
  LET last(d) == d.quotient + (IF RoundsUp(d.quotient, Half(d.rest, den)) THEN 1 ELSE 0)
      divided(d) ==
        IF count = 1 THEN <<last(d)>>
        ELSE <<d.quotient>> \o Generate(Times10(d.rest), den, count - 1)
  IN  divided(DivmodAssign(num, den))

\* A last digit of 10 is carried; from the first it makes one digit more, or one
\* of the exponent.
Increased(digits) == Append(Front(digits), Last(digits) + 1)
RECURSIVE Carry(_)
Carry(digits) ==
  IF Len(digits) = 1 \/ Last(digits) # 10 THEN digits
  ELSE Append(Carry(Increased(Front(digits))), 0)
Carried(digits, exp, fixed) ==
  LET d == Carry(digits)
      one == <<1>> \o Tail(d)
  IN  CASE d[1] # 10 -> [digits |-> d, exp |-> exp]
        [] d[1] = 10 /\ fixed -> [digits |-> Append(one, 0), exp |-> exp]
        [] OTHER -> [digits |-> one, exp |-> exp + 1]

GivenDigits(s, count, fixed) ==
  LET exp == s.exp10 - count + 1 IN
  CASE count < 0 -> [digits |-> <<0>>, exp |-> exp]
    [] count = 0 ->
         [digits |-> <<IF Half(s.num, Times10(s.den)) > 0 THEN 1 ELSE 0>>, exp |-> exp]
    [] OTHER -> Carried(Generate(s.num, s.den, count), exp, fixed)

\* With fixup the exponent is an estimate, and the precision of a fixed format
\* still one behind the point.
ShortestDragon(s, fp) ==
  LET from(digits) == [digits |-> digits, exp |-> s.exp10 - Len(digits) + 1]
  IN  from(Shortest(s, fp, <<>>))
FormatDragon(fp, exp10, fixup, fixed, count) ==
  LET generated(s) ==
        IF count < 0 THEN ShortestDragon(s, fp)
        ELSE GivenDigits(s, IF fixup /\ fixed THEN AdjustPrecision(count, s.exp10 + 1).value
                            ELSE count, fixed)
      fixed10(start) == generated(IF fixup THEN Fixup(start, fp) ELSE start)
  IN  fixed10(DragonStart(fp, exp10))

-----------------------------------------------------------------------------
(* The first segment.                                                      *)

FloorLog10Pow2(e) == (e * 315653) \div 2 ^ 20

\* The segment is value * 10 ^ k, without what is behind its point; a digit that
\* lacks is a zero at its end.
SegmentOf(num, den, k, t) ==
  LET short == num \div den < 10 ^ (t.segment - 1) IN
  [value |-> (num \div den) * (IF short THEN 10 ELSE 1), exp |-> -k,
   digits |-> IF short THEN t.segment - 1 ELSE t.segment,
   more |-> num % den # 0, size |-> t.segment]
FirstSegment(v) ==
  LET pow(base, n) == IF n > 0 THEN base ^ n ELSE 1
      scaled(f, e, k) ==
        SegmentOf(f * pow(2, e) * pow(10, k), pow(2, -e) * pow(10, -k), k, v.type)
      from(fp, shift) ==
        scaled(fp.f * 2 ^ shift, fp.e - shift, v.type.kappa - FloorLog10Pow2(fp.e - shift))
  IN  from(Fp(v), v.type.stored + 1 - Bits[Fp(v).f])

DigitsOf(n, count) == [k \in 1 .. count |-> (n \div 10 ^ (count - k)) % 10]

\* As many digits of the segment, rounded; a half is rounded to even.
SegmentDigits(s, precision, fixed) ==
  LET unit == 10 ^ (s.size - precision)
      kept == s.value \div unit
      rest == s.value % unit
      up == rest > unit \div 2 \/ (rest = unit \div 2 /\ (kept % 2 = 1 \/ s.more))
      digits == DigitsOf(kept, precision)
      exp == s.exp + s.digits - precision
  IN  IF up THEN Carried(Increased(digits), exp, fixed)
      ELSE [digits |-> digits, exp |-> exp]
FromSegment(s, precision, fixed) ==
  LET half == 5 * 10 ^ (s.size - 1)
      up == s.value > half \/ (s.value = half /\ s.more)
  IN  CASE precision < 0 -> [digits |-> <<>>, exp |-> s.exp + s.digits]
        [] precision = 0 -> [digits |-> <<IF up THEN 1 ELSE 0>>, exp |-> s.exp + s.digits]
        [] OTHER -> SegmentDigits(s, precision, fixed)

-----------------------------------------------------------------------------
(* The digits of a subsegment, of nine, by a product and its fraction.     *)

\* The product of s and m, both of 30 bits, in units of 2 ^ 30 and of 2 ^ 15.
Product(s, m) ==
  LET unit == 2 ^ 15
      middle == (s \div unit) * (m % unit) + (s % unit) * (m \div unit)
                  + ((s % unit) * (m % unit)) \div unit
  IN  [high |-> (s \div unit) * (m \div unit) + middle \div unit, middle |-> middle % unit]

\* (s * m >> shift) + 1: the first digits are the bits above 32, and the fraction
\* is the others, as two halves.
Fraction(s, m, shift) ==
  LET p == Product(s, m)
      kept == 2 ^ (30 - shift)
      upper == p.high % 2 ^ (shift + 2)
      low == (upper % (2 ^ 16 \div kept)) * kept + p.middle \div 2 ^ (shift - 15) + 1
      high == upper \div (2 ^ 16 \div kept) + low \div 2 ^ 16
  IN  [digits |-> p.high \div 2 ^ (shift + 2) + high \div 2 ^ 16,
       high |-> high % 2 ^ 16, low |-> low % 2 ^ 16]
Times100(f) ==
  LET high == f.high * 100 + (f.low * 100) \div 2 ^ 16
  IN  [digits |-> high \div 2 ^ 16, high |-> high % 2 ^ 16, low |-> (f.low * 100) % 2 ^ 16]

\* An odd digit first, and then two at a time.
PrintSubsegment(s, count) ==
  LET odd == count % 2
      next(r, k) ==
        LET f == Times100(r.fraction) IN
        [fraction |-> f, digits |-> r.digits \o DigitsOf(f.digits, 2)]
      from(first) ==
        FoldLeft(next, [fraction |-> first, digits |-> DigitsOf(first.digits, 2 - odd)],
                 [k \in 1 .. (count - 2 + odd) \div 2 |-> k])
  IN  from(IF odd = 1 THEN Fraction(s, 720575941, 24) ELSE Fraction(s, 450359963, 20))

\* fractional_part_rounding_thresholds, as halves, by the digits that are printed.
Thresholds ==
  <<<<39321, 39322>>, <<33423, 23593>>, <<32833, 35128>>, <<32774, 36281>>, <<32768, 42950>>,
    <<32768, 4295>>, <<32768, 430>>, <<32768, 43>>>>
RoundUpSubsegment(r, count, more) ==
  LET f == r.fraction
      t == Thresholds[9 - count]
      odd == r.digits[count] % 2 = 1
  IN  \/ f.high > t[1] \/ (f.high = t[1] /\ f.low >= t[2])
      \/ f.high >= 2 ^ 15 /\ (odd \/ more)

-----------------------------------------------------------------------------
(* format_float().                                                         *)

TrimZeros(d) ==
  LET kept == {k \in DOMAIN d.digits : d.digits[k] # 0}
      size == IF kept = {} THEN 0 ELSE CHOOSE k \in kept : \A j \in kept : j <= k
  IN  [digits |-> SubSeq(d.digits, 1, size), exp |-> d.exp + Len(d.digits) - size]

ZeroDigits(precision, fixed) ==
  IF precision <= 0 \/ ~fixed THEN [digits |-> <<0>>, exp |-> 0]
  ELSE [digits |-> [k \in 1 .. precision |-> 0], exp |-> -precision]

\* Digits that the first segment has are taken from it; for others, and for types
\* without one, there are an exponent and flags to use Dragon4 with.
StartFast(s, all) ==
  [segment |-> s, fast |-> s.digits > all.value, fixup |-> FALSE, count |-> all.value,
   exp10 |-> s.exp + s.digits - 1, error |-> all.error]
Start(v, precision, fixed) ==
  LET all(s) == IF fixed THEN AdjustPrecision(precision, s.exp + s.digits)
                ELSE [value |-> precision, error |-> FALSE]
      fast(s) == StartFast(s, all(s))
  IN  IF v.type.fast THEN fast(FirstSegment(v))
      ELSE [fast |-> FALSE, fixup |-> TRUE, count |-> precision, exp10 |-> Estimate(Fp(v)),
            error |-> FALSE]

FormatFloat(v, precision, fixed, alt) ==
  LET trimmed(d) == IF ~fixed /\ ~alt THEN TrimZeros(d) ELSE d
      digits(s) ==
        IF s.fast THEN FromSegment(s.segment, s.count, fixed)
        ELSE FormatDragon(Fp(v), s.exp10, s.fixup, fixed, Lesser(s.count, MaxDigits))
      from(s) == trimmed(digits(s)) @@ [error |-> s.error]
  IN  IF IsZero(v) THEN ZeroDigits(precision, fixed) @@ [error |-> FALSE]
      ELSE from(Start(v, precision, fixed))

-----------------------------------------------------------------------------
(* What digits should be.                                                  *)

Pow(base, n) == IF n > 0 THEN base ^ n ELSE 1
NumberOf(digits) == FoldLeft(LAMBDA v, d : v * 10 + d, 0, digits)
Decimal(digits) == \A k \in DOMAIN digits : digits[k] \in 0 .. 9

\* A float in units of 10 ^ exp, as a fraction.
Num(fp, exp) == fp.f * Pow(2, fp.e) * Pow(10, -exp)
Den(fp, exp) == Pow(2, -fp.e) * Pow(10, exp)

\* n is num / den, rounded to the nearest, and a half to even.
Nearest(n, num, den) ==
  n = num \div den + (IF 2 * (num % den) > den \/ (2 * (num % den) = den /\ (num \div den) % 2 = 1)
                      THEN 1 ELSE 0)

\* Digits are those that were asked for: all of them that are no fraction of
\* 10 ^ -precision, or as many, and the first no zero; but an estimated exponent is
\* that of the middle to the next float, and if it has one digit more than the
\* float the first is a zero.
MiddleReaches(fp, exp) == 2 * Num(fp, exp) + Num([fp EXCEPT !.f = 1], exp) >= 2 * Den(fp, exp)
DigitsRounded(v, precision, fixed, d) ==
  LET right(fp, exp) == Nearest(NumberOf(d.digits), Num(fp, exp), Den(fp, exp))
      slips == ~v.type.fast /\ MiddleReaches(Fp(v), d.exp + precision - 1)
  IN  /\ Decimal(d.digits) /\ right(Fp(v), IF fixed THEN -precision ELSE d.exp)
      /\ IF fixed THEN d.exp = -precision \/ d.digits = <<>>
         ELSE Len(d.digits) = precision /\ (d.digits[1] # 0 \/ slips)

\* Without a precision they are as few as tell the float from the ones next to
\* it; of those, the nearest.  Powers of two without an implicit bit are left
\* out: the predecessor, which is closer, may be told by the same digits.
PowerOfTwo(v) == v.biased > 1 /\ v.fraction = IF v.type.implicit THEN 0 ELSE 2 ^ (v.type.stored - 1)
Distance(fp, n, exp) == n * Den(fp, exp) - Num(fp, exp)
Within(v, n, exp) ==   \* of half a unit, or a quarter below a power of two
  LET fp == Fp(v)
      unit == Num([fp EXCEPT !.f = 1], exp)
      within(distance, limit) == distance < limit \/ (distance = limit /\ Even(fp) = 1)
  IN  /\ within(2 * Distance(fp, n, exp), unit)
      /\ within(-4 * Distance(fp, n, exp), IF PowerOfTwo(v) THEN unit ELSE 2 * unit)
ShortestDigits(v, d) ==
  LET abs(n) == IF n < 0 THEN -n ELSE n
      right(n, exp) ==
        /\ Within(v, n, exp)
        /\ \A m \in {n - 1, n + 1} : Within(v, m, exp) =>
             abs(Distance(Fp(v), n, exp)) <= abs(Distance(Fp(v), m, exp))
        /\ ~\E m \in n \div 10 .. n \div 10 + 1 : Within(v, m, exp + 1)
  IN  v.type.implicit \/ ~PowerOfTwo(v) => Decimal(d.digits) /\ right(NumberOf(d.digits), d.exp)

\* The digits of a subsegment are its first, rounded.
SubsegmentRounded(s, count, more) ==
  LET unit == 10 ^ (9 - count)
      half == 2 * (s % unit) - unit
      up == half > 0 \/ (half = 0 /\ (more \/ (s \div unit) % 2 = 1))
      right(r) ==
        /\ r.digits = DigitsOf(s \div unit, count)
        /\ count < 9 => RoundUpSubsegment(r, count, more) = up
  IN  right(PrintSubsegment(s, count))

=============================================================================
