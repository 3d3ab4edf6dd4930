---------------------------- MODULE FloatWriting ----------------------------
(***************************************************************************)
(* How fmt writes floats (format.h): the notation, the point, the zeros    *)
(* behind it, the exponent, the separators of a locale and the padding,    *)
(* and hexadecimal floats.  A text is a sequence of one-letter strings.    *)
(***************************************************************************)
EXTENDS FloatDigits, Writing

CONSTANTS
  ExpUpper,    \* from this exponent on numbers have one, without a precision
  Inputs       \* records of what is written, specifiers and a locale

VARIABLES kind, value, specs, locale,
  written      \* the texts, with all that specs say and without some of it

N == INSTANCE IntegerWriting WITH
  Bits <- 31, CharMax <- 127, Inputs <- {}, value <- 0, type <- "int", specs <- 0, locale <- 0

Chars(digits) == [k \in DOMAIN digits |-> N!Lower[digits[k] + 1]]
Zeros(n) == [k \in 1 .. n |-> "0"]

-----------------------------------------------------------------------------
(* Signs, infinities and exponents.                                        *)

Sign(s) == CASE s = "minus" -> <<"-">> [] s = "plus" -> <<"+">> [] s = "space" -> <<" ">> [] OTHER -> <<>>

\* write_nonfinite(): zeros are no padding for them.
Nonfinite(class, upper) ==
  CASE class = "nan" -> IF upper THEN <<"N", "A", "N">> ELSE <<"n", "a", "n">>
    [] class = "inf" -> IF upper THEN <<"I", "N", "F">> ELSE <<"i", "n", "f">>
WriteNonfinite(class, sp, s) ==
  WritePadded(IF sp.fill = <<"0">> THEN [sp EXCEPT !.fill = <<" ">>] ELSE sp, "left",
              3 + Len(Sign(s)), Sign(s) \o Nonfinite(class, sp.upper))

Abs(n) == IF n < 0 THEN -n ELSE n

\* compute_exp_size() and write_exponent(): two digits at least.
ComputeExpSize(exp) == CASE Abs(exp) < 100 -> 4 [] Abs(exp) < 1000 -> 5 [] OTHER -> 6
WriteExponent(exp) ==
  LET n == Abs(exp)
      top == N!Write2Digits(n \div 100)
      hundreds == IF n < 100 THEN <<>> ELSE IF n < 1000 THEN <<top[2]>> ELSE top
  IN  <<IF exp < 0 THEN "-" ELSE "+">> \o hundreds \o N!Write2Digits(n % 100)

-----------------------------------------------------------------------------
(* The notations.  f has digits and the exponent of the last.  The size is *)
(* counted before the text is written.                                     *)

\* write_significand(): the digits before the point in groups.
Grouped(digits, loc) == N!Apply(digits, N!Separators(Len(digits), loc), loc)
Separators(n, loc) == Len(N!Apply(Zeros(n), N!Separators(n, loc), loc)) - n

\* write_fixed(), of a whole number: 1234e5.
WriteWhole(f, point, sp, s, loc) ==
  LET exp == f.exp + Len(f.digits)
      zeros == IF sp.alt /\ sp.precision > exp THEN sp.precision - exp ELSE 0
      size == exp + Len(Sign(s)) + (IF sp.alt THEN 1 ELSE 0) + zeros + Separators(exp, loc)
  IN  WritePadded(sp, "right", size,
        Sign(s) \o Grouped(Chars(f.digits) \o Zeros(f.exp), loc)
          \o (IF sp.alt THEN point \o Zeros(zeros) ELSE <<>>))

\* With digits on both sides of the point: 1234e-2.
WriteBoth(f, point, sp, s, loc) ==
  LET exp == f.exp + Len(f.digits)
      zeros == IF sp.alt THEN Greater(sp.precision - Len(f.digits), 0) ELSE 0
      size == Len(f.digits) + Len(Sign(s)) + 1 + zeros + Separators(exp, loc)
      digits == Chars(f.digits)
  IN  WritePadded(sp, "right", size,
        Sign(s) \o Grouped(SubSeq(digits, 1, exp), loc) \o point
          \o SubSeq(digits, exp + 1, Len(digits)) \o Zeros(zeros))

\* Below 1: 1234e-6.
WriteBelow(f, point, sp, s) ==
  LET exp == f.exp + Len(f.digits)
      zeros == IF f.digits = <<>> /\ sp.precision \in 0 .. -exp - 1 THEN sp.precision ELSE -exp
      pointy == zeros # 0 \/ f.digits # <<>> \/ sp.alt
      size == Len(f.digits) + Len(Sign(s)) + 1 + (IF pointy THEN 1 ELSE 0) + zeros
  IN  WritePadded(sp, "right", size,
        Sign(s) \o <<"0">> \o (IF pointy THEN point \o Zeros(zeros) \o Chars(f.digits) ELSE <<>>))

WriteFixed(f, point, sp, s, loc) ==
  CASE f.exp >= 0 -> WriteWhole(f, point, sp, s, loc)
    [] f.exp < 0 /\ f.exp + Len(f.digits) > 0 -> WriteBoth(f, point, sp, s, loc)
    [] OTHER -> WriteBelow(f, point, sp, s)

WriteExp(f, point, sp, s) ==
  LET size == Len(f.digits)
      exp == f.exp + size - 1
      zeros == IF sp.alt THEN Greater(sp.precision - size, 0) ELSE 0
      dot == IF ~sp.alt /\ size = 1 THEN <<>> ELSE point
      digits == Chars(f.digits)
  IN  WritePadded(sp, "right", size + Len(Sign(s)) + zeros + Len(dot) + ComputeExpSize(exp),
        Sign(s) \o SubSeq(digits, 1, 1) \o dot \o SubSeq(digits, 2, size) \o Zeros(zeros)
          \o <<IF sp.upper THEN "E" ELSE "e">> \o WriteExponent(exp))

UseFixed(exp, expUpper) == exp >= -4 /\ exp < expUpper

\* do_write_float().
DoWriteFloat(f, sp, s, loc) ==
  LET exp == f.exp + Len(f.digits) - 1
      point == IF sp.localized THEN <<loc.point>> ELSE <<".">>
      limit == IF sp.precision > 0 THEN sp.precision ELSE ExpUpper
  IN  IF sp.type = "f" \/ (sp.type # "e" /\ UseFixed(exp, limit))
      THEN WriteFixed(f, point, sp, s, IF sp.localized THEN N!Facet(loc) ELSE [sep |-> <<>>])
      ELSE WriteExp(f, point, sp, s)

-----------------------------------------------------------------------------
(* format_hexfloat().                                                      *)

\* The hexadecimal digits of the fraction, and the first of them.
Xdigits(t) == (t.stored + (IF t.implicit THEN 1 ELSE 0) + 3) \div 4
LeadingXdigit(f, t) == (f \div 16 ^ (Xdigits(t) - 1)) % 16
HexStart(v) ==
  LET fp == Fp(v)
      e == fp.e + v.type.stored - (IF v.type.implicit THEN 0 ELSE 1)
      lead == LeadingXdigit(fp.f, v.type)
  IN  [f |-> fp.f, e |-> IF lead > 1 THEN e - (Bits[lead] - 1) ELSE e]

\* A digit that is left out and is 8 or more is rounded up.
RoundHex(h, t, precision) ==
  LET unit == 16 ^ (Xdigits(t) - 1 - precision)
      up == (h.f \div (unit \div 16)) % 16 >= 8
      f == IF up THEN h.f + unit - (h.f % unit) ELSE h.f
      overflows == ~t.implicit /\ (f \div 2 ^ t.stored) % 2 = 1
  IN  IF overflows THEN [f |-> f \div 16, e |-> h.e + 4] ELSE [f |-> f, e |-> h.e]

\* All digits, of which zeros at the end are left out, up to the precision.
WriteHex(all, shown, e, sp) ==
  LET kept == {k \in 2 .. 1 + shown : all[k] # "0"}
      size == IF kept = {} THEN 0 ELSE (CHOOSE k \in kept : \A j \in kept : j <= k) - 1
      point == IF sp.alt \/ size > 0 \/ size < sp.precision THEN <<".">> ELSE <<>>
  IN  <<"0", IF sp.upper THEN "X" ELSE "x", all[1]>> \o point \o SubSeq(all, 2, 1 + size)
        \o Zeros(Greater(sp.precision - size, 0))
        \o <<IF sp.upper THEN "P" ELSE "p", IF e < 0 THEN "-" ELSE "+">> \o N!FormatDecimal(Abs(e))
FormatHexfloat(v, sp) ==
  LET count == Xdigits(v.type)
      rounds == sp.precision \in 0 .. count - 2
      padded(digits) == Zeros(count - Len(digits)) \o digits
      shown(h) == WriteHex(padded(N!FormatBase2e(4, h.f, sp.upper)),
                             IF rounds THEN sp.precision ELSE count - 1, h.e, sp)
  IN  shown(IF rounds THEN RoundHex(HexStart(v), v.type, sp.precision) ELSE HexStart(v))

-----------------------------------------------------------------------------
(* write().  A float is finite, inf or nan, and may be negative.           *)

Refused == <<"error">>
Finite(v, sp, s, loc) ==
  LET given == sp.precision
      start == IF given < 0 /\ sp.type # "none" THEN 6 ELSE given
      precision == CASE sp.type = "e" -> start + 1 [] sp.type # "f" /\ start = 0 -> 1 [] OTHER -> start
      alt == sp.alt \/ (sp.type \in {"e", "f"} /\ given # 0)
      result(d) ==
        IF d.error THEN Refused
        ELSE DoWriteFloat([digits |-> d.digits, exp |-> d.exp],
                          [sp EXCEPT !.precision = precision, !.alt = alt], s, loc)
      padded(text) == WritePadded(sp, "right", Len(text), text)
  IN  CASE sp.type = "a" -> padded(Sign(s) \o FormatHexfloat(v, sp))
        [] sp.type = "e" /\ start = IntMax -> Refused
        [] OTHER -> result(FormatFloat(v, precision, sp.type = "f", alt))

\* A sign is written before the zeros of a width.
WriteFloat(v, sp, loc) ==
  LET s == IF v.neg THEN "minus" ELSE sp.sign
      before == sp.align = "numeric" /\ s # "none"
      less == IF before /\ sp.width > 0 THEN sp.width - 1 ELSE sp.width
      signed(text) == IF text = Refused \/ ~before THEN text ELSE Sign(s) \o text
  IN  IF v.class # "finite" THEN WriteNonfinite(v.class, sp, s)
      ELSE signed(Finite(v, [sp EXCEPT !.width = less], IF before THEN "none" ELSE s, loc))

\* write(); Dragonbox gives a float or double its shortest digits, which are inputs
\* here.
Write(sp) ==
  CASE kind = "float" -> WriteFloat(value, sp, locale)
    [] kind = "decimal" -> DoWriteFloat(value, sp, sp.sign, locale)

-----------------------------------------------------------------------------
(* Properties.                                                             *)

Narrow(sp) == [sp EXCEPT !.width = 0]
Classic(sp) == [sp EXCEPT !.localized = FALSE]
Text == written[specs]

Init ==
  \E in \in Inputs :
    /\ kind = in.kind /\ value = in.value /\ specs = in.specs /\ locale = in.locale
    /\ CASE kind \in {"float", "decimal"} ->
              written = [sp \in {specs, Narrow(specs), Classic(specs)} |-> Write(sp)]
         [] kind = "digits" ->
              written = FormatFloat(value, specs.precision, specs.fixed, specs.alt)
         [] OTHER -> written = <<>>

\* What a reader makes of a text: the digits before and behind the point, the
\* exponent, and the number, in units of 10 ^ unit.
Body(text) == SelectSeq(text, LAMBDA c : <<c>> # specs.fill)
Unsigned(text) == IF text # <<>> /\ text[1] \in {"-", "+", " "} THEN Tail(text) ELSE text
SignShown(text) == (text[1] = "-") = value.neg
Before(text, marks) ==
  LET at == {k \in DOMAIN text : text[k] \in marks} IN
  IF at = {} THEN text ELSE SubSeq(text, 1, (CHOOSE k \in at : TRUE) - 1)
Behind(text, marks) == SubSeq(text, Len(Before(text, marks)) + 2, Len(text))
DigitValue(c) == (CHOOSE d \in 0 .. 15 : N!Lower[d + 1] = c \/ N!Upper[d + 1] = c)
Number(base, text) == FoldLeft(LAMBDA v, c : v * base + DigitValue(c), 0, text)
Signed(text) == IF text = <<>> THEN 0
                ELSE IF text[1] = "-" THEN -Number(10, Tail(text)) ELSE Number(10, Tail(text))
Read(base, text, marks) ==
  LET mantissa == Before(Unsigned(text), marks) IN
  [whole |-> Before(mantissa, {"."}), fraction |-> Behind(mantissa, {"."}),
   pointed |-> \E k \in DOMAIN mantissa : mantissa[k] = ".",
   raised |-> mantissa # Unsigned(text), exp |-> Signed(Behind(Unsigned(text), marks)),
   number |-> Number(base, Before(mantissa, {"."}) \o Behind(mantissa, {"."}))]
Unit(r) == r.exp - Len(r.fraction)
Magnitude(r) ==   \* the exponent of the first digit that is no zero
  LET digits == r.whole \o r.fraction
      first == CHOOSE k \in DOMAIN digits :
                 digits[k] # "0" /\ \A j \in 1 .. k - 1 : digits[j] = "0"
  IN  r.exp + Len(r.whole) - first

Rounds(n, exp) == Nearest(n, Num(Fp(value), exp), Den(Fp(value), exp))

\* A fixed number has the digits behind the point that were asked for, and is
\* rounded there.
FixedShown(r, precision) ==
  /\ ~r.raised /\ Len(r.fraction) = precision /\ Rounds(r.number, -precision)
  /\ r.whole[1] # "0" \/ Len(r.whole) = 1
  /\ r.pointed = (precision > 0 \/ specs.alt)

\* One with an exponent has one digit before the point.
ExpShown(r, precision) ==
  /\ r.raised /\ Len(r.whole) = 1 /\ Len(r.fraction) = precision /\ Rounds(r.number, Unit(r))
  /\ r.pointed = (precision > 0 \/ specs.alt)
  /\ r.whole[1] = "0" => IsZero(value)

\* Any other has as many digits in all, and an exponent if it is too small or
\* too large for them; zeros at the end are left out, but with #.
Trimmed(r) ==
  IF specs.alt THEN TRUE
  ELSE r.pointed = (r.fraction # <<>>) /\ (r.fraction # <<>> => Last(r.fraction) # "0")
GeneralShown(r, precision) ==
  LET more == Unit(r) - (Magnitude(r) - precision + 1)
  IN  /\ r.raised = ~(Magnitude(r) >= -4 /\ Magnitude(r) < precision) /\ Trimmed(r)
      /\ IF more >= 0 THEN Rounds(r.number * 10 ^ more, Unit(r) - more)
         ELSE r.number % 10 ^ (-more) = 0 /\ Rounds(r.number \div 10 ^ (-more), Unit(r) - more)
      /\ specs.alt => more <= 0 /\ r.pointed
ZeroShown(r) == r.number = 0 /\ ~r.raised

Shown(r) ==
  LET precision == IF specs.precision < 0 THEN 6 ELSE specs.precision
      digits == IF precision = 0 THEN 1 ELSE precision
  IN  CASE specs.type = "f" -> FixedShown(r, precision)
        [] specs.type = "e" -> ExpShown(r, precision)
        [] specs.type \notin {"e", "f"} /\ IsZero(value) -> ZeroShown(r)
        [] specs.type = "none" /\ specs.precision < 0 -> Within(value, r.number, Unit(r))
        [] OTHER -> GeneralShown(r, digits)

\* An estimated exponent may leave a zero before the digits.
Slips ==
  LET slips(fp, exp) == Num(fp, exp) < Den(fp, exp) /\ MiddleReaches(fp, exp)
  IN  ~value.type.fast /\ ~IsZero(value) /\ slips(Fp(value), Estimate(Fp(value)))

\* A float is shown rounded as it was asked for, in the notation of its size, but
\* where its digits are not those that were asked for: more than MaxDigits, and
\* the shortest of a power of two without an implicit bit
\* (format.h:2459-2605, 3146-3383, 3446-3500).
FloatsRead ==
  LET shortest == specs.type = "none" /\ specs.precision < 0
      left == \/ specs.precision > MaxDigits
              \/ specs.type \in {"e", "g", "none"} /\ Slips
              \/ shortest /\ ~value.type.implicit /\ PowerOfTwo(value)
      right(text) ==
        text # Refused => SignShown(text) /\ Shown(Read(10, Unsigned(text), {"e", "E"}))
  IN  kind = "float" /\ value.class = "finite" /\ specs.type # "a" /\ specs.width = 0
        /\ ~specs.localized /\ ~left => right(Text)

\* Digits that are given keep their value, with an exponent from ExpUpper on or
\* below 0.0001; localized, the groups and the point are the locale's, and
\* nothing else (format.h:2360-2605).
DigitsKept ==
  LET exp == value.exp + Len(value.digits) - 1
      kept(r) ==
        /\ r.raised = (specs.type = "e" \/ (specs.type # "f" /\ exp \notin -4 .. ExpUpper - 1))
        /\ r.number = NumberOf(value.digits) * 10 ^ (value.exp - Unit(r)) /\ Trimmed(r)
      without(text) == SelectSeq(text, LAMBDA c : <<c>> # locale.sep)
      plain(text) == [k \in DOMAIN text |-> IF text[k] = locale.point THEN "." ELSE text[k]]
      right(text) ==
        IF specs.localized THEN plain(without(text)) = written[Classic(specs)]
        ELSE kept(Read(10, Unsigned(text), {"e", "E"}))
  IN  kind = "decimal" /\ specs.width = 0 => right(Text)

\* Whatever the notation, the size that was counted is the size of the text: a
\* width adds as many fills as it lacks, on its side, and with 0 it adds zeros
\* behind the sign (format.h:2348-2367, 2486-2590, 3446-3465).
FloatsPadded ==
  LET finite == kind = "decimal" \/ value.class = "finite"
      fill == IF ~finite /\ specs.fill = <<"0">> THEN " " ELSE specs.fill[1]
      fills(n) == [k \in 1 .. n |-> fill]
      left(lacks) ==
        CASE specs.align = "left" \/ (specs.align = "none" /\ ~finite) -> 0
          [] specs.align = "center" -> lacks \div 2
          [] OTHER -> lacks
      padded(bare, body, lacks) ==
        IF specs.align = "numeric" /\ finite
        THEN SubSeq(bare, 1, Len(bare) - Len(body)) \o fills(lacks) \o body
        ELSE fills(left(lacks)) \o bare \o fills(lacks - left(lacks))
      right(bare) ==
        bare # Refused =>
          Text = padded(bare, Unsigned(bare), Greater(specs.width - Len(bare), 0))
  IN  kind \in {"float", "decimal"} /\ specs.width > 0 => right(written[Narrow(specs)])

\* A hexadecimal float is the value, rounded at the digits that were asked for
\* (format.h:3058-3128); but without an implicit bit a subnormal, whose first digit
\* has other bits than the exponent is for, is shown as up to 8 times as much.
HexfloatsRead ==
  LET sized(r, num, den) ==
        /\ r.number = (num + den \div 2) \div den
        /\ specs.precision < 0 => num % den = 0 /\ Trimmed(r)
      shown(r, shift) ==
        /\ Len(r.whole) = 1 /\ r.raised
        /\ sized(r, 2 * Fp(value).f * Pow(2, shift), 2 * Pow(2, -shift))
        /\ specs.precision >= 0 => Len(r.fraction) = specs.precision
        /\ r.pointed = (specs.alt \/ r.fraction # <<>>)
      right(r) == shown(r, Fp(value).e - r.exp + 4 * Len(r.fraction))
      read(text) ==
        SubSeq(text, 1, 2) = <<"0", "x">> /\ right(Read(16, SubSeq(text, 3, Len(text)), {"p"}))
      signed(text) == SignShown(text) /\ read(Unsigned(text))
      left == ~value.type.implicit /\ LeadingXdigit(Fp(value).f, value.type) < 8
  IN  kind = "float" /\ value.class = "finite" /\ specs.type = "a" /\ specs.width = 0 /\ ~left =>
        signed(Text)

\* What cannot be shown is refused: a precision that would wrap.
PrecisionsRefused ==
  LET exp == FirstSegment(value).exp + FirstSegment(value).digits
      wraps == CASE specs.type = "e" -> specs.precision = IntMax
                 [] specs.type = "f" -> specs.precision > IntMax - exp
                 [] OTHER -> FALSE
  IN  kind = "float" /\ value.class = "finite" /\ specs.width = 0 /\ specs.type # "a"
        /\ value.type.fast /\ ~IsZero(value) => (Text = Refused) = wraps

\* What they rest on: bigints count as integers do; digits are those that were
\* asked for, or the shortest; and the digits of a subsegment are its first,
\* rounded (format.h:2653-3383).
DigitsExact ==
  /\ kind = "bigint" =>
       OneRight(value.x, specs) /\ \A z \in value.z : TwoRight(value.x, value.y, z)
  /\ kind = "digits" /\ ~IsZero(value) =>
       IF specs.precision < 0 THEN ShortestDigits(value, written)
       ELSE DigitsRounded(value, specs.precision, specs.fixed, written)
  /\ kind = "subsegment" => \A more \in BOOLEAN : SubsegmentRounded(value, specs, more)

=============================================================================
