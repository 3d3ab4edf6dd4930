--------------------------- MODULE IntegerWriting ---------------------------
(***************************************************************************)
(* How fmt writes integers, pointers, bools and chars (format.h): digits,  *)
(* prefixes, zeros, the separators of a locale, and padding.  A text is a  *)
(* sequence of one-letter strings; an integer has Bits bits.               *)
(***************************************************************************)
EXTENDS Writing

CONSTANTS
  Bits,       \* of the type that holds the absolute value
  CharMax,    \* in a locale's grouping: no more separators
  Inputs      \* records of a value, its type, specifiers and a locale

VARIABLES value, type, specs, locale

Lower == <<"0", "1", "2", "3", "4", "5", "6", "7", "8", "9", "a", "b", "c", "d", "e", "f">>
Upper == <<"0", "1", "2", "3", "4", "5", "6", "7", "8", "9", "A", "B", "C", "D", "E", "F">>

-----------------------------------------------------------------------------
(* Digits.                                                                 *)

\* write2digits().
Write2Digits(v) == <<Lower[v \div 10 + 1], Lower[(v % 10) + 1]>>

\* do_format_decimal(), from the end, two digits at a time.
RECURSIVE FormatDecimal(_)
FormatDecimal(v) ==
  IF v >= 100 THEN FormatDecimal(v \div 100) \o Write2Digits(v % 100)
  ELSE IF v >= 10 THEN Write2Digits(v)
  ELSE <<Lower[v + 1]>>

\* do_format_base2e().
RECURSIVE FormatBase2e(_, _, _)
FormatBase2e(bits, v, upper) ==
  LET digit == <<(IF upper THEN Upper ELSE Lower)[(v % 2 ^ bits) + 1]>>
  IN  IF v >= 2 ^ bits THEN FormatBase2e(bits, v \div 2 ^ bits, upper) \o digit ELSE digit

\* count_digits_fallback(): four digits at a time.
RECURSIVE CountDigitsFallback(_)
CountDigitsFallback(n) ==
  CASE n < 10 -> 1 [] n < 100 -> 2 [] n < 1000 -> 3 [] n < 10000 -> 4
    [] OTHER -> 4 + CountDigitsFallback(n \div 10000)

\* The highest bit of n | 1, by __builtin_clz.
RECURSIVE HighestBit(_)
HighestBit(n) == IF n < 2 THEN 0 ELSE 1 + HighestBit(n \div 2)

\* do_count_digits(), of 64 and of 32 bits: a guess by the highest bit, and one
\* less if n is below the power of ten it stands for.
Bsr2Log10 ==
  <<1, 1, 1, 2, 2, 2, 3, 3, 3, 4, 4, 4, 4, 5, 5, 5, 6, 6, 6, 7, 7, 7, 7, 8, 8, 8, 9, 9, 9, 10, 10, 10>>
DoCountDigits(n) ==
  LET t == Bsr2Log10[HighestBit(n) + 1] IN t - (IF t > 1 /\ n < 10 ^ (t - 1) THEN 1 ELSE 0)
Powers == <<0, 0, 0, 1, 1, 1, 2, 2, 2, 3, 3, 3, 4, 4, 4, 5, 5, 5, 6, 6, 6, 7, 7, 7, 8, 8, 8, 9, 9, 9, 9, 9>>
DoCountDigits32(n) ==
  LET p == Powers[HighestBit(n) + 1] IN IF p > 0 /\ n < 10 ^ p THEN p ELSE p + 1

\* count_digits<BITS>().
CountDigitsBase2e(bits, n) == HighestBit(n) \div bits + 1

-----------------------------------------------------------------------------
(* The sign, the prefix and the zeros.                                     *)

\* make_write_int_arg(): the absolute value wraps for the least integer.
AbsValue(v) == IF v < 0 THEN (0 - (v % 2 ^ Bits)) % 2 ^ Bits ELSE v % 2 ^ Bits
SignOf(v, sp) ==
  CASE v < 0 -> <<"-">> [] sp.sign = "plus" -> <<"+">> [] sp.sign = "space" -> <<" ">> [] OTHER -> <<>>

DigitsOf(n, sp) ==
  CASE sp.type = "x" -> FormatBase2e(4, n, sp.upper)
    [] sp.type = "o" -> FormatBase2e(3, n, FALSE)
    [] sp.type = "b" -> FormatBase2e(1, n, FALSE)
    [] OTHER -> FormatDecimal(n)

\* prefix_append().  The 0 of an octal number is a digit: it is left out behind
\* enough zeros.
BasePrefix(n, sp, digits) ==
  CASE sp.alt /\ sp.type = "x" -> <<"0", IF sp.upper THEN "X" ELSE "x">>
    [] sp.alt /\ sp.type = "b" -> <<"0", IF sp.upper THEN "B" ELSE "b">>
    [] sp.alt /\ sp.type = "o" /\ sp.precision <= digits /\ n # 0 -> <<"0">>
    [] OTHER -> <<>>

\* Mutant: the zeros of a width do not count the prefix.
SizePaddingBare(digits, prefix, sp) ==
  IF sp.align = "numeric" THEN IF sp.width > digits THEN sp.width - digits ELSE 0
  ELSE IF sp.precision > digits THEN sp.precision - digits ELSE 0

\* size_padding: the zeros between the prefix and the digits.
SizePadding(digits, prefix, sp) ==
  IF sp.align = "numeric"
  THEN IF sp.width > prefix + digits THEN sp.width - prefix - digits ELSE 0
  ELSE IF sp.precision > digits THEN sp.precision - digits ELSE 0

Zeros(n) == [k \in 1 .. n |-> "0"]

\* write_int(): nothing to pad is written at once.
PutInt(prefix, digits, sp) ==
  LET text(zeros) == prefix \o Zeros(zeros) \o digits
      padded(t) == WritePadded(sp, "right", Len(t), t)
  IN  IF sp.width = 0 /\ sp.precision = -1 THEN prefix \o digits
      ELSE padded(text(SizePadding(Len(digits), Len(prefix), sp)))
WriteChar(sp) == WritePadded(sp, "left", 1, <<"char">>)
WriteInt(n, sign, sp) ==
  LET put(digits) == PutInt(sign \o BasePrefix(n, sp, Len(digits)), digits, sp)
  IN  IF sp.type = "c" THEN WriteChar(sp) ELSE put(DigitsOf(n, sp))

-----------------------------------------------------------------------------
(* Digit grouping.                                                         *)

\* next(): the distance from the right of the next separator; at the end of the
\* grouping its last member goes on; no more than num_digits are asked for.
RECURSIVE SeparatorsFrom(_, _, _, _)
SeparatorsFrom(grouping, k, pos, num) ==
  LET group == grouping[IF k > Len(grouping) THEN Len(grouping) ELSE k] IN
  IF group <= 0 \/ group = CharMax \/ pos + group >= num THEN {}
  ELSE {pos + group} \cup SeparatorsFrom(grouping, k + 1, pos + group, num)

\* count_separators() counts them, apply() puts them.
Separators(num, loc) == IF loc.sep = <<>> THEN {} ELSE SeparatorsFrom(loc.grouping, 1, 0, num)
Apply(digits, seps, loc) ==
  FlattenSeq([k \in DOMAIN digits |->
    IF Len(digits) - k + 1 \in seps THEN loc.sep \o <<digits[k]>> ELSE <<digits[k]>>])

\* write_int() with grouping: precision and zeros play no part.
PutGrouped(prefix, digits, seps, sp, loc) ==
  WritePadded(sp, "right", Len(prefix) + Len(digits) + Cardinality(seps),
              prefix \o Apply(digits, seps, loc))
WriteIntGrouped(n, sign, sp, loc) ==
  LET put(digits) == PutGrouped(sign \o BasePrefix(n, sp, Len(digits)), digits,
                                Separators(Len(digits), loc), sp, loc)
  IN  IF sp.type = "c" THEN WriteChar(sp) ELSE put(DigitsOf(n, sp))

\* format_facet: no separator without a grouping.
Facet(loc) == IF loc.grouping = <<>> THEN [loc EXCEPT !.sep = <<>>] ELSE loc

-----------------------------------------------------------------------------
(* Arguments.                                                              *)

WriteInteger(v, sp, loc) ==
  IF sp.localized THEN WriteIntGrouped(AbsValue(v), SignOf(v, sp), sp, Facet(loc))
  ELSE WriteInt(AbsValue(v), SignOf(v, sp), sp)
WritePtr(v, sp) ==
  LET digits == FormatBase2e(4, v, FALSE)
  IN  WritePadded(sp, "right", CountDigitsBase2e(4, v) + 2, <<"0", "x">> \o digits)
TrueText == <<"t", "r", "u", "e">>
FalseText == <<"f", "a", "l", "s", "e">>
WriteBytes(bytes, sp) == WritePadded(sp, "left", Len(bytes), bytes)
NoLocale == [grouping |-> <<>>, sep |-> <<>>]
WriteBool(v, sp) ==
  IF sp.type \in {"none", "s"} THEN WriteBytes(IF v # 0 THEN TrueText ELSE FalseText, sp)
  ELSE WriteInteger(IF v # 0 THEN 1 ELSE 0, sp, NoLocale)
WriteCharArg(v, sp, loc) ==   \* a char is written as unsigned char
  IF sp.type \in {"none", "c", "?"} THEN WriteChar(sp) ELSE WriteInteger(v % 256, sp, loc)

Written ==
  CASE type = "int" -> WriteInteger(value, specs, locale)
    [] type = "pointer" -> WritePtr(value, specs)
    [] type = "bool" -> WriteBool(value, specs)
    [] type = "char" -> WriteCharArg(value, specs, locale)

-----------------------------------------------------------------------------
(* Properties.                                                             *)

Init ==
  \E in \in Inputs : value = in.value /\ type = in.type /\ specs = in.specs /\ locale = in.locale

\* What a reader who knows the specifiers makes of a number: the padding, which
\* is no part of it, the sign, and the value.
Base == CASE specs.type = "x" -> 16 [] specs.type = "o" -> 8 [] specs.type = "b" -> 2 [] OTHER -> 10
DigitValue(c) ==
  (CHOOSE d \in 0 .. 15 : Lower[d + 1] = c \/ Upper[d + 1] = c)
IsDigit(c) == \E d \in 0 .. Base - 1 : Lower[d + 1] = c \/ Upper[d + 1] = c
NumberOf(digits) == FoldLeft(LAMBDA v, c : v * Base + DigitValue(c), 0, digits)

Body(text) ==   \* zeros behind the sign are no padding
  IF specs.align = "numeric" THEN text ELSE SelectSeq(text, LAMBDA c : <<c>> # specs.fill)
AtLeft(text) == CHOOSE n \in 0 .. Len(text) : n = Len(text) \/ <<text[n + 1]>> # specs.fill

Mark(text) == IF text # <<>> /\ text[1] \in {"-", "+", " "} THEN 1 ELSE 0
Behind(text) ==   \* the sign and the prefix of the base
  LET n == Mark(text) IN
  IF specs.alt /\ specs.type \in {"x", "b"} THEN n + 2 ELSE n

WellPadded(text, default) ==
  LET pads == Len(text) - Len(Body(text))
      side == IF specs.align = "none" THEN default ELSE specs.align
      left == CASE side = "left" -> 0 [] side = "center" -> pads \div 2 [] OTHER -> pads
  IN  /\ Len(text) = IF specs.width > Len(Body(text)) THEN specs.width ELSE Len(Body(text))
      /\ specs.align # "numeric" => AtLeft(text) = left

ReadsAs(text, v) ==
  LET digits == SubSeq(text, Behind(text) + 1, Len(text)) IN
  /\ \A k \in DOMAIN digits : IsDigit(digits[k])
  /\ NumberOf(digits) = (IF v < 0 THEN -v ELSE v)
  /\ (Mark(text) = 1 /\ text[1] = "-") = (v < 0)
  /\ specs.alt /\ specs.type = "o" => digits[1] = "0"
  /\ Len(digits) > 1 /\ digits[1] = "0" =>
       specs.align = "numeric" \/ specs.precision > 1 \/ (specs.alt /\ specs.type = "o")

\* A number takes the width that was asked for, on the side that was asked for,
\* and says its value, sign and base, the least integer's too; zeros stand
\* between the prefix and the digits, where only a width with 0 or a precision
\* puts them (format.h:2004-2124).
IntegersRead ==
  LET read(text, v) == WellPadded(text, "right") /\ ReadsAs(Body(text), v)
      exact(text) ==
        /\ specs.align = "numeric" => Len(text) >= specs.width
        /\ specs.align = "numeric" /\ Len(text) > specs.width =>   \* no zero too many
             Len(text) = Behind(text) + 1 \/ text[Behind(text) + 1] # "0" \/ specs.type = "o"
        /\ specs.align # "numeric" /\ specs.precision > 0 =>
             Len(Body(text)) - Behind(Body(text)) >= specs.precision
      number == type = "int" \/ (type \in {"bool", "char"} /\ specs.type \in {"d", "x", "o", "b"})
  IN  number /\ specs.type # "c" /\ ~specs.localized =>
        /\ read(Written, IF type = "char" THEN value % 256 ELSE value)
        /\ exact(Written)

\* The groups of digits are those of the locale, counted from the right, and
\* without the separators the text is what it is without a locale.
GroupsOf(digits, sep) ==
  {n \in 0 .. Len(digits) : n = Len(digits) \/ <<digits[Len(digits) - n]>> = sep}
DigitsGrouped ==
  LET sep == Facet(locale).sep
      group(k) == locale.grouping[IF k > Len(locale.grouping) THEN Len(locale.grouping) ELSE k]
      endless(k) == \E j \in 1 .. k : j <= Len(locale.grouping) /\ group(j) \in {0, CharMax}
      grouped(ends) ==   \* where the groups end, from the right
        \A e \in ends :
          LET k == Cardinality({d \in ends : d < e}) + 1
              start == IF k = 1 THEN 0 ELSE Max({d \in ends : d < e}) + 1
          IN  IF e = Max(ends) THEN e > start /\ (endless(k) \/ e - start <= group(k))
              ELSE ~endless(k) /\ e - start = group(k)
      plain(text) == Body(text) =
        Body(WriteInt(AbsValue(value), SignOf(value, specs), [specs EXCEPT !.precision = -1]))
      behind(text) == SubSeq(text, Behind(text) + 1, Len(text))
  IN  type = "int" /\ specs.localized /\ specs.type # "c" /\ specs.align # "numeric" =>
        /\ WellPadded(Written, "right")
        /\ plain(SelectSeq(Written, LAMBDA c : <<c>> # sep))
        /\ sep # <<>> => grouped(GroupsOf(behind(Body(Written)), sep))

\* The number of digits is known before they are written, by any of the ways to
\* count them (format.h:1053-1151).
DigitsCounted ==
  LET right(n) ==
        /\ CountDigitsFallback(value) = n /\ DoCountDigits(value) = n /\ DoCountDigits32(value) = n
        /\ \A bits \in {1, 3, 4} :
             CountDigitsBase2e(bits, value) = Len(FormatBase2e(bits, value, FALSE))
  IN  type = "count" => right(Len(FormatDecimal(value)))

\* Words and characters stand at the left and pointers, which are hexadecimal
\* whatever was asked for, at the right (format.h:1721-1735, 2158-2167).
OthersShown ==
  LET word == type = "bool" /\ specs.type \in {"none", "s"}
      char == specs.type = (IF type = "int" THEN "c" ELSE "none") /\ type \in {"int", "char"}
      text == IF char THEN <<"char">> ELSE IF value # 0 THEN TrueText ELSE FalseText
      hexadecimal(digits) ==
        FoldLeft(LAMBDA v, c : v * 16 + DigitValue(c), 0, digits) = value
  IN  /\ word \/ char => WellPadded(Written, "left") /\ Body(Written) = text
      /\ type = "pointer" =>
           /\ WellPadded(Written, "right")
           /\ SubSeq(Body(Written), 1, 2) = <<"0", "x">>
           /\ hexadecimal(SubSeq(Body(Written), 3, Len(Body(Written))))

=============================================================================
