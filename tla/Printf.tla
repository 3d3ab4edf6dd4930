------------------------------- MODULE Printf -------------------------------
(***************************************************************************)
(* fmt's printf (printf.h): a format string with conversions as in C, and  *)
(* arguments whose types are known.  Floating-point conversions are left   *)
(* out.  A format string is a sequence of one-letter strings; an input is  *)
(* the sequence of its parts, from which the string is made.               *)
(***************************************************************************)
EXTENDS Writing

CONSTANTS
  Bits,       \* of each integer type: char, short, int and long
  Inputs      \* records of the parts of a format string and its arguments

VARIABLES parts, args

N == INSTANCE IntegerWriting WITH
  Bits <- Bits.long, CharMax <- 127, Inputs <- {}, value <- 0, type <- "int",
  specs <- 0, locale <- 0

DigitChars == {"0", "1", "2", "3", "4", "5", "6", "7", "8", "9"}
DigitOf(c) == CHOOSE d \in 0 .. 9 : N!Lower[d + 1] = c
NumberOf(cs) == FoldLeft(LAMBDA v, c : v * 10 + DigitOf(c), 0, cs)

Signed(v, bits) ==
  LET u == v % 2 ^ bits IN IF u >= 2 ^ (bits - 1) THEN u - 2 ^ bits ELSE u
Unsigned(v, bits) == v % 2 ^ bits
IntMax == 2 ^ (Bits.int - 1) - 1

IntegralTypes == {"int", "uint", "long", "ulong", "bool", "char"}
TypeBits(t) ==
  CASE t \in {"int", "uint"} -> Bits.int [] t \in {"long", "ulong"} -> Bits.long
    [] t = "char" -> Bits.char [] t = "bool" -> 1

-----------------------------------------------------------------------------
(* The parser.  Its state c has the place of the next character, the next  *)
(* automatic argument (-1: arguments are given by index), the specifiers   *)
(* and whether an error was reported.                                      *)

At(fmt, i) == IF i <= Len(fmt) THEN fmt[i] ELSE "end"
Error(c) == [c EXCEPT !.error = TRUE]

RECURSIVE DigitsFrom(_, _)
DigitsFrom(fmt, i) == IF At(fmt, i) \in DigitChars THEN <<fmt[i]>> \o DigitsFrom(fmt, i + 1) ELSE <<>>

\* parse_nonnegative_int(), with -1 for what does not fit, and for more digits than
\* an int may need, zeros before them included.
Digits10 == (Bits.int * 3) \div 10
Parsed(digits) ==
  IF Len(digits) <= Digits10 + 1 /\ NumberOf(digits) <= IntMax THEN NumberOf(digits) ELSE -1

\* get_arg(): no argument is an error.
NoArg == [type |-> "none", value |-> 0, text |-> <<>>]
GetArg(c, index) ==
  LET at(k) == IF k \in DOMAIN args THEN args[k] ELSE NoArg
      missing(a, cc) == [arg |-> a, ctx |-> IF a = NoArg THEN Error(cc) ELSE cc]
  IN  IF index < 0
      THEN IF c.next < 0 THEN missing(NoArg, c)
           ELSE missing(at(c.next + 1), [c EXCEPT !.next = @ + 1])
      ELSE IF c.next > 0 THEN missing(NoArg, c)
           ELSE missing(at(index), [c EXCEPT !.next = -1])

\* parse_flags().
RECURSIVE ParseFlags(_, _)
ParseFlags(fmt, c) ==
  LET next(sp) == ParseFlags(fmt, [c EXCEPT !.at = @ + 1, !.specs = sp])
      sp == c.specs
  IN  CASE At(fmt, c.at) = "-" -> next([sp EXCEPT !.align = "left"])
        [] At(fmt, c.at) = "+" -> next([sp EXCEPT !.sign = "plus"])
        [] At(fmt, c.at) = "0" -> next([sp EXCEPT !.fill = <<"0">>])
        [] At(fmt, c.at) = " " -> next([sp EXCEPT !.sign = IF @ = "plus" THEN @ ELSE "space"])
        [] At(fmt, c.at) = "#" -> next([sp EXCEPT !.alt = TRUE])
        [] OTHER -> c

\* printf_width_handler: a negative width is one to the left.
StarWidth(g) ==
  LET v == g.arg.value
      width == IF v < 0 THEN -v ELSE v
      align == IF v < 0 THEN "left" ELSE g.ctx.specs.align
  IN  IF g.ctx.error \/ g.arg.type \notin IntegralTypes \/ width > IntMax THEN Error(g.ctx)
      ELSE [g.ctx EXCEPT !.specs.width = width, !.specs.align = align]

SetWidth(c, n, digits) ==
  IF n < 0 THEN Error(c) ELSE [c EXCEPT !.at = @ + digits, !.specs.width = n]
ParseWidth(fmt, c) ==
  LET digits == DigitsFrom(fmt, c.at) IN
  IF digits # <<>> THEN SetWidth(c, Parsed(digits), Len(digits))
  ELSE IF At(fmt, c.at) = "*" THEN StarWidth(GetArg([c EXCEPT !.at = @ + 1], -1))
  ELSE c

\* parse_header(): a number is an index if a $ follows, and otherwise a width,
\* behind which there are no flags.
ParseHeader(fmt, c) ==
  LET rest(cc) == ParseWidth(fmt, ParseFlags(fmt, cc))
      header(digits, n) ==
        LET behind == [c EXCEPT !.at = @ + Len(digits)]
            filled == IF digits[1] = "0" THEN [behind EXCEPT !.specs.fill = <<"0">>] ELSE behind
        IN  IF At(fmt, behind.at) = "$"
            THEN rest([behind EXCEPT !.at = @ + 1, !.index = IF n < 0 THEN IntMax ELSE n])
            ELSE IF n < 0 THEN Error(filled)
            ELSE IF n > 0 THEN [filled EXCEPT !.specs.width = n]
            ELSE rest(filled)
      digits == DigitsFrom(fmt, c.at)
  IN  IF digits = <<>> THEN rest(c) ELSE header(digits, Parsed(digits))

\* printf_precision_handler, with fits_in_int(); a negative precision is 0.
FitsInInt(v) == v \in -IntMax - 1 .. IntMax
StarPrecision(g) ==
  LET v == g.arg.value IN
  IF g.ctx.error \/ g.arg.type \notin IntegralTypes \/ ~FitsInInt(v) THEN Error(g.ctx)
  ELSE [g.ctx EXCEPT !.specs.precision = IF v < 0 THEN 0 ELSE v]
\* A precision in digits that does not fit is taken for 0.
ParsePrecision(fmt, c) ==
  LET digits == DigitsFrom(fmt, c.at + 1)
      n == IF Parsed(digits) < 0 THEN 0 ELSE Parsed(digits)
  IN  IF At(fmt, c.at) # "." THEN c
      ELSE IF At(fmt, c.at + 1) = "*" THEN StarPrecision(GetArg([c EXCEPT !.at = @ + 2], -1))
      ELSE [c EXCEPT !.at = @ + 1 + Len(digits), !.specs.precision = n]

\* The length, with the size of the type it names, and the conversion behind it.
LengthAt(fmt, i) ==
  LET twice == At(fmt, i + 1) = At(fmt, i) IN
  CASE At(fmt, i) = "h" -> [length |-> IF twice THEN 2 ELSE 1, bits |-> IF twice THEN Bits.char ELSE Bits.short]
    [] At(fmt, i) = "l" -> [length |-> IF twice THEN 2 ELSE 1, bits |-> 0]
    [] At(fmt, i) \in {"j", "z", "t"} -> [length |-> 1, bits |-> 0]
    [] OTHER -> [length |-> 0, bits |-> 0]

\* arg_converter: bits is 0 where the type stays as wide as it is.
ConvertArg(arg, bits, conversion) ==
  LET width == IF bits = 0 THEN TypeBits(arg.type) ELSE bits IN
  IF arg.type \notin IntegralTypes \/ (arg.type = "bool" /\ conversion = "s") THEN arg
  ELSE IF arg.type = "bool" /\ bits = 0 THEN [arg EXCEPT !.type = "int"]
  ELSE IF conversion \in {"d", "i"}
  THEN [arg EXCEPT !.type = "int", !.value = IF bits = 0 THEN @ ELSE Signed(@, bits)]
  ELSE [arg EXCEPT !.type = "uint", !.value = Unsigned(@, width)]

\* parse_printf_presentation_type().
PresentationType(c, t) ==
  CASE c \in {"d", "o", "x", "X", "c"} /\ t \in IntegralTypes -> IF c = "X" THEN "x" ELSE c
    [] c = "s" /\ t \in {"string", "cstring"} -> "s"
    [] c = "p" /\ t \in {"pointer", "cstring"} -> "p"
    [] OTHER -> "none"

-----------------------------------------------------------------------------
(* printf_arg_formatter.                                                   *)

CharText(v) == <<"char " \o ToString(v % 2 ^ Bits.char)>>
WriteChar(v, sp) ==
  WritePadded([sp EXCEPT !.fill = <<" ">>, !.align = IF @ = "numeric" THEN "right" ELSE @],
              "left", 1, CharText(v))
WriteString(text, sp) ==
  LET cut == IF sp.precision < 0 \/ sp.precision > Len(text) THEN text
             ELSE SubSeq(text, 1, sp.precision)
  IN  WritePadded(sp, "left", Len(cut), cut)
Nil == <<"(", "n", "i", "l", ")">>
FormatArg(arg, sp) ==
  CASE sp.type = "c" -> WriteChar(arg.value, sp)
    [] sp.type = "s" -> WriteString(arg.text, sp)
    [] sp.type = "p" -> IF arg.value = 0 THEN WritePadded(sp, "left", 5, Nil)
                        ELSE N!WritePtr(arg.value, sp)
    [] OTHER -> N!WriteInteger(arg.value, sp, N!NoLocale)

\* Mutant: 0 pads beside a precision too.
AdjustZeroesAlways(arg, sp) ==
  LET alt == sp.alt /\ ~(arg.type \in IntegralTypes /\ arg.value = 0)
      numeric == sp.fill = <<"0">> /\ arg.type \in IntegralTypes /\ sp.align # "left"
  IN  [sp EXCEPT !.alt = alt, !.fill = IF numeric THEN <<"0">> ELSE <<" ">>,
                 !.align = IF numeric THEN "numeric" ELSE @]

\* What the flags come to, for the argument: 0 goes with a precision, to the
\* left, and for what is no number; # goes for zero.
Adjust(arg, sp) ==
  LET alt == sp.alt /\ ~(arg.type \in IntegralTypes /\ arg.value = 0)
      integral == arg.type \in IntegralTypes
      numeric ==
        /\ sp.fill = <<"0">> /\ ~(sp.precision >= 0 /\ integral)
        /\ integral /\ sp.align # "left"
  IN  [sp EXCEPT !.alt = alt, !.fill = IF numeric THEN <<"0">> ELSE <<" ">>,
                 !.align = IF numeric THEN "numeric" ELSE @]

-----------------------------------------------------------------------------
(* vprintf().                                                              *)

\* The end of a conversion: length, type, text.
Typed(fmt, c, arg, conversion) ==
  LET behind == [c EXCEPT !.at = @ + 1]
      typed(t) == IF t = "none" THEN Error(behind)
                  ELSE [behind EXCEPT !.out = @ \o FormatArg(arg,
                          [c.specs EXCEPT !.type = t, !.upper = (conversion = "X")])]
      normal == IF conversion \in {"i", "u"} /\ arg.type \in IntegralTypes THEN "d" ELSE conversion
  IN  IF At(fmt, c.at) = "end" THEN Error(c) ELSE typed(PresentationType(normal, arg.type))
Converted(fmt, g, len) ==
  LET c == [g.ctx EXCEPT !.at = @ + len.length, !.specs = Adjust(g.arg, @)]
  IN  Typed(fmt, c, ConvertArg(g.arg, len.bits, At(fmt, c.at)), At(fmt, c.at))
Argument(fmt, c) ==
  LET converted(g) == IF g.ctx.error THEN g.ctx ELSE Converted(fmt, g, LengthAt(fmt, g.ctx.at))
  IN  IF c.error \/ c.index = 0 THEN Error(c) ELSE converted(GetArg(c, c.index))
Precise(fmt, c) == IF c.error \/ c.index = 0 THEN Error(c) ELSE Argument(fmt, ParsePrecision(fmt, c))
Conversion(fmt, c) ==
  Precise(fmt, ParseHeader(fmt, [c EXCEPT !.index = -1,
                                          !.specs = [NoSpecs(<<" ">>) EXCEPT !.align = "right"]]))

RECURSIVE VPrintfFrom(_, _)
VPrintfFrom(fmt, c) ==
  IF c.error \/ c.at > Len(fmt) THEN c
  ELSE IF fmt[c.at] # "%"
  THEN VPrintfFrom(fmt, [c EXCEPT !.at = @ + 1, !.out = Append(@, fmt[c.at])])
  ELSE IF At(fmt, c.at + 1) = "%"
  THEN VPrintfFrom(fmt, [c EXCEPT !.at = @ + 2, !.out = Append(@, "%")])
  ELSE VPrintfFrom(fmt, Conversion(fmt, [c EXCEPT !.at = @ + 1]))

VPrintf(fmt) ==
  VPrintfFrom(fmt, [at |-> 1, next |-> 0, index |-> -1, specs |-> NoSpecs(<<" ">>),
                    out |-> <<>>, error |-> FALSE])

-----------------------------------------------------------------------------
(* Properties.  A part is a letter or a conversion, in the pieces in which *)
(* C describes it.                                                         *)

Init == \E in \in Inputs : parts = in.parts /\ args = in.args

FormatOf(p) ==
  IF p.letter # "" THEN (IF p.letter = "%" THEN <<"%", "%">> ELSE <<p.letter>>)
  ELSE <<"%">> \o p.index \o p.flags \o p.width \o p.precision \o p.length \o p.conversion
Format == FlattenSeq([k \in DOMAIN parts |-> FormatOf(parts[k])])

Has(p, flag) == \E k \in DOMAIN p.flags : p.flags[k] = flag
Stars(p) == {k \in 1 .. 2 : IF k = 1 THEN p.width = <<"*">> ELSE p.precision = <<".", "*">>}
Uses(p) == IF p.letter # "" THEN 0 ELSE Cardinality(Stars(p)) + (IF p.index = <<>> THEN 1 ELSE 0)

\* The arguments of conversion k: those behind what the conversions before it
\* have used, or the one its index names.
Before(k) == FoldLeft(LAMBDA n, p : n + Uses(p), 0, SubSeq(parts, 1, k - 1))
ValueAt(k) ==
  IF parts[k].index = <<>> THEN Before(k) + Uses(parts[k])
  ELSE NumberOf(Front(parts[k].index))
StarAt(k, star) == Before(k) + (IF star = 2 /\ 1 \in Stars(parts[k]) THEN 2 ELSE 1)

Accepts(p, t) ==
  /\ p.conversion # <<>>
  /\ t \in (CASE p.conversion[1] \in {"d", "i", "u", "o", "x", "X", "c"} -> IntegralTypes
              [] p.conversion[1] = "s" -> {"string"} [] OTHER -> {"pointer"})

\* A number is too big if it is greater than INT_MAX or has more digits, be they
\* zeros.  Flags that are zeros right behind the % belong to the number.
NotTooBig(digits) == 10 ^ Len(digits) <= 10 * IntMax /\ NumberOf(digits) <= IntMax
WellFormed ==
  /\ \A k \in DOMAIN parts :
       LET p == parts[k] IN
       p.letter = "" =>
         /\ p.index # <<>> => NotTooBig(Front(p.index))
         /\ ValueAt(k) \in DOMAIN args /\ Accepts(p, args[ValueAt(k)].type)
         /\ \A s \in Stars(p) :
              /\ StarAt(k, s) \in DOMAIN args /\ args[StarAt(k, s)].type \in IntegralTypes
              /\ args[StarAt(k, s)].value \in
                   (IF s = 1 THEN -IntMax ELSE -2 ^ (Bits.int - 1)) .. IntMax
         /\ 1 \notin Stars(p) => NotTooBig(p.width)
         /\ p.index = <<>> => NotTooBig(DigitsFrom(p.flags \o p.width, 1))
         /\ Stars(p) = {} \/ p.index = <<>>
  /\ \A j, k \in DOMAIN parts :
       parts[j].letter = "" /\ parts[k].letter = "" =>
         (parts[j].index = <<>>) = (parts[k].index = <<>>)

Size(n) == IF n < 0 THEN -n ELSE n
Room(n) == IF n < 0 THEN 0 ELSE n
WidthOf(k) ==
  IF 1 \in Stars(parts[k]) THEN args[StarAt(k, 1)].value ELSE NumberOf(parts[k].width)
PrecisionOf(k) ==   \* -1: none
  IF 2 \in Stars(parts[k]) THEN Room(args[StarAt(k, 2)].value)
  ELSE IF parts[k].precision = <<>> THEN -1
  ELSE IF NotTooBig(Tail(parts[k].precision)) THEN NumberOf(Tail(parts[k].precision)) ELSE 0

\* The value as the type that the length names, or else the argument's own.
ConvertedValue(p, a) ==
  LET bits == CASE p.length = <<"h">> -> Bits.short [] p.length = <<"h", "h">> -> Bits.char
                [] OTHER -> TypeBits(a.type)
      named == p.length \in {<<"h">>, <<"h", "h">>}
  IN  IF p.conversion[1] \in {"d", "i"} THEN (IF named THEN Signed(a.value, bits) ELSE a.value)
      ELSE Unsigned(a.value, bits)

\* A number in C, of its sign, its digits and the width that is left for zeros.
Number(p, v, precision, width) ==
  LET base == IF p.conversion[1] \in {"d", "i", "u"} THEN "d" ELSE p.conversion[1]
      digits == N!DigitsOf(Size(v), [NoSpecs(<<" ">>) EXCEPT
                  !.type = IF base = "X" THEN "x" ELSE base, !.upper = (base = "X")])
      precise == N!Zeros(Room(precision - Len(digits))) \o digits
      octal(t) == IF base = "o" /\ Has(p, "#") /\ t[1] # "0" THEN <<"0">> \o t ELSE t
      sign == IF v < 0 THEN <<"-">> ELSE IF Has(p, "+") THEN <<"+">>
              ELSE IF Has(p, " ") THEN <<" ">> ELSE <<>>
      head == sign \o (IF base \in {"x", "X"} /\ Has(p, "#") /\ v # 0 THEN <<"0", base>> ELSE <<>>)
      zeros(t) == IF Has(p, "0") /\ ~Has(p, "-") /\ precision < 0
                  THEN N!Zeros(Room(width - Len(head) - Len(t))) ELSE <<>>
      text(t) == head \o zeros(t) \o t
  IN  text(octal(precise))

\* What C says of one conversion.
TextOf(k) ==
  LET p == parts[k]
      a == args[ValueAt(k)]
      spaces(n) == [j \in 1 .. Room(n) |-> " "]
      padded(t) == IF Has(p, "-") \/ WidthOf(k) < 0 THEN t \o spaces(Size(WidthOf(k)) - Len(t))
                   ELSE spaces(WidthOf(k) - Len(t)) \o t
      cut == IF PrecisionOf(k) \in 0 .. Len(a.text) THEN SubSeq(a.text, 1, PrecisionOf(k))
             ELSE a.text
  IN  IF p.letter # "" THEN <<p.letter>>
      ELSE CASE p.conversion = <<"c">> -> padded(CharText(a.value))
             [] p.conversion = <<"s">> -> padded(cut)
             [] p.conversion = <<"p">> -> padded(IF a.value = 0 THEN Nil ELSE
                                            <<"0", "x">> \o N!FormatBase2e(4, a.value, FALSE))
             [] OTHER -> padded(Number(p, ConvertedValue(p, a), PrecisionOf(k),
                                       IF WidthOf(k) < 0 THEN 0 ELSE WidthOf(k)))

\* A format string is refused if an argument is missing, is of a type the
\* conversion is not for, or indexes are mixed with arguments in order, and if a
\* width, an index or an argument that is a precision does not fit an int; any
\* other is written as C writes it.  Other than in C a sign is written for
\* unsigned conversions too, a zero with precision 0 is written, a precision in
\* digits that does not fit is 0, and zeros before a number count as digits of it
\* (printf.h:303-541, base.h:1319-1342).
PrintfAsC ==
  LET right(c) ==
        /\ c.error = ~WellFormed
        /\ WellFormed => c.out = FlattenSeq([k \in DOMAIN parts |-> TextOf(k)])
  IN  right(VPrintf(Format))

=============================================================================
