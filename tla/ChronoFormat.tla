---------------------------- MODULE ChronoFormat ----------------------------
(***************************************************************************)
(* How fmt formats dates, times and durations (chrono.h): the format is    *)
(* read into calls of handlers, once to check them and once to make them,  *)
(* by tm_writer for times and by duration_formatter for durations.         *)
(* Floating-point durations and other locales than the classic are left    *)
(* out.  A period is num / den seconds, of which one is 1.                 *)
(***************************************************************************)
EXTENDS TmWriter, Writing, TLC

CONSTANTS
  Bits,       \* of the widest integers, of which counts of time are
  IntBits,    \* of int
  Inputs      \* records of the kind of subject, a format, arguments and the subject

VARIABLES
  kind, form, args, subject,
  shown       \* of a kind and a format, what is written of the subject

F == INSTANCE FormatString WITH Bits <- 16, Inputs <- {}, fmt <- <<>>, args <- <<>>

-----------------------------------------------------------------------------
(* parse_chrono_format().                                                  *)

At(f, i) == IF i <= Len(f) THEN f[i] ELSE "end"
Item(call, ns, pad) == [call |-> call, ns |-> ns, pad |-> pad, text |-> <<>>]
Text(c) == [call |-> "text", ns |-> "standard", pad |-> "zero", text |-> <<c>>]

Standard ==
  [Y |-> "year", y |-> "short_year", C |-> "century", G |-> "iso_week_based_year",
   g |-> "iso_week_based_short_year", a |-> "abbr_weekday", A |-> "full_weekday",
   w |-> "dec0_weekday", u |-> "dec1_weekday", b |-> "abbr_month", h |-> "abbr_month",
   B |-> "full_month", m |-> "dec_month", U |-> "dec0_week_of_year",
   W |-> "dec1_week_of_year", V |-> "iso_week_of_year", j |-> "day_of_year",
   d |-> "day_of_month", e |-> "day_of_month", H |-> "24_hour", I |-> "12_hour",
   M |-> "minute", S |-> "second", c |-> "datetime", x |-> "loc_date", X |-> "loc_time",
   D |-> "us_date", F |-> "iso_date", r |-> "12_hour_time", R |-> "24_hour_time",
   T |-> "iso_time", p |-> "am_pm", Q |-> "duration_value", q |-> "duration_unit",
   z |-> "utc_offset", Z |-> "tz_name"]
BehindE ==
  [Y |-> "year", y |-> "offset_year", C |-> "century", c |-> "datetime", x |-> "loc_date",
   X |-> "loc_time", z |-> "utc_offset"]
BehindO ==
  [c \in {"y", "m", "U", "W", "V", "d", "e", "w", "u", "H", "I", "M", "S", "z"} |-> Standard[c]]

\* c has the place, the calls so far, and whether the format is invalid.
Error(c) == [c EXCEPT !.error = TRUE]
Add(c, n, item) == [c EXCEPT !.at = @ + n, !.items = Append(@, item)]

\* The conversion at c, behind its padding.
Conversion(f, c, pad) ==
  LET letter == At(f, c.at)
      second == At(f, c.at + 1)
      padOf(x) == IF x = "e" THEN "space" ELSE pad
      alternative(table) ==
        IF second \notin DOMAIN table THEN Error(c)
        ELSE Add(c, 2, Item(table[second], "alternative", padOf(second)))
  IN  CASE letter = "%" -> Add(c, 1, Text("%"))
        [] letter = "n" -> Add(c, 1, Text("newline"))
        [] letter = "t" -> Add(c, 1, Text("tab"))
        [] letter = "E" -> alternative(BehindE)
        [] letter = "O" -> alternative(BehindO)
        [] letter \in DOMAIN Standard -> Add(c, 1, Item(Standard[letter], "standard", padOf(letter)))
        [] OTHER -> Error(c)
Padded(f, c) ==
  CASE At(f, c.at) = "_" -> Conversion(f, [c EXCEPT !.at = @ + 1], "space")
    [] At(f, c.at) = "-" -> Conversion(f, [c EXCEPT !.at = @ + 1], "none")
    [] OTHER -> Conversion(f, c, "zero")

RECURSIVE ParseFrom(_, _)
ParseFrom(f, c) ==
  IF c.error \/ At(f, c.at) \in {"}", "end"} THEN c
  ELSE ParseFrom(f, IF f[c.at] = "%" THEN Padded(f, [c EXCEPT !.at = @ + 1])
                    ELSE Add(c, 1, Text(f[c.at])))
ParseChronoFormat(f, i) ==
  LET start == [at |-> i, items |-> <<>>, error |-> FALSE] IN
  IF At(f, i) \in {"%", "}", "end"} THEN ParseFrom(f, start) ELSE Error(start)

\* tm_format_checker and chrono_format_checker: the calls they refuse.
TmRefused(timezone) ==
  {"duration_value", "duration_unit"} \cup (IF timezone THEN {} ELSE {"utc_offset", "tz_name"})
DurationCalls ==
  {"text", "day_of_year", "24_hour", "12_hour", "minute", "second", "12_hour_time",
   "24_hour_time", "iso_time", "am_pm", "duration_value", "duration_unit"}
Refused(k, item, precision) ==
  IF k = "duration" THEN item.call \notin DurationCalls \/ (item.call = "duration_value" /\ precision)
  ELSE item.call \in TmRefused(k # "local")

-----------------------------------------------------------------------------
(* The specifiers before the format, by parse() and do_parse().  s is the  *)
(* context of fmt's parsers.                                               *)

ParseAlign(f, s) ==
  IF At(f, s.i + 1) \in DOMAIN F!Aligns
  THEN IF f[s.i] = "}" THEN s
       ELSE IF f[s.i] = "{" THEN F!Fail(s)
       ELSE [s EXCEPT !.specs.fill = f[s.i], !.specs.align = F!Aligns[f[s.i + 1]], !.i = @ + 2]
  ELSE IF f[s.i] \in DOMAIN F!Aligns THEN [s EXCEPT !.specs.align = F!Aligns[f[s.i]], !.i = @ + 1]
  ELSE s

ParseWidth(e, s) ==
  IF ~s.error /\ (At(e.f, s.i) = "{" \/ F!IsDigit(At(e.f, s.i)))
  THEN F!SetWidth(F!ParseDynamicSpec(e, s)) ELSE s
ParsePrecision(e, s) ==
  IF s.error \/ At(e.f, s.i) # "." THEN s ELSE F!SetPrecision(F!ParseDynamicSpec(e, F!Skip(s)))
ParseLocale(f, s) ==
  IF ~s.error /\ At(f, s.i) = "L" THEN [F!Skip(s) EXCEPT !.specs.localized = TRUE] ELSE s

FieldKinds == {"weekday", "day", "month", "year", "date"}
Localizable == {"weekday", "month"}

\* What a formatter has parsed: the specifiers, the calls, and whether it writes
\* a field by the field's own call.  The string must go on with a brace.
Parsed(k, f, s, c, own) ==
  [specs |-> s.specs, items |-> c.items, own |-> own,
   error |-> \/ s.error \/ c.error \/ At(f, c.at) # "}"
             \/ \E j \in DOMAIN c.items :
                  Refused(k, c.items[j], s.specs.precisionRef # F!NoRef \/ s.specs.precision >= 0)]
WithFormat(k, f, s) == Parsed(k, f, s, ParseChronoFormat(f, s.i), FALSE)
AsTm(k, e, start) ==
  LET sized == ParseWidth(e, ParseAlign(e.f, start)) IN
  IF At(e.f, 1) \in {"}", "end"} THEN WithFormat(k, e.f, start)
  ELSE WithFormat(k, e.f, ParseLocale(e.f, IF k = "duration" THEN ParsePrecision(e, sized)
                                            ELSE sized))

\* A weekday and a month look past an L.  Anything else before the brace makes
\* the formatter of std::tm read it all again, the L too.
Parse(k, e) ==
  LET start == F!Specs(F!Context(1))
      behind == IF k \in Localizable THEN ParseLocale(e.f, start) ELSE start
  IN  IF k \in FieldKinds /\ At(e.f, behind.i) \in {"}", "end"}
      THEN Parsed(k, e.f, behind, ParseChronoFormat(e.f, behind.i), TRUE)
      ELSE AsTm(k, e, [start EXCEPT !.specs = behind.specs])

-----------------------------------------------------------------------------
(* Casts of durations.                                                     *)

\* A type of count has its bits and may be signed.
Least(t) == IF t.signed THEN -(2 ^ (t.bits - 1)) ELSE 0
Greatest(t) == IF t.signed THEN 2 ^ (t.bits - 1) - 1 ELSE 2 ^ t.bits - 1
CommonType(a, b) ==
  [bits |-> Bits, signed |-> ~\E t \in {a, b} : t.bits = Bits /\ ~t.signed]
Long == [bits |-> Bits, signed |-> TRUE]
ULong == [bits |-> Bits, signed |-> FALSE]
As(v, t) ==
  LET u == v % 2 ^ t.bits IN IF t.signed /\ u > Greatest(t) THEN u - 2 ^ t.bits ELSE u

\* lossless_integral_conversion().
LosslessConversion(v, to) == [value |-> v, error |-> v \notin Least(to) .. Greatest(to)]

\* Mutant: only the upper bound is checked.
DurationCastBelow(count, num, den, from, to) ==
  LET common == CommonType(from, to)
      c == As(count, common)
      cast(v) == LosslessConversion(Quot(As(v, common), den), to)
  IN  IF num # 1 /\ c > Greatest(common) \div num
      THEN [value |-> 0, error |-> TRUE] ELSE cast(c * num)

\* duration_cast(): what would wrap is an error.
DurationCast(count, num, den, from, to) ==
  LET common == CommonType(from, to)
      c == As(count, common)
      cast(v) == LosslessConversion(Quot(As(v, common), den), to)
  IN  IF num # 1 /\ (c > Greatest(common) \div num \/ c < Quot(Least(common), num))
      THEN [value |-> 0, error |-> TRUE] ELSE cast(c * num)

-----------------------------------------------------------------------------
(* Fractions of seconds.                                                   *)

\* count_fractional_digits: 18 at most, or else 6.
RECURSIVE DigitsFrom(_, _, _)
DigitsFrom(num, den, n) ==
  CASE num % den = 0 -> n [] n = 18 -> 6 [] OTHER -> DigitsFrom((num % den) * 10, den, n + 1)
CountFractionalDigits(num, den) == DigitsFrom(num, den, 0)

Zeros(n) == N!Zeros(n)
Lesser(a, b) == IF a < b THEN a ELSE b

\* The digits that are written of n, with a precision or without.
WithoutPrecision(n, digits, leading) ==
  IF digits = 0 THEN <<>> ELSE <<".">> \o Zeros(leading) \o Decimal(n)
WithPrecision(n, leading, precision) ==
  LET zeros == Lesser(leading, precision)
      remaining == precision - zeros
      numDigits == Len(Decimal(n))
      truncated == n \div 10 ^ (numDigits - remaining)
  IN  IF remaining < numDigits
      THEN <<".">> \o Zeros(zeros) \o (IF truncated # 0 THEN Decimal(truncated) ELSE <<>>)
      ELSE IF n = 0 THEN <<".">> \o Zeros(zeros + remaining)
      ELSE <<".">> \o Zeros(zeros) \o Decimal(n) \o Zeros(remaining - numDigits)

\* write_fractional_seconds(), of a count of the period: a negative count is
\* taken for an unsigned one.
WriteFractionalSeconds(count, den, precision) ==
  LET digits == CountFractionalDigits(1, den)
      subseconds == Quot(Rem(count, den) * 10 ^ digits, den)
      n == As(subseconds, ULong)
      leading == IF digits > Len(Decimal(n)) THEN digits - Len(Decimal(n)) ELSE 0
  IN  IF precision < 0 THEN WithoutPrecision(n, digits, leading)
      ELSE IF precision = 0 THEN <<>>
      ELSE WithPrecision(n, leading, precision)

-----------------------------------------------------------------------------
(* duration_formatter.                                                     *)

\* get_units().
Units(num, den) ==
  CASE <<num, den>> = <<1, 1>> -> "s" [] <<num, den>> = <<1, 1000>> -> "ms"
    [] <<num, den>> = <<1, 100>> -> "cs" [] <<num, den>> = <<1, 10>> -> "ds"
    [] <<num, den>> = <<1, 1000000>> -> "us" [] <<num, den>> = <<1, 1000000000>> -> "ns"
    [] <<num, den>> = <<10, 1>> -> "das" [] <<num, den>> = <<100, 1>> -> "hs"
    [] <<num, den>> = <<1000, 1>> -> "ks" [] <<num, den>> = <<60, 1>> -> "min"
    [] <<num, den>> = <<3600, 1>> -> "h" [] <<num, den>> = <<86400, 1>> -> "d"
    [] OTHER -> ""
FormatDurationUnit(num, den) ==
  IF Units(num, den) # "" THEN Letters(Units(num, den))
  ELSE <<"[">> \o Decimal(num) \o (IF den = 1 THEN <<>> ELSE <<"/">> \o Decimal(den)) \o <<"]", "s">>
FormatDurationValue(v) == (IF v < 0 THEN <<"-">> ELSE <<>>) \o Decimal(Abs(v))

\* d has the absolute value, its whole seconds, the period and the precision;
\* f what was written, and whether a sign is still to be written.
Hour(d) == (d.s \div 3600) % 24
Hour12(d) == IF (d.s \div 3600) % 12 = 0 THEN 12 ELSE (d.s \div 3600) % 12
Minute(d) == (d.s \div 60) % 60
Second(d) == d.s % 60
TimeOf(d) == [hour |-> Hour(d), min |-> Minute(d), sec |-> Second(d), fraction |-> <<>>]

WriteSign(f) ==
  IF f.negative THEN [f EXCEPT !.out = Append(@, "-"), !.negative = FALSE] ELSE f
Put(f, text) == [f EXCEPT !.out = @ \o text]
WriteValue(f, v, width, pad) ==   \* what is no int is refused
  LET digits == Decimal(v)
      written == [WriteSign(f) EXCEPT !.error = @ \/ v >= 2 ^ (IntBits - 1)]
      padding == IF width > Len(digits) THEN WritePadding(pad, width - Len(digits)) ELSE <<>>
  IN  Put(written, padding \o digits)
WriteSecond(f, d, pad) ==
  Put(WriteValue(f, Second(d), 2, pad),
      WriteFractionalSeconds(d.val, d.den, d.precision))
Write24HourTime(f, d) ==
  WriteValue(Put(WriteValue(f, Hour(d), 2, "zero"), <<":">>), Minute(d), 2, "zero")

\* The clock of an alternative numeric system, and the halves of the day, are
\* written by tm_writer, which knows no sign.
DurationItem(f, item, d) ==
  CASE item.call = "text" -> Put(f, item.text)
    [] item.call = "day_of_year" -> WriteValue(f, d.s \div 86400, 0, "zero")
    [] item.call \in Clocks /\ item.ns = "alternative" -> Put(f, OnClock(item, TimeOf(d)))
    [] item.call = "24_hour" -> WriteValue(f, Hour(d), 2, item.pad)
    [] item.call = "12_hour" -> WriteValue(f, Hour12(d), 2, item.pad)
    [] item.call = "minute" -> WriteValue(f, Minute(d), 2, item.pad)
    [] item.call = "second" -> WriteSecond(f, d, item.pad)
    [] item.call = "12_hour_time" -> Put(f, On12HourTime(TimeOf(d)))
    [] item.call = "am_pm" -> Put(f, OnName(item, TimeOf(d)))
    [] item.call = "24_hour_time" -> Write24HourTime(f, d)
    [] item.call = "iso_time" -> WriteSecond(Put(Write24HourTime(f, d), <<":">>), d, "zero")
    [] item.call = "duration_value" -> Put(WriteSign(f), Decimal(d.val))
    [] item.call = "duration_unit" -> Put(f, FormatDurationUnit(d.num, d.den))

\* format() of a duration of count periods.
FormatDuration(p, v, precision) ==
  LET cast == DurationCast(Abs(v.count), v.num, v.den, ULong, ULong)
      d == [val |-> Abs(v.count), s |-> cast.value, num |-> v.num, den |-> v.den,
            precision |-> precision]
      written == FoldLeft(LAMBDA f, item : DurationItem(f, item, d),
                          [out |-> <<>>, negative |-> v.count < 0, error |-> FALSE], p.items)
  IN  IF p.items = <<>>
      THEN [text |-> FormatDurationValue(v.count) \o FormatDurationUnit(v.num, v.den),
            error |-> FALSE, asserts |-> FALSE]
      ELSE [text |-> written.out, error |-> cast.error \/ written.error, asserts |-> FALSE]

-----------------------------------------------------------------------------
(* Times.                                                                  *)

WithFraction(tm, count, den) == [tm EXCEPT !.fraction = WriteFractionalSeconds(count, den, -1)]

\* Mutant: the second that a fraction before it ends in is not looked at.
SysTmLate(v) ==
  LET seconds == Quot(v.count, v.den)
      subsecs == v.count - seconds * v.den
      utc(tm) == [tm EXCEPT !.zone = "UTC"]
  IN  IF v.den = 1 THEN utc(Gmtime(seconds))
      ELSE IF subsecs >= 0 THEN WithFraction(Gmtime(seconds), subsecs, v.den)
      ELSE WithFraction(Gmtime(seconds), subsecs + v.den, v.den)

\* formatter<sys_time>: a fraction before the epoch is one of the second before.
SysTm(v) ==
  LET seconds == Quot(v.count, v.den)
      subsecs == v.count - seconds * v.den
      tm == Gmtime(seconds)
      utc(t) == [t EXCEPT !.zone = "UTC"]
  IN  IF v.den = 1 THEN utc(tm)
      ELSE IF subsecs >= 0 THEN WithFraction(tm, subsecs, v.den)
      ELSE WithFraction(IF tm.sec # 0 THEN [tm EXCEPT !.sec = @ - 1]
                        ELSE utc(Gmtime(Quot(v.count - v.den, v.den))),
                        subsecs + v.den, v.den)

\* formatter<local_time>: nothing is done for times before the epoch.
LocalTm(v) ==
  LET seconds == Quot(v.count, v.den) IN
  IF v.den = 1 THEN Gmtime(seconds)
  ELSE WithFraction(Gmtime(seconds), v.count - seconds * v.den, v.den)

\* The formatters of a weekday, day, month, year and date alone: what they are
\* not given is 0, the day of the month too, and there is no zone.
NoTm ==
  [year |-> 1900, yday |-> 0, mon |-> 0, mday |-> 0, wday |-> 0, hour |-> 0, min |-> 0,
   sec |-> 0, gmtoff |-> 0, zone |-> "", fraction |-> <<>>]
FieldTm(k, v) ==
  CASE k = "weekday" -> [NoTm EXCEPT !.wday = v.count % 7]
    [] k = "day" -> [NoTm EXCEPT !.mday = v.count]
    [] k = "month" -> [NoTm EXCEPT !.mon = v.count - 1]
    [] k = "year" -> [NoTm EXCEPT !.year = v.count]
    [] k = "date" -> [NoTm EXCEPT !.year = v.year, !.mon = v.month - 1, !.mday = v.day]
FieldCall(k) ==
  CASE k = "weekday" -> "abbr_weekday" [] k = "day" -> "day_of_month" [] k = "month" -> "abbr_month"
    [] k = "year" -> "year" [] k = "date" -> "iso_date"

\* Mutant: a field without a format makes its own call, whatever its width.
CallsOwn(k, p) ==
  IF p.items # <<>> THEN p.items
  ELSE IF k \in FieldKinds THEN <<Item(FieldCall(k), "standard", "zero")>>
  ELSE <<Item("iso_date", "standard", "zero"), Text(" "), Item("iso_time", "standard", "zero")>>

\* The formatter of std::tm writes %F %T if it has no format.
Calls(k, p) ==
  IF p.own THEN <<Item(FieldCall(k), "standard", "zero")>>
  ELSE IF p.items # <<>> THEN p.items
  ELSE <<Item("iso_date", "standard", "zero"), Text(" "), Item("iso_time", "standard", "zero")>>

\* The calls that assert that there is a day of the month.  A build without
\* NDEBUG stops there, others write 00.
MdayCalls == {"day_of_month", "us_date", "loc_date", "iso_date", "datetime"}
FormatTm(k, p, tm) ==
  LET items == Calls(k, p) IN
  [text |-> FlattenSeq([j \in DOMAIN items |-> TmText(items[j], tm)]), error |-> FALSE,
   asserts |-> tm.mday = 0 /\ \E j \in DOMAIN items : items[j].call \in MdayCalls]

TmOfSubject(k, v) ==
  CASE k = "tm" -> v [] k = "sys" -> SysTm(v) [] k = "local" -> LocalTm(v)
    [] k \in FieldKinds -> FieldTm(k, v)
FormatSubject(k, p, v, precision) ==
  IF k = "duration" THEN FormatDuration(p, v, precision) ELSE FormatTm(k, p, TmOfSubject(k, v))

\* The text, padded to the width; widths and precisions may be arguments.
Format(k, f, v, as) ==
  LET e == [f |-> f, args |-> as, checking |-> FALSE]
      sized(ref, n) == IF ref = F!NoRef THEN n ELSE F!HandleDynamicSpec(e, ref)
      width(p) == sized(p.specs.widthRef, p.specs.width)
      precision(p) == sized(p.specs.precisionRef, p.specs.precision)
      bad(p) == \/ p.specs.widthRef # F!NoRef /\ width(p) < 0
                \/ p.specs.precisionRef # F!NoRef /\ precision(p) < 0
      padded(p, r) ==
        [error |-> r.error, asserts |-> r.asserts,
         text |-> WritePadded([p.specs EXCEPT !.fill = <<@>>, !.width = width(p)], "left",
                              Len(r.text), r.text)]
      formatted(p) == IF p.error \/ bad(p) THEN [error |-> TRUE, asserts |-> FALSE, text |-> <<>>]
                      ELSE padded(p, FormatSubject(k, p, v, precision(p)))
  IN  formatted(Parse(k, e))

-----------------------------------------------------------------------------
(* A subject is written in its format and, with an empty one, in all the   *)
(* formats that the properties compare.                                    *)

TwoWays ==   \* conversions that are made at once, and their parts
  {<<<<"%", "C", "%", "y">>, <<"%", "Y">>>>, <<<<"%", "X">>, <<"%", "T">>>>,
   <<<<"%", "D">>, <<"%", "m", "/", "%", "d", "/", "%", "y">>>>,
   <<<<"%", "F">>, <<"%", "Y", "-", "%", "m", "-", "%", "d">>>>,
   <<<<"%", "T">>, <<"%", "H", ":", "%", "M", ":", "%", "S">>>>,
   <<<<"%", "r">>, <<"%", "I", ":", "%", "M", ":", "%", "S", " ", "%", "p">>>>,
   <<<<"%", "c">>, <<"%", "a", " ", "%", "b", " ", "%", "e", " ", "%", "T", " ", "%", "_", "Y">>>>}
Numbers == {"U", "W", "V", "G", "g", "Y", "j", "m", "d", "w", "u", "H", "I", "M", "S", "z"}
Paddable == {"d", "m", "H", "M", "I", "S", "U", "W", "V", "Y", "j"}
DateForms ==
  {<<"%", c>> : c \in Numbers} \cup {<<"%", p, c>> : p \in {"-", "_"}, c \in Paddable}
  \cup UNION {{w[1], w[2]} : w \in TwoWays}

Whole == <<"%", "j", " ", "%", "H", ":", "%", "M", ":", "%", "S">>
Clock == <<"%", "j", " ", "%", "T">>
Half == <<"%", "Q", "x", "%", "I">>
Precise(p) == <<".", N!Lower[p + 1], "%", "S">>
DurationForms == {Whole, Clock, Half, <<"%", "p">>, <<"%", "Q">>} \cup {Precise(p) : p \in 0 .. 7}

DateAndTime == <<"%", "F", " ", "%", "T">>

\* The conversions of a format alone.  Without any it is a duration's count and
\* unit; the field's own, if nothing goes before the brace but what a weekday or
\* a month reads itself; and otherwise date and time.
Own(k) ==
  CASE k = "weekday" -> <<"%", "a">> [] k = "day" -> <<"%", "d">> [] k = "month" -> <<"%", "b">>
    [] k = "year" -> <<"%", "Y">> [] k = "date" -> <<"%", "F">>
    [] k = "duration" -> <<"%", "Q", "%", "q">>
Bare(k, f) ==
  \/ k = "duration"
  \/ k \in FieldKinds /\ f = <<"}">>
  \/ k \in {"weekday", "month"} /\ f = <<"L", "}">>
Plain(k, f) ==
  LET conversions == {j \in DOMAIN f : f[j] = "%"}
      first == CHOOSE j \in conversions : \A i \in conversions : j <= i
  IN  IF conversions # {} THEN SubSeq(f, first, Len(f) - 1)
      ELSE IF Bare(k, f) THEN Own(k) ELSE DateAndTime

Compared(k, f) ==
  CASE k = "cast" -> {}
    [] k = "sys" -> {<<"sys", DateAndTime>>, <<"local", DateAndTime>>}
    [] k = "tm" /\ f = <<"}">> -> {"tm"} \X DateForms
    [] k = "duration" /\ f = <<"}">> -> {"duration"} \X DurationForms
    [] f[1] = "*" \/ k \in FieldKinds -> {<<k, Front(f)>>, <<k, Plain(k, f)>>}
    [] OTHER -> {}

Init ==
  \E in \in Inputs :
    /\ kind = in.kind /\ form = in.form /\ args = in.args /\ subject = in.subject
    /\ shown = [q \in Compared(kind, form) |-> Format(q[1], q[2] \o <<"}">>, subject, args)]

-----------------------------------------------------------------------------
(* Properties.                                                             *)

ShownBy(f) == shown[kind, f].text
IsDigit(c) == \E d \in 1 .. 10 : N!Lower[d] = c
NumberOf(text) ==
  LET n == FoldLeft(LAMBDA v, c : v * 10 + F!Digit(c), 0, SelectSeq(text, IsDigit)) IN
  IF \E k \in DOMAIN text : text[k] = "-" THEN -n ELSE n

\* The conversions of each kind of subject.
AnyClock == {"H", "I", "M", "S"}
Literals == {"%", "n", "t"}
ConversionsOf(k) ==
  LET letters(set) == {<<c>> : c \in set}
      behind(c, set) == {<<c, x>> : x \in set}
      zone == IF k = "local" THEN {} ELSE {"z"}
      name == IF k = "local" THEN {} ELSE {"Z"}
      time == {"j", "r", "R", "T", "p"} \cup AnyClock \cup Literals
      date == {"Y", "y", "C", "G", "g", "a", "A", "w", "u", "b", "h", "B", "m", "U", "W", "V", "d",
               "e", "c", "x", "X", "D", "F"}
  IN  IF k = "duration" THEN letters(time \cup {"Q", "q"}) \cup behind("O", AnyClock)
      ELSE letters(time \cup date \cup zone \cup name)
           \cup behind("E", {"Y", "y", "C", "c", "x", "X"} \cup zone)
           \cup behind("O", {"y", "m", "U", "W", "V", "d", "e", "w", "u"} \cup AnyClock \cup zone)
RECURSIVE ByGrammar(_, _)
ByGrammar(k, x) ==
  \/ x = <<>>
  \/ x[1] # "%" /\ ByGrammar(k, Tail(x))
  \/ x[1] = "%" /\ \E n \in 2 .. Len(x) :
       /\ \/ SubSeq(x, 2, n) \in ConversionsOf(k)
          \/ x[2] \in {"_", "-"} /\ SubSeq(x, 3, n) \in ConversionsOf(k)
       /\ ByGrammar(k, SubSeq(x, n + 1, Len(x)))

\* A format is accepted if it begins with a conversion and all its conversions
\* are ones of the kind of subject, and no integer value has a precision
\* (chrono.h:632-774, 825-876, 1474-1495).
FormatsByGrammar ==
  LET x == Front(form)
      refused == Parse(kind, [f |-> form, args |-> args, checking |-> FALSE]).error
  IN  /\ kind \in {"tm", "local", "duration"} /\ x # <<>> /\ x[1] \notin {"*", "."} =>
           refused = (x[1] # "%" \/ ~ByGrammar(kind, x))
      /\ x # <<>> /\ x[1] = "." => refused = (x[4] = "Q")

\* Weeks, counted day by day: the week of an ISO year is that of its Thursday.
Sundays(tm, day) ==
  Cardinality({d \in 0 .. tm.yday : (tm.wday - (tm.yday - d)) % 7 = day})
Length(year) == IF IsLeap(year) THEN 366 ELSE 365
IsoWeek(tm) ==
  LET thursday == tm.yday + 3 - ((tm.wday + 6) % 7) IN
  CASE thursday < 0 -> [year |-> tm.year - 1, week |-> (thursday + Length(tm.year - 1)) \div 7 + 1]
    [] thursday >= Length(tm.year) ->
         [year |-> tm.year + 1, week |-> (thursday - Length(tm.year)) \div 7 + 1]
    [] OTHER -> [year |-> tm.year, week |-> thursday \div 7 + 1]

\* Each conversion of a date says what the calendar says, the century and the
\* short year together are the year, and the forms that are made at once are
\* the same as their parts (chrono.h:1093-1467).
NumbersOf(tm, week) ==   \* the conversions that are numbers, and what they say
  {<<"U", Sundays(tm, 0)>>, <<"W", Sundays(tm, 1)>>, <<"Y", tm.year>>, <<"j", tm.yday + 1>>,
   <<"m", tm.mon + 1>>, <<"d", tm.mday>>, <<"w", tm.wday>>, <<"H", tm.hour>>,
   <<"u", IF tm.wday = 0 THEN 7 ELSE tm.wday>>,
   <<"I", IF tm.hour \in {0, 12} THEN 12 ELSE tm.hour % 12>>,
   <<"z", Quot(tm.gmtoff, 3600) * 100 + Rem(Quot(tm.gmtoff, 60), 60)>>}
  \cup (IF tm.year > 0 THEN {<<"V", week.week>>, <<"G", week.year>>, <<"g", week.year % 100>>} ELSE {})
DatesShown ==
  kind = "tm" /\ form = <<"}">> =>
    /\ \A n \in NumbersOf(subject, IsoWeek(subject)) : NumberOf(ShownBy(<<"%", n[1]>>)) = n[2]
    /\ \A w \in TwoWays : ShownBy(w[1]) = ShownBy(w[2])
    /\ Len(ShownBy(<<"%", "Y">>)) >= 4

\* Padding changes no number: spaces keep its width, and without padding it
\* leads with no zero; but the tens of the day of the year are padded as if they
\* led it, and 105 becomes 15 (chrono.h:1384-1393).
PaddingKept ==
  LET kept(zero, bare, space) ==
        /\ NumberOf(bare) = NumberOf(zero) /\ NumberOf(space) = NumberOf(zero)
        /\ Len(space) = Len(zero) /\ (Len(bare) > 1 => bare[1] # "0")
        /\ SelectSeq(space, LAMBDA x : x # " ") = bare
      exception(c) == c = "j" /\ subject.yday >= 99 /\ (subject.yday + 1) % 100 < 10
  IN  kind = "tm" /\ form = <<"}">> =>
        \A c \in Paddable :
          exception(c) \/ kept(ShownBy(<<"%", c>>), ShownBy(<<"%", "-", c>>), ShownBy(<<"%", "_", c>>))

\* The digits of a fraction of a second that its period has room for.
FractionOf(count, den) ==
  LET exact == {k \in 0 .. 6 : (10 ^ k) % den = 0}
      digits == IF exact = {} THEN 6 ELSE CHOOSE k \in exact : \A j \in exact : k <= j
      part(k) == (((count % den) * 10 ^ k) \div den) % 10
  IN  [k \in 1 .. digits |-> N!Lower[part(k) + 1]]
Behind(fraction) == IF fraction = <<>> THEN <<>> ELSE <<".">> \o fraction
Until(text, c) == SubSeq(text, 1, (CHOOSE k \in DOMAIN text : text[k] = c) - 1)
After(text, c) ==
  IF \E k \in DOMAIN text : text[k] = c
  THEN SubSeq(text, (CHOOSE k \in DOMAIN text : text[k] = c) + 1, Len(text)) ELSE <<>>

\* A duration's days, hours, minutes, seconds and fraction make the duration, with
\* one sign before them all, whatever the period; and what would wrap a count of
\* seconds, or days that are no int, is refused (chrono.h:425-451, 1614-1834).
Recombined(t, seconds, fraction) ==
  LET hms == After(t, " ")
      days == NumberOf(Until(t, " "))
      part(k) == NumberOf(SubSeq(hms, 3 * k - 2, 3 * k - 1))
  IN  /\ Abs(days) * 86400 + part(1) * 3600 + part(2) * 60 + part(3) = seconds
      /\ SubSeq(hms, 9, Len(hms)) = Behind(fraction)
      /\ {k \in DOMAIN t : t[k] = "-"} = (IF subject.count < 0 THEN {1} ELSE {})
DurationsShown ==
  LET count == Abs(subject.count)
      seconds == (count \div subject.den) * subject.num
      hour == (seconds \div 3600) % 24
      failed(f) == shown["duration", f].error
      exact(p, t, fraction) ==
        SubSeq(t, IF subject.count < 0 THEN 4 ELSE 3, Len(t))
          = Behind([k \in 1 .. p |-> IF k <= Len(fraction) THEN fraction[k] ELSE "0"])
      right(fraction) ==
        /\ \A f \in DurationForms : failed(f) =
             \/ count > Greatest(ULong) \div subject.num
             \/ f \in {Whole, Clock} /\ seconds \div 86400 >= 2 ^ (IntBits - 1)
        /\ ~failed(Whole) =>
             /\ ShownBy(Clock) = ShownBy(Whole) /\ Recombined(ShownBy(Whole), seconds, fraction)
             /\ \A p \in 0 .. 7 : exact(p, ShownBy(Precise(p)), fraction)
             /\ NumberOf(After(ShownBy(Half), "x"))
                  = (IF hour \in {0, 12} THEN 12 ELSE hour % 12)
             /\ ShownBy(<<"%", "p">>) = (IF hour < 12 THEN <<"A", "M">> ELSE <<"P", "M">>)
             /\ NumberOf(ShownBy(<<"%", "Q">>)) = subject.count
  IN  kind = "duration" /\ form = <<"}">> => right(FractionOf(count, subject.den))

\* A point in time shows the second it lies in and its fraction behind, before
\* the epoch too; for local_time that holds from the epoch on
\* (chrono.h:2172-2240).
InstantsShown ==
  LET v == subject
      kinds == IF v.count >= 0 \/ v.count % v.den = 0 THEN {"sys", "local"} ELSE {"sys"}
      right(text) ==
        \A k \in kinds : shown[k, DateAndTime].text = text \o Behind(FractionOf(v.count, v.den))
      second(items) == right(FlattenSeq([j \in DOMAIN items |->
                                           TmText(items[j], Gmtime(v.count \div v.den))]))
  IN  kind = "sys" => second(ParseChronoFormat(DateAndTime, 1).items)

\* A cast keeps the value, rounded towards zero, or is refused; but a negative
\* count wraps before it is cast to the widest unsigned type
\* (chrono.h:425-451).
CastsExact ==
  LET v == subject
      exact == Quot(v.count * v.num, v.den)
      common == CommonType(v.from, v.to)
      wraps == v.count < 0 /\ ~common.signed
      right(cast) ==
        /\ ~cast.error => cast.value = exact
        /\ cast.error => \/ exact \notin Least(v.to) .. Greatest(v.to)
                         \/ v.count * v.num \notin Least(common) .. Greatest(common)
  IN  kind = "cast" /\ ~wraps => right(DurationCast(v.count, v.num, v.den, v.from, v.to))

\* The number that the digits of a field's date make: what is not given is of the
\* 0th of January 1900.
Dated(k, v) ==
  CASE k = "weekday" -> 19000100 [] k = "day" -> 19000100 + v.count
    [] k = "month" -> 19000000 + 100 * v.count [] k = "year" -> 10000 * Abs(v.count) + 100
    [] k = "date" -> 10000 * Abs(v.year) + 100 * v.month + v.day
NeedsDay(f) == \E j \in DOMAIN f : f[j] = "%" /\ f[j + 1] \in {"d", "e", "D", "F", "c", "x"}

\* A width makes room for more and cuts nothing; a width or precision that is an
\* argument is refused if it is none.  A field alone is written as its own
\* conversion would be, but with a width and no conversion as a whole date and
\* time, of which it has the one part; then, and wherever a day of the month is
\* asked for that is not given, a build with assertions stops
\* (chrono.h:1069-1072, 1906-2160).
WidthsKept ==
  LET fixed(width, r, body) ==
        /\ r.error = body.error
        /\ ~r.error =>
             /\ Len(r.text) = IF width > Len(body.text) THEN width ELSE Len(body.text)
             /\ SelectSeq(r.text, LAMBDA c : c # "*") = body.text
      width == IF form[3] = "9" THEN 9
               ELSE IF args # <<>> /\ args[1].type = "int" THEN args[1].value ELSE -1
      right(r, plain) ==
        IF form[1] = "*" THEN IF width < 0 THEN r.error ELSE fixed(width, r, plain) ELSE r = plain
      incomplete(r, f) ==
        /\ f = DateAndTime => Abs(NumberOf(Until(r.text, " "))) = Dated(kind, subject)
        /\ r.asserts = (kind \in {"weekday", "month", "year"} /\ NeedsDay(f))
  IN  /\ form[1] = "*" \/ kind \in FieldKinds =>
           right(shown[kind, Front(form)], shown[kind, Plain(kind, form)])
      /\ kind \in FieldKinds =>
           incomplete(shown[kind, Plain(kind, form)], Plain(kind, form))

=============================================================================
