------------------------------ MODULE TmWriter ------------------------------
(***************************************************************************)
(* tm_writer of fmt (chrono.h): a broken-down time is written by the       *)
(* handlers of a chrono format, in the classic locale.  An item is a call  *)
(* of a handler, with its numeric system and its padding; a text is a      *)
(* sequence of one-letter strings.                                         *)
(***************************************************************************)
EXTENDS Integers, Sequences, SequencesExt

N == INSTANCE IntegerWriting WITH
  Bits <- 31, CharMax <- 127, Inputs <- {}, value <- 0, type <- "int", specs <- 0, locale <- 0

Letters(s) == [k \in 1 .. Len(s) |-> SubSeq(s, k, k)]
Weekdays == <<"Sunday", "Monday", "Tuesday", "Wednesday", "Thursday", "Friday", "Saturday">>
Months ==
  <<"January", "February", "March", "April", "May", "June", "July", "August", "September",
    "October", "November", "December">>
FullName(names, k) == Letters(names[k + 1])
ShortName(names, k) == Letters(SubSeq(names[k + 1], 1, 3))

\* Division and remainder of C, which round towards zero.
Quot(a, b) == IF a < 0 THEN -((-a) \div b) ELSE a \div b
Rem(a, b) == IF a < 0 THEN -((-a) % b) ELSE a % b
Abs(n) == IF n < 0 THEN -n ELSE n

-----------------------------------------------------------------------------
(* Numbers.                                                                *)

Decimal(n) == N!FormatDecimal(n)
WritePadding(pad, width) ==
  IF pad = "none" THEN <<>> ELSE [k \in 1 .. width |-> IF pad = "space" THEN " " ELSE "0"]
Write1(v) == <<N!Lower[(v % 10) + 1]>>
Write2(v) == N!Write2Digits(v % 100)
Write2Padded(v, pad) ==
  IF v % 100 >= 10 THEN Write2(v) ELSE WritePadding(pad, 1) \o Write1(v % 100)

\* write_digit2_separated(): the three numbers become binary-coded decimals in
\* one product, each in bits of its own.
Bcd(v) == v + (((v * 205) \div 2 ^ 11) % 16) * 6
BcdDigits(v) == <<N!Lower[Bcd(v) \div 16 + 1], N!Lower[(Bcd(v) % 16) + 1]>>
Digit2Separated(a, b, c, sep) ==
  BcdDigits(a) \o <<sep>> \o BcdDigits(b) \o <<sep>> \o BcdDigits(c)

\* write_year_extended(): four characters at least.
WriteYear(year, pad) ==
  LET digits == Decimal(Abs(year))
      width == IF year < 0 THEN 3 ELSE 4
      padding == IF width > Len(digits) THEN WritePadding(pad, width - Len(digits)) ELSE <<>>
      minus == IF year < 0 THEN <<"-">> ELSE <<>>
  IN  (IF pad = "zero" THEN minus \o padding ELSE padding \o minus) \o digits

\* write_utc_offset(), of seconds.
WriteUtcOffset(offset, ns) ==
  LET minutes == Abs(offset) \div 60 IN
  <<IF offset < 0 THEN "-" ELSE "+">> \o Write2(minutes \div 60)
    \o (IF ns = "standard" THEN <<>> ELSE <<":">>) \o Write2(minutes % 60)

-----------------------------------------------------------------------------
(* Years and weeks.                                                        *)

SplitYearLower(year) == Abs(Rem(year, 100))
WeekShift(year) == Rem(year + Quot(year, 4) - Quot(year, 100) + Quot(year, 400), 7)
IsoYearWeeks(year) == 52 + (IF WeekShift(year) = 4 \/ WeekShift(year - 1) = 3 THEN 1 ELSE 0)
IsoWeekNum(tm) == (tm.yday + 11 - (IF tm.wday = 0 THEN 7 ELSE tm.wday)) \div 7

\* Mutant: the last days of a year are never in the first week of the next.
IsoWeekYearNever(tm) == IF IsoWeekNum(tm) < 1 THEN tm.year - 1 ELSE tm.year

TmIsoWeekYear(tm) ==
  IF IsoWeekNum(tm) < 1 THEN tm.year - 1
  ELSE IF IsoWeekNum(tm) > IsoYearWeeks(tm.year) THEN tm.year + 1
  ELSE tm.year
TmIsoWeekOfYear(tm) ==
  IF IsoWeekNum(tm) < 1 THEN IsoYearWeeks(tm.year - 1)
  ELSE IF IsoWeekNum(tm) > IsoYearWeeks(tm.year) THEN 1
  ELSE IsoWeekNum(tm)

\* The century and the short year together say what the year says.
Century(year) ==
  IF year \in -99 .. -1 THEN <<"-", "0">>
  ELSE IF year \in 0 .. 9999 THEN Write2(year \div 100)
  ELSE WriteYear(Quot(year, 100), "none")

\* %j.  The tens are padded as if they led the number.
DayOfYear(tm, pad) ==
  LET yday == tm.yday + 1 IN
  (IF yday >= 100 THEN Write1(yday \div 100) ELSE WritePadding(pad, 1))
    \o Write2Padded(yday % 100, pad)

TmHour12(tm) == IF tm.hour % 12 = 0 THEN 12 ELSE tm.hour % 12

-----------------------------------------------------------------------------
(* The calendar of the C library, with no clock of its own.                *)

IsLeap(year) == year % 4 = 0 /\ (year % 100 # 0 \/ year % 400 = 0)
DaysTo(year) ==   \* from the first day of year 1, which was a Monday
  LET y == year - 1 IN 365 * y + y \div 4 - y \div 100 + y \div 400
MonthStarts(leap) ==
  [m \in 1 .. 13 |-> <<0, 31, 59, 90, 120, 151, 181, 212, 243, 273, 304, 334, 365>>[m]
                     + (IF leap /\ m > 2 THEN 1 ELSE 0)]
TmOf(year, yday, seconds) ==
  LET starts == MonthStarts(IsLeap(year))
      m == CHOOSE k \in 1 .. 12 : yday \in starts[k] .. starts[k + 1] - 1
  IN  [year |-> year, yday |-> yday, mon |-> m - 1, mday |-> yday - starts[m] + 1,
       wday |-> (DaysTo(year) + yday + 1) % 7, hour |-> seconds \div 3600,
       min |-> (seconds \div 60) % 60, sec |-> seconds % 60, gmtoff |-> 0, zone |-> "GMT",
       fraction |-> <<>>]

\* gmtime_r() of the C library.
Gmtime(t) ==
  LET day == t \div 86400 + DaysTo(1970)
      year == CHOOSE y \in day \div 366 .. day \div 365 + 1 : DaysTo(y) <= day /\ day < DaysTo(y + 1)
  IN  TmOf(year, day - DaysTo(year), t % 86400)

-----------------------------------------------------------------------------
(* The handlers, by what they write.                                       *)

OnName(item, tm) ==
  CASE item.call = "abbr_weekday" -> ShortName(Weekdays, tm.wday)
    [] item.call = "full_weekday" -> FullName(Weekdays, tm.wday)
    [] item.call = "abbr_month" -> ShortName(Months, tm.mon)
    [] item.call = "full_month" -> FullName(Months, tm.mon)
    [] item.call = "am_pm" -> <<IF tm.hour < 12 THEN "A" ELSE "P", "M">>
    [] item.call = "tz_name" -> Letters(tm.zone)
Names == {"abbr_weekday", "full_weekday", "abbr_month", "full_month", "am_pm", "tz_name"}

OnYear(item, tm) ==
  CASE item.call = "year" -> WriteYear(tm.year, item.pad)
    [] item.call \in {"short_year", "offset_year"} -> Write2(SplitYearLower(tm.year))
    [] item.call = "century" -> Century(tm.year)
    [] item.call = "iso_week_based_year" -> WriteYear(TmIsoWeekYear(tm), "zero")
    [] item.call = "iso_week_based_short_year" -> Write2(SplitYearLower(TmIsoWeekYear(tm)))
Years ==
  {"year", "short_year", "offset_year", "century", "iso_week_based_year",
   "iso_week_based_short_year"}

OnDay(item, tm) ==
  CASE item.call = "dec0_weekday" -> Write1(tm.wday)
    [] item.call = "dec1_weekday" -> Write1(IF tm.wday = 0 THEN 7 ELSE tm.wday)
    [] item.call = "dec_month" -> Write2Padded(tm.mon + 1, item.pad)
    [] item.call = "day_of_month" -> Write2Padded(tm.mday, item.pad)
    [] item.call = "day_of_year" -> DayOfYear(tm, item.pad)
Days == {"dec0_weekday", "dec1_weekday", "dec_month", "day_of_month", "day_of_year"}

OnWeek(item, tm) ==
  CASE item.call = "dec0_week_of_year" -> Write2Padded((tm.yday + 7 - tm.wday) \div 7, item.pad)
    [] item.call = "dec1_week_of_year" ->
         Write2Padded((tm.yday + 7 - (IF tm.wday = 0 THEN 6 ELSE tm.wday - 1)) \div 7, item.pad)
    [] item.call = "iso_week_of_year" -> Write2Padded(TmIsoWeekOfYear(tm), item.pad)
Weeks == {"dec0_week_of_year", "dec1_week_of_year", "iso_week_of_year"}

\* tm.fraction is what write_fractional_seconds() puts behind the seconds.
OnSecond(tm, pad) == Write2Padded(tm.sec, pad) \o tm.fraction
OnClock(item, tm) ==
  CASE item.call = "24_hour" -> Write2Padded(tm.hour, item.pad)
    [] item.call = "12_hour" -> Write2Padded(TmHour12(tm), item.pad)
    [] item.call = "minute" -> Write2Padded(tm.min, item.pad)
    [] item.call = "second" -> OnSecond(tm, item.pad)
Clocks == {"24_hour", "12_hour", "minute", "second"}

OnUsDate(tm) == Digit2Separated(tm.mon + 1, tm.mday, SplitYearLower(tm.year), "/")
OnIsoDate(tm) ==
  IF tm.year \in 0 .. 9999
  THEN Write2(tm.year \div 100) \o Digit2Separated(tm.year % 100, tm.mon + 1, tm.mday, "-")
  ELSE WriteYear(tm.year, "zero") \o SubSeq(Digit2Separated(0, tm.mon + 1, tm.mday, "-"), 3, 8)
On24HourTime(tm) == Write2(tm.hour) \o <<":">> \o Write2(tm.min)
OnIsoTime(tm) == On24HourTime(tm) \o <<":">> \o OnSecond(tm, "zero")
On12HourTime(tm) ==
  Digit2Separated(TmHour12(tm), tm.min, tm.sec, ":")
    \o <<" ", IF tm.hour < 12 THEN "A" ELSE "P", "M">>
OnDatetime(tm) ==
  ShortName(Weekdays, tm.wday) \o <<" ">> \o ShortName(Months, tm.mon) \o <<" ">>
    \o Write2Padded(tm.mday, "space") \o <<" ">> \o OnIsoTime(tm) \o <<" ">>
    \o WriteYear(tm.year, "space")

\* What one call writes.
TmText(item, tm) ==
  CASE item.call = "text" -> item.text
    [] item.call \in Names -> OnName(item, tm)
    [] item.call \in Years -> OnYear(item, tm)
    [] item.call \in Days -> OnDay(item, tm)
    [] item.call \in Weeks -> OnWeek(item, tm)
    [] item.call \in Clocks -> OnClock(item, tm)
    [] item.call \in {"us_date", "loc_date"} -> OnUsDate(tm)
    [] item.call = "iso_date" -> OnIsoDate(tm)
    [] item.call = "24_hour_time" -> On24HourTime(tm)
    [] item.call \in {"iso_time", "loc_time"} -> OnIsoTime(tm)
    [] item.call = "12_hour_time" -> On12HourTime(tm)
    [] item.call = "datetime" -> OnDatetime(tm)
    [] item.call = "utc_offset" -> WriteUtcOffset(tm.gmtoff, item.ns)

=============================================================================
