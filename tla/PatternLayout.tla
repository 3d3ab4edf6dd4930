--------------------------- MODULE PatternLayout ----------------------------
(***************************************************************************)
(* How spdlog's pattern_formatter (pattern_formatter-inl.h) reads a        *)
(* pattern and lays out a line by it.  A pattern is a sequence of          *)
(* one-letter strings.  Of the text a flag writes only the size counts: a  *)
(* line is a sequence of marks, each the flag's place in the list of       *)
(* formatters, or Space.                                                   *)
(***************************************************************************)
EXTENDS Integers, Sequences, SequencesExt

CONSTANTS
  Patterns,    \* the patterns tried
  Messages     \* the messages tried: what the flags print, mostly by its size

VARIABLES pattern, msg

Digits == <<"0", "1", "2", "3", "4", "5", "6", "7", "8", "9">>
IsDigit(c) == \E d \in 1 .. 10 : Digits[d] = c
Value(c) == (CHOOSE d \in 1 .. 10 : Digits[d] = c) - 1
MaxWidth == 64
Space == 0

-----------------------------------------------------------------------------
(* Reading the pattern.                                                    *)

NoPadding == [width |-> 0, side |-> "left", truncate |-> FALSE, enabled |-> FALSE]

\* The first place from i on that has no digit.
AfterDigits(p, i) ==
  CHOOSE j \in i .. Len(p) + 1 :
    /\ \A k \in i .. j - 1 : IsDigit(p[k])
    /\ j = Len(p) + 1 \/ ~IsDigit(p[j])

\* A width is a size_t: four limbs of 16 bits, the lowest first.  What a digit
\* carries out of the highest is lost.
Limb == 65536
Zero == <<0, 0, 0, 0>>
AddDigit(w, digit) ==
  LET a == 10 * w[1] + digit
      b == 10 * w[2] + a \div Limb
      c == 10 * w[3] + b \div Limb
      d == 10 * w[4] + c \div Limb
  IN  <<a % Limb, b % Limb, c % Limb, d % Limb>>

\* Mutant: the width is limited to what there are spaces for at each digit.
WidthSaturates(p, i, j) ==
  FoldLeft(LAMBDA w, c : IF 10 * w + Value(c) > MaxWidth THEN MaxWidth ELSE 10 * w + Value(c),
           0, SubSeq(p, i, j - 1))

\* The width in the digits from i to j - 1, limited when all of them are read.
Width(p, i, j) ==
  LET width == FoldLeft(LAMBDA w, c : AddDigit(w, Value(c)), Zero, SubSeq(p, i, j - 1))
  IN  IF Tail(width) = Tail(Zero) /\ width[1] < MaxWidth THEN width[1] ELSE MaxWidth

\* handle_padspec_(): the padding written at place i, and the place after it.
HandlePadspec(p, i) ==
  LET here(c) == i <= Len(p) /\ p[i] = c
      side == IF here("-") THEN "right" ELSE IF here("=") THEN "center" ELSE "left"
      first == IF side = "left" THEN i ELSE i + 1
      last == AfterDigits(p, first)
      truncate == last <= Len(p) /\ p[last] = "!"
  IN  IF last = first
      THEN [padding |-> NoPadding, next |-> first]
      ELSE [padding |-> [width |-> Width(p, first, last), side |-> side,
                         truncate |-> truncate, enabled |-> TRUE],
            next |-> IF truncate THEN last + 1 ELSE last]

TimeFlags == {"+", "a", "A", "b", "h", "B", "c", "C", "Y", "D", "x", "m", "d", "H", "I",
              "M", "S", "p", "r", "R", "T", "X", "z"}
OtherFlags == {"n", "l", "L", "t", "v", "e", "f", "F", "E", "P", "^", "$", "@", "s", "g",
               "#", "!", "u", "i", "o", "O", "&"}

Text(chars) == [flag |-> "text", chars |-> chars, padding |-> NoPadding]
Flag(flag, padding) == [flag |-> flag, chars |-> <<>>, padding |-> padding]

\* handle_flag_(): the formatters a flag stands for.
HandleFlag(c, padding) ==
  IF c \in TimeFlags \cup OtherFlags THEN <<Flag(c, padding)>>
  ELSE IF c = "%" THEN <<Text(<<"%">>)>>
  ELSE IF padding.truncate
  THEN <<Flag("!", [padding EXCEPT !.truncate = FALSE]), Text(<<c>>)>>
  ELSE <<Text(<<"%", c>>)>>

\* The text from place i up to the next %.
TextEnd(p, i) ==
  CHOOSE j \in i .. Len(p) + 1 :
    /\ \A k \in i .. j - 1 : p[k] # "%"
    /\ j = Len(p) + 1 \/ p[j] = "%"

\* compile_pattern_(): the list of formatters.
CompilePattern(p) ==
  LET from[i \in 1 .. Len(p) + 1] ==
        IF i > Len(p) THEN <<>>
        ELSE IF p[i] # "%"
        THEN <<Text(SubSeq(p, i, TextEnd(p, i) - 1))>> \o from[TextEnd(p, i)]
        ELSE LET spec == HandlePadspec(p, i + 1) IN
             IF spec.next > Len(p) THEN <<>>
             ELSE HandleFlag(p[spec.next], spec.padding) \o from[spec.next + 1]
  IN  from[1]

-----------------------------------------------------------------------------
(* Writing a line.                                                         *)

Marks(mark, n) == [k \in 1 .. n |-> mark]

\* scoped_padder: text of the given marks, padded or cut as for the size that
\* was announced.
ScopedPadder(dest, padding, announced, text) ==
  LET remaining == padding.width - announced
      left == IF remaining <= 0 THEN 0
              ELSE CASE padding.side = "left" -> remaining
                     [] padding.side = "center" -> remaining \div 2
                     [] OTHER -> 0
      line == dest \o Marks(Space, left) \o text
  IN  IF ~padding.enabled THEN dest \o text   \* null_scoped_padder
      ELSE IF remaining >= 0 THEN line \o Marks(Space, remaining - left)
      ELSE IF ~padding.truncate THEN line
      ELSE SubSeq(line, 1, IF Len(line) + remaining > 0 THEN Len(line) + remaining ELSE 0)

\* Decimal digits of a natural number.
CountDigits(n) ==
  CHOOSE d \in 1 .. 10 : (d = 10 \/ n < 10 ^ d) /\ (d = 1 \/ n >= 10 ^ (d - 1))
Pad2(n) == IF n \in 0 .. 99 THEN 2 ELSE CountDigits(n)
PadUint(n, width) == IF CountDigits(n) > width THEN CountDigits(n) ELSE width

FullDays == <<6, 6, 7, 9, 8, 6, 8>>
FullMonths == <<7, 8, 5, 5, 3, 4, 4, 6, 9, 7, 8, 8>>
LevelNames == <<5, 5, 4, 7, 5, 8, 3>>

Size(announced, written) == [announced |-> announced, written |-> written]

\* The date flags: what they announce and what they write.
DateSize(flag, tm) ==
  CASE flag \in {"a", "b", "h"} -> Size(3, 3)
    [] flag = "A" -> Size(FullDays[tm.wday + 1], FullDays[tm.wday + 1])
    [] flag = "B" -> Size(FullMonths[tm.mon + 1], FullMonths[tm.mon + 1])
    [] flag = "c" -> Size(24, 3 + 1 + 3 + 1 + CountDigits(tm.mday) + 1 + Pad2(tm.hour) + 1
                              + Pad2(tm.min) + 1 + Pad2(tm.sec) + 1 + CountDigits(tm.year))
    [] flag = "C" -> Size(2, Pad2(tm.year % 100))
    [] flag \in {"D", "x"} -> Size(8, Pad2(tm.mon + 1) + 1 + Pad2(tm.mday) + 1 + Pad2(tm.year % 100))
    [] flag = "Y" -> Size(4, CountDigits(tm.year))
    [] flag = "m" -> Size(2, Pad2(tm.mon + 1))
    [] flag = "d" -> Size(2, Pad2(tm.mday))

To12h(tm) == IF tm.hour > 12 THEN tm.hour - 12 ELSE tm.hour

\* The flags of the time of day.
ClockSize(flag, tm) ==
  CASE flag = "H" -> Size(2, Pad2(tm.hour))
    [] flag = "I" -> Size(2, Pad2(To12h(tm)))
    [] flag = "M" -> Size(2, Pad2(tm.min))
    [] flag = "S" -> Size(2, Pad2(tm.sec))
    [] flag = "p" -> Size(2, 2)
    [] flag = "r" -> Size(11, Pad2(To12h(tm)) + 1 + Pad2(tm.min) + 1 + Pad2(tm.sec) + 3)
    [] flag = "R" -> Size(5, Pad2(tm.hour) + 1 + Pad2(tm.min))
    [] flag \in {"T", "X"} -> Size(8, Pad2(tm.hour) + 1 + Pad2(tm.min) + 1 + Pad2(tm.sec))

\* The fractions of a second, and the seconds since the epoch.
FractionSize(flag, m) ==
  CASE flag = "e" -> Size(3, PadUint(m.nanos \div 1000000, 3))
    [] flag = "f" -> Size(6, PadUint(m.nanos \div 1000, 6))
    [] flag = "F" -> Size(9, PadUint(m.nanos, 9))
    [] flag = "E" -> Size(10, CountDigits(m.seconds))

\* Hours and minutes of the offset from UTC.
ZoneSize(offset) ==
  LET minutes == IF offset < 0 THEN -offset ELSE offset
  IN  Size(6, 1 + Pad2(minutes \div 60) + 1 + Pad2(minutes % 60))

Exactly(n) == Size(n, n)

\* The flags of the message's own text and of the place it comes from.
MessageSize(flag, m) ==
  CASE flag = "n" -> Exactly(m.name)
    [] flag = "l" -> Exactly(LevelNames[m.level + 1])
    [] flag = "L" -> Exactly(1)
    [] flag = "t" -> Exactly(CountDigits(m.thread))
    [] flag = "P" -> Exactly(CountDigits(m.pid))
    [] flag = "v" -> Exactly(m.payload)
    [] flag \in {"@", "s", "g", "#", "!"} /\ m.line = 0 -> Exactly(0)
    [] flag = "@" -> Exactly(m.directory + m.file + 1 + CountDigits(m.line))
    [] flag = "s" -> Exactly(m.file)
    [] flag = "g" -> Exactly(m.directory + m.file)
    [] flag = "#" -> Exactly(CountDigits(m.line))
    [] flag = "!" -> Exactly(m.function)
    [] flag \in {"u", "i", "o", "O"} -> Exactly(CountDigits(m.elapsed))

\* The default format "%+", which knows no padding.
FullSize(m) ==
  1 + CountDigits(m.tm.year) + 1 + Pad2(m.tm.mon + 1) + 1 + Pad2(m.tm.mday) + 1
    + Pad2(m.tm.hour) + 1 + Pad2(m.tm.min) + 1 + Pad2(m.tm.sec) + 1
    + PadUint(m.nanos \div 1000000, 3) + 2
    + (IF m.name > 0 THEN m.name + 3 ELSE 0) + LevelNames[m.level + 1] + 3
    + (IF m.line > 0 THEN m.file + 1 + CountDigits(m.line) + 3 ELSE 0)
    + (IF m.mdc # <<>> THEN FoldLeft(LAMBDA n, s : n + s + 1, -1, m.mdc) + 3 ELSE 0)
    + m.payload

FieldSize(flag, m) ==
  IF flag \in {"a", "A", "b", "h", "B", "c", "C", "D", "x", "Y", "m", "d"} THEN DateSize(flag, m.tm)
  ELSE IF flag \in {"H", "I", "M", "S", "p", "r", "R", "T", "X"} THEN ClockSize(flag, m.tm)
  ELSE IF flag \in {"e", "f", "F", "E"} THEN FractionSize(flag, m)
  ELSE IF flag = "z" THEN ZoneSize(m.offset)
  ELSE MessageSize(flag, m)

\* format_mdc(): each entry of the map is padded by itself, the space after it
\* included.
FormatMdc(dest, padding, sizes, mark) ==
  IF sizes = <<>> THEN ScopedPadder(dest, padding, 0, <<>>)
  ELSE FoldLeftDomain(LAMBDA line, k :
         LET size == sizes[k] + IF k = Len(sizes) THEN 0 ELSE 1
         IN  ScopedPadder(line, padding, size, Marks(mark, size)),
         dest, sizes)

\* What the k-th formatter adds to the line; %^ and %$ take note of its size.
FormatFlag(line, k, f, m) ==
  CASE f.flag = "text" -> [line EXCEPT !.dest = @ \o Marks(k, Len(f.chars))]
    [] f.flag = "^" -> [line EXCEPT !.rangeStart = Len(line.dest)]
    [] f.flag = "$" -> [line EXCEPT !.rangeEnd = Len(line.dest)]
    [] f.flag = "+" -> [line EXCEPT !.dest = @ \o Marks(k, FullSize(m))]
    [] f.flag = "&" -> [line EXCEPT !.dest = FormatMdc(@, f.padding, m.mdc, k)]
    [] OTHER -> LET size == FieldSize(f.flag, m) IN
                [line EXCEPT !.dest =
                   ScopedPadder(@, f.padding, size.announced, Marks(k, size.written))]

NoLine == [dest |-> <<>>, rangeStart |-> 0, rangeEnd |-> 0]

-----------------------------------------------------------------------------
(* Properties.                                                             *)

Init == pattern \in Patterns /\ msg \in Messages

\* A number in decimal digits divided by 2^16, and the width that the lowest 64
\* bits of the number come to: the remainders of four such divisions.
Divided(digits) ==
  FoldLeft(LAMBDA s, d : [quotient |-> Append(s.quotient, (10 * s.rest + d) \div Limb),
                          rest |-> (10 * s.rest + d) % Limb],
           [quotient |-> <<>>, rest |-> 0], digits)
Limited(digits) ==
  LET first == Divided(digits)
      second == Divided(first.quotient)
      third == Divided(second.quotient)
      fourth == Divided(third.quotient)
  IN  IF first.rest < MaxWidth /\ second.rest = 0 /\ third.rest = 0 /\ fourth.rest = 0
      THEN first.rest ELSE MaxWidth

\* A reader of patterns that sees one character at a time: the padding, the
\* digits of its width and the formatters so far, and what it expects next.
Fresh ==
  [mode |-> "text", formatters |-> <<>>, chars |-> <<>>, digits |-> <<>>, padding |-> NoPadding]
EndText(s) ==
  IF s.chars = <<>> THEN s
  ELSE [s EXCEPT !.formatters = Append(@, Text(s.chars)), !.chars = <<>>]
ReadDigit(s, c) == [s EXCEPT !.mode = "width", !.digits = Append(@, Value(c))]
ReadSide(s, side) == [s EXCEPT !.mode = "sided", !.padding.side = side]
ReadFlag(s, c) ==
  LET padding == IF s.digits = <<>> THEN NoPadding
                 ELSE [s.padding EXCEPT !.enabled = TRUE, !.width = Limited(s.digits)]
  IN  [Fresh EXCEPT !.formatters = s.formatters \o HandleFlag(c, padding)]
ReadChar(s, c) ==
  CASE s.mode = "text" /\ c = "%" -> [EndText(s) EXCEPT !.mode = "percent"]
    [] s.mode = "text" -> [s EXCEPT !.chars = Append(@, c)]
    [] s.mode = "percent" /\ c = "-" -> ReadSide(s, "right")
    [] s.mode = "percent" /\ c = "=" -> ReadSide(s, "center")
    [] s.mode # "flag" /\ IsDigit(c) -> ReadDigit(s, c)
    [] s.mode = "width" /\ c = "!" -> [s EXCEPT !.mode = "flag", !.padding.truncate = TRUE]
    [] OTHER -> ReadFlag(s, c)

\* A pattern is read as such a reader reads it, whatever it is; in particular
\* text is shown as it stands, an unfinished flag at the end not at all, and of
\* a width the lowest 64 bits count (pattern_formatter-inl.h:1269-1350).  The
\* comment before handle_padspec_() lists "%+8!X" as a padded flag too; there a
\* + is the flag of the full format, and "8!X" is text.
PatternRead == CompilePattern(pattern) = EndText(FoldLeft(ReadChar, Fresh, pattern)).formatters

\* format(), formatter by formatter.
Lines(formatters) ==
  LET line[k \in 0 .. Len(formatters)] ==
        IF k = 0 THEN NoLine ELSE FormatFlag(line[k - 1], k, formatters[k], msg)
  IN  line

\* The part a padded field adds: n marks of its own, or as many as fit, and the
\* spaces on the side its padding says.
Fits(part, k, padding, n) ==
  LET w == padding.width
      room == IF padding.truncate \/ w > n THEN w ELSE n
      text == IF n < room THEN n ELSE room
  IN  \E left \in 0 .. room - text :
        LET right == room - text - left IN
        /\ part = Marks(Space, left) \o Marks(k, text) \o Marks(Space, right)
        /\ CASE padding.side = "left" -> right = 0
             [] padding.side = "right" -> left = 0
             [] OTHER -> right - left \in {0, 1}

\* Each padded field takes the room its padding says, with its text on the right
\* side and in one piece, and loses its own end only; nothing cuts off what was
\* written before.  Left out are %c, which announces one character too many on
\* the days with one digit, and %&, whose entries are padded one by one
\* (pattern_formatter-inl.h:41-101).
FieldsFit ==
  LET formatters == CompilePattern(pattern)  line == Lines(formatters)  IN
  \A k \in DOMAIN formatters :
    LET f == formatters[k]  before == line[k - 1].dest  after == line[k].dest  IN
    /\ (f.flag = "c" /\ f.padding.width = 0) \/ IsPrefix(before, after)
    /\ f.padding.enabled /\ f.flag \notin {"text", "+", "^", "$", "c", "&"} =>
         Fits(SubSeq(after, Len(before) + 1, Len(after)), k, f.padding,
              FieldSize(f.flag, msg).written)

=============================================================================
