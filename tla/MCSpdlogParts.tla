--------------------------- MODULE MCSpdlogParts ----------------------------
(***************************************************************************)
(* Small instances of the parts of SpdlogParts, and of more that share     *)
(* nothing with them: the daily and hourly files, the filter of duplicates, *)
(* the logger, the formatter of lines, and of fmt the format strings,      *)
(* buffers, texts, numbers and times.  As there, the initial state chooses *)
(* the part a behaviour is about, and v1 to v19 are its variables; the     *)
(* rest stay 0.                                                            *)
(***************************************************************************)
EXTENDS SpdlogParts, TLC

-----------------------------------------------------------------------------
(* The inputs of the parts that are functions of their input: patterns,    *)
(* messages, format strings, texts and numbers.                            *)

\* The strings of up to n of the given letters.
Strings(letters, n) == UNION {[1 .. k -> letters] : k \in 0 .. n}

-----------------------------------------------------------------------------
(* Patterns of pattern_formatter: all the short ones, and each flag behind *)
(* each kind of padding; the widest are about 2^64, where a size_t is 0.   *)

ShortPatterns == Strings({"%", "-", "=", "!", "1", "0", "v", "w"}, 4)
Paddings ==
  {<<>>, <<"5">>, <<"-", "7">>, <<"=", "1", "2">>, <<"3", "!">>, <<"=", "0", "!">>,
   <<"9", "9", "!">>}
  \cup {<<"1", "8", "4", "4", "6", "7", "4", "4", "0", "7", "3", "7", "0", "9", "5", "5", "1",
           "6">> \o last : last \in {<<"1", "5">>, <<"1", "6">>, <<"1", "7">>, <<"7", "9", "!">>}}
Flags ==
  {"+", "a", "A", "b", "h", "B", "c", "C", "Y", "D", "x", "m", "d", "H", "I", "M", "S", "p",
   "r", "R", "T", "X", "z", "n", "l", "L", "t", "v", "e", "f", "F", "E", "P", "^", "$", "@",
   "s", "g", "#", "!", "u", "i", "o", "O", "&", "Q"}
FieldPatterns ==
  {<<"x", "%">> \o padding \o <<flag>> \o <<"%", "$">> : padding \in Paddings, flag \in Flags}

Tm(wday, mon, mday, clock) ==
  [wday |-> wday, mon |-> mon, mday |-> mday, hour |-> clock, min |-> clock, sec |-> 59,
   year |-> 2024]
BareMessage ==
  [tm |-> Tm(0, 0, 1, 0), nanos |-> 5, seconds |-> 1700000000, name |-> 0, level |-> 0,
   thread |-> 7, pid |-> 1, payload |-> 6, line |-> 0, directory |-> 0, file |-> 0,
   function |-> 0, elapsed |-> 0, mdc |-> <<>>, offset |-> -90]
FullMessage ==
  [tm |-> Tm(3, 8, 30, 13), nanos |-> 999999999, seconds |-> 1700000000, name |-> 3,
   level |-> 3, thread |-> 12345, pid |-> 99, payload |-> 11, line |-> 10, directory |-> 4,
   file |-> 4, function |-> 5, elapsed |-> 1000, mdc |-> <<3, 4>>, offset |-> 345]

-----------------------------------------------------------------------------
(* Format strings of fmt: the specifiers of one field, short ones and ones *)
(* with all their parts; strings of braces, indexes and a name; and widths *)
(* and precisions that are arguments.                                      *)

Arg(type, value, name) == [type |-> type, value |-> value, name |-> name]
OneField(specs, type) ==
  [fmt |-> <<"{", ":">> \o specs \o <<"}">>, args |-> <<Arg(type, 1, <<>>)>>]

ShortSpecs == Strings({"<", "*", "+", "#", "0", "2", ".", "L", "d", "s"}, 2)
LongSpecs ==
  {align \o sign \o rest \o type :
     align \in {<<>>, <<"*", "<">>}, sign \in {<<>>, <<"-", "#">>},
     rest \in {<<>>, <<"0", "1", "2", "7">>, <<"1", "2", "8", ".", "3">>,
               <<"0", "3", "8", "4">>, <<"1", "0", "0", "0", ".", "2", "5", "6">>, <<".", "3">>},
     type \in {<<>>, <<"L", "g">>, <<"x">>}}

Ids == {<<>>, <<"0">>, <<"1">>, <<"2">>, <<"3">>, <<"a">>, <<"b">>}
Precision(i, j, k) ==
  <<"{">> \o i \o <<":", ".", "{">> \o j \o <<"}", "}", "{">> \o k \o <<"}">>
WidthAndPrecision(i, j, k) ==
  <<"{">> \o i \o <<":", "{">> \o j \o <<"}", ".", "{">> \o k \o <<"}", "}">>

FormatInputs ==
  {OneField(specs, type) : specs \in ShortSpecs, type \in {"int", "float", "string", "bool", "char"}}
  \cup {OneField(specs, type) : specs \in LongSpecs, type \in {"int", "float", "cstring"}}
  \cup [fmt : Strings({"{", "}", "0", "1", "a", ":"}, 4),
        args : {<<Arg("int", 3, <<>>), Arg("int", 4, <<"a">>)>>,
                <<Arg("int", 3, <<>>), Arg("uint", 4, <<>>)>>}]
  \cup [fmt : {Precision(i, j, k) : i, j, k \in Ids},
        args : {<<Arg("float", 3, <<"a">>), Arg("bool", 1, <<"b">>), Arg("int", -1, <<>>)>>}]
  \cup [fmt : {WidthAndPrecision(i, j, k) : i, j, k \in Ids \cup {<<"1", "2">>}},
        args : {<<Arg("float", 3, <<>>), Arg("int", 1, <<>>), Arg("int", 2, <<>>)>>}]

-----------------------------------------------------------------------------
(* Texts: short ones of all kinds of bytes, ones as long as the longest    *)
(* code point, and pieces of text with widths and precisions.              *)

Specs(type, align, fill, width, precision) ==
  [type |-> type, upper |-> FALSE, align |-> align, fill |-> fill, sign |-> "none",
   alt |-> FALSE, localized |-> FALSE, width |-> width, precision |-> precision]
Texts(texts, specs) == [text : texts, specs : specs]

\* A letter, a newline, a quote, a bell, two-byte, wide, invisible and four-byte
\* characters, a byte that begins none, and a character that is cut off.
TextPieces ==
  {<<65>>, <<10>>, <<34>>, <<7>>, <<195, 169>>, <<230, 151, 165>>, <<226, 128, 139>>,
   <<240, 159, 152, 128>>, <<128>>, <<237, 160>>}

TextInputs ==
  Texts(Strings({34, 128, 159, 160, 191, 195, 224, 226, 237, 255}, 3)
          \cup {<<a, b, c, d>> : a \in {216, 220, 240, 244},
                               b, c, d \in {63, 128, 143, 144, 191, 216, 220}},
        {Specs("none", "none", <<32>>, 0, -1)})
  \cup Texts({<<>>} \cup TextPieces \cup {a \o b : a, b \in TextPieces},
             {Specs(type, "none", <<32>>, 0, p) : type \in {"none", "?"}, p \in {0, 1, 3, 4}}
             \cup {Specs(type, align, <<195, 183>>, 6, p) :
                     type \in {"none", "?"}, align \in {"none", "right", "center"},
                     p \in {-1, 1, 3, 4}})

-----------------------------------------------------------------------------
(* Integers of 8 bits, with all the specifiers; numbers with separators;   *)
(* bools, chars and pointers; and numbers about which the count of digits  *)
(* changes.                                                                *)

NoLocale == [grouping |-> <<>>, sep |-> <<>>]
Locales ==
  [grouping : {<<>>, <<3>>, <<1>>, <<2, 3>>, <<1, 127>>, <<2, 0>>, <<1, 2, 3>>},
   sep : {<<>>, <<",">>}]
Integer(type, values, specs, locales) ==
  [value : values, type : {type}, specs : specs, locale : locales]
IntSpecs(type, align, width, precision) ==
  Specs(type, align, IF align = "numeric" THEN <<"0">> ELSE <<"*">>, width, precision)
Signed(specs) == specs \cup {[s EXCEPT !.sign = "plus"] : s \in specs}
Alternate(specs) == specs \cup {[s EXCEPT !.alt = TRUE] : s \in specs}
Aligns == {"none", "left", "right", "center"}
Bases == {"none", "x", "o", "b"}

IntegerInputs ==
  Integer("int", {-128, -100, -1, 0, 1, 7, 8, 10, 99, 127, 255},
          Signed(Alternate({IntSpecs(t, a, w, p) : t \in Bases, a \in {"none", "center"},
                                                   w \in {0, 5}, p \in {-1, 0, 2, 4}})),
          {NoLocale})
  \cup Integer("int", {-128, -1, 0, 9, 255},
               Signed(Alternate({IntSpecs(t, "numeric", w, -1) : t \in Bases, w \in {1, 5, 12}})),
               {NoLocale})
  \cup Integer("int", {-128, 0, 9, 10, 255},
               Alternate({[IntSpecs(t, a, w, -1) EXCEPT !.localized = TRUE] :
                            t \in {"none", "b", "x"}, a \in {"none", "left"}, w \in {0, 12}}),
               Locales)
  \cup Integer("bool", {0, 1}, {IntSpecs(t, a, w, -1) : t \in {"none", "s", "d", "x"},
                                                      a \in Aligns, w \in {0, 3, 9}}, {NoLocale})
  \cup Integer("char", {65, -1, -128},
               Alternate({IntSpecs(t, a, w, -1) : t \in {"none", "d", "x"}, a \in Aligns,
                                                  w \in {0, 3, 9}}), {NoLocale})
  \cup Integer("int", {65}, {IntSpecs("c", a, w, -1) : a \in Aligns, w \in {0, 3}}, {NoLocale})
  \cup Integer("pointer", {0, 15, 16, 65536, 2147483647},
               {IntSpecs("none", a, w, -1) : a \in Aligns, w \in {0, 3, 12}}, {NoLocale})
  \cup Integer("count", UNION {{10 ^ k - 1, 10 ^ k, 10 ^ k + 1} : k \in 0 .. 9}
                        \cup UNION {{2 ^ k - 1, 2 ^ k} : k \in 1 .. 30} \cup {2147483647},
               {IntSpecs("none", "none", 0, -1)}, {NoLocale})

-----------------------------------------------------------------------------
(* Conversions of printf: all flags with widths and precisions; lengths    *)
(* and arguments of all types; widths and precisions that are arguments,   *)
(* about the bounds of an int too; numbers with zeros before them; and two *)
(* conversions, with indexes and without.                                  *)

Conversion(index, flags, width, precision, length, conversion) ==
  [letter |-> "", index |-> index, flags |-> flags, width |-> width,
   precision |-> precision, length |-> length, conversion |-> conversion]
Letter(c) == [Conversion(<<>>, <<>>, <<>>, <<>>, <<>>, <<>>) EXCEPT !.letter = c]
Value(type, value) == [type |-> type, value |-> value, text |-> <<>>]
abc == [type |-> "string", value |-> 0, text |-> <<"a", "b", "c">>]
Values(type, values) == {<<Value(type, v)>> : v \in values}
FlagSets ==
  {<<>>, <<"-">>, <<"0">>, <<"#">>, <<"+">>, <<" ">>, <<"0", "-">>, <<"0", "#">>,
   <<"+", " ">>, <<"#", "0", "+">>}
Indexes == {<<>>, <<"0", "$">>, <<"1", "$">>, <<"2", "$">>, <<"3", "$">>}
Zeros(n) == [k \in 1 .. n |-> "0"]
AboutInt == {-512, -129, -128, -127, 127, 128}

PrintfInputs ==
  [parts : {<<Conversion(<<>>, f, w, p, <<>>, <<c>>)>> :
              f \in FlagSets, w \in {<<>>, <<"5">>}, p \in {<<>>, <<".">>, <<".", "3">>},
              c \in {"d", "o", "X", "c"}},
   args : Values("int", {-128, -1, 0, 8, 100})]
  \cup [parts : {<<Conversion(<<>>, <<>>, <<>>, <<>>, l, c)>> :
                 l \in {<<>>, <<"h">>, <<"h", "h">>, <<"l">>, <<"l", "l">>, <<"z">>},
                 c \in {<<"d">>, <<"i">>, <<"u">>, <<"x">>, <<"c">>, <<"s">>, <<"p">>, <<>>}},
        args : Values("int", {-128, -1, 0, 77}) \cup Values("uint", {0, 255})
               \cup Values("long", {-512, -1, 300}) \cup Values("char", {-1, 5})
               \cup Values("bool", {1}) \cup Values("pointer", {0, 77})
               \cup {<<abc>>} \cup Values("float", {1})]
  \cup [parts : {<<Conversion(<<>>, f, w, p, <<>>, <<c>>)>> :
                 f \in {<<>>, <<"-">>, <<"0">>},
                 w \in {<<>>, <<"*">>, <<"2">>, <<"1", "2", "8">>},
                 p \in {<<>>, <<".", "*">>, <<".", "2">>}, c \in {"d", "s"}},
        args : {<<Value("int", v), Value("int", 2), Value("int", 3)>> : v \in {-128, -6, 6}}
               \cup {<<Value("int", 5), Value("int", v), abc>> : v \in {-1, 0, 2}}
               \cup {<<Value("int", 6), abc>>, <<abc>>}
               \cup {<<Value("uint", 128), Value("int", 3), Value("int", 3)>>}]
  \cup [parts : {<<Conversion(<<>>, <<>>, w, p, <<>>, <<"d">>)>> :
                 w \in {<<>>, <<"*">>}, p \in {<<>>, <<".", "*">>}},
        args : {<<Value("long", v), Value("int", 3), Value("int", 4)>> : v \in AboutInt}
               \cup {<<Value("int", 2), Value("long", v), Value("int", 4)>> : v \in AboutInt}]
  \cup [parts : {<<Conversion(i, f, w, p, <<>>, <<"d">>)>> :
                 i \in {<<>>, <<"1", "$">>, <<"0", "0", "1", "$">>, <<"0", "0", "0", "1", "$">>},
                 f \in {Zeros(n) : n \in 0 .. 4} \cup {Zeros(4) \o <<"-">>, <<"-">> \o Zeros(4)},
                 w \in {<<>>, <<"5">>, <<"*">>, <<"1", "2", "7">>},
                 p \in {<<>>, <<".", "0", "0", "3">>, <<".", "0", "0", "0", "3">>,
                        <<".", "1", "2", "8">>}},
        args : {<<Value("int", 6), Value("int", -5)>>}]
  \cup [parts : {<<Conversion(i, <<>>, w, <<>>, <<>>, <<"d">>), Letter(l),
                  Conversion(j, <<>>, <<>>, <<>>, <<>>, <<c>>)>> :
                 i, j \in Indexes, w \in {<<>>, <<"*">>}, l \in {"a", "%"}, c \in {"d", "s"}},
        args : {<<Value("int", 3), Value("int", -1)>>, <<Value("int", 3), abc>>}]

-----------------------------------------------------------------------------
(* Formats of times and durations: short ones of all kinds; the days about *)
(* which weeks and years change, of years in which they do so differently; *)
(* durations of several periods; points in time about the epoch; casts     *)
(* between types of different widths; widths; and fields of a date alone.  *)

Subject(kinds, forms, args, subjects) ==
  [kind : kinds, form : forms, args : args, subject : subjects]
NoArgs == {<<>>}
Count(count, num, den) == [count |-> count, num |-> num, den |-> den]
ShortForms ==
  {f \o <<"}">> : f \in Strings({"%", "Y", "E", "O", "_", "Q", "H", "z", "e"}, 3) \ {<<>>}}
  \cup {<<"%">> \o a \o b \o <<"}">> : a, b \in Strings({"%", "U", "E", "O", "z", "_"}, 2)}

DurationCounts ==
  [count : {-8388608, -8388607, -3661, -1, 0, 1, 59, 86399, 86400, 8388607}, num : {1}, den : {1}]
  \cup [count : {-100000, -60001, -1005, -999, -10, 0, 5, 50, 1234, 3600999}, num : {1}, den : {10, 1000, 8, 3}]
  \cup [count : {-300, -25, 0, 13, 194, 195, 279, 280, 4660, 4661}, num : {60, 3600, 86400, 7}, den : {1}]
Instants ==
  [count : {-172801, -86401, -601, -600, -599, -11, -10, -9, -1, 0, 1, 9, 10, 864009, 31536001},
   num : {1}, den : {1, 10, 8}]

Factors == {<<1, 1>>, <<10, 1>>, <<1, 10>>, <<3, 2>>}
Types == [bits : {4, 6, 24}, signed : BOOLEAN]
CastCounts(signed) ==
  {0, 1, 7, 8, 15, 16, 63, 64, 200, 838861, 5592405, 8388607}
  \cup (IF signed THEN {-8388608, -838861, -200, -33, -32, -9, -8, -1} ELSE {8388608, 16777215})
CastsOf(signed) ==
  {[count |-> c, num |-> r[1], den |-> r[2], from |-> [bits |-> 24, signed |-> signed], to |-> t] :
     c \in CastCounts(signed), r \in Factors, t \in Types}

ChronoYears == {-101, -100, -99, 0, 5, 1970, 1999, 2000, 2004, 2005, 2008, 2018, 2026, 10000}
ChronoDays == (0 .. 7) \cup {58, 59, 60, 98, 99, 108, 304} \cup (358 .. 364)
Widths == {<<"*", "^", "9">>, <<"*", ">", "9">>, <<"*", "<", "{", "}">>}
Calendar == INSTANCE TmWriter
TmSubjects ==
  {[Calendar!TmOf(y, d, s) EXCEPT !.gmtoff = 60 * d - 9000] :
     y \in ChronoYears, d \in ChronoDays, s \in {0, 43200, 75369}}
IntArgs == {<<>>, <<Arg("int", 7, <<>>)>>, <<Arg("float", 7, <<>>)>>, <<Arg("int", -7, <<>>)>>}
Empty == {<<"}">>}
FieldForms ==
  {w \o c \o <<"}">> : w \in {<<>>, <<"L">>, <<"*", "^", "9", "L">>} \cup Widths,
     c \in {<<>>, <<"%", "F", " ", "%", "T">>} \cup {<<"%", x>> : x \in {"a", "b", "d", "Y", "F"}}}
Date(year, month, day) == [year |-> year, month |-> month, day |-> day]

ChronoInputs ==
  Subject({"tm", "local", "duration"}, ShortForms, NoArgs, {Count(1, 1, 1)})
  \cup Subject({"duration"}, {<<".", "2", "%", c, "}">> : c \in {"S", "Q", "q"}}, NoArgs, {Count(1, 1, 1)})
  \cup Subject({"tm"}, Empty, NoArgs, TmSubjects)
  \cup Subject({"duration"}, Empty, NoArgs, DurationCounts)
  \cup Subject({"sys"}, Empty, NoArgs, Instants)
  \cup Subject({"cast"}, Empty, NoArgs, CastsOf(TRUE) \cup CastsOf(FALSE))
  \cup Subject({"tm"}, {w \o c : w \in Widths, c \in {<<"%", "Y", "}">>, <<"}">>}}, IntArgs,
               {Calendar!TmOf(2020, 3, 4)})
  \cup Subject({"duration"}, {w \o c : w \in Widths, c \in {<<"%", "Q", "%", "q", "}">>, <<"}">>}}, IntArgs,
               {Count(-12, 1, 1000)})
  \cup Subject({"weekday", "day", "month", "year"}, FieldForms, IntArgs,
               {Count(n, 1, 1) : n \in {1, 2, 7}})
  \cup Subject({"day", "month"}, FieldForms, NoArgs, {Count(12, 1, 1)})
  \cup Subject({"year"}, FieldForms, NoArgs, {Count(n, 1, 1) : n \in {-1, 0, 2020, 10000}})
  \cup Subject({"date"}, FieldForms, IntArgs,
               {Date(-1, 12, 31), Date(0, 1, 1), Date(2020, 9, 9), Date(10000, 10, 10)})

-----------------------------------------------------------------------------
(* Floats of small types: with digits by bigints alone, by a first segment *)
(* of four too, without an implicit bit, and with bits enough for three    *)
(* hexadecimal digits; decimals about the exponents at which notations     *)
(* change; bigints with and without zeros at an end; and subsegments about *)
(* their halves.                                                           *)

FloatType(stored, bias, implicit, fast) ==
  [stored |-> stored, bias |-> bias, implicit |-> implicit, fast |-> fast, kappa |-> 1,
   segment |-> 4]
Float(type, biased, fraction) ==
  [type |-> type, biased |-> biased, fraction |-> fraction, neg |-> FALSE, class |-> "finite"]
Double == FloatType(5, 8, TRUE, TRUE)
LongDouble == FloatType(4, 9, FALSE, FALSE)
Quad == FloatType(3, 9, TRUE, FALSE)
Implicit(type, biased) == {Float(type, b, f) : b \in biased, f \in 0 .. 2 ^ type.stored - 1}
Explicit(type, biased) ==
  {Float(type, b, f) : b \in biased \ {0}, f \in 2 ^ (type.stored - 1) .. 2 ^ type.stored - 1}
  \cup {Float(type, 0, f) : f \in 0 .. 2 ^ (type.stored - 1) - 1}
Floats(biased) ==
  Implicit(Double, biased) \cup Implicit(Quad, biased) \cup Explicit(LongDouble, biased)
Hexadecimals ==
  {Float(FloatType(8, 9, TRUE, FALSE), b, f) :
     b \in 0 .. 20, f \in {0, 1, 7, 8, 15, 16, 17, 127, 128, 129, 240, 247, 248, 249, 255}}
  \cup Explicit(FloatType(8, 9, FALSE, FALSE), {0, 1, 9, 14})

FloatSpecs(types, precisions, alts, widths, aligns) ==
  {[type |-> t, upper |-> FALSE, align |-> a, fill |-> IF a = "numeric" THEN <<"0">> ELSE <<"*">>,
    sign |-> "none", alt |-> alt, localized |-> FALSE, width |-> w, precision |-> p] :
     t \in types, p \in precisions, alt \in alts, w \in widths, a \in aligns}
Localized(all) == {[s EXCEPT !.localized = TRUE] : s \in all}
Upper(all) == {[s EXCEPT !.upper = TRUE, !.sign = "plus"] : s \in all}
Plainly(types, precisions, alts) == FloatSpecs(types, precisions, alts, {0}, {"none"})
Decimals ==
  [digits : {<<1>>, <<9, 5>>, <<1, 2, 3>>, <<1, 2, 3, 4, 5, 6, 7>>}, exp : -8 .. 3]
Raised == [digits : {<<1>>, <<9, 5>>}, exp : {-1005, -101, 99, 1000, 2346}]
Classes ==
  {[Float(FloatType(8, 9, TRUE, FALSE), b, 5) EXCEPT !.neg = n, !.class = c] :
     b \in {0, 2, 9, 12}, n \in BOOLEAN, c \in {"inf", "nan", "finite"}}

Bigs ==
  [bigits : {<<p>> : p \in {0, 1, 7, 15}} \cup {<<p, q>> : p \in {0, 1, 15}, q \in {1, 8, 15}}
            \cup {<<p, q, r>> : p \in {0, 1}, q \in {0, 15}, r \in {1, 9}}, exp : {0, 1}]
  \ {[bigits |-> <<0>>, exp |-> 1]}
ThirdBigs ==
  [bigits : {<<1>>, <<15>>, <<2, 1>>, <<14, 3>>, <<0, 1>>, <<0, 0, 2>>}, exp : {0, 1}]
Subsegments ==
  {0, 1, 5, 49999999, 50000000, 50000001, 499999999, 500000000, 500000001, 999999999, 999999995,
   100000000, 149999999, 150000000, 150000001, 124999999, 125000000, 122500000, 122500001,
   122450000, 122345000, 122345500, 122345501, 122345650, 122345675, 122345685, 122345684,
   122345686, 999999994, 999999950, 999999949, 987654321, 314159265, 271828182}

FloatInput(kinds, values, all) ==
  [kind : kinds, value : values, specs : all,
   locale : {[grouping |-> <<3>>, sep |-> <<"'">>, point |-> ","]}]
FloatInputs ==
  FloatInput({"float"}, Floats({0, 1, 2, 5, 7, 9, 11, 13}), Plainly({"f", "e", "g"}, {0, 1, 4}, {FALSE}))
  \cup FloatInput({"float"}, Floats({3, 10}), Plainly({"f", "e", "g"}, {0, 3}, {TRUE}))
  \cup FloatInput({"float"}, Explicit(LongDouble, 0 .. 20) \cup Implicit(Quad, 0 .. 20),
                  Plainly({"none"}, {-1}, {FALSE}))
  \cup FloatInput({"float"}, Implicit(Double, {0, 3, 9, 14}),
                  Plainly({"f", "e", "g"}, {38, 39, 40}, {FALSE}))
  \cup FloatInput({"float"}, Implicit(Double, 0 .. 5), Plainly({"f"}, {-1, 6}, {FALSE}))
  \cup FloatInput({"float"}, Hexadecimals, Plainly({"a"}, {-1, 0, 1, 3}, BOOLEAN))
  \cup FloatInput({"float"}, {[v EXCEPT !.neg = TRUE] : v \in Explicit(LongDouble, {9})},
                  Plainly({"f", "e", "g", "a"}, {1}, {FALSE}))
  \cup FloatInput({"decimal"}, Decimals, Plainly({"f", "e", "none"}, {-1}, BOOLEAN))
  \cup FloatInput({"decimal"}, Decimals,
                  Localized(FloatSpecs({"f", "e", "none"}, {-1}, {FALSE}, {0, 17}, {"none"})))
  \cup FloatInput({"decimal"}, Decimals \cup Raised,
                  FloatSpecs({"e", "none"}, {-1}, BOOLEAN, {11, 12}, {"none", "left", "center"}))
  \cup FloatInput({"float"}, Classes,
                  FloatSpecs({"f", "e", "a"}, {-1, 0, 2}, BOOLEAN, {9},
                             {"none", "left", "center", "numeric"}))
  \cup FloatInput({"float"}, Classes,
                  Upper(FloatSpecs({"f", "e", "a"}, {2}, {FALSE}, {13}, {"none", "numeric"})))
  \cup FloatInput({"bigint"}, [x : Bigs, y : Bigs, z : {ThirdBigs}], {3})
  \cup FloatInput({"bigint"}, [x : Bigs, y : {[bigits |-> <<1>>, exp |-> 0]}, z : {{}}], 0 .. 9)
  \cup FloatInput({"digits"}, Floats(0 .. 20), [precision : {0, 3}, fixed : {TRUE}, alt : {TRUE}])
  \cup FloatInput({"digits"}, Floats(0 .. 20), [precision : {1, 5}, fixed : {FALSE}, alt : {TRUE}])
  \cup FloatInput({"digits"}, Implicit(Quad, 0 .. 20) \cup Explicit(LongDouble, 0 .. 20),
                  {[precision |-> -1, fixed |-> FALSE, alt |-> FALSE]})
  \cup FloatInput({"subsegment"}, Subsegments, 1 .. 9)

-----------------------------------------------------------------------------
(* The parts and their instances.                                          *)

CONSTANTS t1, t2, NoFile, Moved

FourRecords == <<1, 2, 1, 1>>
AllNetKinds == [udp : BOOLEAN, windows : BOOLEAN, lazy : BOOLEAN]
TwoStreams == <<"out", "err", "out">>
ThreeTexts ==
  <<[lines |-> 1, newline |-> TRUE], [lines |-> 2, newline |-> FALSE],
    [lines |-> 1, newline |-> FALSE]>>

Symmetry == Permutations(Threads)

\* Two ticks make a file's day or hour, three a day with an hour more.  A daily
\* sink may rotate in the middle of the day; clocks set back repeat an hour.
LastTick == 6
Ticks == 0 .. LastTick
Even == [name |-> [t \in Ticks |-> t \div 2], begin |-> [t \in Ticks |-> 2 * (t \div 2)]]
Midday == [Even EXCEPT !.begin = [t \in Ticks |-> 2 * (t \div 2) + 1]]
LongDay == [name |-> [t \in Ticks |-> t \div 3], begin |-> [t \in Ticks |-> 3 * (t \div 3)]]
HourTwice == [Even EXCEPT !.name = [t \in Ticks |-> IF t < 2 THEN 0 ELSE t \div 2 - 1]]

Setup(hourly, truncate, max, calendar) ==
  [hourly |-> hourly, truncate |-> truncate, max |-> max, name |-> calendar.name,
   begin |-> calendar.begin, period |-> 2]

Setups ==
  {Setup(h, TRUE, 1, Even) : h \in BOOLEAN} \cup {Setup(h, FALSE, 2, Even) : h \in BOOLEAN}
  \cup {Setup(TRUE, FALSE, m, HourTwice) : m \in 1 .. 2}
  \cup {Setup(FALSE, FALSE, 2, Midday),
        Setup(FALSE, TRUE, 1, LongDay)}

\* The calls of the threads that share a logger.
Calls(a, b) == [t \in Threads |-> IF t = t1 THEN a ELSE b]
Programs ==
  {Calls(<<"enable", "hide", "dump">>, <<"hide", "dump">>),
   Calls(<<"enable", "hide">>, <<"urgent", "disable", "enable", "flush">>)}

T == INSTANCE TimedFiles WITH
  Setups <- Setups, MaxTime <- LastTick, MaxRecs <- 4, MaxRuns <- 2,
  MaxFaults <- 2, setup <- v1, now <- v2, disk <- v3, open <- v4,
  rotationTp <- v5, names <- v6, initEmpty <- v7, logged <- v8, mine <- v9,
  runs <- v10, faults <- v11, filename <- v12, left <- v13
D == INSTANCE DupFilterSink WITH
  Children <- {1, 2}, RingSize <- 2, Threshold <- <<0, 1>>, Removable <- {2},
  Payloads <- {"a", "b"}, MaxSkip <- 1, MaxTime <- 2, MaxMsgs <- 4,
  MaxThrows <- 1, subs <- v1, ring <- v2, lastTime <- v3, lastPayload <- v4,
  skipCounter <- v5, skippedLevel <- v6, clock <- v7, out <- v8, total <- v9,
  throws <- v10, steady <- v11
L == INSTANCE Logger WITH
  Sinks <- 1 .. 2, Throwing <- {1}, Programs <- Programs,
  TraceSizes <- {1, 2}, MaxTime <- 1, MaxThrows <- 2, enabled <- v1,
  messages <- v2, mutex <- v3, pc <- v4, msg <- v5, at <- v6, traced <- v7,
  next <- v8, sunk <- v9, flushed <- v10, errors <- v11, lastReport <- v12,
  reports <- v13, todo <- v14, logged <- v15, throws <- v16, pushed <- v17,
  cleared <- v18
P == INSTANCE PatternFormatter WITH
  Patterns <- {{}, {"date", "full"}, {"zone", "elapsed"}, {"custom"}, {"custom", "zone"}},
  Start <- 4, MaxTime <- 8, PerSecond <- 2, Refresh <- 3,
  Offset <- [t \in 0 .. 8 |-> IF t < 5 THEN 60 ELSE 120], MaxMsgs <- 3,
  flags <- v1, needLocaltime <- v2, cachedTm <- v3, lastLogSecs <- v4,
  cachedDatetime <- v5, cacheTimestamp <- v6, lastUpdate <- v7,
  offsetMinutes <- v8, lastMessage <- v9, msg <- v10, shown <- v11, msgs <- v12
Y == INSTANCE PatternLayout WITH
  Patterns <- ShortPatterns \cup FieldPatterns,
  Messages <- {BareMessage, FullMessage}, pattern <- v1, msg <- v2
F == INSTANCE FormatString WITH
  Bits <- 8, Inputs <- FormatInputs, fmt <- v1, args <- v2
B == INSTANCE OutputBuffer WITH
  Kinds <- {"memory", "container", "iterator", "array", "counting", "file"},
  Limits <- 0 .. 5, Inline <- 2, BufferSize <- 3, FileRoom <- 4, MaxPiece <- 4,
  MaxText <- 8, kind <- v1, limit <- v2, ptr <- v3, chars <- v4, capacity <- v5,
  count <- v6, out <- v7, pending <- v8, heap <- v9, written <- v10, life <- v11
W == INSTANCE TextWriting WITH Inputs <- TextInputs, text <- v1, specs <- v2
I == INSTANCE IntegerWriting WITH
  Bits <- 8, CharMax <- 127, Inputs <- IntegerInputs, value <- v1, type <- v2,
  specs <- v3, locale <- v4
Q == INSTANCE Printf WITH
  Bits <- [char |-> 4, short |-> 6, int |-> 8, long |-> 10], Inputs <- PrintfInputs,
  parts <- v1, args <- v2
J == INSTANCE ChronoFormat WITH
  Bits <- 24, IntBits <- 8, Inputs <- ChronoInputs, kind <- v1, form <- v2, args <- v3,
  subject <- v4, shown <- v5
X == INSTANCE FloatWriting WITH
  BigitBits <- 4, MaxDigits <- 14, IntMax <- 40, ExpUpper <- 5, Inputs <- FloatInputs,
  kind <- v1, value <- v2, specs <- v3, locale <- v4, written <- v5

-----------------------------------------------------------------------------

Idle12 == v12 = 0 /\ Idle13
Idle6 == v6 = 0 /\ v7 = 0 /\ v8 = 0 /\ Idle9
Idle5 == v5 = 0 /\ Idle6
Idle3 == v3 = 0 /\ v4 = 0 /\ Idle5

MCInit ==
  \/ Init
  \/ part = "timed" /\ T!Init /\ v14 = 0 /\ Idle15
  \/ part = "filter" /\ D!Init /\ Idle12
  \/ part = "logger" /\ L!Init /\ Idle19
  \/ part = "formatter" /\ P!Init /\ Idle13
  \/ part = "layout" /\ Y!Init /\ Idle3
  \/ part = "format string" /\ F!Init /\ Idle3
  \/ part = "output" /\ B!Init /\ Idle12
  \/ part = "printf" /\ Q!Init /\ Idle3
  \/ part = "text" /\ W!Init /\ Idle3
  \/ part = "integer" /\ I!Init /\ Idle5
  \/ part = "chrono" /\ J!Init /\ Idle6
  \/ part = "float" /\ X!Init /\ Idle6

Rest12 == <<v12, Rest13>>

MCNext ==
  \/ Next
  \/ part = "timed" /\ T!Next /\ UNCHANGED <<v14, Rest15>>
  \/ part = "filter" /\ D!Next /\ UNCHANGED Rest12
  \/ part = "logger" /\ L!Next /\ UNCHANGED Rest19
  \/ part = "formatter" /\ P!Next /\ UNCHANGED Rest13
  \/ part = "output" /\ B!Next /\ UNCHANGED Rest12

MCSpec == MCInit /\ [][MCNext]_allVars

ASSUME T!TimedAssumption /\ D!DupAssumption /\ P!FormatterAssumption

-----------------------------------------------------------------------------
(* Properties: those of the parts, each for the states of its part.        *)

\* No file grows beyond max_size but by one record, current_size_ is the size of
\* the open file whatever has failed (rotating_file_sink-inl.h:108-130), at most
\* max_files files of a run are left, and the last max_files of them with all
\* they were given, when the names change where the rotations are due
\* (daily_file_sink.h:106-181).
FilesLimited ==
  /\ part = "rotating" => R!SizeLimit /\ R!SizeExact
  /\ part = "timed" => T!TypeOK /\ T!AtMostMax /\ T!LastKeptAligned

\* Only the oldest file is deleted, or an empty one (daily_file_sink.h:124-181).
OnlyOldestDeleted == [][part = "timed" => T!DeletesOldest]_allVars

\* Each message is shown or counted in a report, no text follows itself within
\* max_skip_duration (dup_filter_sink.h:58-89), and the ring buffer gives back
\* the last messages (ringbuffer_sink.h:31-43).
FilterCounts == part = "filter" => D!AllCounted /\ D!NoDuplicates /\ D!RingHasLast

\* A record reaches every sink, past one that throws too; a traced message is
\* kept until it is overrun, cleared or dumped, and dumped once, in order and
\* between Start and End; and errors are counted, and reported once a second
\* (logger-inl.h:135-195, backtracer-inl.h:30-61).
BacktraceDumped ==
  part = "logger" =>
    L!SinksServed /\ L!TracedKept /\ L!DumpedInOrder /\ L!DumpFramed /\ L!ErrorsCounted

\* Whatever is cached, a line shows the second of its message and an offset from
\* UTC not older than ten seconds; any pattern is read as a reader of one
\* character at a time reads it; and a padded field takes the room its padding
\* says and cuts nothing before it (pattern_formatter-inl.h:41-101, 1257-1350).
PatternsFollowed ==
  /\ part = "formatter" => P!SecondShown /\ P!OffsetRecent
  /\ part = "layout" => Y!PatternRead /\ Y!FieldsFit

\* Specifiers are read as their grammar says, automatic references follow one
\* another, and what the compiler accepts is formatted as it was checked
\* (base.h:1319-1673, format.h:3670-3795).  The conversions of printf are C's
\* (printf.h:303-541).
FormatStringsRead ==
  /\ part = "format string" => F!SpecsByGrammar /\ F!AutomaticInOrder /\ F!CheckedIsFormatted
  /\ part = "printf" => Q!PrintfAsC

\* However a text is cut into pieces, whatever buffer it goes through, all of it
\* arrives in order and once, up to the limit if there is one; what is counted
\* is what was written, and no memory is left (base.h:1773-2053).  Text is
\* decoded without loss, cut between its characters, padded to the columns asked
\* for, and a debug string says the text again (format.h:594-690, 1739-2274).
TextWritten ==
  /\ part = "output" => B!TextWhole /\ B!CountExact /\ B!NothingLeft
  /\ part = "text" =>
       /\ W!Utf8Decoded /\ W!SurrogatesReplaced /\ W!CutAndPadded /\ W!EscapesUndone
       /\ W!PrintableTables

\* A written number reads as the value, with the sign, base, width, zeros and
\* separators that were asked for, and its digits are counted before they are
\* written (format.h:1053-1297, 1868-2310).  A written float is the float, rounded
\* where its precision says, in the notation, padding and separators that were
\* asked for; its digits are exact, whether bigints or a first segment give them;
\* and precisions that would overflow are refused (format.h:2347-3500).
NumbersExact ==
  /\ part = "integer" =>
       I!IntegersRead /\ I!DigitsGrouped /\ I!DigitsCounted /\ I!OthersShown
  /\ part = "float" =>
       /\ X!FloatsRead /\ X!DigitsKept /\ X!FloatsPadded /\ X!HexfloatsRead
       /\ X!PrecisionsRefused /\ X!DigitsExact

\* Conversions of times are read by their grammar and say what the calendar
\* says, the weeks of ISO years too; the parts of a duration make the duration,
\* a point before the epoch shows its own second, and what would overflow is
\* refused (chrono.h:425-2240).
CalendarShown ==
  part = "chrono" =>
    /\ J!FormatsByGrammar /\ J!DatesShown /\ J!PaddingKept /\ J!DurationsShown
    /\ J!InstantsShown /\ J!CastsExact /\ J!WidthsKept

=============================================================================
