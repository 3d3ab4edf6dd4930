---------------------------- MODULE FormatString ----------------------------
(***************************************************************************)
(* How fmt, the formatting library inside spdlog, reads a format string    *)
(* (base.h, format.h): when it formats, and before that when the compiler  *)
(* checks the string against the types of the arguments.  A string is a    *)
(* sequence of one-letter strings.  An integer has Bits bits.              *)
(***************************************************************************)
EXTENDS Integers, Sequences, SequencesExt, TLC

CONSTANTS
  Bits,       \* of an int
  Inputs      \* records of a format string and its arguments

VARIABLES fmt, args

IntMax == 2 ^ (Bits - 1) - 1
Digits == <<"0", "1", "2", "3", "4", "5", "6", "7", "8", "9">>
IsDigit(c) == \E d \in DOMAIN Digits : Digits[d] = c
Digit(c) == (CHOOSE d \in DOMAIN Digits : Digits[d] = c) - 1

-----------------------------------------------------------------------------
(* The types of arguments and the sets of them the specifiers are for.     *)

sintSet == {"int"}
floatSet == {"float"}
stringSets == {"string", "cstring"}
integralSet == {"int", "uint", "bool", "char"}
IsArithmetic(type) == type \in integralSet \cup floatSet
IsIntegral(type) == type \in integralSet   \* is_integral_type()
IsInteger(type) == type \in {"int", "uint"}   \* is_integer, of dynamic_spec_getter

\* basic_specs and format_specs, and the references of dynamic_format_specs.
\* A reference is an index, a name, or none.
NoRef == [kind |-> "none", id |-> -1]
NoSpecs ==
  [type |-> "none", upper |-> FALSE, align |-> "none", fill |-> " ", sign |-> "none",
   alt |-> FALSE, localized |-> FALSE, width |-> 0, widthRef |-> NoRef,
   precision |-> -1, precisionRef |-> NoRef]

\* A parse_context: the next place of the string, the next automatic index (or
\* -1 after a manual one), and the first error, which ends all.
Context(i) == [i |-> i, next |-> 0, error |-> FALSE, value |-> 0, ref |-> NoRef]
Fail(s) == [s EXCEPT !.error = TRUE]
Skip(s) == [s EXCEPT !.i = @ + 1]
FailIf(bad, s) == IF bad THEN Fail(s) ELSE s

\* e is the string, its arguments, and whether the compiler checks it.
Ended(e, s) == s.i > Len(e.f)
Here(e, s, chars) == ~Ended(e, s) /\ e.f[s.i] \in chars

-----------------------------------------------------------------------------
(* Numbers and argument ids.                                               *)

AfterDigits(f, i) ==
  CHOOSE j \in i .. Len(f) + 1 :
    (\A k \in i .. j - 1 : IsDigit(f[k])) /\ (j = Len(f) + 1 \/ ~IsDigit(f[j]))

\* Mutant: the digit too many is not looked at.
NumberOfDigits(f, i, errorValue) ==
  LET j == AfterDigits(f, i)
      unsigned(n) == FoldLeft(LAMBDA v, c : (10 * v + Digit(c)) % 2 ^ Bits, 0, SubSeq(f, i, n - 1))
      digits10 == (Bits * 3) \div 10
  IN  IF j - i <= digits10 + 1 THEN unsigned(j) ELSE errorValue

\* parse_nonnegative_int().
ParseNonnegativeInt(f, i, errorValue) ==
  LET j == AfterDigits(f, i)
      unsigned(n) == FoldLeft(LAMBDA v, c : (10 * v + Digit(c)) % 2 ^ Bits, 0, SubSeq(f, i, n - 1))
      digits10 == (Bits * 3) \div 10
  IN  IF \/ j - i <= digits10
         \/ j - i = digits10 + 1 /\ unsigned(j - 1) * 10 + Digit(f[j - 1]) <= IntMax
      THEN unsigned(j) ELSE errorValue

\* next_arg_id() and check_arg_id(), of the context that parses or checks.
NextArgId(e, s) ==
  IF s.next < 0 THEN Fail(s)
  ELSE FailIf(e.checking /\ s.next >= Len(e.args),
              [s EXCEPT !.next = @ + 1, !.ref = [kind |-> "index", id |-> s.next]])
CheckArgId(e, s, id) ==
  IF s.next > 0 THEN Fail(s)
  ELSE FailIf(e.checking /\ id >= Len(e.args),
              [s EXCEPT !.next = -1, !.ref = [kind |-> "index", id |-> id]])

\* check_dynamic_spec(): of the compiler's check only.
CheckDynamicSpec(e, s) ==
  FailIf(/\ e.checking /\ ~s.error /\ s.ref.kind = "index" /\ s.ref.id < Len(e.args)
         /\ ~IsIntegral(e.args[s.ref.id + 1].type), s)

IsNameStart(c) == c \in {"a", "b", "d", "s", "f", "c", "x", "L"}
AfterName(f, i) ==
  CHOOSE j \in i + 1 .. Len(f) + 1 :
    /\ \A k \in i + 1 .. j - 1 : IsNameStart(f[k]) \/ IsDigit(f[k])
    /\ j = Len(f) + 1 \/ ~(IsNameStart(f[j]) \/ IsDigit(f[j]))

\* parse_arg_id(): the context after it, with the reference that it read.
ParseArgId(e, s) ==
  LET c == e.f[s.i] IN
  IF IsDigit(c)
  THEN LET index == IF c = "0" THEN 0 ELSE ParseNonnegativeInt(e.f, s.i, IntMax)
           past == [s EXCEPT !.i = IF c = "0" THEN @ + 1 ELSE AfterDigits(e.f, @),
                             !.ref = [kind |-> "index", id |-> index]]
       IN  FailIf(~Here(e, past, {"}", ":"}), past)
  ELSE IF ~IsNameStart(c) THEN Fail(s)
  ELSE [s EXCEPT !.i = AfterName(e.f, @),
                 !.ref = [kind |-> "name", id |-> SubSeq(e.f, s.i, AfterName(e.f, s.i) - 1)]]

-----------------------------------------------------------------------------
(* Format specifiers.                                                      *)

\* dynamic_spec_handler: on_index() and on_name().
DynamicSpecHandler(e, s) ==
  IF s.error THEN s
  ELSE IF s.ref.kind = "name" THEN [s EXCEPT !.next = -1]
  ELSE CheckDynamicSpec(e, CheckArgId(e, s, s.ref.id))

IdInBraces(e, s) ==
  IF Ended(e, s) THEN s
  ELSE IF Here(e, s, {"}", ":"}) THEN CheckDynamicSpec(e, NextArgId(e, s))
  ELSE DynamicSpecHandler(e, ParseArgId(e, s))

\* parse_dynamic_spec(): a number, or an argument's id in braces.
ReadNumber(e, s, val) ==
  FailIf(val = -1, [s EXCEPT !.i = AfterDigits(e.f, @), !.value = val, !.ref = NoRef])
CloseBrace(e, s) == IF s.error \/ ~Here(e, s, {"}"}) THEN Fail(s) ELSE Skip(s)
ParseDynamicSpec(e, s) ==
  IF Ended(e, s) THEN Fail(s)
  ELSE IF IsDigit(e.f[s.i]) THEN ReadNumber(e, s, ParseNonnegativeInt(e.f, s.i, -1))
  ELSE IF e.f[s.i] # "{" THEN Fail(s)
  ELSE CloseBrace(e, IdInBraces(e, Skip(s)))

Aligns == [c \in {"<", ">", "^"} |->
             CASE c = "<" -> "left" [] c = ">" -> "right" [] c = "^" -> "center"]
States == [start |-> 0, align |-> 1, sign |-> 2, hash |-> 3, zero |-> 4, width |-> 5,
           precision |-> 6, locale |-> 7]

\* The presentation types, and the types of argument they are for.
Presentations ==
  [c \in {"d", "x", "X", "o", "b", "B", "c"} |-> integralSet \ (IF c = "c" THEN {"bool"} ELSE {})]
  @@ [c \in {"e", "E", "f", "F", "g", "G", "a", "A"} |-> floatSet]
  @@ [s |-> {"bool"} \cup stringSets, p |-> {"pointer", "cstring"}]
  @@ [c \in {"?"} |-> {"char"} \cup stringSets]
Uppers == {"X", "B", "E", "F", "G", "A"}

\* A parser of specifiers is a context with the specifiers so far, the state,
\* and whether the presentation type, which comes last, was read.
Specs(s) == s @@ [specs |-> NoSpecs, state |-> "start", done |-> FALSE]

\* enter_state(): each part once, in the order of the states.
EnterState(s, state, valid) ==
  FailIf(States[s.state] >= States[state] \/ ~valid, [s EXCEPT !.state = state])

ReadAlign(s, c) ==
  Skip([EnterState(s, "align", TRUE) EXCEPT !.specs.align = Aligns[c]])
ReadSign(s, c, type) ==
  Skip([EnterState(s, "sign", type \in sintSet \cup floatSet) EXCEPT
          !.specs.sign = CASE c = "+" -> "plus" [] c = " " -> "space" [] OTHER -> @])
ReadHash(s, type) ==
  Skip([EnterState(s, "hash", IsArithmetic(type)) EXCEPT !.specs.alt = TRUE])
SetNumeric(s) ==
  IF s.specs.align # "none" THEN s
  ELSE [s EXCEPT !.specs.align = "numeric", !.specs.fill = "0"]
ReadZero(s, type) == Skip(SetNumeric(EnterState(s, "zero", IsArithmetic(type))))
DynamicSpec(e, s) == IF s.error THEN s ELSE ParseDynamicSpec(e, s)
SetWidth(s) ==
  [s EXCEPT !.specs.width = IF s.ref.kind = "none" THEN s.value ELSE @, !.specs.widthRef = s.ref]
ReadWidth(e, s) == SetWidth(DynamicSpec(e, EnterState(s, "width", TRUE)))
SetPrecision(s) ==
  [s EXCEPT !.specs.precision = IF s.ref.kind = "none" THEN s.value ELSE @,
            !.specs.precisionRef = s.ref]
ReadPrecision(e, s, type) ==
  SetPrecision(DynamicSpec(e, Skip(EnterState(s, "precision", type \in floatSet \cup stringSets))))
ReadLocale(s, type) ==
  Skip([EnterState(s, "locale", IsArithmetic(type)) EXCEPT !.specs.localized = TRUE])
ParsePresentationType(s, c, type) ==
  Skip([FailIf(type \notin Presentations[c], s) EXCEPT
          !.specs.type = c, !.specs.upper = @ \/ c \in Uppers, !.done = TRUE])

\* A fill and its alignment.
ReadFill(e, s) ==
  IF s.i + 1 > Len(e.f) \/ e.f[s.i] = "{" \/ e.f[s.i + 1] \notin DOMAIN Aligns THEN Fail(s)
  ELSE [EnterState(s, "align", TRUE) EXCEPT
          !.specs.fill = e.f[s.i], !.specs.align = Aligns[e.f[s.i + 1]], !.i = @ + 2]

\* One turn of parse_format_specs(); the first looks for an alignment behind
\* the first character.
ReadSpec(e, s, type) ==
  LET c == e.f[s.i]
  IN  IF s.state = "start" /\ s.i < Len(e.f) /\ e.f[s.i + 1] \in DOMAIN Aligns /\ c # "}" THEN ReadFill(e, s)
      ELSE IF c = "}" THEN [s EXCEPT !.done = TRUE]
      ELSE IF c \in DOMAIN Aligns THEN ReadAlign(s, c)
      ELSE IF c \in {"+", "-", " "} THEN ReadSign(s, c, type)
      ELSE IF c = "#" THEN ReadHash(s, type)
      ELSE IF c = "0" THEN ReadZero(s, type)
      ELSE IF IsDigit(c) \/ c = "{" THEN ReadWidth(e, s)
      ELSE IF c = "." THEN ReadPrecision(e, s, type)
      ELSE IF c = "L" THEN ReadLocale(s, type)
      ELSE IF c \in DOMAIN Presentations THEN ParsePresentationType(s, c, type)
      ELSE ReadFill(e, s)

RECURSIVE ParseFormatSpecs(_, _, _)
ParseFormatSpecs(e, s, type) ==
  IF s.error \/ s.done \/ Ended(e, s) THEN s
  ELSE ParseFormatSpecs(e, ReadSpec(e, s, type), type)

\* check_char_specs().
CharSpecsBad(specs) ==
  /\ specs.type \in {"none", "c", "?"}
  /\ specs.align = "numeric" \/ specs.sign # "none" \/ specs.alt

-----------------------------------------------------------------------------
(* Replacement fields and the whole string.                                *)

Named(e, name) == {k \in DOMAIN e.args : e.args[k].name = name}

\* on_arg_id() of format_handler and of format_string_checker: the reference
\* becomes an index.
OnArgId(e, s) ==
  IF s.error THEN s
  ELSE IF s.ref.kind = "index" THEN CheckArgId(e, s, s.ref.id)
  ELSE LET found == Named(e, s.ref.id)
           named == [s EXCEPT !.next = IF e.checking THEN @ ELSE -1]
       IN  IF found = {} THEN Fail(named)
           ELSE [named EXCEPT !.ref = [kind |-> "index", id |-> (CHOOSE k \in found : TRUE) - 1]]

\* handle_dynamic_spec(): the argument's value becomes the width or precision.
HandleDynamicSpec(e, ref) ==
  LET found == IF ref.kind = "name" THEN Named(e, ref.id) ELSE {ref.id + 1} \cap DOMAIN e.args IN
  IF found = {} THEN -1
  ELSE LET arg == e.args[CHOOSE k \in found : TRUE]
       IN  IF IsInteger(arg.type) /\ arg.value \in 0 .. IntMax THEN arg.value ELSE -1

\* on_format_specs(): the specifiers, checked or, when formatting, complete.
Complete(s, width, precision) ==
  FailIf(\/ s.specs.widthRef # NoRef /\ width = -1
         \/ s.specs.precisionRef # NoRef /\ precision = -1,
         [s EXCEPT !.specs.width = IF s.specs.widthRef = NoRef THEN @ ELSE width,
                   !.specs.precision = IF s.specs.precisionRef = NoRef THEN @ ELSE precision])
SpecsRead(e, s, type) ==
  IF s.error \/ (type = "char" /\ CharSpecsBad(s.specs)) THEN Fail(s)
  ELSE IF e.checking THEN s
  ELSE Complete(s, HandleDynamicSpec(e, s.specs.widthRef), HandleDynamicSpec(e, s.specs.precisionRef))
OnFormatSpecs(e, s, id) ==
  IF id >= Len(e.args) THEN Fail(s)
  ELSE SpecsRead(e, ParseFormatSpecs(e, Specs(s), e.args[id + 1].type), e.args[id + 1].type)

Base(s) == [i |-> s.i, next |-> s.next, error |-> s.error, value |-> s.value, ref |-> s.ref]
Field(id, specs) == [text |-> <<>>, arg |-> id, specs |-> specs]
TextOf(chars) == [text |-> chars, arg |-> -1, specs |-> NoSpecs]
OnText(r, chars) == [r EXCEPT !.items = Append(@, TextOf(chars))]

\* parse_replacement_field(), from behind the opening brace.
EndSpecs(e, r, s, id) ==
  IF s.error \/ ~Here(e, s, {"}"}) THEN [r EXCEPT !.s = Fail(Base(s))]
  ELSE [r EXCEPT !.s = Skip(Base(s)), !.items = Append(@, Field(id, s.specs))]
BehindId(e, r, s, id) ==
  IF s.error THEN [r EXCEPT !.s = s]
  ELSE IF Here(e, s, {"}"})
  THEN [r EXCEPT !.s = FailIf(id >= Len(e.args), Skip(s)), !.items = Append(@, Field(id, NoSpecs))]
  ELSE IF ~Here(e, s, {":"}) THEN [r EXCEPT !.s = Fail(s)]
  ELSE EndSpecs(e, r, OnFormatSpecs(e, Skip(s), id), id)
FieldOf(e, r, s) == BehindId(e, r, s, s.ref.id)
ParseReplacementField(e, r) ==
  IF Ended(e, r.s) THEN [r EXCEPT !.s = Fail(r.s)]
  ELSE IF Here(e, r.s, {"{"}) THEN OnText([r EXCEPT !.s = Skip(r.s)], <<"{">>)
  ELSE FieldOf(e, r, IF Here(e, r.s, {"}", ":"}) THEN NextArgId(e, r.s)
                     ELSE OnArgId(e, ParseArgId(e, r.s)))

\* parse_format_string(): the context at the end, and the texts and fields.
RECURSIVE ParseFrom(_, _)
ParseFrom(e, r) ==
  LET s == r.s  brace == Here(e, Skip(s), {"}"})  IN
  IF s.error \/ Ended(e, s) THEN r
  ELSE ParseFrom(e,
         IF Here(e, s, {"{"}) THEN ParseReplacementField(e, [r EXCEPT !.s = Skip(s)])
         ELSE IF Here(e, s, {"}"})
         THEN IF brace THEN OnText([r EXCEPT !.s = Skip(Skip(s))], <<"}">>)
              ELSE [r EXCEPT !.s = Fail(s)]
         ELSE OnText([r EXCEPT !.s = Skip(s)], <<e.f[s.i]>>))
ParseFormatString(f, as, checking) ==
  ParseFrom([f |-> f, args |-> as, checking |-> checking], [s |-> Context(1), items |-> <<>>])

-----------------------------------------------------------------------------
(* Properties.                                                             *)

Init == \E in \in Inputs : fmt = in.fmt /\ args = in.args

Checked == ParseFormatString(fmt, args, TRUE)
Formatted == ParseFormatString(fmt, args, FALSE)

\* The grammar [[fill]align][sign][#][0][width][.precision][L][type], read part
\* after part: the place behind each part, which is that before it if there is
\* no such part.
Grammar(x) ==
  LET letter(i, set) == IF i <= Len(x) /\ x[i] \in set THEN i + 1 ELSE i
      align == IF Len(x) >= 2 /\ x[2] \in DOMAIN Aligns THEN 3 ELSE letter(1, DOMAIN Aligns)
      sign == letter(align, {"+", "-", " "})
      hash == letter(sign, {"#"})
      zero == letter(hash, {"0"})
      width == AfterDigits(x, zero)
      point == letter(width, {"."})
      precision == IF point = width THEN point ELSE AfterDigits(x, point)
      locale == letter(precision, {"L"})
  IN  [align |-> align, sign |-> sign, hash |-> hash, zero |-> zero, width |-> width,
       point |-> point, precision |-> precision, locale |-> locale,
       type |-> letter(locale, DOMAIN Presentations)]

Decimal(digits) == FoldLeft(LAMBDA v, c : 10 * v + Digit(c), 0, digits)

\* Whether all of x follows the grammar, with the parts its type of argument has.
Legal(x, g, type) ==
  /\ g.type > Len(x)
  /\ g.sign > g.align => type \in sintSet \cup floatSet
  /\ g.zero > g.sign \/ g.locale > g.precision => IsArithmetic(type)
  /\ g.width > g.zero => x[g.zero] # "0" /\ Decimal(SubSeq(x, g.zero, g.width - 1)) <= IntMax
  /\ g.point > g.width =>
       /\ type \in floatSet \cup stringSets
       /\ g.precision > g.point /\ Decimal(SubSeq(x, g.point, g.precision - 1)) <= IntMax
  /\ g.type > g.locale => type \in Presentations[x[g.locale]]

Meaning(x, g) ==
  LET last(c) == x[c - 1] IN
  [type |-> IF g.type > g.locale THEN last(g.type) ELSE "none",
   upper |-> g.type > g.locale /\ last(g.type) \in Uppers,
   align |-> IF g.align > 1 THEN Aligns[last(g.align)]
             ELSE IF g.zero > g.hash THEN "numeric" ELSE "none",
   fill |-> IF g.align = 3 THEN x[1]
            ELSE IF g.align = 1 /\ g.zero > g.hash THEN "0" ELSE " ",
   sign |-> IF g.sign = g.align \/ last(g.sign) = "-" THEN "none"
            ELSE IF last(g.sign) = "+" THEN "plus" ELSE "space",
   alt |-> g.hash > g.sign, localized |-> g.locale > g.precision,
   width |-> Decimal(SubSeq(x, g.zero, g.width - 1)), widthRef |-> NoRef,
   precision |-> IF g.point = g.width THEN -1 ELSE Decimal(SubSeq(x, g.point, g.precision - 1)),
   precisionRef |-> NoRef]

\* Specifiers are read as the grammar says, each part at most once, in its
\* order, for the types it is for, and no number wraps round (base.h:1322-1606).
ByGrammar(r, x, g, type) ==
  /\ r.s.error = ~Legal(x, g, type)
  /\ Legal(x, g, type) => r.items = <<Field(0, Meaning(x, g))>>
SpecsByGrammar ==
  LET n == Len(fmt)
      read(x) == ByGrammar(Formatted, x, Grammar(x), args[1].type)
  IN  n >= 3 /\ SubSeq(fmt, 1, 2) = <<"{", ":">> /\ fmt[n] = "}" /\ args[1].type # "char"
             /\ (\A k \in 3 .. n - 1 : fmt[k] \notin {"{", "}"})
      => read(SubSeq(fmt, 3, n - 1))

\* The references of the fields, in their order.
References(items) ==
  FlattenSeq([k \in DOMAIN items |->
    IF items[k].arg < 0 THEN <<>>
    ELSE <<items[k].arg>>
         \o SelectSeq([j \in 1 .. 2 |-> IF j = 1 THEN items[k].specs.widthRef.id
                                       ELSE items[k].specs.precisionRef.id],
                      LAMBDA id : id # NoRef.id)])

\* As long as no index or name was given, the fields and their widths and
\* precisions take the arguments one after the other (base.h:888-910).
AutomaticInOrder ==
  LET inOrder(r) ==
        ~r.s.error /\ r.s.next >= 0 => References(r.items) = [k \in 1 .. r.s.next |-> k - 1]
  IN  inOrder(Formatted)

\* What the compiler has accepted is formatted as it was checked: no exception
\* is left but for widths and precisions that are out of range, of type bool or
\* char, or given by a name, and for names beside automatic indexes, which only
\* formatting looks at (base.h:1731-1765, format.h:3771-3812).
SameFields(checked, formatted) ==
  /\ ~formatted.s.error
  /\ \A k \in DOMAIN checked.items :
       LET c == checked.items[k]  d == formatted.items[k]  IN
       /\ c.text = d.text /\ c.arg = d.arg
       /\ d.specs = [c.specs EXCEPT !.width = d.specs.width, !.precision = d.specs.precision]
CheckedIsFormatted ==
  LET outOfRange(arg) == arg.type \in {"bool", "char"} \/ arg.value \notin 0 .. IntMax
      inRange(ref) ==
        CASE ref.kind = "index" /\ ref.id < Len(args) -> ~outOfRange(args[ref.id + 1])
          [] ref.kind = "name" -> HandleDynamicSpec([f |-> fmt, args |-> args], ref) >= 0
          [] OTHER -> TRUE
      automatic == \E i \in 1 .. Len(fmt) - 1 : fmt[i] = "{" /\ fmt[i + 1] \in {"}", ":"}
      unnamed == \A k \in DOMAIN args : args[k].name = <<>>
      sure(checked) ==
        /\ ~checked.s.error
        /\ \A k \in DOMAIN checked.items :
             LET specs == checked.items[k].specs IN
             inRange(specs.widthRef) /\ inRange(specs.precisionRef)
        /\ unnamed \/ ~automatic
      agree(checked) == sure(checked) => SameFields(checked, Formatted)
  IN  agree(Checked)

=============================================================================
