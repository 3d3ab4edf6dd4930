---------------------------- MODULE TextWriting -----------------------------
(***************************************************************************)
(* How fmt writes strings and characters (format.h): UTF-8 is decoded to   *)
(* find the columns a text takes, where a precision cuts it and what is    *)
(* escaped in a debug string; and the conversions from and to UTF-16.  A   *)
(* text is a sequence of bytes.                                            *)
(***************************************************************************)
EXTENDS Writing

CONSTANT Inputs      \* records of a text and specifiers

VARIABLES text, specs

Quote == 34
Apostrophe == 39
Backslash == 92
Hex == [d \in 0 .. 15 |-> IF d < 10 THEN 48 + d ELSE 87 + d]

invalid == -1   \* invalid_code_point

-----------------------------------------------------------------------------
(* UTF-8.                                                                  *)

\* The length a first byte announces; 0 if none begins with it.
LengthOf(byte) ==
  CASE byte < 128 -> 1 [] byte < 192 -> 0 [] byte < 224 -> 2 [] byte < 240 -> 3
    [] byte < 248 -> 4 [] OTHER -> 0

\* Behind the last byte the buffer has zeros.
ByteAt(s, i) == IF i <= Len(s) THEN s[i] ELSE 0

\* Mutant: encodings longer than they must be are taken.
Utf8DecodeLong(s, i) ==
  LET len == LengthOf(s[i])
      masks == <<128, 32, 16, 8>>
      tail(n) == FoldLeft(LAMBDA v, k : v * 64 + (ByteAt(s, i + k) % 64),
                          s[i] % masks[n], [k \in 1 .. n - 1 |-> k])
      c == tail(len)
      error == \/ len = 0
               \/ \E k \in 1 .. len - 1 : ByteAt(s, i + k) \div 64 # 2
               \/ c \div 2048 = 27 \/ c > 1114111
  IN  IF error THEN [cp |-> invalid, bytes |-> <<s[i]>>]
      ELSE [cp |-> c, bytes |-> SubSeq(s, i, i + len - 1)]

\* utf8_decode() at place i, and the string_view for_each_codepoint() makes of
\* it: of an error, a single byte.
Utf8Decode(s, i) ==
  LET len == LengthOf(s[i])
      masks == <<128, 32, 16, 8>>
      mins == <<0, 128, 2048, 65536>>
      tail(n) == FoldLeft(LAMBDA v, k : v * 64 + (ByteAt(s, i + k) % 64),
                          s[i] % masks[n], [k \in 1 .. n - 1 |-> k])
      c == tail(len)
      error == \/ len = 0
               \/ \E k \in 1 .. len - 1 : ByteAt(s, i + k) \div 64 # 2
               \/ c < mins[len] \/ c \div 2048 = 27 \/ c > 1114111
  IN  IF error THEN [cp |-> invalid, bytes |-> <<s[i]>>]
      ELSE [cp |-> c, bytes |-> SubSeq(s, i, i + len - 1)]

RECURSIVE CodePointsFrom(_, _)
CodePointsFrom(s, i) ==
  IF i > Len(s) THEN <<>>
  ELSE LET u == Utf8Decode(s, i) IN <<u>> \o CodePointsFrom(s, i + Len(u.bytes))

\* for_each_codepoint().
CodePoints(s) == CodePointsFrom(s, 1)

\* The bytes of a code point, in to_utf8; none if there is no such code point.
Encode(c) ==
  LET tail(k) == 128 + ((c \div 64 ^ k) % 64) IN
  CASE c \in 0 .. 127 -> <<c>>
    [] c \in 128 .. 2047 -> <<192 + c \div 64, tail(0)>>
    [] c \in 2048 .. 55295 \/ c \in 57344 .. 65535 -> <<224 + c \div 4096, tail(1), tail(0)>>
    [] c \in 65536 .. 1114111 -> <<240 + c \div 262144, tail(2), tail(1), tail(0)>>
    [] OTHER -> <<>>

Replacement == <<239, 191, 189>>
InHigh(u) == u \div 1024 = 54   \* a first surrogate
InLow(u) == u \div 1024 = 55

\* to_utf8::convert() of 16-bit units; NoText if it stops at a bad pair.
NoText == <<-1>>
RECURSIVE ToUtf8(_, _)
ToUtf8(units, policy) ==
  IF units = <<>> THEN <<>>
  ELSE LET u == Head(units)
           pair == InHigh(u) /\ Len(units) > 1 /\ InLow(units[2])
           here == IF ~(InHigh(u) \/ InLow(u)) THEN Encode(u)
                   ELSE IF pair THEN Encode((u % 1024) * 1024 + (units[2] % 1024) + 65536)
                   ELSE Replacement
           rest == ToUtf8(SubSeq(units, IF pair THEN 3 ELSE 2, Len(units)), policy)
       IN  IF (here = Replacement /\ u # 65533 /\ policy = "abort") \/ rest = NoText
           THEN NoText ELSE here \o rest

\* utf8_to_utf16(); NoText if it throws.
Utf16Units(cp) ==
  IF cp <= 65535 THEN <<cp>>
  ELSE <<55296 + (cp - 65536) \div 1024, 56320 + ((cp - 65536) % 1024)>>
Utf8ToUtf16(s) ==
  LET us == CodePoints(s) IN
  IF \E k \in DOMAIN us : us[k].cp = invalid THEN NoText
  ELSE FlattenSeq([k \in DOMAIN us |-> Utf16Units(us[k].cp)])

-----------------------------------------------------------------------------
(* Columns and escapes.                                                    *)

Wide ==
  {<<4352, 4447>>, <<9001, 9002>>, <<11904, 12350>>, <<12352, 42191>>, <<44032, 55203>>,
   <<63744, 64255>>, <<65040, 65049>>, <<65072, 65135>>, <<65280, 65376>>, <<65504, 65510>>,
   <<131072, 196605>>, <<196608, 262141>>, <<127744, 128591>>, <<129280, 129535>>}

\* display_width_of().
DisplayWidthOf(cp) == IF \E r \in Wide : r[1] <= cp /\ cp <= r[2] THEN 2 ELSE 1

NeedsEscape(cp) == cp \in 0 .. 31 \cup {127, Quote, Backslash} \/ ~IsPrintable(cp)

\* write_codepoint(): n hexadecimal digits.
WriteCodepoint(n, prefix, cp) ==
  <<Backslash, prefix>> \o [k \in 1 .. n |-> Hex[(cp \div 16 ^ (n - k)) % 16]]

\* write_escaped_cp(), of a code point or of a byte that is part of none.
WriteEscapedCp(u) ==
  LET c == u.cp IN
  CASE c = 10 -> <<Backslash, 110>>
    [] c = 13 -> <<Backslash, 114>>
    [] c = 9 -> <<Backslash, 116>>
    [] c \in {Quote, Apostrophe, Backslash} -> <<Backslash, c>>
    [] c = invalid -> FlattenSeq([k \in DOMAIN u.bytes |-> WriteCodepoint(2, 120, u.bytes[k])])
    [] c < 256 -> WriteCodepoint(2, 120, c)
    [] c < 65536 -> WriteCodepoint(4, 117, c)
    [] OTHER -> WriteCodepoint(8, 85, c)

Shown(u) == IF NeedsEscape(u.cp) THEN WriteEscapedCp(u) ELSE u.bytes

\* write_escaped_string().
WriteEscapedString(s) ==
  LET us == CodePoints(s)
  IN  <<Quote>> \o FlattenSeq([k \in DOMAIN us |-> Shown(us[k])]) \o <<Quote>>

\* write_escaped_char(); a char of 128 and more is negative, so no code point.
WriteEscapedChar(v) ==
  LET u == [cp |-> IF v < 128 THEN v ELSE invalid, bytes |-> <<v>>]
      escape == (NeedsEscape(u.cp) /\ v # Quote) \/ v = Apostrophe
  IN  <<Apostrophe>> \o (IF escape THEN WriteEscapedCp(u) ELSE <<v>>) \o <<Apostrophe>>

\* write_char(): one column, escaped or not.
WriteChar(v, sp) ==
  WritePadded(sp, "left", 1, IF sp.type = "?" THEN WriteEscapedChar(v) ELSE <<v>>)

-----------------------------------------------------------------------------
(* Strings.                                                                *)

\* What is written of a string: size bytes that take width columns.
MeasureUnits(us, debug, limit, opening) ==
  LET quote(m, k) ==   \* the closing quote
        IF debug /\ m.width < limit /\ k = Len(us)
        THEN [m EXCEPT !.width = @ + 1, !.size = @ + 1] ELSE m
      put(m, k, escape, columns, bytes) ==
        IF m.width + columns <= limit
        THEN quote([m EXCEPT !.width = @ + columns, !.size = @ + bytes], k)
        ELSE IF escape THEN [size |-> m.size + limit - m.width, width |-> limit, full |-> TRUE]
        ELSE [m EXCEPT !.full = TRUE]
      escaped(m, k, n) == put(m, k, TRUE, n, n)
      step(m, k) ==
        IF m.full THEN m
        ELSE IF debug /\ NeedsEscape(us[k].cp) THEN escaped(m, k, Len(WriteEscapedCp(us[k])))
        ELSE put(m, k, FALSE, DisplayWidthOf(us[k].cp), Len(us[k].bytes))
  IN  FoldLeft(step, [size |-> opening, width |-> opening, full |-> FALSE],
               [k \in DOMAIN us |-> k])
Measure(s, sp) ==
  MeasureUnits(CodePoints(s), sp.type = "?", IF sp.precision < 0 THEN 1000 ELSE sp.precision,
               IF sp.type # "?" \/ sp.precision = 0 THEN 0 ELSE 1)

\* write() of a string_view; a debug string is cut by bounded_output_iterator.
WriteString(s, sp) ==
  LET all == IF sp.type = "?" THEN WriteEscapedString(s) ELSE s
      cut(m) == WritePadded(sp, "left", m.width, SubSeq(all, 1, m.size))
  IN  IF sp.precision < 0 /\ sp.width = 0 THEN all ELSE cut(Measure(s, sp))

-----------------------------------------------------------------------------
(* Properties.                                                             *)

Init == \E in \in Inputs : text = in.text /\ specs = in.specs

Units == CodePoints(text)
Valid == \A k \in DOMAIN Units : Units[k].cp # invalid

\* Decoding loses no byte and reads none twice; each code point found is the
\* one its bytes encode in the only way UTF-8 allows, and where a code point
\* is encoded it is found; and UTF-16 gives the same text back
\* (format.h:594-667, 1340-1388; format-inl.h:1410-1424).
Utf8Decoded ==
  /\ FlattenSeq([k \in DOMAIN Units |-> Units[k].bytes]) = text
  /\ \A k \in DOMAIN Units :
       IF Units[k].cp = invalid THEN Len(Units[k].bytes) = 1
       ELSE Encode(Units[k].cp) = Units[k].bytes
  /\ Valid => ToUtf8(Utf8ToUtf16(text), "abort") = text

\* Two neighbouring bytes taken for one 16-bit unit: with "replace" all of them
\* are converted to UTF-8 that is valid, a replacement for each surrogate that
\* has no partner; with "abort" the conversion succeeds when there is none.
SurrogatesReplaced ==
  LET units == [k \in 1 .. Len(text) \div 2 |-> text[2 * k - 1] * 256 + text[2 * k]]
      us == CodePoints(ToUtf8(units, "replace"))
      alone(k) ==
        \/ InHigh(units[k]) /\ ~(k < Len(units) /\ InLow(units[k + 1]))
        \/ InLow(units[k]) /\ ~(k > 1 /\ InHigh(units[k - 1]))
      lone == {k \in DOMAIN units : alone(k)}
  IN  /\ \A k \in DOMAIN us : us[k].cp # invalid
      /\ (ToUtf8(units, "abort") = NoText) = (lone # {})
      /\ lone = {} => Utf8ToUtf16(ToUtf8(units, "abort")) = units
      /\ Cardinality({k \in DOMAIN us : us[k].cp = 65533})
         = Cardinality(lone \cup {k \in DOMAIN units : units[k] = 65533})

\* What a reader sees of the whole string: its characters, with their columns.
Characters(sp) ==
  LET one(b) == [bytes |-> <<b>>, columns |-> 1]
      ones(bytes) == [k \in DOMAIN bytes |-> one(bytes[k])]
      unit(u) == IF NeedsEscape(u.cp) /\ sp.type = "?" THEN ones(WriteEscapedCp(u))
                 ELSE <<[bytes |-> u.bytes, columns |-> DisplayWidthOf(u.cp)]>>
      inside(us) == FlattenSeq([k \in DOMAIN us |-> unit(us[k])])
  IN  IF sp.type = "?" THEN <<one(Quote)>> \o inside(Units) \o <<one(Quote)>> ELSE inside(Units)

Columns(cs) == FoldLeft(LAMBDA n, c : n + c.columns, 0, cs)

\* The longest beginning that is not wider than the precision.
Cut(cs) ==
  LET fits(n) == specs.precision < 0 \/ Columns(SubSeq(cs, 1, n)) <= specs.precision
      n == CHOOSE n \in 0 .. Len(cs) : fits(n) /\ (n = Len(cs) \/ ~fits(n + 1))
  IN  SubSeq(cs, 1, n)

\* A precision cuts a string behind the last character that ends within so many
\* columns, never inside one; with the padding it takes the width asked for, in
\* columns, at the side asked for.  The empty debug string is left out: with a
\* width, its closing quote is not counted and not written (format.h:2171-2253).
CutAndPadded ==
  LET left(pad) == CASE specs.align = "right" -> pad [] specs.align = "center" -> pad \div 2
                     [] OTHER -> 0
      padded(kept, pad) ==
        Fill(left(pad), specs) \o FlattenSeq([k \in DOMAIN kept |-> kept[k].bytes])
        \o Fill(pad - left(pad), specs)
      room(n) == IF specs.width > n THEN specs.width - n ELSE 0
      shown(kept) == padded(kept, room(Columns(kept)))
  IN  ~(text = <<>> /\ specs.type = "?") => WriteString(text, specs) = shown(Cut(Characters(specs)))

\* The inverse of the escapes: what a reader makes of a debug string.
Value(digits) ==
  FoldLeft(LAMBDA v, d : v * 16 + (CHOOSE x \in 0 .. 15 : Hex[x] = d), 0, digits)
RECURSIVE Unescaped(_)
Unescaped(s) ==
  IF s = <<>> THEN <<>>
  ELSE LET from(k) == Unescaped(SubSeq(s, k, Len(s))) IN
       IF s[1] # Backslash THEN <<s[1]>> \o from(2)
       ELSE CASE s[2] = 110 -> <<10>> \o from(3)
              [] s[2] = 114 -> <<13>> \o from(3)
              [] s[2] = 116 -> <<9>> \o from(3)
              [] s[2] = 120 -> <<Value(SubSeq(s, 3, 4))>> \o from(5)
              [] s[2] = 117 -> Encode(Value(SubSeq(s, 3, 6))) \o from(7)
              [] s[2] = 85 -> Encode(Value(SubSeq(s, 3, 10))) \o from(11)
              [] OTHER -> <<s[2]>> \o from(3)

\* A debug string is in quotes with none inside that is not escaped, has no
\* control character, and says the text again, unless \x could stand for a
\* byte as well as for a code point; a character likewise (format.h:1739-1866).
EscapesUndone ==
  LET inside(d) == SubSeq(d, 2, Len(d) - 1)
      latin == \E k \in DOMAIN Units : Units[k].cp \in 128 .. 255 /\ NeedsEscape(Units[k].cp)
      string(d) ==
        /\ d[1] = Quote /\ d[Len(d)] = Quote
        /\ \A k \in DOMAIN d : d[k] >= 32 /\ d[k] # 127
        /\ latin \/ Unescaped(inside(d)) = text
      char(c) ==
        /\ Unescaped(inside(c)) = <<text[1]>>
        /\ \A k \in 2 .. Len(c) - 1 : c[k] = Apostrophe => c[k - 1] = Backslash
  IN  string(WriteEscapedString(text)) /\ (text # <<>> => char(WriteEscapedChar(text[1])))

\* The tables of printable characters fit together, whatever the text (evaluated
\* once; format-inl.h:1762-1940).
PrintableTables == text = <<>> /\ specs.width = 0 /\ specs.type = "?" => TablesFit

=============================================================================
