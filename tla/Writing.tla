------------------------------ MODULE Writing -------------------------------
(***************************************************************************)
(* What fmt's writers share and what asks nothing of them: padding to a    *)
(* width, with the format_specs that say so (format.h), and which code     *)
(* points are printed as they are (is_printable() of format-inl.h).        *)
(***************************************************************************)
EXTENDS Integers, Sequences, FiniteSets, SequencesExt

-----------------------------------------------------------------------------
(* Padding.                                                                *)

\* The fill is one code point: a sequence of code units.
NoSpecs(fill) ==
  [type |-> "none", upper |-> FALSE, align |-> "none", fill |-> fill, sign |-> "none",
   alt |-> FALSE, localized |-> FALSE, width |-> 0, precision |-> -1]

\* n copies of the fill.
Fill(n, specs) == FlattenSeq([k \in 1 .. n |-> specs.fill])

\* Mutant: half of the padding that is left over is forgotten.
WritePaddedHalves(specs, default, width, text) ==
  LET padding == IF specs.width > width THEN specs.width - width ELSE 0
      left == CASE specs.align \in {"right", "numeric"} -> padding
                [] specs.align = "center" -> padding \div 2
                [] specs.align = "none" /\ default = "right" -> padding
                [] OTHER -> 0
      right == IF specs.align = "center" THEN padding \div 2 ELSE padding - left
  IN  Fill(left, specs) \o text \o Fill(right, specs)

\* write_padded(): the text takes width columns, and each fill is taken for one.
WritePadded(specs, default, width, text) ==
  LET padding == IF specs.width > width THEN specs.width - width ELSE 0
      left == CASE specs.align \in {"right", "numeric"} -> padding
                [] specs.align = "center" -> padding \div 2
                [] specs.align = "none" /\ default = "right" -> padding
                [] OTHER -> 0
  IN  Fill(left, specs) \o text \o Fill(padding - left, specs)

-----------------------------------------------------------------------------
(* is_printable(), which a debug string escapes by, with its tables.  A    *)
(* table of 2^16 code points is a list of lengths of runs, unprintable and *)
(* printable by turns, and a list of single unprintable ones by their high *)
(* byte.                                                                   *)

singletons0 ==
  <<
    <<0, 1>>, <<3, 5>>, <<5, 6>>, <<6, 3>>, <<7, 6>>, <<8, 8>>, <<9, 17>>, <<10, 28>>,
    <<11, 25>>, <<12, 20>>, <<13, 16>>, <<14, 13>>, <<15, 4>>, <<16, 3>>, <<18, 18>>, <<19, 9>>,
    <<22, 1>>, <<23, 5>>, <<24, 2>>, <<25, 3>>, <<26, 7>>, <<28, 2>>, <<29, 1>>, <<31, 22>>,
    <<32, 3>>, <<43, 3>>, <<44, 2>>, <<45, 11>>, <<46, 1>>, <<48, 3>>, <<49, 2>>, <<50, 1>>,
    <<167, 2>>, <<169, 2>>, <<170, 4>>, <<171, 8>>, <<250, 2>>, <<251, 5>>, <<253, 4>>,
    <<254, 3>>, <<255, 9>>
  >>

singletons0_lower ==
  <<
    173, 120, 121, 139, 141, 162, 48, 87, 88, 139, 140, 144, 28, 29, 221, 14, 15, 75, 76, 251,
    252, 46, 47, 63, 92, 93, 95, 181, 226, 132, 141, 142, 145, 146, 169, 177, 186, 187, 197,
    198, 201, 202, 222, 228, 229, 255, 0, 4, 17, 18, 41, 49, 52, 55, 58, 59, 61, 73, 74, 93,
    132, 142, 146, 169, 177, 180, 186, 187, 198, 202, 206, 207, 228, 229, 0, 4, 13, 14, 17, 18,
    41, 49, 52, 58, 59, 69, 70, 73, 74, 94, 100, 101, 132, 145, 155, 157, 201, 206, 207, 13, 17,
    41, 69, 73, 87, 100, 101, 141, 145, 169, 180, 186, 187, 197, 201, 223, 228, 229, 240, 13,
    17, 69, 73, 100, 101, 128, 132, 178, 188, 190, 191, 213, 215, 240, 241, 131, 133, 139, 164,
    166, 190, 191, 197, 199, 206, 207, 218, 219, 72, 152, 189, 205, 198, 206, 207, 73, 78, 79,
    87, 89, 94, 95, 137, 142, 143, 177, 182, 183, 191, 193, 198, 199, 215, 17, 22, 23, 91, 92,
    246, 247, 254, 255, 128, 13, 109, 113, 222, 223, 14, 15, 31, 110, 111, 28, 29, 95, 125, 126,
    174, 175, 187, 188, 250, 22, 23, 30, 31, 70, 71, 78, 79, 88, 90, 92, 94, 126, 127, 181, 197,
    212, 213, 220, 240, 241, 245, 114, 115, 143, 116, 117, 150, 47, 95, 38, 46, 47, 167, 175,
    183, 191, 199, 207, 215, 223, 154, 64, 151, 152, 48, 143, 31, 192, 193, 206, 255, 78, 79,
    90, 91, 7, 8, 15, 16, 39, 47, 238, 239, 110, 111, 55, 61, 63, 66, 69, 144, 145, 254, 255,
    83, 103, 117, 200, 201, 208, 209, 216, 217, 231, 254, 255
  >>

singletons1 ==
  <<
    <<0, 6>>, <<1, 1>>, <<3, 1>>, <<4, 2>>, <<8, 8>>, <<9, 2>>, <<10, 5>>, <<11, 2>>, <<14, 4>>,
    <<16, 1>>, <<17, 2>>, <<18, 5>>, <<19, 17>>, <<20, 1>>, <<21, 2>>, <<23, 2>>, <<25, 13>>,
    <<28, 5>>, <<29, 8>>, <<36, 1>>, <<106, 3>>, <<107, 2>>, <<188, 2>>, <<209, 2>>, <<212, 12>>,
    <<213, 9>>, <<214, 2>>, <<215, 2>>, <<218, 1>>, <<224, 5>>, <<225, 2>>, <<232, 2>>,
    <<238, 32>>, <<240, 4>>, <<248, 2>>, <<249, 2>>, <<250, 2>>, <<251, 1>>
  >>

singletons1_lower ==
  <<
    12, 39, 59, 62, 78, 79, 143, 158, 158, 159, 6, 7, 9, 54, 61, 62, 86, 243, 208, 209, 4, 20,
    24, 54, 55, 86, 87, 127, 170, 174, 175, 189, 53, 224, 18, 135, 137, 142, 158, 4, 13, 14, 17,
    18, 41, 49, 52, 58, 69, 70, 73, 74, 78, 79, 100, 101, 92, 182, 183, 27, 28, 7, 8, 10, 11,
    20, 23, 54, 57, 58, 168, 169, 216, 217, 9, 55, 144, 145, 168, 7, 10, 59, 62, 102, 105, 143,
    146, 111, 95, 238, 239, 90, 98, 154, 155, 39, 40, 85, 157, 160, 161, 163, 164, 167, 168,
    173, 186, 188, 196, 6, 11, 12, 21, 29, 58, 63, 69, 81, 166, 167, 204, 205, 160, 7, 25, 26,
    34, 37, 62, 63, 197, 198, 4, 32, 35, 37, 38, 40, 51, 56, 58, 72, 74, 76, 80, 83, 85, 86, 88,
    90, 92, 94, 96, 99, 101, 102, 107, 115, 120, 125, 127, 138, 164, 170, 175, 176, 192, 208,
    174, 175, 121, 204, 110, 111, 147
  >>

normal0 ==
  <<
    0, 32, 95, 34, 130, 223, 4, 130, 68, 8, 27, 4, 6, 17, 129, 172, 14, 128, 171, 53, 40, 11,
    128, 224, 3, 25, 8, 1, 4, 47, 4, 52, 4, 7, 3, 1, 7, 6, 7, 17, 10, 80, 15, 18, 7, 85, 7, 3,
    4, 28, 10, 9, 3, 8, 3, 7, 3, 2, 3, 3, 3, 12, 4, 5, 3, 11, 6, 1, 14, 21, 5, 58, 3, 17, 7, 6,
    5, 16, 7, 87, 7, 2, 7, 21, 13, 80, 4, 67, 3, 45, 3, 1, 4, 17, 6, 15, 12, 58, 4, 29, 37, 95,
    32, 109, 4, 106, 37, 128, 200, 5, 130, 176, 3, 26, 6, 130, 253, 3, 89, 7, 21, 11, 23, 9, 20,
    12, 20, 12, 106, 6, 10, 6, 26, 6, 89, 7, 43, 5, 70, 10, 44, 4, 12, 4, 1, 3, 49, 11, 44, 4,
    26, 6, 11, 3, 128, 172, 6, 10, 6, 33, 63, 76, 4, 45, 3, 116, 8, 60, 3, 15, 3, 60, 7, 56, 8,
    43, 5, 130, 255, 17, 24, 8, 47, 17, 45, 3, 32, 16, 33, 15, 128, 140, 4, 130, 151, 25, 11,
    21, 136, 148, 5, 47, 5, 59, 7, 2, 14, 24, 9, 128, 179, 45, 116, 12, 128, 214, 26, 12, 5,
    128, 255, 5, 128, 223, 12, 238, 13, 3, 132, 141, 3, 55, 9, 129, 92, 20, 128, 184, 8, 128,
    203, 42, 56, 3, 10, 6, 56, 8, 70, 8, 12, 6, 116, 11, 30, 3, 90, 4, 89, 9, 128, 131, 24, 28,
    10, 22, 9, 76, 4, 128, 138, 6, 171, 164, 12, 23, 4, 49, 161, 4, 129, 218, 38, 7, 12, 5, 5,
    128, 165, 17, 129, 109, 16, 120, 40, 42, 6, 76, 4, 128, 141, 4, 128, 190, 3, 27, 3, 15, 13
  >>

normal1 ==
  <<
    94, 34, 123, 5, 3, 4, 45, 3, 102, 3, 1, 47, 46, 128, 130, 29, 3, 49, 15, 28, 4, 36, 9, 30,
    5, 43, 5, 68, 4, 14, 42, 128, 170, 6, 36, 4, 36, 4, 40, 8, 52, 11, 1, 128, 144, 129, 55, 9,
    22, 10, 8, 128, 152, 57, 3, 99, 8, 9, 48, 22, 5, 33, 3, 27, 5, 1, 64, 56, 4, 75, 5, 47, 4,
    10, 7, 9, 7, 64, 32, 39, 4, 12, 9, 54, 3, 58, 5, 26, 7, 4, 12, 7, 80, 73, 55, 51, 13, 51, 7,
    46, 8, 10, 129, 38, 82, 78, 40, 8, 42, 86, 28, 20, 23, 9, 78, 4, 30, 15, 67, 14, 25, 7, 10,
    6, 72, 8, 39, 9, 117, 11, 63, 65, 42, 6, 59, 5, 10, 6, 81, 6, 1, 5, 16, 3, 5, 128, 139, 98,
    30, 72, 8, 10, 128, 166, 94, 34, 69, 11, 10, 6, 13, 19, 57, 7, 10, 54, 44, 4, 16, 128, 192,
    60, 100, 83, 12, 72, 9, 10, 70, 69, 27, 72, 8, 83, 29, 57, 129, 7, 70, 10, 29, 3, 71, 73,
    55, 3, 14, 8, 10, 6, 57, 7, 10, 129, 54, 25, 128, 183, 1, 15, 50, 13, 131, 155, 102, 117,
    11, 128, 196, 138, 188, 132, 47, 143, 209, 130, 71, 161, 185, 130, 57, 7, 42, 4, 2, 96, 38,
    10, 70, 10, 40, 5, 19, 130, 176, 91, 101, 75, 4, 57, 7, 17, 64, 5, 11, 2, 14, 151, 248, 8,
    132, 214, 42, 9, 162, 247, 129, 31, 49, 3, 17, 4, 8, 129, 140, 137, 4, 107, 5, 13, 3, 9, 7,
    16, 147, 96, 128, 246, 10, 115, 8, 110, 23, 70, 128, 154, 20, 12, 87, 9, 25, 128, 135, 129,
    71, 3, 133, 66, 15, 21, 133, 80, 43, 128, 213, 45, 3, 26, 4, 2, 129, 112, 58, 5, 1, 133, 0,
    128, 215, 41, 76, 4, 10, 4, 2, 131, 17, 68, 76, 61, 128, 194, 60, 6, 1, 4, 85, 5, 27, 52, 2,
    129, 14, 44, 4, 100, 12, 86, 10, 128, 174, 56, 29, 13, 44, 4, 9, 7, 2, 14, 6, 128, 154, 131,
    216, 8, 13, 3, 13, 3, 116, 12, 89, 7, 12, 20, 12, 4, 56, 8, 10, 6, 40, 8, 34, 78, 129, 84,
    12, 21, 3, 3, 5, 7, 9, 25, 7, 7, 9, 3, 13, 7, 41, 128, 203, 37, 10, 132, 6
  >>

-----------------------------------------------------------------------------

\* The first place of the i-th group of lower bytes, and the one behind it.
GroupStart(singletons, i) == FoldLeft(LAMBDA n, s : n + s[2], 1, SubSeq(singletons, 1, i - 1))

IsSingleton(x, singletons, lowers) ==
  \E i \in DOMAIN singletons :
    /\ singletons[i][1] = x \div 256
    /\ LET start == GroupStart(singletons, i)
       IN  \E j \in start .. start + singletons[i][2] - 1 : lowers[j] = x % 256

\* A length of 128 or more has a second byte, which may be of any value; so it is
\* the second that follows an odd number of such bytes.
IsSecond(normal, k) ==
  LET j == CHOOSE j \in 1 .. k :
             (\A i \in j .. k - 1 : normal[i] >= 128) /\ (j = 1 \/ normal[j - 1] < 128)
  IN  (k - j) % 2 = 1
HasSecond(normal, k) == normal[k] >= 128 /\ ~IsSecond(normal, k)

\* What the k-th byte adds to the place: nothing before the second byte.
Adds(normal, k) ==
  CASE HasSecond(normal, k) -> 0
    [] IsSecond(normal, k) -> (normal[k - 1] - 128) * 256 + normal[k]
    [] OTHER -> normal[k]

\* The sums of the first 1, 2, ... members, by halves: TLC does not recurse as
\* deep as a table is long.
RECURSIVE Sums(_)
Sums(s) ==
  LET m == Len(s) \div 2
      joined(l, r) == l \o [k \in DOMAIN r |-> l[Len(l)] + r[k]]
  IN  IF Len(s) = 1 THEN s ELSE joined(Sums(SubSeq(s, 1, m)), Sums(SubSeq(s, m + 1, Len(s))))

NoEnd == 65537   \* behind the plane

\* Where the run ends that the k-th byte belongs to; none for a first byte of two.
RunEnds(normal, sums) ==
  [k \in DOMAIN normal |-> IF HasSecond(normal, k) THEN NoEnd ELSE sums[k]]

RunEnds0 == RunEnds(normal0, Sums([k \in DOMAIN normal0 |-> Adds(normal0, k)]))
RunEnds1 == RunEnds(normal1, Sums([k \in DOMAIN normal1 |-> Adds(normal1, k)]))

\* Runs that end before x are unprintable and printable by turns.
InPrintableRun(x, ends) == Cardinality({k \in DOMAIN ends : ends[k] <= x}) % 2 = 0

\* is_printable().
IsPrintable(cp) ==
  LET in(first, behind) == first <= cp /\ cp < behind IN
  CASE cp < 0 -> FALSE   \* invalid_code_point
    [] in(0, 65536) ->
         ~IsSingleton(cp, singletons0, singletons0_lower) /\ InPrintableRun(cp, RunEnds0)
    [] in(65536, 131072) ->
         /\ ~IsSingleton(cp - 65536, singletons1, singletons1_lower)
         /\ InPrintableRun(cp - 65536, RunEnds1)
    [] OTHER ->
         /\ cp < 1114112
         /\ ~(in(173790, 173824) \/ in(177973, 177984) \/ in(178206, 178208)
              \/ in(183970, 183984) \/ in(191457, 194560) \/ in(195102, 196608)
              \/ in(201547, 917760) \/ in(918000, 1114112))

-----------------------------------------------------------------------------

\* The tables fit together: the groups take up all the lower bytes, no length
\* lacks its second byte, the runs stay within the plane, and the groups and
\* the bytes of each are in ascending order, as the search that stops early
\* needs them (format-inl.h:1770-1777).
TablesFit ==
  LET fit(singletons, lowers, normal, ends) ==
        /\ GroupStart(singletons, Len(singletons) + 1) = Len(lowers) + 1
        /\ ~HasSecond(normal, Len(normal)) /\ Last(ends) <= 65536
        /\ \A i \in 1 .. Len(singletons) - 1 : singletons[i][1] < singletons[i + 1][1]
        /\ \A i \in DOMAIN singletons :
             LET start == GroupStart(singletons, i) IN
             \A j \in start .. start + singletons[i][2] - 2 : lowers[j] <= lowers[j + 1]
  IN  fit(singletons0, singletons0_lower, normal0, RunEnds0)
      /\ fit(singletons1, singletons1_lower, normal1, RunEnds1)

=============================================================================
