------------------------- MODULE PostalPatternsProofs -------------------------
(***************************************************************************)
(* Proofs about PostalPatterns, for every set of codes, every text a       *)
(* client may type and every form of the files.                            *)
(*                                                                         *)
(* The patterns: what fits a shape of a country has a fixed number of      *)
(* letters and digits (EveryPattern), so a text says at most one code      *)
(* (SameCode) and the way the expression takes does not matter.            *)
(*                                                                         *)
(* From there three ways: what any text is read as is what it says         *)
(* (NothingIsMadeUp), a valid one is read as its match (ValidIsKept), and  *)
(* each spelling of a code as that code (SpellingIsFound).  The invariant  *)
(* ties the answer to what was typed and the rows to one file.             *)
(***************************************************************************)
EXTENDS PostalTextProofs

-----------------------------------------------------------------------------
(* The patterns: what holds of every country's.                            *)

(* What a prefix is: letters. *)
Names == Seq(Letters) \ {<<>>}

(* A shape of classes that each are part of one class, or of gaps. *)
Shaped(shape, class) ==
  /\ shape \in Seq(SUBSET Chars)
  /\ \A i \in 1..Len(shape) : shape[i] \subseteq class \/ shape[i] \subseteq Gaps
(* What fits the shape has n letters and digits. *)
HasLength(shape, n) == \A s \in Text : Fits(shape, s) => Len(Norm(s)) = n

LEMMA GapsAreSeparators ==
  Gaps \subseteq Separators /\ Space \subseteq Gaps /\ "." \notin Gaps
BY DEF Gaps, Separators, Space

LEMMA NoneHasNoLength == Shaped(<<>>, AlNum) /\ HasLength(<<>>, 0)
<1>1. \A s \in Text : Fits(<<>>, s) => s = <<>>
  BY EmptySeq DEF Fits, Text
<1>2. Norm(<<>>) = <<>>
  <2>1. <<>> \in Seq(AlNum)
    OBVIOUS
  <2> QED BY <2>1, NormOfCode
<1> QED BY <1>1, <1>2 DEF Shaped, HasLength

(* Shapes are put together of runs of one class and gaps, and their        *)
(* lengths add up.                                                         *)
LEMMA CodeHasLength ==
  ASSUME NEW class \in SUBSET AlNum, NEW shape \in Seq(SUBSET class)
  PROVE  Shaped(shape, class) /\ HasLength(shape, Len(shape))
<1>1. /\ Len(shape) \in Nat /\ shape \in Seq(SUBSET Chars)
      /\ \A i \in 1..Len(shape) : shape[i] \subseteq class /\ shape[i] \subseteq AlNum
  BY ClassesAreChars, LenProperties, ElementOfSeq
<1>2. ASSUME NEW s \in Text, Fits(shape, s) PROVE Len(Norm(s)) = Len(shape)
  <2>1. Len(s) = Len(shape) /\ \A i \in 1..Len(shape) : s[i] \in AlNum
    BY <1>1, <1>2, LenProperties DEF Fits, Text
  <2>2. s \in Seq(AlNum)
    BY <2>1, LenProperties DEF Text
  <2> QED BY <2>1, <2>2, NormOfCode
<1> QED BY <1>1, <1>2 DEF Shaped, HasLength

LEMMA RunHasLength ==
  ASSUME NEW n \in Nat, NEW class \in SUBSET AlNum
  PROVE  Shaped(Times(n, class), class) /\ HasLength(Times(n, class), n)
<1>1. Times(n, class) \in Seq(SUBSET class) /\ Len(Times(n, class)) = n
  BY DEF Times
<1> QED BY <1>1, CodeHasLength

LEMMA OneHasLength ==
  ASSUME NEW class \in SUBSET AlNum
  PROVE  Shaped(<<class>>, class) /\ HasLength(<<class>>, 1)
<1>1. <<class>> \in Seq(SUBSET class) /\ Len(<<class>>) = 1
  OBVIOUS
<1> QED BY <1>1, CodeHasLength

LEMMA GapHasNoLength ==
  ASSUME NEW gap \in SUBSET Gaps
  PROVE  Shaped(<<gap>>, {}) /\ HasLength(<<gap>>, 0)
<1>1. gap \subseteq Chars /\ gap \cap AnyCase = {}
  BY GapsAreSeparators, ClassesAreChars, SeparatorsAreNone
<1>2. Shaped(<<gap>>, {})
  BY <1>1 DEF Shaped
<1>3. ASSUME NEW s \in Text, Fits(<<gap>>, s) PROVE Len(Norm(s)) = 0
  <2>1. \A i \in DOMAIN s : s[i] \notin AnyCase
    BY <1>1, <1>3, LenProperties DEF Fits, Text
  <2> QED BY <2>1, NormOfNone, EmptySeq
<1> QED BY <1>2, <1>3 DEF HasLength

LEMMA LengthsAdd ==
  ASSUME NEW a, NEW b, NEW m \in Nat, NEW n \in Nat, NEW class,
         Shaped(a, class), HasLength(a, m), Shaped(b, class), HasLength(b, n)
  PROVE  Shaped(a \o b, class) /\ HasLength(a \o b, m + n)
<1>1. /\ a \in Seq(SUBSET Chars) /\ b \in Seq(SUBSET Chars)
      /\ \A i \in 1..Len(a) : a[i] \subseteq class \/ a[i] \subseteq Gaps
      /\ \A i \in 1..Len(b) : b[i] \subseteq class \/ b[i] \subseteq Gaps
  BY DEF Shaped
<1>2. Len(a) \in Nat /\ Len(b) \in Nat
  BY <1>1, LenProperties
<1>3. /\ a \o b \in Seq(SUBSET Chars) /\ Len(a \o b) = Len(a) + Len(b)
      /\ \A i \in 1..(Len(a) + Len(b)) : (a \o b)[i] = IF i <= Len(a) THEN a[i] ELSE b[i - Len(a)]
  BY <1>1, ConcatProperties
<1>4. Shaped(a \o b, class)
  <2> SUFFICES ASSUME NEW i \in 1..(Len(a) + Len(b))
               PROVE  (a \o b)[i] \subseteq class \/ (a \o b)[i] \subseteq Gaps
    BY <1>3 DEF Shaped
  <2>1. i <= Len(a) => i \in 1..Len(a)
    BY <1>2
  <2>2. ~(i <= Len(a)) => i - Len(a) \in 1..Len(b)
    BY <1>2
  <2> QED BY <2>1, <2>2, <1>1, <1>3
<1>5. ASSUME NEW s \in Text, Fits(a \o b, s) PROVE Len(Norm(s)) = m + n
  <2> DEFINE u == SubSeq(s, 1, Len(a))
             v == SubSeq(s, Len(a) + 1, Len(s))
  <2>1. /\ Len(s) = Len(a) + Len(b) /\ DOMAIN s = 1..(Len(a) + Len(b))
        /\ \A i \in 1..(Len(a) + Len(b)) : s[i] \in (a \o b)[i]
    BY <1>3, <1>5, LenProperties DEF Fits, Text
  <2>2. /\ u \in Text /\ Len(u) = Len(a) /\ \A i \in 1..Len(a) : u[i] = s[i]
        /\ v \in Text /\ Len(v) = Len(b) /\ \A i \in 1..Len(b) : v[i] = s[Len(a) + i]
        /\ s = u \o v
    <3>1. Len(a) \in 0..Len(s) /\ Len(s) - Len(a) = Len(b) /\ s \in Seq(Chars)
      BY <1>2, <2>1 DEF Text
    <3>2. /\ u \in Seq(Chars) /\ Len(u) = Len(a) /\ \A i \in 1..Len(a) : u[i] = s[i]
          /\ v \in Seq(Chars) /\ Len(v) = Len(s) - Len(a)
          /\ \A i \in 1..(Len(s) - Len(a)) : v[i] = s[Len(a) + i]
          /\ s = u \o v
      BY <3>1, Split, Zenon
    <3> QED BY <3>1, <3>2 DEF Text
  <2> HIDE DEF u, v
  <2>3. Fits(a, u)
    <3>1. \A i \in 1..Len(a) : i \in 1..(Len(a) + Len(b)) /\ i <= Len(a)
      BY <1>2
    <3>2. \A i \in 1..Len(a) : u[i] \in a[i]
      BY <3>1, <1>3, <2>1, <2>2
    <3> QED BY <3>2, <2>2, LenProperties DEF Fits, Text
  <2>4. Fits(b, v)
    <3>1. \A i \in 1..Len(b) : /\ Len(a) + i \in 1..(Len(a) + Len(b)) /\ ~(Len(a) + i <= Len(a))
                               /\ (Len(a) + i) - Len(a) = i
      BY <1>2
    <3>2. \A i \in 1..Len(b) : v[i] \in b[i]
      BY <3>1, <1>3, <2>1, <2>2
    <3> QED BY <3>2, <2>2, LenProperties DEF Fits, Text
  <2>5. Len(Norm(u)) = m /\ Len(Norm(v)) = n /\ Norm(u) \in Text /\ Norm(v) \in Text
    BY <2>2, <2>3, <2>4, NormIs DEF HasLength
  <2>6. Norm(s) = Norm(u) \o Norm(v)
    BY <2>2, NormConcat
  <2> QED BY <2>5, <2>6, ConcatProperties DEF Text
<1> QED BY <1>4, <1>5 DEF HasLength

LEMMA ShapedMore ==
  ASSUME NEW shape, NEW c, NEW d, c \subseteq d, Shaped(shape, c)
  PROVE  Shaped(shape, d)
BY DEF Shaped

(* What is asked of an entry whose codes have n letters and digits. *)
Sound(entry, n, class) ==
  /\ entry.prefixes \subseteq Names
  /\ \A shape \in entry.shapes : Shaped(shape, class) /\ HasLength(shape, n)

(* The entries of the file, by the way they are written. *)
LEMMA EntryIs ==
  ASSUME NEW prefixes \in SUBSET Names, NEW shapes, NEW n, NEW m, NEW class,
         \A shape \in shapes : Shaped(shape, class) /\ HasLength(shape, m)
  PROVE  /\ Sound(Entry(prefixes, shapes, n), m, class)
         /\ Entry(prefixes, shapes, n).digits = n
         /\ Entry(prefixes, shapes, n).tercet_map = "none"
BY DEF Sound, Entry

LEMMA DigitRuns ==
  \A n \in Nat : Shaped(Times(n, Digits), Digits) /\ HasLength(Times(n, Digits), n)
BY RunHasLength, ClassesAreChars

LEMMA NumericIsSound ==
  ASSUME NEW prefixes \in SUBSET Names, NEW n \in Nat
  PROVE  /\ Sound(Numeric(prefixes, n), n, Digits)
         /\ Numeric(prefixes, n).digits = n
         /\ Numeric(prefixes, n).tercet_map = "none"
<1>1. \A shape \in {Times(n, Digits)} : Shaped(shape, Digits) /\ HasLength(shape, n)
  BY DigitRuns
<1> QED BY <1>1, EntryIs DEF Numeric

(* Two runs of digits with a gap between them. *)
LEMMA GappedDigits ==
  ASSUME NEW m \in Nat, NEW n \in Nat, NEW gap \in SUBSET Gaps
  PROVE  /\ Shaped(Times(m, Digits) \o <<gap>> \o Times(n, Digits), Digits)
         /\ HasLength(Times(m, Digits) \o <<gap>> \o Times(n, Digits), m + n)
<1>1. Shaped(<<gap>>, Digits) /\ HasLength(<<gap>>, 0)
  BY GapHasNoLength, ShapedMore
<1>2. /\ Shaped(Times(m, Digits) \o <<gap>>, Digits)
      /\ HasLength(Times(m, Digits) \o <<gap>>, m + 0)
  BY <1>1, DigitRuns, LengthsAdd
<1>3. m + 0 = m
  OBVIOUS
<1> QED BY <1>2, <1>3, DigitRuns, LengthsAdd

LEMMA OptionallyGapped ==
  ASSUME NEW m \in Nat, NEW n \in Nat, NEW one \in SUBSET Gaps
  PROVE  \A shape \in {Times(m, Digits) \o gap \o Times(n, Digits) : gap \in {<<>>, <<one>>}} :
            Shaped(shape, Digits) /\ HasLength(shape, m + n)
<1>1. Times(m, Digits) \o <<>> = Times(m, Digits)
  BY DigitRuns, ConcatEmptySeq DEF Shaped
<1>2. /\ Shaped(Times(m, Digits) \o <<>> \o Times(n, Digits), Digits)
      /\ HasLength(Times(m, Digits) \o <<>> \o Times(n, Digits), m + n)
  BY <1>1, DigitRuns, LengthsAdd
<1> QED BY <1>2, GappedDigits

LEMMA ThreeTwoIsSound ==
  ASSUME NEW prefixes \in SUBSET Names
  PROVE  /\ Sound(ThreeTwo(prefixes), 5, Digits)
         /\ ThreeTwo(prefixes).digits = 5
         /\ ThreeTwo(prefixes).tercet_map = "none"
<1>1. /\ Shaped(Times(5, Digits), Digits) /\ HasLength(Times(5, Digits), 5)
      /\ Shaped(Times(3, Digits) \o <<Space>> \o Times(2, Digits), Digits)
      /\ HasLength(Times(3, Digits) \o <<Space>> \o Times(2, Digits), 5)
  <2>1. 3 + 2 = 5 /\ Space \in SUBSET Gaps
    BY GapsAreSeparators
  <2> QED BY <2>1, DigitRuns, GappedDigits
<1> DEFINE shapes == {Times(5, Digits), Times(3, Digits) \o <<Space>> \o Times(2, Digits)}
<1>2. \A shape \in shapes : Shaped(shape, Digits) /\ HasLength(shape, 5)
  BY <1>1
<1>3. ThreeTwo(prefixes) = Entry(prefixes, shapes, 5)
  BY DEF ThreeTwo
<1> HIDE DEF shapes
<1> QED BY <1>2, <1>3, EntryIs

LEMMA NamesAre ==
  /\ \A a \in Letters : <<a>> \in Names
  /\ \A a, b \in Letters : <<a, b>> \in Names
  /\ \A a, b, c \in Letters : <<a, b, c>> \in Names
BY DEF Names

LEMMA LettersAre ==
  /\ "A" \in Letters /\ "B" \in Letters /\ "C" \in Letters /\ "D" \in Letters /\ "E" \in Letters
  /\ "F" \in Letters /\ "G" \in Letters /\ "H" \in Letters /\ "I" \in Letters /\ "K" \in Letters
  /\ "L" \in Letters /\ "M" \in Letters /\ "N" \in Letters /\ "O" \in Letters /\ "P" \in Letters
  /\ "R" \in Letters /\ "S" \in Letters /\ "T" \in Letters /\ "U" \in Letters /\ "V" \in Letters
  /\ "W" \in Letters /\ "Y" \in Letters /\ "Z" \in Letters
BY LettersSet

(* A country whose codes are a number of digits and whose rows are those   *)
(* codes.                                                                  *)
Regular(cc) ==
  /\ POSTAL_PATTERNS[cc].digits \in 3..7
  /\ Sound(POSTAL_PATTERNS[cc], POSTAL_PATTERNS[cc].digits, Digits)
  /\ POSTAL_PATTERNS[cc].tercet_map = IF cc = "LV" THEN "prepend:LV" ELSE "none"

LEMMA NumericPatterns ==
  \A cc \in {"AT", "BE", "BG", "CH", "CY", "DE", "DK", "EE", "ES", "FI", "FR", "HR",
            "HU", "IS", "IT", "LI", "LT", "LU", "MK", "NO", "RO", "RS", "SI", "TR"} : Regular(cc)
<1>1. Regular("AT")
  BY NamesAre, LettersAre, NumericIsSound DEF Regular, POSTAL_PATTERNS
<1>2. Regular("BE")
  BY NamesAre, LettersAre, NumericIsSound DEF Regular, POSTAL_PATTERNS
<1>3. Regular("BG")
  BY NamesAre, LettersAre, NumericIsSound DEF Regular, POSTAL_PATTERNS
<1>4. Regular("CH")
  BY NamesAre, LettersAre, NumericIsSound DEF Regular, POSTAL_PATTERNS
<1>5. Regular("CY")
  BY NamesAre, LettersAre, NumericIsSound DEF Regular, POSTAL_PATTERNS
<1>6. Regular("DE")
  BY NamesAre, LettersAre, NumericIsSound DEF Regular, POSTAL_PATTERNS
<1>7. Regular("DK")
  BY NamesAre, LettersAre, NumericIsSound DEF Regular, POSTAL_PATTERNS
<1>8. Regular("EE")
  BY NamesAre, LettersAre, NumericIsSound DEF Regular, POSTAL_PATTERNS
<1>9. Regular("ES")
  BY NamesAre, LettersAre, NumericIsSound DEF Regular, POSTAL_PATTERNS
<1>10. Regular("FI")
  BY NamesAre, LettersAre, NumericIsSound DEF Regular, POSTAL_PATTERNS
<1>11. Regular("FR")
  BY NamesAre, LettersAre, NumericIsSound DEF Regular, POSTAL_PATTERNS
<1>12. Regular("HR")
  BY NamesAre, LettersAre, NumericIsSound DEF Regular, POSTAL_PATTERNS
<1>13. Regular("HU")
  BY NamesAre, LettersAre, NumericIsSound DEF Regular, POSTAL_PATTERNS
<1>14. Regular("IS")
  BY NamesAre, LettersAre, NumericIsSound DEF Regular, POSTAL_PATTERNS
<1>15. Regular("IT")
  BY NamesAre, LettersAre, NumericIsSound DEF Regular, POSTAL_PATTERNS
<1>16. Regular("LI")
  BY NamesAre, LettersAre, NumericIsSound DEF Regular, POSTAL_PATTERNS
<1>17. Regular("LT")
  BY NamesAre, LettersAre, NumericIsSound DEF Regular, POSTAL_PATTERNS
<1>18. Regular("LU")
  BY NamesAre, LettersAre, NumericIsSound DEF Regular, POSTAL_PATTERNS
<1>19. Regular("MK")
  BY NamesAre, LettersAre, NumericIsSound DEF Regular, POSTAL_PATTERNS
<1>20. Regular("NO")
  BY NamesAre, LettersAre, NumericIsSound DEF Regular, POSTAL_PATTERNS
<1>21. Regular("RO")
  BY NamesAre, LettersAre, NumericIsSound DEF Regular, POSTAL_PATTERNS
<1>22. Regular("RS")
  BY NamesAre, LettersAre, NumericIsSound DEF Regular, POSTAL_PATTERNS
<1>23. Regular("SI")
  BY NamesAre, LettersAre, NumericIsSound DEF Regular, POSTAL_PATTERNS
<1>24. Regular("TR")
  BY NamesAre, LettersAre, NumericIsSound DEF Regular, POSTAL_PATTERNS
<1> QED BY <1>1, <1>2, <1>3, <1>4, <1>5, <1>6, <1>7, <1>8, <1>9, <1>10, <1>11, <1>12,
          <1>13, <1>14, <1>15, <1>16, <1>17, <1>18, <1>19, <1>20, <1>21, <1>22, <1>23, <1>24

LEMMA ThreeTwoPatterns == Regular("CZ") /\ Regular("SE") /\ Regular("SK")
<1>1. Regular("CZ")
  BY NamesAre, LettersAre, ThreeTwoIsSound DEF Regular, POSTAL_PATTERNS
<1>2. Regular("SE")
  BY NamesAre, LettersAre, ThreeTwoIsSound DEF Regular, POSTAL_PATTERNS
<1>3. Regular("SK")
  BY NamesAre, LettersAre, ThreeTwoIsSound DEF Regular, POSTAL_PATTERNS
<1> QED BY <1>1, <1>2, <1>3

LEMMA OtherRegularPatterns ==
  Regular("EL") /\ Regular("LV") /\ Regular("ME") /\ Regular("PL") /\ Regular("PT")
<1>1. Regular("EL")
  <2> DEFINE names == {<<"G", "R">>, <<"E", "L">>}
             shapes == {Times(5, Digits),
                        Times(2, Digits) \o <<Space>> \o Times(3, Digits),
                        Times(3, Digits) \o <<Space>> \o Times(2, Digits)}
  <2>1. POSTAL_PATTERNS["EL"] = Entry(names, shapes, 5)
    BY DEF POSTAL_PATTERNS
  <2>2. \A shape \in shapes : Shaped(shape, Digits) /\ HasLength(shape, 5)
    <3>1. 2 + 3 = 5 /\ 3 + 2 = 5 /\ Space \in SUBSET Gaps
      BY GapsAreSeparators
    <3> QED BY <3>1, DigitRuns, GappedDigits
  <2> HIDE DEF shapes
  <2>3. names \in SUBSET Names
    BY NamesAre, LettersAre
  <2> HIDE DEF names
  <2>4. /\ Sound(Entry(names, shapes, 5), 5, Digits)
        /\ Entry(names, shapes, 5).digits = 5 /\ Entry(names, shapes, 5).tercet_map = "none"
    BY <2>2, <2>3 DEF Sound, Entry
  <2> QED BY <2>1, <2>4 DEF Regular
<1>2. Regular("LV")
  <2> DEFINE plain == Numeric({<<"L", "V">>}, 4)
  <2>1. POSTAL_PATTERNS["LV"] = [plain EXCEPT !.tercet_map = "prepend:LV"]
    BY DEF POSTAL_PATTERNS
  <2>2. /\ POSTAL_PATTERNS["LV"].prefixes = plain.prefixes
        /\ POSTAL_PATTERNS["LV"].shapes = plain.shapes
        /\ POSTAL_PATTERNS["LV"].digits = plain.digits
        /\ POSTAL_PATTERNS["LV"].tercet_map = "prepend:LV"
    BY <2>1 DEF Numeric, Entry
  <2>3. Sound(plain, 4, Digits) /\ plain.digits = 4
    BY NumericIsSound, NamesAre, LettersAre
  <2> HIDE DEF plain
  <2> QED BY <2>2, <2>3 DEF Sound, Regular
<1>3. Regular("ME")
  <2> DEFINE names == {<<"M", "E">>}
             shapes == {<<{"8"}>> \o Times(4, Digits)}
  <2>1. POSTAL_PATTERNS["ME"] = Entry(names, shapes, 5)
    BY DEF POSTAL_PATTERNS
  <2>2. \A shape \in shapes : Shaped(shape, Digits) /\ HasLength(shape, 5)
    <3>1. {"8"} \in SUBSET AlNum /\ {"8"} \subseteq Digits
      BY ClassesAreChars DEF Digits
    <3>2. Shaped(<<{"8"}>>, Digits) /\ HasLength(<<{"8"}>>, 1)
      BY <3>1, OneHasLength, ShapedMore
    <3>3. 1 + 4 = 5
      OBVIOUS
    <3> QED BY <3>2, <3>3, DigitRuns, LengthsAdd
  <2> HIDE DEF shapes
  <2>3. names \in SUBSET Names
    BY NamesAre, LettersAre
  <2> HIDE DEF names
  <2>4. /\ Sound(Entry(names, shapes, 5), 5, Digits)
        /\ Entry(names, shapes, 5).digits = 5 /\ Entry(names, shapes, 5).tercet_map = "none"
    BY <2>2, <2>3 DEF Sound, Entry
  <2> QED BY <2>1, <2>4 DEF Regular
<1>4. Regular("PL")
  <2> DEFINE names == {<<"P", "L">>}
             shapes == {Times(2, Digits) \o gap \o Times(3, Digits) : gap \in {<<>>, <<{"-"}>>}}
  <2>1. POSTAL_PATTERNS["PL"] = Entry(names, shapes, 5)
    BY DEF POSTAL_PATTERNS
  <2>2. \A shape \in shapes : Shaped(shape, Digits) /\ HasLength(shape, 5)
    <3>1. {"-"} \in SUBSET Gaps /\ 2 + 3 = 5
      BY DEF Gaps
    <3>2. \A shape \in shapes : Shaped(shape, Digits) /\ HasLength(shape, 2 + 3)
      BY <3>1, OptionallyGapped, Zenon
    <3> QED BY <3>1, <3>2
  <2> HIDE DEF shapes
  <2>3. names \in SUBSET Names
    BY NamesAre, LettersAre
  <2> HIDE DEF names
  <2>4. /\ Sound(Entry(names, shapes, 5), 5, Digits)
        /\ Entry(names, shapes, 5).digits = 5 /\ Entry(names, shapes, 5).tercet_map = "none"
    BY <2>2, <2>3 DEF Sound, Entry
  <2> QED BY <2>1, <2>4 DEF Regular
<1>5. Regular("PT")
  <2> DEFINE names == {<<"P">>, <<"P", "T">>}
             shapes == {Times(4, Digits) \o gap \o Times(3, Digits) : gap \in {<<>>, <<Gaps>>}}
  <2>1. POSTAL_PATTERNS["PT"] = Entry(names, shapes, 7)
    BY DEF POSTAL_PATTERNS
  <2>2. \A shape \in shapes : Shaped(shape, Digits) /\ HasLength(shape, 7)
    <3>1. Gaps \in SUBSET Gaps /\ 4 + 3 = 7
      OBVIOUS
    <3>2. \A shape \in shapes : Shaped(shape, Digits) /\ HasLength(shape, 4 + 3)
      BY <3>1, OptionallyGapped, Zenon
    <3> QED BY <3>1, <3>2
  <2> HIDE DEF shapes
  <2>3. names \in SUBSET Names
    BY NamesAre, LettersAre
  <2> HIDE DEF names
  <2>4. /\ Sound(Entry(names, shapes, 7), 7, Digits)
        /\ Entry(names, shapes, 7).digits = 7 /\ Entry(names, shapes, 7).tercet_map = "none"
    BY <2>2, <2>3 DEF Sound, Entry
  <2> QED BY <2>1, <2>4 DEF Regular
<1> QED BY <1>1, <1>2, <1>3, <1>4, <1>5

LEMMA CodeRuns ==
  ASSUME NEW n \in Nat, NEW class \in SUBSET AlNum
  PROVE  Shaped(Times(n, class), AlNum) /\ HasLength(Times(n, class), n)
BY RunHasLength, ShapedMore

LEMMA CodeGaps ==
  \A one \in SUBSET Gaps : \A gap \in {<<>>, <<one>>} : Shaped(gap, AlNum) /\ HasLength(gap, 0)
BY NoneHasNoLength, GapHasNoLength, ShapedMore

LEMMA PairHasLength ==
  ASSUME NEW a \in SUBSET AlNum, NEW b \in SUBSET AlNum
  PROVE  Shaped(<<a, b>>, AlNum) /\ HasLength(<<a, b>>, 2)
<1>1. <<a, b>> \in Seq(SUBSET AlNum) /\ Len(<<a, b>>) = 2
  OBVIOUS
<1> QED BY <1>1, CodeHasLength

(* Letters, then digits. *)
LEMMA LettersThenDigits ==
  ASSUME NEW l \in Nat \ {0}, NEW d \in Nat \ {0}, NEW gap, Shaped(gap, AlNum), HasLength(gap, 0)
  PROVE  LET shape == Times(l, Letters) \o gap \o Times(d, Digits)
         IN  /\ Shaped(shape, AlNum)
             /\ Len(shape) > 0 /\ shape[1] = Letters /\ shape[Len(shape)] = Digits
<1> DEFINE a == Times(l, Letters)
           c == Times(d, Digits)
<1>1. Shaped(a, AlNum) /\ HasLength(a, l) /\ Shaped(c, AlNum) /\ HasLength(c, d)
  BY CodeRuns, ClassesAreChars
<1>2. Len(a) = l /\ a[1] = Letters /\ Len(c) = d /\ c[d] = Digits
  BY DEF Times
<1> HIDE DEF a, c
<1>3. Shaped(a \o gap, AlNum) /\ HasLength(a \o gap, l + 0)
  BY <1>1, LengthsAdd
<1>4. Shaped((a \o gap) \o c, AlNum)
  BY <1>1, <1>3, LengthsAdd
<1>5. /\ a \in Seq(SUBSET Chars) /\ gap \in Seq(SUBSET Chars) /\ c \in Seq(SUBSET Chars)
      /\ a \o gap \in Seq(SUBSET Chars) /\ Len(gap) \in Nat
  BY <1>1, <1>3, LenProperties DEF Shaped
<1>6. Len(a \o gap) = l + Len(gap) /\ (a \o gap)[1] = Letters
  <2>1. /\ Len(a \o gap) = Len(a) + Len(gap)
        /\ \A i \in 1..(Len(a) + Len(gap)) : (a \o gap)[i] = IF i <= Len(a) THEN a[i] ELSE gap[i - Len(a)]
    BY <1>5, ConcatProperties
  <2>2. 1 \in 1..(Len(a) + Len(gap)) /\ 1 <= Len(a)
    BY <1>2, <1>5
  <2> QED BY <2>1, <2>2, <1>2
<1> DEFINE b == a \o gap
           n == l + Len(gap) + d
<1>7. /\ Len(b \o c) = n /\ (b \o c)[1] = Letters /\ (b \o c)[n] = Digits
  <2> HIDE DEF b
  <2>1. /\ Len(b \o c) = Len(b) + Len(c)
        /\ \A i \in 1..(Len(b) + Len(c)) : (b \o c)[i] = IF i <= Len(b) THEN b[i] ELSE c[i - Len(b)]
    BY <1>5, ConcatProperties DEF b
  <2>2. Len(b) = l + Len(gap) /\ b[1] = Letters
    BY <1>6 DEF b
  <2>3. /\ 1 \in 1..(Len(b) + Len(c)) /\ 1 <= Len(b) /\ Len(b) + Len(c) = n
        /\ n \in 1..(Len(b) + Len(c)) /\ ~(n <= Len(b)) /\ n - Len(b) = d
    BY <1>2, <1>5, <2>2
  <2> QED BY <2>1, <2>2, <2>3, <1>2
<1>8. n > 0
  BY <1>5
<1> QED BY <1>4, <1>7, <1>8 DEF a, c

(* The three countries whose codes have letters. *)
LEMMA PatternOfNL ==
  LET entry == POSTAL_PATTERNS["NL"]
  IN  Sound(entry, 6, AlNum) /\ entry.digits = 0 /\ entry.tercet_map = "none"
<1> DEFINE shapes == {Times(4, Digits) \o gap \o Times(2, Letters) : gap \in {<<>>, <<Space>>}}
           names == {<<"N", "L">>}
<1>1. POSTAL_PATTERNS["NL"] = Entry(names, shapes, 0)
  BY DEF POSTAL_PATTERNS
<1>2. names \in SUBSET Names
  BY NamesAre, LettersAre
<1>3. \A shape \in shapes : Shaped(shape, AlNum) /\ HasLength(shape, 6)
  <2> SUFFICES ASSUME NEW gap \in {<<>>, <<Space>>}
               PROVE  /\ Shaped(Times(4, Digits) \o gap \o Times(2, Letters), AlNum)
                      /\ HasLength(Times(4, Digits) \o gap \o Times(2, Letters), 6)
    OBVIOUS
  <2>1. /\ Shaped(Times(4, Digits), AlNum) /\ HasLength(Times(4, Digits), 4)
        /\ Shaped(Times(2, Letters), AlNum) /\ HasLength(Times(2, Letters), 2)
    BY CodeRuns, ClassesAreChars
  <2>2. Shaped(gap, AlNum) /\ HasLength(gap, 0)
    BY CodeGaps, GapsAreSeparators
  <2>3. Shaped(Times(4, Digits) \o gap, AlNum) /\ HasLength(Times(4, Digits) \o gap, 4 + 0)
    BY <2>1, <2>2, LengthsAdd
  <2>4. 4 + 0 = 4 /\ 4 + 2 = 6
    OBVIOUS
  <2> QED BY <2>1, <2>3, <2>4, LengthsAdd
<1> HIDE DEF shapes, names
<1> QED BY <1>1, <1>2, <1>3 DEF Sound, Entry

LEMMA PatternOfIE ==
  LET entry == POSTAL_PATTERNS["IE"]
  IN  /\ Sound(entry, 7, AlNum) /\ entry.prefixes = {}
      /\ entry.digits = 0 /\ entry.tercet_map = "truncate:3"
<1> DEFINE twos == {Times(2, Digits), <<{"6"}, {"W"}>>}
           gaps == {<<>>, <<Space>>}
           four == Times(4, Letters \cup Digits)
           eircode(two, gap) == <<Letters>> \o two \o gap \o four
           shapes == {eircode(two, gap) : two \in twos, gap \in gaps}
<1>1. POSTAL_PATTERNS["IE"] = [Entry({}, shapes, 0) EXCEPT !.tercet_map = "truncate:3"]
  BY DEF POSTAL_PATTERNS
<1>2. /\ Shaped(<<Letters>>, AlNum) /\ HasLength(<<Letters>>, 1)
      /\ Shaped(four, AlNum) /\ HasLength(four, 4)
  <2>1. Letters \cup Digits \in SUBSET AlNum /\ Letters \in SUBSET AlNum
    BY ClassesAreChars
  <2> QED BY <2>1, CodeRuns, OneHasLength, ShapedMore
<1>3. \A gap \in gaps : Shaped(gap, AlNum) /\ HasLength(gap, 0)
  BY CodeGaps, GapsAreSeparators
<1>4. \A two \in twos : Shaped(two, AlNum) /\ HasLength(two, 2)
  <2>1. Shaped(Times(2, Digits), AlNum) /\ HasLength(Times(2, Digits), 2)
    BY CodeRuns, ClassesAreChars
  <2>2. {"6"} \in SUBSET AlNum /\ {"W"} \in SUBSET AlNum
    BY LettersAre, ClassesAreChars DEF Digits
  <2>3. Shaped(<<{"6"}, {"W"}>>, AlNum) /\ HasLength(<<{"6"}, {"W"}>>, 2)
    BY <2>2, PairHasLength
  <2> QED BY <2>1, <2>3
<1> HIDE DEF twos, gaps, four
<1>5. ASSUME NEW two \in twos, NEW gap \in gaps
      PROVE  Shaped(eircode(two, gap), AlNum) /\ HasLength(eircode(two, gap), 7)
  <2>1. Shaped(<<Letters>> \o two, AlNum) /\ HasLength(<<Letters>> \o two, 1 + 2)
    BY <1>2, <1>4, LengthsAdd
  <2>2. 1 + 2 = 3 /\ 3 + 0 = 3 /\ 3 + 4 = 7
    OBVIOUS
  <2>3. Shaped(<<Letters>> \o two \o gap, AlNum) /\ HasLength(<<Letters>> \o two \o gap, 3 + 0)
    BY <2>1, <2>2, <1>3, LengthsAdd
  <2> QED BY <2>2, <2>3, <1>2, LengthsAdd
<1> HIDE DEF eircode
<1>6. \A shape \in shapes : Shaped(shape, AlNum) /\ HasLength(shape, 7)
  BY <1>5
<1> HIDE DEF shapes
<1> QED BY <1>1, <1>6 DEF Sound, Entry

(* A Maltese code has letters, then digits. *)
LEMMA PatternOfMT ==
  LET entry == POSTAL_PATTERNS["MT"]
  IN  /\ entry.prefixes = {} /\ entry.digits = 0 /\ entry.tercet_map = "keep_alpha"
      /\ \A shape \in entry.shapes :
           /\ Shaped(shape, AlNum)
           /\ Len(shape) > 0 /\ shape[1] = Letters /\ shape[Len(shape)] = Digits
<1> DEFINE gaps == {<<>>, <<Gaps>>}
           code(l, gap, d) == Times(l, Letters) \o gap \o Times(d, Digits)
           shapes == {code(l, gap, d) : l \in 2..3, gap \in gaps, d \in 2..4}
           Good(shape) == /\ Shaped(shape, AlNum)
                          /\ Len(shape) > 0 /\ shape[1] = Letters /\ shape[Len(shape)] = Digits
<1>1. POSTAL_PATTERNS["MT"] = [Entry({}, shapes, 0) EXCEPT !.tercet_map = "keep_alpha"]
  BY DEF POSTAL_PATTERNS
<1>2. \A gap \in gaps : Shaped(gap, AlNum) /\ HasLength(gap, 0)
  BY CodeGaps
<1> HIDE DEF gaps
<1>3. ASSUME NEW l \in 2..3, NEW gap \in gaps, NEW d \in 2..4
      PROVE  Good(code(l, gap, d))
  <2>1. l \in Nat \ {0} /\ d \in Nat \ {0}
    OBVIOUS
  <2> QED BY <1>2, <2>1, LettersThenDigits
<1> HIDE DEF Good, code
<1>4. \A shape \in shapes : Good(shape)
  BY <1>3
<1> HIDE DEF shapes
<1> QED BY <1>1, <1>4 DEF Entry, Good

(* What holds of every entry of postal_patterns.json. *)
LEMMA Patterned ==
  ASSUME NEW cc, HasPattern(cc)
  PROVE  cc \in {"IE", "MT", "NL"} \/ Regular(cc)
<1>1. cc \in {"AT", "BE", "BG", "CH", "CY", "CZ", "DE", "DK", "EE", "EL", "ES", "FI", "FR", "HR", "HU",
              "IE", "IS", "IT", "LI", "LT", "LU", "LV", "ME", "MK", "MT", "NL", "NO", "PL", "PT", "RO",
              "RS", "SE", "SI", "SK", "TR"}
  BY DEF HasPattern, POSTAL_PATTERNS
<1> QED BY <1>1, NumericPatterns, ThreeTwoPatterns, OtherRegularPatterns

LEMMA EveryPattern ==
  ASSUME NEW cc, HasPattern(cc)
  PROVE  LET entry == POSTAL_PATTERNS[cc]
         IN  /\ entry.prefixes \subseteq Names
             /\ \A shape \in entry.shapes : Shaped(shape, AlNum)
             /\ Expected(cc) \in {0} \cup 3..7
             /\ Expected(cc) > 0 =>
                  \A shape \in entry.shapes : Shaped(shape, Digits) /\ HasLength(shape, Expected(cc))
             /\ cc = "MT" \/ \E n \in Nat : \A shape \in entry.shapes : HasLength(shape, n)
             /\ entry.tercet_map = IF cc = "LV" THEN "prepend:LV"
                                   ELSE IF cc = "IE" THEN "truncate:3"
                                   ELSE IF cc = "MT" THEN "keep_alpha" ELSE "none"
<1>1. Expected(cc) = POSTAL_PATTERNS[cc].digits
  BY DEF Expected
<1>2. CASE cc = "IE"
  <2>1. 7 \in Nat /\ Expected(cc) = 0
    BY <1>1, <1>2, PatternOfIE
  <2> QED BY <1>2, <2>1, PatternOfIE DEF Sound
<1>3. CASE cc = "MT"
  <2>1. Expected(cc) = 0
    BY <1>1, <1>3, PatternOfMT
  <2> QED BY <1>3, <2>1, PatternOfMT
<1>4. CASE cc = "NL"
  <2>1. 6 \in Nat /\ Expected(cc) = 0
    BY <1>1, <1>4, PatternOfNL
  <2> QED BY <1>4, <2>1, PatternOfNL DEF Sound
<1>5. CASE cc \notin {"IE", "MT", "NL"}
  <2>1. Regular(cc)
    BY <1>5, Patterned
  <2>2. Expected(cc) \in 3..7
    BY <1>1, <2>1 DEF Regular
  <2>3. \A shape \in POSTAL_PATTERNS[cc].shapes : Shaped(shape, AlNum)
    BY <2>1, ShapedMore, ClassesAreChars DEF Regular, Sound
  <2>4. \A shape \in POSTAL_PATTERNS[cc].shapes : Shaped(shape, Digits) /\ HasLength(shape, Expected(cc))
    BY <1>1, <2>1 DEF Regular, Sound
  <2> QED BY <1>5, <2>1, <2>2, <2>3, <2>4 DEF Regular, Sound
<1> QED BY <1>2, <1>3, <1>4, <1>5

-----------------------------------------------------------------------------
(* What a pattern matches of a text.                                       *)

(* A rest that is not the text itself has a prefix and separators before it. *)
Follows(rest, prefixes, s) ==
  \E p \in prefixes, gap \in Text :
    rest \in Text /\ s = (p \o gap) \o rest /\ AllIn(gap, Separators)

LEMMA RestIs ==
  ASSUME NEW prefixes \in SUBSET Names, NEW s \in Text, NEW rest \in Rests(prefixes, s), rest # s
  PROVE  Follows(rest, prefixes, s)
<1>1. DOMAIN s = 1..Len(s) /\ Len(s) \in Nat
  BY LenProperties DEF Text
<1>2. PICK m \in DOMAIN s, p \in prefixes :
             /\ rest = SubSeq(s, m + 1, Len(s)) /\ IsPrefix(p, s) /\ m >= Len(p)
             /\ AllIn(SubSeq(s, Len(p) + 1, m), Separators)
  BY DEF Rests
<1>3. p \in Text /\ Len(p) \in Nat
  BY ClassesAreChars, SeqMonotonic, LenProperties DEF Names, Text, AlNum, AnyCase
<1>4. Len(p) <= Len(s) /\ p = SubSeq(s, 1, Len(p))
  BY <1>2, <1>3, SubSeqFull DEF IsPrefix, Text
<1> DEFINE head == SubSeq(s, 1, m)
           gap == SubSeq(s, Len(p) + 1, m)
<1>5. head \in Text /\ Len(head) = m /\ rest \in Text /\ s = head \o rest
  <2>1. m \in 0..Len(s) /\ s \in Seq(Chars)
    BY <1>1 DEF Text
  <2>2. /\ head \in Seq(Chars) /\ Len(head) = m /\ SubSeq(s, m + 1, Len(s)) \in Seq(Chars)
        /\ s = head \o SubSeq(s, m + 1, Len(s))
    BY <2>1, Split, Zenon
  <2> QED BY <1>2, <2>2 DEF Text
<1>6. 1 \in 1..(Len(s) + 1) /\ Len(p) \in (1 - 1)..Len(s) /\ m \in Len(p)..Len(s)
  BY <1>1, <1>2, <1>3, <1>4
<1>7. head = p \o gap
  BY <1>4, <1>6, ConcatAdjacentSubSeq DEF Text
<1>8. gap \in Text
  <2>1. \A i \in (Len(p) + 1)..m : s[i] \in Chars
    BY <1>1, <1>3, <1>6, ElementOfSeq DEF Text
  <2> QED BY <2>1, <1>3, <1>1, SubSeqProperties DEF Text
<1> QED BY <1>2, <1>5, <1>7, <1>8 DEF Follows

(* The normalisation of a text is that of the prefix and of the rest. *)
LEMMA NameIs ==
  ASSUME NEW p \in Names
  PROVE  /\ p \in Text /\ p \in Seq(AlNum) /\ Norm(p) = p
         /\ Len(p) \in Nat \ {0} /\ \A i \in 1..Len(p) : p[i] \in Letters
<1>1. p \in Seq(Letters) /\ p # <<>>
  BY DEF Names
<1>2. p \in Seq(AlNum)
  BY <1>1, ClassesAreChars, SeqMonotonic
<1> QED BY <1>1, <1>2, NormOfCode, EmptySeq, LenProperties, ElementOfSeq

LEMMA NormOfGap ==
  ASSUME NEW gap \in Text, AllIn(gap, Separators)
  PROVE  Norm(gap) = <<>>
<1>1. \A i \in DOMAIN gap : gap[i] \notin AnyCase
  BY SeparatorsAreNone DEF AllIn
<1> QED BY <1>1, NormOfNone

(* Letters and digits of a rest are those of the text, but for the prefix. *)
Named(rest, prefixes, s) ==
  /\ rest \in Text /\ Len(s) > 0 /\ s[1] \in Letters
  /\ \E p \in prefixes : Norm(s) = p \o Norm(rest)

LEMMA RestNorm ==
  ASSUME NEW prefixes \in SUBSET Names, NEW s \in Text, NEW rest \in Rests(prefixes, s), rest # s
  PROVE  Named(rest, prefixes, s)
<1>1. PICK p \in prefixes, gap \in Text :
             rest \in Text /\ s = (p \o gap) \o rest /\ AllIn(gap, Separators)
  <2>1. Follows(rest, prefixes, s)
    BY RestIs
  <2> QED BY <2>1 DEF Follows
<1>2. /\ p \in Text /\ p \in Seq(AlNum) /\ Norm(p) = p
      /\ Len(p) \in Nat \ {0} /\ \A i \in 1..Len(p) : p[i] \in Letters
  BY NameIs
<1>3. p \o gap \in Text /\ Norm(p \o gap) = p
  <2>1. Norm(gap) = <<>>
    BY <1>1, NormOfGap
  <2>2. Norm(p \o gap) = p \o <<>>
    BY <1>2, <2>1, NormConcat
  <2> QED BY <1>2, <2>2, ConcatProperties, ConcatEmptySeq DEF Text
<1>4. Norm(s) = p \o Norm(rest)
  BY <1>1, <1>3, NormConcat
<1>5. Len(s) > 0 /\ s[1] \in Letters
  <2>1. /\ Len(p \o gap) = Len(p) + Len(gap) /\ Len(gap) \in Nat
        /\ \A i \in 1..(Len(p) + Len(gap)) : (p \o gap)[i] = IF i <= Len(p) THEN p[i] ELSE gap[i - Len(p)]
    BY <1>2, ConcatProperties, LenProperties DEF Text
  <2>2. 1 \in 1..(Len(p) + Len(gap)) /\ 1 <= Len(p) /\ 1 \in 1..Len(p)
    BY <1>2, <2>1
  <2>3. (p \o gap)[1] = p[1]
    BY <2>1, <2>2
  <2> DEFINE head == p \o gap
  <2>4. /\ Len(s) = Len(head) + Len(rest) /\ Len(rest) \in Nat
        /\ \A i \in 1..(Len(head) + Len(rest)) : s[i] = IF i <= Len(head) THEN head[i] ELSE rest[i - Len(head)]
    BY <1>1, <1>3, ConcatProperties, LenProperties DEF Text
  <2>5. 1 \in 1..(Len(head) + Len(rest)) /\ 1 <= Len(head) /\ Len(s) > 0
    BY <1>2, <2>1, <2>4
  <2>6. s[1] = p[1]
    BY <2>3, <2>4, <2>5
  <2> QED BY <2>2, <2>5, <2>6, <1>2
<1> QED BY <1>1, <1>4, <1>5 DEF Named

(* The letters and digits of a match are those after a prefix, or all. *)
Heads(cc, u, rest) ==
  /\ \E q \in {<<>>} \cup POSTAL_PATTERNS[cc].prefixes : Norm(u) = q \o Norm(rest)
  /\ rest # u => Len(u) > 0 /\ u[1] \in Letters

(* What a match is: a code of the country, after one of its prefixes or    *)
(* none.                                                                   *)
LEMMA MatchIs ==
  ASSUME NEW cc, NEW u \in Text, NEW rest \in Matches(cc, u)
  PROVE  /\ HasPattern(cc) /\ rest \in Text
         /\ \E shape \in POSTAL_PATTERNS[cc].shapes : Fits(shape, rest)
         /\ Heads(cc, u, rest)
<1>1. /\ HasPattern(cc) /\ rest \in Rests(POSTAL_PATTERNS[cc].prefixes, u)
      /\ \E shape \in POSTAL_PATTERNS[cc].shapes : Fits(shape, rest)
  BY Zenon DEF Matches
<1>2. POSTAL_PATTERNS[cc].prefixes \in SUBSET Names
  BY <1>1, EveryPattern
<1>3. rest \in Text /\ Heads(cc, u, rest)
  <2> DEFINE P == POSTAL_PATTERNS[cc].prefixes
  <2>0. P \in SUBSET Names /\ rest \in Rests(P, u)
    BY <1>1, <1>2
  <2>1. CASE rest = u
    <3>1. Norm(u) = <<>> \o Norm(rest)
      BY <2>1, NormIs, ConcatEmptySeq DEF Text
    <3> QED BY <2>1, <3>1 DEF Heads
  <2>2. CASE rest # u
    <3> HIDE DEF P
    <3>1. Named(rest, P, u)
      BY <2>0, <2>2, RestNorm
    <3> QED BY <3>1 DEF Named, Heads, P
  <2> QED BY <2>1, <2>2
<1> QED BY <1>1, <1>3

LEMMA HeadIs ==
  ASSUME NEW cc, HasPattern(cc), NEW q \in {<<>>} \cup POSTAL_PATTERNS[cc].prefixes
  PROVE  q \in Text /\ q \in Seq(AlNum) /\ Norm(q) = q /\ \A i \in 1..Len(q) : q[i] \in Letters
<1>2. CASE q = <<>>
  <2>1. q \in Seq(AlNum) /\ Len(q) = 0
    BY <1>2
  <2>2. q \in Text /\ Norm(q) = q
    BY <2>1, NormOfCode
  <2>3. \A i \in 1..Len(q) : q[i] \in Letters
    BY <2>1
  <2> QED BY <2>1, <2>2, <2>3
<1>3. CASE q # <<>>
  <2>1. q \in Names
    BY <1>3, EveryPattern
  <2> QED BY <2>1, NameIs
<1> QED BY <1>2, <1>3

(* What fits a shape has no dot and no lower case. *)
LEMMA FitsIs ==
  ASSUME NEW cc, HasPattern(cc), NEW s \in Text,
         \E shape \in POSTAL_PATTERNS[cc].shapes : Fits(shape, s)
  PROVE  /\ \A i \in DOMAIN s : s[i] \in AlNum \cup Gaps
         /\ Expected(cc) > 0 => Len(Norm(s)) = Expected(cc) /\ \A i \in DOMAIN s : s[i] \in Digits \cup Gaps
<1>1. PICK shape \in POSTAL_PATTERNS[cc].shapes : Fits(shape, s)
  OBVIOUS
<1>2. DOMAIN s = 1..Len(shape) /\ \A i \in 1..Len(shape) : s[i] \in shape[i]
  BY <1>1, LenProperties DEF Fits, Text
<1>3. Shaped(shape, AlNum)
  BY EveryPattern
<1>4. Expected(cc) > 0 => Shaped(shape, Digits) /\ HasLength(shape, Expected(cc))
  BY EveryPattern
<1>5. \A i \in DOMAIN s : s[i] \in AlNum \cup Gaps
  BY <1>2, <1>3 DEF Shaped
<1>6. Expected(cc) > 0 => Len(Norm(s)) = Expected(cc) /\ \A i \in DOMAIN s : s[i] \in Digits \cup Gaps
  BY <1>1, <1>2, <1>4 DEF Shaped, HasLength
<1> QED BY <1>5, <1>6

(* All matches of a text, and those of texts that say the same code, have   *)
(* the same letters and digits.                                             *)
SaysCode(cc, u, v) ==
  /\ \E shape \in POSTAL_PATTERNS[cc].shapes : Fits(shape, v)
  /\ \E q \in {<<>>} \cup POSTAL_PATTERNS[cc].prefixes : Norm(u) = q \o Norm(v)

(* A text says at most one code: whichever way the expression takes, what  *)
(* it captures has the same letters and digits.                            *)
LEMMA SameCode ==
  ASSUME NEW cc, HasPattern(cc), NEW u \in Text, NEW v \in Text, NEW rest \in Matches(cc, u),
         SaysCode(cc, u, v)
  PROVE  Norm(rest) = Norm(v)
<1>1. /\ rest \in Text /\ \E shape \in POSTAL_PATTERNS[cc].shapes : Fits(shape, rest)
      /\ Heads(cc, u, rest)
  BY MatchIs
<1>2. PICK q \in {<<>>} \cup POSTAL_PATTERNS[cc].prefixes : Norm(u) = q \o Norm(v)
  BY DEF SaysCode
<1>3. PICK p \in {<<>>} \cup POSTAL_PATTERNS[cc].prefixes : Norm(u) = p \o Norm(rest)
  BY <1>1 DEF Heads
<1>4. p \in Seq(Chars) /\ q \in Seq(Chars) /\ Norm(v) \in Seq(Chars) /\ Norm(rest) \in Seq(Chars)
  BY <1>1, HeadIs, NormIs DEF Text
<1>5. Len(p) = Len(q) \/ Len(Norm(rest)) = Len(Norm(v))
  <2>1. CASE cc = "MT"
    <3>1. POSTAL_PATTERNS[cc].prefixes = {}
      BY <2>1, PatternOfMT
    <3> QED BY <3>1
  <2>2. CASE cc # "MT"
    <3>1. PICK n \in Nat : \A shape \in POSTAL_PATTERNS[cc].shapes : HasLength(shape, n)
      BY <2>2, EveryPattern
    <3> QED BY <3>1, <1>1 DEF HasLength, SaysCode
  <2> QED BY <2>1, <2>2
<1>6. p \o Norm(rest) = q \o Norm(v)
  BY <1>2, <1>3
<1> QED BY <1>4, <1>5, <1>6, SameParts, Zenon

-----------------------------------------------------------------------------
(* Cleaning and reading.                                                    *)

Nought == <<"0">>

LEMMA NoughtIs ==
  /\ Nought \in Text /\ Len(Nought) = 1 /\ Nought[1] \in Digits
  /\ Nought \in Seq(Digits) /\ Nought \in Seq(AlNum) /\ Upper(Nought) = Nought
<1> DEFINE c == "0"
<1>1. c \in Digits
  BY Marks
<1>2. Nought = <<c>>
  BY DEF Nought
<1> HIDE DEF c
<1>3. /\ c \in AlNum /\ c \in Chars /\ c \notin Lower
  BY <1>1, ClassesAreChars, ClassesAreDisjoint
<1>4. /\ <<c>> \in Text /\ Len(<<c>>) = 1 /\ <<c>>[1] \in Digits /\ DOMAIN <<c>> = 1..1
      /\ <<c>> \in Seq(Digits) /\ <<c>> \in Seq(AlNum) /\ <<c>>[1] \notin Lower
  BY <1>1, <1>3 DEF Text
<1>5. \A i \in 1..1 : i = 1
  OBVIOUS
<1> HIDE DEF Nought
<1>6. Upper(Nought) = Nought
  BY <1>2, <1>4, <1>5, UpperIsIdentity
<1> QED BY <1>2, <1>4, <1>6

(* A number short of one digit. *)
Short(cc, s) == Expected(cc) > 0 /\ Len(s) = Expected(cc) - 1 /\ AllIn(s, Digits)

LEMMA RestoreIs ==
  \A cc, s : RestoreZero(cc, s) = IF Short(cc, s) THEN Nought \o s ELSE s
BY DEF RestoreZero, Short, Nought

LEMMA RestoreUpper ==
  ASSUME NEW cc, NEW s \in Text
  PROVE  RestoreZero(cc, s) \in Text /\ RestoreZero(cc, Upper(s)) = Upper(RestoreZero(cc, s))
<1>1. AllIn(Upper(s), Digits) <=> AllIn(s, Digits)
  BY AllInUpper, ClassesAreDisjoint
<1>2. Len(Upper(s)) = Len(s)
  BY UpperIs
<1>3. Short(cc, Upper(s)) <=> Short(cc, s)
  BY <1>1, <1>2 DEF Short
<1>4. Nought \o s \in Text
  BY NoughtIs, ConcatProperties DEF Text
<1>5. Upper(Nought \o s) = Nought \o Upper(s)
  BY NoughtIs, UpperConcat
<1> QED BY <1>3, <1>4, <1>5, RestoreIs

(* Cleaning and upper case may be swapped. *)
LEMMA PreprocessUpper ==
  ASSUME NEW cc, NEW s \in Text
  PROVE  Preprocess(cc, s) \in Text /\ Preprocess(cc, Upper(s)) = Upper(Preprocess(cc, s))
<1>1. DropThousands(s) \in Text /\ DropThousands(Upper(s)) = Upper(DropThousands(s))
  BY ThousandsDropped
<1>2. /\ DropFloat(DropThousands(s)) \in Text
      /\ DropFloat(Upper(DropThousands(s))) = Upper(DropFloat(DropThousands(s)))
  BY <1>1, FloatDropped
<1> QED BY <1>1, <1>2, RestoreUpper DEF Preprocess

(* How a cleaned text in capitals is read. *)
Read(cc, u) ==
  IF Matches(cc, u) = {} THEN Norm(u)
  ELSE ApplyTercetMap(cc, Norm(CHOOSE rest \in Matches(cc, u) : TRUE))

(* Case makes no difference, and blanks around a text make none. *)
LEMMA ExtractIs ==
  ASSUME NEW cc, NEW raw \in Text
  PROVE  /\ Upper(Strip(raw)) = Strip(Upper(raw)) /\ Upper(Strip(raw)) \in Text
         /\ ExtractPostalCode(cc, raw) = Read(cc, Preprocess(cc, Upper(Strip(raw))))
<1>1. Strip(raw) \in Text /\ Upper(Strip(raw)) = Strip(Upper(raw)) /\ Upper(Strip(raw)) \in Text
  BY StripIs, UpperIs
<1> DEFINE c == Preprocess(cc, Strip(raw))
<1>2. c \in Text /\ Upper(c) = Preprocess(cc, Upper(Strip(raw)))
  BY <1>1, PreprocessUpper
<1>3. ExtractPostalCode(cc, raw) =
        IF Matches(cc, Upper(c)) = {} THEN Norm(c)
        ELSE ApplyTercetMap(cc, Norm(CHOOSE rest \in Matches(cc, Upper(c)) : TRUE))
  BY DEF ExtractPostalCode, Norm
<1> HIDE DEF c
<1>4. Norm(Upper(c)) = Norm(c)
  BY <1>2, NormUpper
<1> QED BY <1>1, <1>2, <1>3, <1>4 DEF Read

-----------------------------------------------------------------------------
(* Nothing is made up: what a text is read as is what it says.              *)

(* What may come before a code, and the rows a code may be about. *)
Before(cc) == {<<>>} \cup (IF HasPattern(cc) THEN POSTAL_PATTERNS[cc].prefixes ELSE {})

Means(cc, said, row) ==
  \/ said = row
  \/ cc = "LV" /\ <<"L", "V">> \o said = row
  \/ cc = "IE" /\ Len(said) = 7 /\ SubSeq(said, 1, 3) = row
  \/ cc = "MT" /\ Kept(said, Letters) = row

LEMMA BeforeIs ==
  ASSUME NEW cc, NEW q \in Before(cc)
  PROVE  q \in Text /\ q \in Seq(AlNum) /\ Norm(q) = q /\ \A i \in 1..Len(q) : q[i] \in Letters
<1>1. CASE HasPattern(cc)
  BY <1>1, HeadIs DEF Before
<1>2. CASE ~HasPattern(cc)
  <2>1. q = <<>>
    BY <1>2 DEF Before
  <2>2. q \in Seq(AlNum) /\ Len(q) = 0
    BY <2>1
  <2>3. q \in Text /\ Norm(q) = q
    BY <2>2, NormOfCode
  <2>4. \A i \in 1..Len(q) : q[i] \in Letters
    BY <2>2
  <2> QED BY <2>2, <2>3, <2>4
<1> QED BY <1>1, <1>2

(* What is known of a text in three parts. *)
Joined(a, b, c, s) ==
  /\ s \in Text /\ Len(s) = Len(a) + Len(b) + Len(c)
  /\ SubSeq(s, 1, Len(a)) = a
  /\ SubSeq(s, Len(a) + 1, Len(a) + Len(b)) = b

LEMMA Middle ==
  ASSUME NEW a \in Text, NEW b \in Text, NEW c \in Text
  PROVE  Joined(a, b, c, (a \o b) \o c)
<1> DEFINE h == a \o b
           s == h \o c
<1>1. a \in Seq(Chars) /\ b \in Seq(Chars) /\ c \in Seq(Chars)
  BY DEF Text
<1>2. /\ Len(a) \in Nat /\ Len(b) \in Nat /\ Len(c) \in Nat
  BY <1>1, LenProperties
<1>3. /\ h \in Seq(Chars) /\ Len(h) = Len(a) + Len(b)
      /\ \A i \in 1..(Len(a) + Len(b)) : h[i] = IF i <= Len(a) THEN a[i] ELSE b[i - Len(a)]
  BY <1>1, ConcatProperties
<1> HIDE DEF h
<1>5. /\ s \in Seq(Chars) /\ Len(s) = Len(h) + Len(c)
      /\ \A i \in 1..(Len(h) + Len(c)) : s[i] = IF i <= Len(h) THEN h[i] ELSE c[i - Len(h)]
  <2>1. h \in Seq(Chars) /\ c \in Seq(Chars)
    BY <1>1, <1>3
  <2> QED BY <2>1, ConcatProperties
<1> HIDE DEF s
<1> DEFINE m == Len(a)
           n == Len(b)
           v == SubSeq(s, 1, m)
           w == SubSeq(s, m + 1, m + n)
<1>6. Len(s) = m + n + Len(c) /\ m + n <= Len(s) /\ \A i \in 1..(m + n) : s[i] = h[i]
  BY <1>2, <1>3, <1>5
<1>7. /\ \A i \in 1..m : s[i] = a[i] /\ s[i] \in Chars
      /\ \A i \in 1..n : s[m + i] = b[i] /\ s[m + i] \in Chars
  <2>1. \A i \in 1..m : i \in 1..(m + n) /\ i <= m
    BY <1>2
  <2>2. \A i \in 1..n : m + i \in 1..(m + n) /\ ~(m + i <= m) /\ (m + i) - m = i
    BY <1>2
  <2>3. \A i \in 1..m : s[i] = a[i]
    BY <2>1, <1>3, <1>6
  <2>4. \A i \in 1..n : s[m + i] = b[i]
    BY <2>2, <1>3, <1>6
  <2> QED BY <2>3, <2>4, <1>1, ElementOfSeq
<1> HIDE DEF m, n
<1>8. m \in Nat /\ n \in Nat /\ m = Len(a) /\ n = Len(b)
  BY <1>2 DEF m, n
<1>9. v \in Seq(Chars) /\ Len(v) = m /\ \A i \in 1..m : v[i] = s[i]
  BY <1>5, <1>6, <1>7, <1>8
<1>10. w \in Seq(Chars) /\ Len(w) = n /\ \A i \in 1..n : w[i] = s[m + i]
  <2> DEFINE p == m + 1
             e == m + n
  <2>1. p \in Nat \ {0} /\ e \in Nat /\ e <= Len(s) /\ s \in Text
    BY <1>5, <1>6, <1>8 DEF Text
  <2>2. (e - p + 1 = n) /\ (p <= e \/ n = 0) /\ \A i \in 1..n : p + i - 1 = m + i
    BY <1>8
  <2>3. w = SubSeq(s, p, e)
    OBVIOUS
  <2> HIDE DEF p, e, w
  <2>4. /\ w \in Text /\ Len(w) = IF p <= e THEN e - p + 1 ELSE 0
        /\ \A i \in 1..(e - p + 1) : w[i] = s[p + i - 1]
    BY <2>1, <2>3, Part
  <2>5. Len(w) = n
    BY <2>2, <2>4, <1>8, <2>1
  <2> QED BY <2>2, <2>4, <2>5 DEF Text
<1> HIDE DEF v, w
<1>11. v = a
  BY <1>1, <1>7, <1>8, <1>9, SeqEqual
<1>12. w = b
  BY <1>1, <1>7, <1>8, <1>10, SeqEqual
<1>13. s \in Text /\ Len(s) = Len(a) + Len(b) + Len(c)
  BY <1>2, <1>5, <1>6 DEF Text, m, n
<1> QED BY <1>11, <1>12, <1>13 DEF v, w, m, n, s, h, Joined

(* The parts of a text that show what it says. *)
LEMMA SaysIs ==
  ASSUME NEW cc, NEW q \in Before(cc), NEW x \in Text, NEW d, d = q \o x,
         NEW lost \in 0..1, NEW row,
         lost > 0 => Len(Times(lost, "0") \o x) = Expected(cc),
         Means(cc, Times(lost, "0") \o x, row)
  PROVE  Says(cc, d, row)
<1>1. q \in Text /\ <<>> \in Text /\ Len(<<>>) = 0
  BY BeforeIs, EmptySeq DEF Text
<1>2. d \in Text
  BY <1>1, ConcatProperties DEF Text
<1>3. d = (q \o x) \o <<>>
  BY <1>2, ConcatEmptySeq DEF Text
<1>4. /\ Len(d) = Len(q) + Len(x) + 0
      /\ SubSeq(d, 1, Len(q)) = q
      /\ SubSeq(d, Len(q) + 1, Len(q) + Len(x)) = x
  <2>1. Joined(q, x, <<>>, d)
    BY <1>1, <1>3, Middle
  <2> QED BY <1>1, <2>1 DEF Joined
<1>5. Len(q) \in Nat /\ Len(x) \in Nat
  BY <1>1, LenProperties DEF Text
<1>6. IsPrefix(q, d)
  BY <1>1, <1>2, <1>4, <1>5, SubSeqFull DEF IsPrefix, Text
<1> DEFINE said == Times(lost, "0") \o SubSeq(d, Len(q) + 1, Len(d))
<1>7. said = Times(lost, "0") \o x
  BY <1>4, <1>5
<1>8. (lost > 0 => Len(said) = Expected(cc)) /\ Means(cc, said, row)
  BY <1>7
<1> QED BY <1>6, <1>8, Zenon DEF Says, Before, Means

(* A cleaned text is read as what it says after a prefix. *)
Understood(cc, w, row) ==
  \E q \in Before(cc), x \in Text :
    Norm(w) = q \o x /\ Means(cc, x, row) /\ (q # <<>> => Len(w) > 0 /\ w[1] \in Letters)

(* The transforms lead from a code to a row it is about. *)
LEMMA TercetMapMeans ==
  ASSUME NEW cc, HasPattern(cc), NEW rest \in Text,
         \E shape \in POSTAL_PATTERNS[cc].shapes : Fits(shape, rest)
  PROVE  Means(cc, Norm(rest), ApplyTercetMap(cc, Norm(rest)))
<1>1. POSTAL_PATTERNS[cc].tercet_map = IF cc = "LV" THEN "prepend:LV"
                                       ELSE IF cc = "IE" THEN "truncate:3"
                                       ELSE IF cc = "MT" THEN "keep_alpha" ELSE "none"
  BY EveryPattern
<1>2. CASE cc = "IE"
  <2>1. Len(Norm(rest)) = 7
    BY <1>2, PatternOfIE DEF Sound, HasLength
  <2> QED BY <2>1, <1>1, <1>2 DEF Means, ApplyTercetMap
<1>3. CASE cc = "LV"
  BY <1>1, <1>3 DEF Means, ApplyTercetMap
<1>4. CASE cc = "MT"
  BY <1>1, <1>4 DEF Means, ApplyTercetMap
<1>5. CASE cc \notin {"IE", "LV", "MT"}
  BY <1>1, <1>5 DEF Means, ApplyTercetMap
<1> QED BY <1>2, <1>3, <1>4, <1>5

LEMMA ReadIsUnderstood ==
  ASSUME NEW cc, NEW w \in Text
  PROVE  Understood(cc, w, Read(cc, w))
<1>1. Norm(w) \in Text /\ Norm(w) = <<>> \o Norm(w) /\ <<>> \in Before(cc)
  BY NormIs, ConcatEmptySeq DEF Text, Before
<1>2. CASE Matches(cc, w) = {}
  <2>1. Read(cc, w) = Norm(w)
    BY <1>2 DEF Read
  <2>2. Means(cc, Norm(w), Read(cc, w))
    BY <2>1 DEF Means
  <2> QED BY <1>1, <2>2 DEF Understood
<1>3. CASE Matches(cc, w) # {}
  <2> DEFINE rest == CHOOSE rest \in Matches(cc, w) : TRUE
  <2>1. rest \in Matches(cc, w) /\ Read(cc, w) = ApplyTercetMap(cc, Norm(rest))
    BY <1>3 DEF Read
  <2> HIDE DEF rest
  <2>2. /\ HasPattern(cc) /\ rest \in Text
        /\ \E shape \in POSTAL_PATTERNS[cc].shapes : Fits(shape, rest)
        /\ Heads(cc, w, rest)
    BY <2>1, MatchIs
  <2>3. Means(cc, Norm(rest), Read(cc, w)) /\ Norm(rest) \in Text
    BY <2>1, <2>2, TercetMapMeans, NormIs
  <2>4. CASE rest = w
    BY <1>1, <2>3, <2>4 DEF Understood
  <2>5. CASE rest # w
    <3>1. PICK q \in Before(cc) : Norm(w) = q \o Norm(rest)
      BY <2>2 DEF Heads, Before
    <3>2. Len(w) > 0 /\ w[1] \in Letters
      BY <2>2, <2>5 DEF Heads
    <3> QED BY <3>1, <3>2, <2>3 DEF Understood
  <2> QED BY <2>4, <2>5
<1> QED BY <1>2, <1>3

(* Cleaning keeps the letters and digits but for the zeros of a float. *)
LEMMA CleanedIs ==
  ASSUME NEW u \in Text
  PROVE  /\ DropFloat(DropThousands(u)) \in Text
         /\ Norm(DropFloat(DropThousands(u))) = Norm(WholeNumber(u))
<1> DEFINE t == DropThousands(u)
<1>1. /\ t \in Text /\ Norm(t) = Norm(u)
      /\ IsThousands(u) => \A i \in DOMAIN t : t[i] \notin Dot
  BY ThousandsDropped
<1>2. ~IsThousands(u) => t = u
  BY DEF DropThousands
<1> HIDE DEF t
<1>3. DropFloat(t) \in Text
  BY <1>1, FloatDropped
<1>4. CASE IsThousands(u)
  <2>1. DropFloat(t) = t
    BY <1>1, <1>4, NoDot, NoFloat
  <2>2. WholeNumber(u) = u
    BY <1>4 DEF WholeNumber
  <2> QED BY <1>1, <1>3, <2>1, <2>2 DEF t
<1>5. CASE ~IsThousands(u) /\ IsFloat(u)
  BY <1>2, <1>3, <1>5, WholeNumberIs DEF t
<1>6. CASE ~IsThousands(u) /\ ~IsFloat(u)
  <2>1. DropFloat(t) = u
    BY <1>2, <1>6, NoFloat
  <2>2. WholeNumber(u) = u
    BY <1>6 DEF WholeNumber
  <2> QED BY <1>3, <2>1, <2>2 DEF t
<1> QED BY <1>4, <1>5, <1>6

(* What any text is read as is what it says. *)
LEMMA NothingIsMadeUp ==
  ASSUME NEW cc, NEW u \in Text
  PROVE  Says(cc, Norm(WholeNumber(u)), Read(cc, Preprocess(cc, u)))
<1> DEFINE f == DropFloat(DropThousands(u))
<1>1. f \in Text /\ Norm(f) = Norm(WholeNumber(u))
  BY CleanedIs
<1>2. Preprocess(cc, u) = IF Short(cc, f) THEN Nought \o f ELSE f
  BY RestoreIs DEF Preprocess
<1> HIDE DEF f
<1>3. CASE ~Short(cc, f)
  <2>1. PICK q \in Before(cc), x \in Text : Norm(f) = q \o x /\ Means(cc, x, Read(cc, f))
    BY <1>1, ReadIsUnderstood DEF Understood
  <2>2. Times(0, "0") \o x = x
    <3>1. Times(0, "0") = <<>>
      BY DEF Times
    <3> QED BY <3>1, ConcatEmptySeq DEF Text
  <2>3. Means(cc, Times(0, "0") \o x, Read(cc, Preprocess(cc, u)))
    BY <1>2, <1>3, <2>1, <2>2, Zenon
  <2>4. 0 \in 0..1 /\ ~(0 > 0)
    OBVIOUS
  <2> QED BY <1>1, <2>1, <2>3, <2>4, SaysIs
<1>4. CASE Short(cc, f)
  <2> DEFINE w == Nought \o f
  <2>1. /\ f \in Seq(AlNum) /\ Norm(f) = f /\ Len(f) = Expected(cc) - 1 /\ Expected(cc) \in Nat
    <3>1. \A i \in 1..Len(f) : f[i] \in AlNum
      BY <1>1, <1>4, ClassesAreChars, LenProperties DEF Short, AllIn, Text
    <3>2. f \in Seq(AlNum)
      BY <1>1, <3>1, LenProperties DEF Text
    <3>3. Expected(cc) \in Nat
      <4>1. CASE HasPattern(cc)
        <5>1. Expected(cc) \in {0} \cup 3..7
          BY <4>1, EveryPattern
        <5> QED BY <5>1
      <4>2. CASE ~HasPattern(cc)
        BY <4>2 DEF Expected
      <4> QED BY <4>1, <4>2
    <3> QED BY <3>2, <3>3, <1>4, NormOfCode DEF Short
  <2>2. /\ w \in Text /\ w \in Seq(AlNum) /\ Len(w) = Expected(cc) /\ Norm(w) = w
        /\ w[1] \notin Letters
    <3>1. /\ w \in Seq(AlNum) /\ Len(w) = Len(Nought) + Len(f)
          /\ \A i \in 1..(Len(Nought) + Len(f)) : w[i] = IF i <= Len(Nought) THEN Nought[i] ELSE f[i - Len(Nought)]
      BY <2>1, NoughtIs, ConcatProperties
    <3>2. 1 \in 1..(Len(Nought) + Len(f)) /\ 1 <= Len(Nought) /\ Len(Nought) + Len(f) = Expected(cc)
      BY <2>1, NoughtIs, LenProperties
    <3>3. w[1] \notin Letters
      BY <3>1, <3>2, NoughtIs, ClassesAreDisjoint
    <3> HIDE DEF w
    <3> QED BY <3>1, <3>2, <3>3, NormOfCode
  <2> HIDE DEF w
  <2>3. PICK q \in Before(cc), x \in Text : /\ Norm(w) = q \o x /\ Means(cc, x, Read(cc, w))
                                            /\ q # <<>> => Len(w) > 0 /\ w[1] \in Letters
    BY <2>2, ReadIsUnderstood DEF Understood
  <2>4. x = w
    <3>1. q = <<>>
      BY <2>2, <2>3
    <3> QED BY <3>1, <2>2, <2>3, ConcatEmptySeq DEF Text
  <2>5. Times(1, "0") \o f = w
    <3>1. Times(1, "0") = Nought
      BY DEF Times, Nought
    <3> QED BY <3>1 DEF w
  <2>6. Norm(f) = <<>> \o f /\ <<>> \in Before(cc)
    BY <1>1, <2>1, ConcatEmptySeq DEF Before, Text
  <2>7. 1 \in 0..1 /\ Len(Times(1, "0") \o f) = Expected(cc)
    BY <2>2, <2>5
  <2>8. Means(cc, Times(1, "0") \o f, Read(cc, Preprocess(cc, u)))
    <3>1. Preprocess(cc, u) = w
      BY <1>2, <1>4 DEF w
    <3> QED BY <3>1, <2>3, <2>4, <2>5, Zenon
  <2> QED BY <2>6, <2>7, <2>8, <1>1, SaysIs
<1> QED BY <1>3, <1>4

-----------------------------------------------------------------------------
(* Nothing is damaged: a valid text is read as its match.                   *)

(* A text that matches is no number with thousands and none that is short  *)
(* of a digit, so only the float repair can touch it.                      *)
LEMMA PreprocessKeeps ==
  ASSUME NEW cc, NEW u \in Text, ~IsThousands(u), ~IsFloat(u), ~Short(cc, u)
  PROVE  Preprocess(cc, u) = u
<1>1. DropThousands(u) = u
  BY DEF DropThousands
<1>2. DropFloat(u) = u
  BY NoFloat
<1> QED BY <1>1, <1>2, RestoreIs DEF Preprocess

LEMMA MatchedIsNoThousands ==
  ASSUME NEW cc, NEW u \in Text, NEW rest \in Matches(cc, u)
  PROVE  ~IsThousands(u)
<1> SUFFICES ASSUME IsThousands(u) PROVE FALSE
  OBVIOUS
<1>1. /\ HasPattern(cc) /\ \E shape \in POSTAL_PATTERNS[cc].shapes : Fits(shape, rest)
      /\ rest \in Text /\ Heads(cc, u, rest)
  BY MatchIs
<1>2. u[1] \in Digits /\ \E i \in DOMAIN u : u[i] \in Dot
  BY ThousandsBegin
<1>3. rest = u
  BY <1>1, <1>2, ClassesAreDisjoint DEF Heads
<1>4. \A i \in DOMAIN u : u[i] \in AlNum \cup Gaps
  BY <1>1, <1>3, FitsIs
<1>5. Dot \cap (AlNum \cup Gaps) = {}
  <2>1. Dot \cap AlNum = {}
    BY DotAndZero DEF AlNum
  <2>2. Dot \cap Gaps = {}
    BY GapsAreSeparators DEF Dot
  <2> QED BY <2>1, <2>2
<1> QED BY <1>2, <1>4, <1>5

LEMMA MatchedIsNotShort ==
  ASSUME NEW cc, NEW u \in Text, NEW rest \in Matches(cc, u)
  PROVE  ~Short(cc, u)
<1> SUFFICES ASSUME Short(cc, u) PROVE FALSE
  OBVIOUS
<1>1. /\ HasPattern(cc) /\ \E shape \in POSTAL_PATTERNS[cc].shapes : Fits(shape, rest)
      /\ rest \in Text /\ Heads(cc, u, rest)
  BY MatchIs
<1>2. Expected(cc) > 0 /\ Len(u) = Expected(cc) - 1 /\ \A i \in 1..Len(u) : u[i] \in Digits
  BY LenProperties DEF Short, AllIn, Text
<1>3. Len(u) \in Nat /\ Expected(cc) \in {0} \cup 3..7
  BY <1>1, EveryPattern, LenProperties DEF Text
<1>4. rest = u
  <2>1. 1 \in 1..Len(u)
    BY <1>2, <1>3
  <2>2. u[1] \notin Letters
    BY <2>1, <1>2, ClassesAreDisjoint
  <2> QED BY <2>2, <1>1 DEF Heads
<1>5. Len(Norm(u)) = Expected(cc)
  BY <1>1, <1>2, <1>4, FitsIs
<1>6. u \in Seq(AlNum)
  <2>1. \A i \in 1..Len(u) : u[i] \in AlNum
    BY <1>2, ClassesAreChars
  <2> QED BY <2>1, LenProperties DEF Text
<1> QED BY <1>2, <1>3, <1>5, <1>6, NormOfCode

(* Every match is read as the same key. *)
LEMMA ReadOfMatch ==
  ASSUME NEW cc, NEW u \in Text, NEW rest \in Matches(cc, u)
  PROVE  Read(cc, u) = ApplyTercetMap(cc, Norm(rest))
<1> DEFINE other == CHOOSE r \in Matches(cc, u) : TRUE
<1>1. other \in Matches(cc, u) /\ Read(cc, u) = ApplyTercetMap(cc, Norm(other))
  BY DEF Read
<1> HIDE DEF other
<1>2. /\ HasPattern(cc) /\ \E shape \in POSTAL_PATTERNS[cc].shapes : Fits(shape, rest)
      /\ rest \in Text /\ Heads(cc, u, rest)
  BY MatchIs
<1>3. Norm(other) = Norm(rest)
  <2>1. SaysCode(cc, u, rest)
    BY <1>2 DEF Heads, SaysCode
  <2> QED BY <2>1, <1>1, <1>2, SameCode
<1> QED BY <1>1, <1>3

(* A valid text that is no float is read as its match. *)
LEMMA ValidIsKept ==
  ASSUME NEW cc, NEW u \in Text, NEW rest \in Matches(cc, u), ~IsFloat(u)
  PROVE  Read(cc, Preprocess(cc, u)) = ApplyTercetMap(cc, Norm(rest))
<1>1. Preprocess(cc, u) = u
  BY MatchedIsNoThousands, MatchedIsNotShort, PreprocessKeeps
<1> QED BY <1>1, ReadOfMatch

-----------------------------------------------------------------------------
(* Every spelling is found.                                                 *)

(* The characters of a code with gaps, and of one with a prefix before it. *)
Plain == AlNum \cup Gaps
Inked == AlNum \cup Separators

LEMMA PlainIs ==
  /\ Plain \subseteq Inked /\ Inked \subseteq Chars /\ Inked \cap Lower = {}
  /\ Plain \cap Dot = {} /\ AlNum \cap Space = {} /\ AlNum \subseteq Plain /\ AlNum \cap Separators = {}
<1>1. Separators \cap Lower = {} /\ AlNum \cap Separators = {}
  BY SeparatorsAreNone, ClassesAreChars DEF AnyCase
<1>2. Dot \cap AlNum = {} /\ Dot \cap Gaps = {}
  <2>1. Dot \cap Gaps = {}
    BY GapsAreSeparators DEF Dot
  <2> QED BY <2>1, DotAndZero DEF AlNum
<1> QED BY <1>1, <1>2, ClassesAreChars, GapsAreSeparators, Marks DEF Plain, Inked

LEMMA InkedIs ==
  ASSUME NEW s \in Seq(Inked)
  PROVE  s \in Text /\ Upper(s) = s
<1>1. s \in Text /\ \A i \in DOMAIN s : s[i] \notin Lower
  BY PlainIs, SeqMonotonic, LenProperties, ElementOfSeq DEF Text
<1> QED BY <1>1, UpperIsIdentity

LEMMA Ends ==
  ASSUME NEW C, NEW a \in Seq(C), NEW b \in Seq(C), Len(a) > 0, Len(b) > 0
  PROVE  /\ a \o b \in Seq(C) /\ Len(a \o b) > 0
         /\ (a \o b)[1] = a[1] /\ (a \o b)[Len(a \o b)] = b[Len(b)]
<1>1. Len(a) \in Nat /\ Len(b) \in Nat
  BY LenProperties
<1>2. /\ a \o b \in Seq(C) /\ Len(a \o b) = Len(a) + Len(b)
      /\ \A i \in 1..(Len(a) + Len(b)) : (a \o b)[i] = IF i <= Len(a) THEN a[i] ELSE b[i - Len(a)]
  BY ConcatProperties
<1>3. /\ 1 \in 1..(Len(a) + Len(b)) /\ 1 <= Len(a)
      /\ Len(a) + Len(b) \in 1..(Len(a) + Len(b)) /\ ~(Len(a) + Len(b) <= Len(a))
      /\ (Len(a) + Len(b)) - Len(a) = Len(b)
  BY <1>1
<1> QED BY <1>1, <1>2, <1>3

(* A text in capitals that begins and ends in ink and is read as the row of *)
(* a code.                                                                  *)
Good(cc, code, s) ==
  /\ s \in Seq(Inked) /\ Len(s) > 0 /\ s[1] \notin Space /\ s[Len(s)] \notin Space
  /\ Read(cc, Preprocess(cc, s)) = RowForm(cc, code)

(* A text whose key is that of the code. *)
Found(cc, code, raw) == raw \in Text /\ ExtractPostalCode(cc, raw) = RowForm(cc, code)

LEMMA InLowerIs ==
  ASSUME NEW s \in Text
  PROVE  InLower(s) \in Text /\ Upper(InLower(s)) = Upper(s)
<1> DEFINE low(c) == IF c \in Letters THEN CHOOSE l \in Lower : UpperOf[l] = c ELSE c
<1>1. \A c \in Chars : low(c) \in Chars /\ Up(low(c)) = Up(c)
  <2> SUFFICES ASSUME NEW c \in Chars PROVE low(c) \in Chars /\ Up(low(c)) = Up(c)
    OBVIOUS
  <2>1. CASE c \in Letters
    <3>1. \E l \in Lower : UpperOf[l] = c
      BY <2>1, Zenon DEF Letters
    <3> DEFINE l == CHOOSE l \in Lower : UpperOf[l] = c
    <3>2. l \in Lower /\ UpperOf[l] = c
      BY <3>1
    <3>3. low(c) = l
      BY <2>1
    <3> HIDE DEF l, low
    <3>4. l \in Chars /\ Up(l) = c
      BY <3>2, ClassesAreChars DEF Up
    <3>5. Up(c) = c
      BY <2>1, ClassesAreDisjoint DEF Up
    <3> QED BY <3>3, <3>4, <3>5
  <2>2. CASE c \notin Letters
    BY <2>2
  <2> QED BY <2>1, <2>2
<1>2. InLower(s) = [i \in DOMAIN s |-> low(s[i])]
  BY DEF InLower
<1> HIDE DEF low
<1>3. Len(s) \in Nat /\ DOMAIN s = 1..Len(s) /\ \A i \in 1..Len(s) : s[i] \in Chars
  BY LenProperties, ElementOfSeq DEF Text
<1>4. InLower(s) \in Text /\ Len(InLower(s)) = Len(s) /\ \A i \in 1..Len(s) : InLower(s)[i] = low(s[i])
  BY <1>1, <1>2, <1>3 DEF Text
<1>5. /\ Upper(s) \in Text /\ Len(Upper(s)) = Len(s) /\ \A i \in 1..Len(s) : Upper(s)[i] = Up(s[i])
  BY <1>3, UpperIs
<1>6. /\ Upper(InLower(s)) \in Text /\ Len(Upper(InLower(s))) = Len(s)
      /\ \A i \in 1..Len(s) : Upper(InLower(s))[i] = Up(low(s[i]))
  BY <1>3, <1>4, UpperIs, LenProperties DEF Text
<1>7. \A i \in 1..Len(s) : Upper(InLower(s))[i] = Upper(s)[i]
  BY <1>1, <1>3, <1>5, <1>6
<1> QED BY <1>4, <1>5, <1>6, <1>7, SeqEqual DEF Text

Blank == <<" ">>

LEMMA BlankIs == Blank \in Text
<1> DEFINE c == " "
<1>1. c \in Space
  BY Zenon DEF Space
<1> HIDE DEF c
<1>2. c \in Chars
  BY <1>1, ClassesAreChars, Marks
<1>3. <<c>> \in Text
  BY <1>2 DEF Text
<1> QED BY <1>3, Zenon DEF c, Blank

(* A good spelling is found also in lower case and between blanks. *)
LEMMA GoodIsFound ==
  ASSUME NEW cc, NEW code, NEW s, Good(cc, code, s)
  PROVE  Found(cc, code, s) /\ Found(cc, code, InLower(s)) /\ Found(cc, code, Blank \o s \o Blank)
<1>1. /\ s \in Text /\ Upper(s) = s /\ Len(s) > 0 /\ s[1] \notin Space /\ s[Len(s)] \notin Space
      /\ Read(cc, Preprocess(cc, s)) = RowForm(cc, code)
  BY InkedIs DEF Good
<1>2. Strip(s) = s /\ Strip(Blank \o s \o Blank) = s
  BY <1>1, StripOf, Zenon DEF Blank
<1>3. ASSUME NEW raw \in Text, Upper(Strip(raw)) = s \/ Strip(Upper(raw)) = s
      PROVE  Found(cc, code, raw)
  BY <1>1, <1>3, ExtractIs DEF Found
<1>4. Found(cc, code, s)
  BY <1>1, <1>2, <1>3
<1>5. Found(cc, code, InLower(s))
  BY <1>1, <1>2, <1>3, InLowerIs
<1>6. Found(cc, code, Blank \o s \o Blank)
  <2>1. Joined(Blank, s, Blank, Blank \o s \o Blank)
    BY <1>1, BlankIs, Middle
  <2>2. Blank \o s \o Blank \in Text
    BY <2>1 DEF Joined
  <2> QED BY <2>2, <1>1, <1>2, <1>3
<1> QED BY <1>4, <1>5, <1>6

(* A code alone. *)
LEMMA CodeIs ==
  ASSUME NEW cc \in Countries, NEW code \in Postcodes[cc]
  PROVE  /\ code \in Seq(AlNum) /\ code \in Text /\ Norm(code) = code /\ Len(code) \in Nat \ {0}
         /\ HasPattern(cc) => \E shape \in POSTAL_PATTERNS[cc].shapes : Fits(shape, code)
<1>1. code \in Seq(AlNum) /\ code # <<>>
  BY CodesAssumption DEF AlNum
<1>2. HasPattern(cc) => \E shape \in POSTAL_PATTERNS[cc].shapes : Fits(shape, code)
  BY CodesAssumption
<1> QED BY <1>1, <1>2, NormOfCode, EmptySeq, LenProperties

(* Matching itself, a code is read as its row. *)
LEMMA MatchesItself ==
  ASSUME NEW cc, HasPattern(cc), NEW s, \E shape \in POSTAL_PATTERNS[cc].shapes : Fits(shape, s)
  PROVE  s \in Matches(cc, s)
BY Zenon DEF Matches, Rests

(* A match that has all letters and digits is the whole text. *)
LEMMA MatchIsWhole ==
  ASSUME NEW cc, NEW u \in Text, NEW rest \in Matches(cc, u), Norm(rest) = Norm(u)
  PROVE  rest = u
<1> SUFFICES ASSUME rest # u PROVE FALSE
  OBVIOUS
<1> DEFINE P == POSTAL_PATTERNS[cc].prefixes
<1>1. HasPattern(cc) /\ rest \in Rests(P, u)
  BY Zenon DEF Matches
<1>2. P \in SUBSET Names
  BY <1>1, EveryPattern
<1> HIDE DEF P
<1>3. PICK p \in P : Norm(u) = p \o Norm(rest) /\ rest \in Text
  <2>1. Named(rest, P, u)
    BY <1>1, <1>2, RestNorm
  <2> QED BY <2>1 DEF Named
<1>4. p \in Text /\ Len(p) \in Nat \ {0}
  BY <1>2, NameIs
<1>5. Norm(rest) \in Text
  BY <1>3, NormIs
<1>6. Len(p \o Norm(rest)) = Len(p) + Len(Norm(rest)) /\ Len(Norm(rest)) \in Nat
  BY <1>4, <1>5, ConcatProperties, LenProperties DEF Text
<1> QED BY <1>3, <1>4, <1>6

(* A text that says a code and is no float is read as the row of the code.  *)
LEMMA SaidIsRead ==
  ASSUME NEW cc, HasPattern(cc), NEW u \in Text, NEW code \in Text, Norm(code) = code,
         SaysCode(cc, u, code), Matches(cc, u) # {}, ~IsFloat(u)
  PROVE  Read(cc, Preprocess(cc, u)) = RowForm(cc, code)
<1>1. PICK rest \in Matches(cc, u) : TRUE
  OBVIOUS
<1>2. Norm(rest) = code
  BY SameCode
<1> QED BY <1>2, ValidIsKept DEF RowForm

(* A code alone or with a separator inside: the code's letters and digits,  *)
(* matched as a whole, and no dot.                                          *)
Whole(cc, code, w) ==
  /\ w \in Seq(Plain) /\ Len(w) > 0 /\ w[1] \in AlNum /\ w[Len(w)] \in AlNum
  /\ Norm(w) = code
  /\ HasPattern(cc) => w \in Matches(cc, w)

(* The code, and the code with a gap in it. *)
LEMMA CodeIsWhole ==
  ASSUME NEW cc \in Countries, NEW code \in Postcodes[cc]
  PROVE  Whole(cc, code, code)
<1>1. /\ code \in Seq(AlNum) /\ code \in Text /\ Norm(code) = code /\ Len(code) \in Nat \ {0}
      /\ HasPattern(cc) => \E shape \in POSTAL_PATTERNS[cc].shapes : Fits(shape, code)
  BY CodeIs
<1>2. code \in Seq(Plain)
  BY <1>1, PlainIs, SeqMonotonic
<1>3. 1 \in 1..Len(code) /\ Len(code) \in 1..Len(code)
  BY <1>1
<1>4. code[1] \in AlNum /\ code[Len(code)] \in AlNum
  BY <1>1, <1>3, ElementOfSeq
<1>5. HasPattern(cc) => code \in Matches(cc, code)
  BY <1>1, MatchesItself
<1> QED BY <1>1, <1>2, <1>4, <1>5 DEF Whole

LEMMA WrittenIsWhole ==
  ASSUME NEW cc \in Countries, NEW code \in Postcodes[cc], NEW w \in Written(cc, code)
  PROVE  Whole(cc, code, w)
<1> DEFINE split(k, sep) == SubSeq(code, 1, k) \o <<sep>> \o SubSeq(code, k + 1, Len(code))
<1>0. w = code \/ \E k \in 1..(Len(code) - 1), sep \in Gaps : w = split(k, sep) /\ Matches(cc, w) # {}
  <2>1. Written(cc, code) = {code} \cup {v \in {split(k, sep) : k \in 1..(Len(code) - 1), sep \in Gaps} :
                                          Matches(cc, v) # {}}
    BY DEF Written
  <2> HIDE DEF split
  <2> QED BY <2>1
<1> HIDE DEF split
<1>1. CASE w = code
  BY <1>1, CodeIsWhole
<1>2. CASE w # code
  <2>0. PICK k \in 1..(Len(code) - 1), sep \in Gaps : w = split(k, sep) /\ Matches(cc, w) # {}
    BY <1>0, <1>2
  <2>1. /\ code \in Seq(AlNum) /\ code \in Text /\ Norm(code) = code /\ Len(code) \in Nat \ {0}
        /\ HasPattern(cc) => \E shape \in POSTAL_PATTERNS[cc].shapes : Fits(shape, code)
    BY CodeIs
  <2> DEFINE a == SubSeq(code, 1, k)
             b == SubSeq(code, k + 1, Len(code))
             g == <<sep>>
             n == Len(code)
  <2>2. /\ a \in Seq(AlNum) /\ Len(a) = k /\ b \in Seq(AlNum) /\ Len(b) = n - k
        /\ code = a \o b
    <3>1. k \in 0..Len(code)
      BY <2>1
    <3>2. /\ a \in Seq(AlNum) /\ Len(a) = k /\ b \in Seq(AlNum) /\ Len(b) = n - k
          /\ code = a \o b
      BY <2>1, <3>1, Split, Zenon
    <3> QED BY <3>2
  <2>3. k > 0 /\ n - k > 0 /\ k \in Nat /\ n - k \in Nat
    BY <2>1
  <2>4. w = (a \o g) \o b
    BY <2>0 DEF split
  <2>5. g \in Seq(Plain) /\ g \in Text /\ Len(g) = 1 /\ Norm(g) = <<>>
    <3>1. sep \in Plain /\ sep \in Chars /\ sep \notin AnyCase
      BY GapsAreSeparators, SeparatorsAreNone, ClassesAreChars DEF Plain
    <3>2. g \in Seq(Plain) /\ g \in Text /\ Len(g) = 1 /\ DOMAIN g = 1..1 /\ g[1] = sep
      BY <3>1 DEF Text
    <3>3. \A i \in 1..1 : i = 1
      OBVIOUS
    <3> HIDE DEF g
    <3> QED BY <3>1, <3>2, <3>3, NormOfNone
  <2> HIDE DEF a, b, g, n
  <2>6. a \in Seq(Plain) /\ b \in Seq(Plain) /\ a \in Text /\ b \in Text /\ Norm(a) = a /\ Norm(b) = b
    BY <2>2, PlainIs, SeqMonotonic, NormOfCode
  <2>7. Len(a) > 0 /\ Len(b) > 0 /\ Len(g) > 0
    BY <2>2, <2>3, <2>5
  <2>8. a \o g \in Seq(Plain) /\ Len(a \o g) > 0 /\ (a \o g)[1] = a[1]
    BY <2>5, <2>6, <2>7, Ends
  <2>9. w \in Seq(Plain) /\ Len(w) > 0 /\ w[1] = a[1] /\ w[Len(w)] = b[Len(b)]
    <3> DEFINE h == a \o g
    <3>1. h \in Seq(Plain) /\ Len(h) > 0 /\ h[1] = a[1] /\ w = h \o b
      BY <2>4, <2>8
    <3> HIDE DEF h
    <3>2. h \o b \in Seq(Plain) /\ Len(h \o b) > 0 /\ (h \o b)[1] = h[1] /\ (h \o b)[Len(h \o b)] = b[Len(b)]
      BY <3>1, <2>6, <2>7, Ends
    <3> QED BY <3>1, <3>2
  <2>10. a[1] \in AlNum /\ b[Len(b)] \in AlNum
    <3>1. 1 \in 1..Len(a) /\ Len(b) \in 1..Len(b)
      BY <2>2, <2>3
    <3> QED BY <3>1, <2>2, ElementOfSeq
  <2>11. Norm(w) = code
    <3>1. a \o g \in Text
      BY <2>5, <2>6, ConcatProperties DEF Text
    <3>2. Norm(a \o g) = a
      <4>1. Norm(a \o g) = a \o <<>>
        BY <2>5, <2>6, NormConcat
      <4> QED BY <4>1, <2>2, ConcatEmptySeq
    <3>3. Norm((a \o g) \o b) = a \o b
      BY <3>1, <3>2, <2>6, NormConcat
    <3> QED BY <3>3, <2>2, <2>4
  <2>12. ASSUME HasPattern(cc) PROVE w \in Matches(cc, w)
    <3>1. PICK rest \in Matches(cc, w) : TRUE
      BY <2>0
    <3>2. w \in Text
      BY <2>9, PlainIs, InkedIs, SeqMonotonic
    <3>3. SaysCode(cc, w, code)
      <4>1. Norm(w) = <<>> \o Norm(code)
        BY <2>1, <2>11, ConcatEmptySeq DEF Text
      <4> QED BY <4>1, <2>1, <2>12 DEF SaysCode
    <3>4. Norm(rest) = Norm(w)
      BY <3>2, <3>3, <2>1, <2>11, <2>12, SameCode
    <3>5. rest = w
      BY <3>2, <3>4, MatchIsWhole
    <3> QED BY <3>1, <3>5
  <2> QED BY <2>9, <2>10, <2>11, <2>12 DEF Whole
<1> QED BY <1>1, <1>2

LEMMA WholeIsGood ==
  ASSUME NEW cc \in Countries, NEW code \in Postcodes[cc], NEW w, Whole(cc, code, w)
  PROVE  Good(cc, code, w)
<1>1. /\ w \in Seq(Plain) /\ Len(w) > 0 /\ w[1] \in AlNum /\ w[Len(w)] \in AlNum /\ Norm(w) = code
      /\ HasPattern(cc) => w \in Matches(cc, w)
  BY DEF Whole
<1>2. w \in Seq(Inked) /\ w \in Text
  BY <1>1, PlainIs, InkedIs, SeqMonotonic
<1>3. w[1] \notin Space /\ w[Len(w)] \notin Space
  BY <1>1, PlainIs
<1>4. ~IsFloat(w) /\ ~IsThousands(w)
  <2>1. \A i \in DOMAIN w : w[i] \notin Dot
    BY <1>1, PlainIs, LenProperties, ElementOfSeq
  <2> QED BY <1>2, <2>1, NoDot
<1>5. /\ code \in Text /\ Norm(code) = code
      /\ HasPattern(cc) => \E shape \in POSTAL_PATTERNS[cc].shapes : Fits(shape, code)
  BY CodeIs
<1>6. CASE HasPattern(cc)
  <2>1. SaysCode(cc, w, code)
    <3>1. Norm(w) = <<>> \o Norm(code)
      BY <1>1, <1>5, ConcatEmptySeq DEF Text
    <3> QED BY <3>1, <1>5, <1>6 DEF SaysCode
  <2>2. Read(cc, Preprocess(cc, w)) = RowForm(cc, code)
    BY <2>1, <1>1, <1>2, <1>4, <1>5, <1>6, SaidIsRead
  <2> QED BY <2>2, <1>1, <1>2, <1>3 DEF Good
<1>7. CASE ~HasPattern(cc)
  <2>1. ~Short(cc, w) /\ Matches(cc, w) = {}
    BY <1>7 DEF Short, Expected, Matches
  <2>2. Preprocess(cc, w) = w
    BY <2>1, <1>2, <1>4, PreprocessKeeps
  <2>3. Read(cc, w) = code
    BY <2>1, <1>1 DEF Read
  <2> QED BY <2>2, <2>3, <1>1, <1>2, <1>3, <1>7 DEF Good, RowForm
<1> QED BY <1>6, <1>7

(* The code behind a prefix. *)
LEMMA JointIs ==
  ASSUME NEW sep \in Joints
  PROVE  /\ sep \in Text /\ sep \in Seq(Separators) /\ AllIn(sep, Separators)
         /\ \A j \in 1..Len(sep) : sep[j] \in Dot => j + 1 \in 1..Len(sep)
<1> DEFINE c == " "
           h == "-"
           d == "."
<1>1. c \in Space /\ h \in Gaps /\ d \in Dot
  BY Zenon DEF Space, Gaps, Dot
<1>2. sep \in {<<>>, <<c>>, <<h>>, <<d, c>>}
  BY Zenon DEF Joints
<1> HIDE DEF c, h, d
<1>3. c \in Separators /\ h \in Separators /\ d \in Separators /\ c \notin Dot /\ h \notin Dot
  <2>1. c \in Gaps
    BY <1>1, GapsAreSeparators
  <2>2. Gaps \cap Dot = {}
    BY GapsAreSeparators DEF Dot
  <2> QED BY <1>1, <2>1, <2>2, GapsAreSeparators, DotAndZero
<1>4. CASE sep = <<>>
  <2>1. sep \in Seq(Separators) /\ Len(sep) = 0
    BY <1>4
  <2> QED BY <2>1, ClassesAreChars, SeqMonotonic, LenProperties DEF Text, AllIn
<1>5. ASSUME NEW e \in Separators, e \notin Dot, sep = <<e>>
      PROVE  /\ sep \in Seq(Separators)
             /\ \A j \in 1..Len(sep) : sep[j] \in Dot => j + 1 \in 1..Len(sep)
  <2>1. sep \in Seq(Separators) /\ Len(sep) = 1 /\ sep[1] = e
    BY <1>5
  <2>2. \A j \in 1..1 : j = 1
    OBVIOUS
  <2> QED BY <2>1, <2>2, <1>5
<1>6. CASE sep = <<d, c>>
  <2>1. sep \in Seq(Separators) /\ Len(sep) = 2 /\ sep[2] = c
    BY <1>3, <1>6
  <2>2. \A j \in 1..2 : j = 2 \/ j + 1 \in 1..2
    OBVIOUS
  <2>3. sep \in Text /\ AllIn(sep, Separators)
    BY <2>1, ClassesAreChars, SeqMonotonic, LenProperties, ElementOfSeq DEF Text, AllIn
  <2> QED BY <2>1, <2>2, <2>3, <1>3
<1>7. CASE sep = <<c>> \/ sep = <<h>>
  <2>1. /\ sep \in Seq(Separators)
        /\ \A j \in 1..Len(sep) : sep[j] \in Dot => j + 1 \in 1..Len(sep)
    BY <1>3, <1>5, <1>7
  <2>2. sep \in Text /\ AllIn(sep, Separators)
    BY <2>1, ClassesAreChars, SeqMonotonic, LenProperties, ElementOfSeq DEF Text, AllIn
  <2> QED BY <2>1, <2>2
<1> QED BY <1>2, <1>4, <1>6, <1>7

LEMMA PrefixedIs ==
  ASSUME NEW cc, NEW code, NEW s \in Prefixed(cc, code)
  PROVE  /\ HasPattern(cc)
         /\ \E p \in POSTAL_PATTERNS[cc].prefixes, sep \in Joints, w \in Written(cc, code) :
              s = (p \o sep) \o w
BY DEF Prefixed

LEMMA PrefixedIsGood ==
  ASSUME NEW cc \in Countries, NEW code \in Postcodes[cc], NEW s \in Prefixed(cc, code)
  PROVE  Good(cc, code, s)
<1> DEFINE P == POSTAL_PATTERNS[cc].prefixes
<1>1. HasPattern(cc) /\ P \in SUBSET Names
  BY PrefixedIs, EveryPattern
<1>2. PICK p \in P, sep \in Joints, w \in Written(cc, code) : s = (p \o sep) \o w
  BY PrefixedIs
<1>3. /\ w \in Seq(Plain) /\ Len(w) > 0 /\ w[1] \in AlNum /\ w[Len(w)] \in AlNum /\ Norm(w) = code
      /\ w \in Matches(cc, w)
  BY <1>1, WrittenIsWhole DEF Whole
<1>4. /\ p \in Text /\ p \in Seq(AlNum) /\ Norm(p) = p /\ Len(p) \in Nat \ {0}
      /\ \A i \in 1..Len(p) : p[i] \in Letters
  BY <1>1, NameIs
<1>5. /\ sep \in Text /\ sep \in Seq(Separators) /\ AllIn(sep, Separators)
      /\ \A j \in 1..Len(sep) : sep[j] \in Dot => j + 1 \in 1..Len(sep)
      /\ Len(sep) \in Nat
  BY JointIs, LenProperties DEF Text
<1>6. w \in Text /\ w \in Seq(Inked) /\ p \in Seq(Inked) /\ sep \in Seq(Inked) /\ Len(w) \in Nat
  <2>1. AlNum \subseteq Inked /\ Separators \subseteq Inked
    BY DEF Inked
  <2> QED BY <2>1, <1>3, <1>4, <1>5, PlainIs, InkedIs, SeqMonotonic, LenProperties
<1> DEFINE h == p \o sep
           m == Len(p)
           n == Len(p) + Len(sep)
<1>7. /\ h \in Seq(Inked) /\ Len(h) = n
      /\ \A i \in 1..n : h[i] = IF i <= m THEN p[i] ELSE sep[i - m]
  BY <1>6, ConcatProperties
<1>8. s = h \o w
  BY <1>2
<1>9. n \in Nat /\ n > 0 /\ m \in Nat /\ m > 0 /\ n >= m /\ Len(sep) = n - m /\ Len(h) > 0
  BY <1>4, <1>5, <1>7
<1>10. /\ s \in Seq(Inked) /\ Len(s) > 0 /\ s[1] = p[1] /\ s[Len(s)] = w[Len(w)]
  <2>1. h[1] = p[1]
    <3>1. 1 \in 1..n /\ 1 <= m
      BY <1>9
    <3> QED BY <3>1, <1>7
  <2> HIDE DEF h
  <2>2. h \o w \in Seq(Inked) /\ Len(h \o w) > 0 /\ (h \o w)[1] = h[1] /\ (h \o w)[Len(h \o w)] = w[Len(w)]
    BY <1>3, <1>6, <1>7, <1>9, Ends
  <2> QED BY <2>1, <2>2, <1>8
<1>11. s \in Text
  BY <1>10, InkedIs
<1>12. /\ Len(s) = n + Len(w)
       /\ \A i \in 1..(n + Len(w)) : s[i] = IF i <= n THEN h[i] ELSE w[i - n]
  <2> HIDE DEF h
  <2>1. h \in Seq(Inked) /\ w \in Seq(Inked)
    BY <1>6, <1>7
  <2>2. /\ Len(h \o w) = Len(h) + Len(w)
        /\ \A i \in 1..(Len(h) + Len(w)) : (h \o w)[i] = IF i <= Len(h) THEN h[i] ELSE w[i - Len(h)]
    BY <2>1, ConcatProperties
  <2> HIDE DEF n
  <2> QED BY <2>2, <1>7, <1>8
<1>13. p[1] \in AlNum
  <2>1. 1 \in 1..Len(p)
    BY <1>4
  <2> QED BY <2>1, <1>4, ElementOfSeq
<1>14. s[1] \notin Space /\ s[Len(s)] \notin Space
  BY <1>3, <1>10, <1>13, PlainIs
<1>15. ~IsFloat(s)
  <2> SUFFICES ASSUME NEW i \in 1..(Len(s) - 1), s[i] \in Dot, AllIn(SubSeq(s, i + 1, Len(s)), Zero)
               PROVE  FALSE
    BY FloatIs DEF Dots
  <2>1. i \in 1..(n + Len(w))
    BY <1>11, <1>12, LenProperties DEF Text
  <2>2. CASE i <= m
    <3>1. i \in 1..m /\ i \in 1..n /\ i <= n
      BY <2>1, <2>2, <1>9
    <3>2. s[i] = p[i]
      BY <2>1, <2>2, <3>1, <1>7, <1>12
    <3>3. s[i] \in Letters
      BY <3>1, <3>2, <1>4
    <3> QED BY <3>3, DotAndZero
  <2>3. CASE i > n
    <3>1. i - n \in 1..Len(w) /\ ~(i <= n)
      BY <2>1, <2>3, <1>6, <1>9
    <3>2. s[i] = w[i - n]
      BY <2>1, <3>1, <1>12
    <3>3. s[i] \in Plain
      BY <3>1, <3>2, <1>3, ElementOfSeq
    <3> QED BY <3>3, PlainIs
  <2>4. CASE ~(i <= m) /\ ~(i > n)
    <3> DEFINE j == i - m
    <3>1. /\ j \in 1..Len(sep) /\ i \in 1..n /\ i <= n /\ j \in Nat
      BY <2>1, <2>4, <1>9
    <3>2. s[i] = sep[j]
      BY <2>1, <2>4, <3>1, <1>7, <1>12
    <3>3. j + 1 \in 1..Len(sep)
      BY <3>1, <3>2, <1>5
    <3>4. /\ i + 1 \in 1..(n + Len(w)) /\ i + 1 <= n /\ i + 1 \in 1..n /\ ~(i + 1 <= m)
          /\ (i + 1) - m = j + 1
      BY <3>1, <3>3, <2>1, <2>4, <1>6, <1>9
    <3>5. s[i + 1] = sep[j + 1]
      BY <3>4, <1>7, <1>12
    <3>6. s[i + 1] \in Separators
      BY <3>3, <3>5, <1>5, ElementOfSeq
    <3>7. s[i + 1] \in Zero
      <4> DEFINE z == SubSeq(s, i + 1, Len(s))
                 a == i + 1
                 b == Len(s)
      <4>1. a \in Nat \ {0} /\ b \in Nat /\ b <= Len(s) /\ a <= b /\ a + 1 - 1 = a /\ 1 \in 1..(b - a + 1)
            /\ 1 \in 1..(b - a + 1)
        BY <2>1, <3>4, <1>6, <1>9, <1>12
      <4>2. z = SubSeq(s, a, b)
        OBVIOUS
      <4> HIDE DEF a, b, z
      <4>3. z \in Text /\ Len(z) = b - a + 1 /\ z[1] = s[a]
        <5>1. /\ z \in Text /\ Len(z) = IF a <= b THEN b - a + 1 ELSE 0
              /\ \A k \in 1..(b - a + 1) : z[k] = s[a + k - 1]
          BY <4>1, <4>2, <1>11, Part
        <5> QED BY <5>1, <4>1
      <4>4. 1 \in DOMAIN z
        BY <4>1, <4>3, LenProperties DEF Text
      <4>5. z[1] \in Zero
        BY <4>4 DEF AllIn, z
      <4> QED BY <4>3, <4>5 DEF a
    <3>8. Zero \cap Separators = {}
      BY DotAndZero, PlainIs, ClassesAreChars
    <3> QED BY <3>6, <3>7, <3>8
  <2> QED BY <2>2, <2>3, <2>4
<1>16. /\ code \in Text /\ Norm(code) = code
       /\ \E shape \in POSTAL_PATTERNS[cc].shapes : Fits(shape, code)
  BY <1>1, CodeIs
<1>17. SaysCode(cc, s, code)
  <2>1. Norm(h) = p
    <3>1. Norm(p \o sep) = p \o <<>>
      BY <1>4, <1>5, NormConcat, NormOfGap
    <3> QED BY <3>1, <1>4, ConcatEmptySeq DEF Text
  <2>2. h \in Text
    BY <1>7, InkedIs
  <2> HIDE DEF h
  <2>3. Norm(s) = p \o Norm(code)
    BY <2>1, <2>2, <1>3, <1>6, <1>8, <1>16, NormConcat
  <2> QED BY <2>3, <1>16 DEF SaysCode
<1>18. w \in Matches(cc, s)
  <2>1. \E shape \in POSTAL_PATTERNS[cc].shapes : Fits(shape, w)
    BY <1>3, Zenon DEF Matches
  <2>2. Joined(p, sep, w, s)
    BY <1>2, <1>4, <1>5, <1>6, Middle
  <2>3. SubSeq(s, 1, m) = p /\ SubSeq(s, m + 1, n) = sep
    BY <2>2 DEF Joined
  <2>4. SubSeq(s, n + 1, Len(s)) = w
    <3>1. h \in Text /\ <<>> \in Text /\ s = (h \o w) \o <<>> /\ Len(<<>>) = 0
      BY <1>7, <1>8, <1>11, InkedIs, ConcatEmptySeq DEF Text
    <3>2. Joined(h, w, <<>>, s)
      BY <3>1, <1>6, Middle
    <3>3. SubSeq(s, Len(h) + 1, Len(h) + Len(w)) = w
      BY <3>2 DEF Joined
    <3> QED BY <3>3, <1>7, <1>12
  <2>5. n \in DOMAIN s /\ m <= Len(s)
    BY <1>6, <1>9, <1>11, <1>12, LenProperties DEF Text
  <2>6. IsPrefix(p, s)
    BY <2>3, <2>5, <1>4, SubSeqFull DEF IsPrefix, Text
  <2>7. w \in Rests(P, s)
    <3> HIDE DEF P
    <3>1. n \in {k \in DOMAIN s : \E q \in P :
                   IsPrefix(q, s) /\ k >= Len(q) /\ AllIn(SubSeq(s, Len(q) + 1, k), Separators)}
      BY <2>3, <2>5, <2>6, <1>2, <1>5, <1>9
    <3> HIDE DEF n
    <3> QED BY <3>1, <2>4, Zenon DEF Rests
  <2> QED BY <2>1, <2>7, <1>1, Zenon DEF Matches
<1>19. Read(cc, Preprocess(cc, s)) = RowForm(cc, code)
  BY <1>1, <1>11, <1>15, <1>16, <1>17, <1>18, SaidIsRead
<1> QED BY <1>10, <1>14, <1>19 DEF Good

(* A number, or what a spreadsheet makes of one. *)
Numeral(s, u) ==
  /\ u \in Seq(Digits \cup Dot) /\ Len(u) > 0
  /\ DropFloat(DropThousands(u)) = s

LEMMA DigitsAre ==
  ASSUME NEW s \in Seq(Digits)
  PROVE  /\ s \in Text /\ s \in Seq(AlNum) /\ s \in Seq(Digits \cup Dot) /\ Norm(s) = s
         /\ \A i \in 1..Len(s) : s[i] \in Digits /\ s[i] \notin Dot
         /\ Kept(s, Digits) = s /\ ~IsFloat(s) /\ ~IsThousands(s)
<1>1. s \in Seq(AlNum) /\ s \in Text /\ Norm(s) = s
  BY ClassesAreChars, SeqMonotonic, NormOfCode
<1>2. \A i \in 1..Len(s) : s[i] \in Digits /\ s[i] \notin Dot
  BY ElementOfSeq, DotAndZero
<1>3. DOMAIN s = 1..Len(s)
  BY LenProperties
<1>4. Kept(s, Digits) = s
  BY <1>1, <1>2, <1>3, KeptAll DEF AllIn
<1>5. ~IsFloat(s) /\ ~IsThousands(s)
  BY <1>1, <1>2, <1>3, NoDot
<1>6. s \in Seq(Digits \cup Dot)
  BY SeqMonotonic
<1> QED BY <1>1, <1>2, <1>4, <1>5, <1>6

LEMMA NumberIsNumeral ==
  ASSUME NEW s \in Seq(Digits), Len(s) > 0
  PROVE  Numeral(s, s)
<1>1. DropThousands(s) = s /\ DropFloat(s) = s
  BY DigitsAre, NoFloat DEF DropThousands
<1> QED BY <1>1, DigitsAre DEF Numeral

(* A number with a dot and zeros after it. *)
LEMMA FloatIsNumeral ==
  ASSUME NEW s \in Seq(Digits), Len(s) > 0, NEW g \in Seq(Digits \cup Dot), Len(g) \in 2..3,
         g[1] \in Dot, \A i \in 2..Len(g) : g[i] \in Zero
  PROVE  Numeral(s, s \o g)
<1> DEFINE D == Digits \cup Dot
           u == s \o g
           n == Len(s)
           k == Len(g)
<1>1. s \in Seq(D) /\ g \in Seq(D) /\ s \in Text /\ n \in Nat /\ n > 0 /\ k \in Nat /\ k \in 2..3
  BY DigitsAre, LenProperties
<1>2. D \subseteq Chars /\ Dot \cap Digits = {} /\ Zero \cap Dot = {}
  BY ClassesAreChars, DotAndZero
<1> HIDE DEF D
<1>3. /\ u \in Seq(D) /\ Len(u) = n + k
      /\ \A i \in 1..(n + k) : u[i] = IF i <= n THEN s[i] ELSE g[i - n]
  BY <1>1, ConcatProperties
<1>4. u \in Text /\ DOMAIN u = 1..(n + k)
  BY <1>2, <1>3, SeqMonotonic, LenProperties DEF Text
<1>5. SubSeq(u, 1, n) = s
  <2>1. g \in Text /\ <<>> \in Text
    BY <1>1, <1>2, SeqMonotonic DEF Text
  <2>2. (s \o g) \o <<>> = u
    BY <1>4, ConcatEmptySeq DEF Text
  <2>3. Joined(s, g, <<>>, u)
    BY <2>1, <2>2, <1>1, Middle
  <2> QED BY <2>3 DEF Joined
<1> HIDE DEF u, n, k
<1>6. \A i \in 1..(n + k) : /\ i <= n => u[i] \in Digits
                            /\ i = n + 1 => u[i] \in Dot
                            /\ i > n + 1 => u[i] \in Zero
  <2> SUFFICES ASSUME NEW i \in 1..(n + k)
               PROVE  /\ i <= n => u[i] \in Digits
                      /\ i = n + 1 => u[i] \in Dot
                      /\ i > n + 1 => u[i] \in Zero
    OBVIOUS
  <2>1. CASE i <= n
    <3>1. i \in 1..Len(s) /\ u[i] = s[i] /\ ~(i = n + 1) /\ ~(i > n + 1)
      BY <2>1, <1>1, <1>3 DEF n
    <3> QED BY <3>1, DigitsAre
  <2>2. CASE i = n + 1
    <3>1. ~(i <= n) /\ i - n = 1
      BY <2>2, <1>1
    <3> QED BY <3>1, <2>2, <1>1, <1>3
  <2>3. CASE i > n + 1
    <3>1. ~(i <= n) /\ i - n \in 2..Len(g)
      BY <2>3, <1>1 DEF k
    <3> QED BY <3>1, <2>3, <1>1, <1>3
  <2> QED BY <2>1, <2>2, <2>3, <1>1
<1>7. \A i \in 1..(n + k) : u[i] \in Dot => i = n + 1
  BY <1>1, <1>2, <1>6
<1>8. ~IsThousands(u)
  <2> SUFFICES ASSUME NEW h \in 1..3, Grouped(u, h) PROVE FALSE
    BY ThousandsIs
  <2>1. n + k > h /\ ((n + k) - h) % 4 = 0
    BY <1>3 DEF Grouped
  <2>2. h + 1 \in 1..(n + k) /\ h + 1 > h /\ ((h + 1) - h) % 4 = 1
    BY <2>1, <1>1
  <2>3. u[h + 1] \in Dot
    BY <2>2, <1>4 DEF Grouped
  <2>4. h = n
    BY <2>2, <2>3, <1>1, <1>7
  <2> QED BY <2>1, <2>4, <1>1
<1>9. Dots(u) = {n + 1}
  <2>1. \A i \in 1..(Len(u) - 1) : u[i] \in Dot => i = n + 1
    BY <1>1, <1>3, <1>7
  <2>2. n + 1 \in 1..(Len(u) - 1) /\ u[n + 1] \in Dot
    BY <1>1, <1>3, <1>6
  <2>3. AllIn(SubSeq(u, (n + 1) + 1, Len(u)), Zero)
    <3> DEFINE a == (n + 1) + 1
               b == Len(u)
               z == SubSeq(u, a, b)
    <3>1. a \in Nat \ {0} /\ b \in Nat /\ b <= Len(u) /\ a <= b
      BY <1>1, <1>3
    <3>2. \A i \in 1..(b - a + 1) : a + i - 1 \in 1..(n + k) /\ a + i - 1 > n + 1
      BY <1>1, <1>3
    <3>3. b - a + 1 \in Nat
      BY <3>1
    <3> HIDE DEF a, b
    <3>4. /\ z \in Text /\ Len(z) = IF a <= b THEN b - a + 1 ELSE 0
          /\ \A i \in 1..(b - a + 1) : z[i] = u[a + i - 1]
      BY <3>1, <1>4, Part
    <3>5. DOMAIN z = 1..(b - a + 1)
      BY <3>1, <3>4, LenProperties DEF Text
    <3> HIDE DEF z
    <3>6. AllIn(z, Zero)
      BY <3>2, <3>4, <3>5, <1>6 DEF AllIn
    <3> QED BY <3>6 DEF z, a, b
  <2> QED BY <2>1, <2>2, <2>3 DEF Dots
<1>10. Min(Dots(u)) = n + 1
  <2>1. \E x \in {n + 1} : \A y \in {n + 1} : x <= y
    BY <1>1
  <2> QED BY <2>1, <1>9 DEF Min
<1>11. DropThousands(u) = u
  BY <1>8 DEF DropThousands
<1>12. DropFloat(u) = s
  <2>1. (n + 1) - 1 = n
    BY <1>1
  <2> QED BY <2>1, <1>5, <1>9, <1>10, DropFloatIs
<1>13. u \in Seq(Digits \cup Dot) /\ Len(u) > 0
  BY <1>1, <1>3 DEF D
<1> QED BY <1>11, <1>12, <1>13 DEF Numeral, u

(* Groups of a dot and three digits, over the digits of s after the h first. *)
Groups(s, h, n, g) ==
  /\ g \in Seq(Digits \cup Dot) /\ Len(g) = 4 * n
  /\ \A i \in 1..(4 * n) : IF i % 4 = 1 THEN g[i] \in Dot ELSE g[i] = s[h + i - 1 - (i - 1) \div 4]

(* The dotted number keeps its digits. *)
LEMMA OneGroup ==
  ASSUME NEW s \in Seq(Digits), NEW h \in Nat, Len(s) >= h + 3, NEW g \in Seq(Digits \cup Dot),
         Len(g) = 4, g[1] \in Dot, \A i \in 1..3 : g[i + 1] = s[h + i]
  PROVE  Kept(g, Digits) = SubSeq(s, h + 1, h + 3)
<1> DEFINE b == SubSeq(s, h + 1, h + 3)
           x == SubSeq(g, 1, 1)
           y == SubSeq(g, 1 + 1, Len(g))
<1>1. s \in Text /\ Len(s) \in Nat /\ \A i \in 1..Len(s) : s[i] \in Digits
  BY DigitsAre, LenProperties
<1>2. b \in Seq(Digits) /\ Len(b) = 3 /\ \A i \in 1..3 : b[i] = s[h + i]
  <2> DEFINE m == h + 1
             n == h + 3
  <2>1. m \in Nat \ {0} /\ n \in Nat /\ n <= Len(s) /\ m <= n /\ n - m + 1 = 3
    BY <1>1
  <2>2. \A i \in 1..3 : m + i - 1 = h + i
    OBVIOUS
  <2>3. \A i \in m..n : s[i] \in Digits
    BY <1>1, <2>1
  <2>4. b = SubSeq(s, m, n)
    OBVIOUS
  <2> HIDE DEF m, n, b
  <2>5. /\ b \in Seq(Digits) /\ Len(b) = IF m <= n THEN n - m + 1 ELSE 0
        /\ \A i \in 1..(n - m + 1) : b[i] = s[m + i - 1]
    BY <2>1, <2>3, <2>4, SubSeqProperties
  <2> QED BY <2>1, <2>2, <2>5
<1>3. /\ x \in Seq(Digits \cup Dot) /\ Len(x) = 1 /\ x[1] = g[1]
      /\ y \in Seq(Digits \cup Dot) /\ Len(y) = 3 /\ \A i \in 1..3 : y[i] = g[1 + i]
      /\ g = x \o y
  <2>1. 1 \in 0..Len(g) /\ Len(g) - 1 = 3 /\ 1 \in 1..1
    OBVIOUS
  <2>2. /\ x \in Seq(Digits \cup Dot) /\ Len(x) = 1 /\ \A i \in 1..1 : x[i] = g[i]
        /\ y \in Seq(Digits \cup Dot) /\ Len(y) = Len(g) - 1
        /\ \A i \in 1..(Len(g) - 1) : y[i] = g[1 + i]
        /\ g = x \o y
    BY <2>1, Split, Zenon
  <2> QED BY <2>1, <2>2
<1> HIDE DEF b, x, y
<1>4. y = b
  <2>1. \A i \in 1..3 : y[i] = b[i]
    <3>1. \A i \in 1..3 : g[1 + i] = g[i + 1]
      OBVIOUS
    <3> QED BY <3>1, <1>2, <1>3
  <2>2. b \in Seq(Digits \cup Dot)
    BY <1>2, DigitsAre
  <2> QED BY <2>1, <2>2, <1>2, <1>3, SeqEqual
<1>5. x \in Text /\ b \in Text
  <2>1. Digits \cup Dot \subseteq Chars
    BY ClassesAreChars, DotAndZero
  <2> QED BY <2>1, <1>2, <1>3, SeqMonotonic, DigitsAre DEF Text
<1>6. Kept(x, Digits) = <<>>
  <2>1. \A i \in DOMAIN x : x[i] \notin Digits
    <3>1. \A i \in 1..1 : i = 1
      OBVIOUS
    <3>2. DOMAIN x = 1..1
      BY <1>3, LenProperties
    <3> QED BY <3>1, <3>2, <1>3, DotAndZero
  <2> QED BY <2>1, <1>5, KeptNone
<1>7. Kept(b, Digits) = b
  BY <1>2, DigitsAre
<1>8. Kept(g, Digits) = <<>> \o b
  <2>1. g = x \o b
    BY <1>3, <1>4
  <2>2. Kept(x \o b, Digits) = Kept(x, Digits) \o Kept(b, Digits)
    BY <1>5, KeptConcat
  <2> QED BY <2>1, <2>2, <1>6, <1>7
<1>9. <<>> \o b = b
  BY <1>2, ConcatEmptySeq
<1> QED BY <1>8, <1>9 DEF b

LEMMA GroupsAreKept ==
  ASSUME NEW s \in Seq(Digits), NEW h \in 1..3, NEW n \in 1..2, Len(s) = h + 3 * n,
         NEW g, Groups(s, h, n, g)
  PROVE  Kept(g, Digits) = SubSeq(s, h + 1, Len(s))
<1>0. g \in Seq(Digits \cup Dot) /\ Len(g) = 4 * n
  BY DEF Groups
<1>1. CASE n = 1
  <2>1. Len(g) = 4 /\ g[1] \in Dot /\ Len(s) = h + 3
    BY <1>0, <1>1 DEF Groups
  <2>2. \A i \in 1..3 : g[i + 1] = s[h + i]
    <3>1. \A i \in 1..3 : /\ i + 1 \in 1..(4 * n) /\ (i + 1) % 4 # 1
                          /\ h + (i + 1) - 1 - ((i + 1) - 1) \div 4 = h + i
      BY <1>1
    <3> QED BY <3>1 DEF Groups
  <2>3. h \in Nat /\ Len(s) >= h + 3
    BY <2>1
  <2>4. Kept(g, Digits) = SubSeq(s, h + 1, h + 3)
    BY <2>1, <2>2, <2>3, <1>0, OneGroup
  <2> QED BY <2>1, <2>4
<1>2. CASE n = 2
  <2> DEFINE m == 4
             x == SubSeq(g, 1, m)
             y == SubSeq(g, m + 1, Len(g))
  <2>1. /\ x \in Seq(Digits \cup Dot) /\ Len(x) = 4 /\ \A i \in 1..4 : x[i] = g[i]
        /\ y \in Seq(Digits \cup Dot) /\ Len(y) = 4 /\ \A i \in 1..4 : y[i] = g[4 + i]
        /\ g = x \o y
    <3>1. m \in 0..Len(g) /\ Len(g) - m = 4 /\ m = 4
      BY <1>0, <1>2
    <3> HIDE DEF m
    <3>3. m \in 0..Len(g) /\ g \in Seq(Digits \cup Dot)
      BY <3>1, <1>0
    <3>2. /\ x \in Seq(Digits \cup Dot) /\ Len(x) = m /\ \A i \in 1..m : x[i] = g[i]
          /\ y \in Seq(Digits \cup Dot) /\ Len(y) = Len(g) - m
          /\ \A i \in 1..(Len(g) - m) : y[i] = g[m + i]
          /\ g = x \o y
      BY <3>3, Split, Zenon
    <3> HIDE DEF x, y
    <3> QED BY <3>1, <3>2
  <2> HIDE DEF x, y, m
  <2>2. /\ x[1] \in Dot /\ y[1] \in Dot
        /\ \A i \in 1..3 : x[i + 1] = s[h + i]
        /\ \A i \in 1..3 : y[i + 1] = s[(h + 3) + i]
    <3>1. /\ 1 \in 1..(4 * n) /\ 1 % 4 = 1 /\ 5 \in 1..(4 * n) /\ 5 % 4 = 1 /\ 1 \in 1..4 /\ 4 + 1 = 5
      BY <1>2
    <3>2. \A i \in 1..3 : /\ i + 1 \in 1..(4 * n) /\ (i + 1) % 4 # 1 /\ i + 1 \in 1..4
                          /\ h + (i + 1) - 1 - ((i + 1) - 1) \div 4 = h + i
      BY <1>2
    <3>3. \A i \in 1..3 : /\ 4 + (i + 1) \in 1..(4 * n) /\ (4 + (i + 1)) % 4 # 1 /\ i + 1 \in 1..4
                          /\ h + (4 + (i + 1)) - 1 - ((4 + (i + 1)) - 1) \div 4 = (h + 3) + i
      BY <1>2
    <3>4. x[1] \in Dot /\ y[1] \in Dot
      BY <3>1, <2>1 DEF Groups
    <3>5. \A i \in 1..3 : x[i + 1] = s[h + i]
      BY <3>2, <2>1 DEF Groups
    <3>6. \A i \in 1..3 : y[i + 1] = s[(h + 3) + i]
      BY <3>3, <2>1 DEF Groups
    <3> QED BY <3>4, <3>5, <3>6
  <2>3. Kept(x, Digits) = SubSeq(s, h + 1, h + 3)
    <3>1. Len(s) >= h + 3 /\ h \in Nat
      BY <1>2
    <3> QED BY <3>1, <2>1, <2>2, OneGroup
  <2>4. Kept(y, Digits) = SubSeq(s, (h + 3) + 1, Len(s))
    <3>1. Len(s) >= (h + 3) + 3 /\ h + 3 \in Nat /\ (h + 3) + 3 = Len(s)
      BY <1>2
    <3>2. Kept(y, Digits) = SubSeq(s, (h + 3) + 1, (h + 3) + 3)
      BY <3>1, <2>1, <2>2, OneGroup
    <3> QED BY <3>1, <3>2
  <2>5. x \in Text /\ y \in Text
    <3>1. Digits \cup Dot \subseteq Chars
      BY ClassesAreChars, DotAndZero
    <3> QED BY <3>1, <2>1, SeqMonotonic DEF Text
  <2>6. Kept(g, Digits) = Kept(x, Digits) \o Kept(y, Digits)
    BY <2>1, <2>5, KeptConcat
  <2>7. SubSeq(s, h + 1, h + 3) \o SubSeq(s, (h + 3) + 1, Len(s)) = SubSeq(s, h + 1, Len(s))
    <3>1. h + 1 \in 1..(Len(s) + 1) /\ h + 3 \in ((h + 1) - 1)..Len(s) /\ Len(s) \in (h + 3)..Len(s)
      BY <1>2
    <3> QED BY <3>1, ConcatAdjacentSubSeq
  <2> QED BY <2>3, <2>4, <2>6, <2>7
<1> QED BY <1>1, <1>2

LEMMA GroupedIsNumeral ==
  ASSUME NEW s \in Seq(Digits), NEW h \in 1..3, NEW n \in 1..2, Len(s) = h + 3 * n,
         NEW g, Groups(s, h, n, g)
  PROVE  Numeral(s, SubSeq(s, 1, h) \o g)
<1> DEFINE D == Digits \cup Dot
           a == SubSeq(s, 1, h)
           b == SubSeq(s, h + 1, Len(s))
           u == a \o g
<1>1. g \in Seq(D) /\ Len(g) = 4 * n
  BY DEF Groups
<1>2. a \in Seq(Digits) /\ Len(a) = h /\ b \in Seq(Digits) /\ s = a \o b
  <2>1. h \in 0..Len(s)
    OBVIOUS
  <2> QED BY <2>1, Split, Zenon
<1>3. Kept(g, Digits) = b
  BY GroupsAreKept
<1> HIDE DEF a, b
<1>4. D \subseteq Chars
  BY ClassesAreChars, DotAndZero
<1>5. a \in Text /\ a \in Seq(D) /\ Kept(a, Digits) = a /\ \A i \in 1..h : a[i] \in Digits
  BY <1>2, DigitsAre
<1> HIDE DEF D
<1>6. g \in Text
  BY <1>1, <1>4, SeqMonotonic DEF Text
<1>7. /\ u \in Seq(D) /\ Len(u) = h + 4 * n
      /\ \A i \in 1..(h + 4 * n) : u[i] = IF i <= h THEN a[i] ELSE g[i - h]
  <2>1. /\ a \o g \in Seq(D) /\ Len(a \o g) = Len(a) + Len(g)
        /\ \A i \in 1..(Len(a) + Len(g)) : (a \o g)[i] = IF i <= Len(a) THEN a[i] ELSE g[i - Len(a)]
    BY <1>1, <1>5, ConcatProperties
  <2> QED BY <2>1, <1>1, <1>2
<1>8. u \in Text /\ DOMAIN u = 1..(h + 4 * n)
  BY <1>4, <1>7, SeqMonotonic, LenProperties DEF Text
<1>9. Kept(u, Digits) = s
  BY <1>2, <1>3, <1>5, <1>6, KeptConcat
<1> HIDE DEF u
<1>10. IsThousands(u)
  <2>1. Len(u) > h /\ (Len(u) - h) % 4 = 0
    BY <1>7
  <2>2. ASSUME NEW i \in 1..(h + 4 * n)
        PROVE  u[i] \in (IF i > h /\ (i - h) % 4 = 1 THEN Dot ELSE Digits)
    <3>1. CASE i <= h
      <4>1. i \in 1..h /\ ~(i > h)
        BY <3>1
      <4> QED BY <4>1, <3>1, <1>5, <1>7
    <3>2. CASE ~(i <= h)
      <4> DEFINE e == i - h
                 j == h + e - 1 - (e - 1) \div 4
      <4>1. e \in 1..(4 * n) /\ i > h
        BY <3>2
      <4>2. u[i] = g[e]
        BY <3>2, <1>7
      <4>3. CASE e % 4 = 1
        BY <4>1, <4>2, <4>3 DEF Groups
      <4>4. CASE e % 4 # 1
        <5>1. j \in 1..Len(s)
          BY <4>1, <4>4
        <5>2. g[e] = s[j]
          BY <4>1, <4>4 DEF Groups
        <5> HIDE DEF j
        <5>3. s[j] \in Digits
          BY <5>1, ElementOfSeq
        <5> QED BY <4>2, <4>4, <5>2, <5>3
      <4> QED BY <4>3, <4>4
    <3> QED BY <3>1, <3>2
  <2>3. Grouped(u, h)
    BY <2>1, <2>2, <1>8 DEF Grouped
  <2> QED BY <2>3, ThousandsIs
<1>11. DropThousands(u) = s /\ DropFloat(s) = s
  <2>1. DropThousands(u) = s
    BY <1>9, <1>10 DEF DropThousands
  <2> QED BY <2>1, DigitsAre, NoFloat
<1>12. u \in Seq(Digits \cup Dot) /\ Len(u) > 0
  BY <1>7 DEF D
<1> QED BY <1>11, <1>12 DEF Numeral, u, a

LEMMA DottedIsNumeral ==
  ASSUME NEW s \in Seq(Digits), Len(s) \in 1..7
  PROVE  Numeral(s, Dotted(s))
<1> DEFINE d == "."
           h == 1 + ((Len(s) - 1) % 3)
           n == (Len(s) - h) \div 3
           g == [i \in 1..(4 * n) |-> IF i % 4 = 1 THEN d ELSE s[h + i - 1 - (i - 1) \div 4]]
<1>1. Dotted(s) = IF Len(s) < 4 THEN s ELSE SubSeq(s, 1, h) \o g
  BY DEF Dotted
<1>2. d \in Dot
  BY DEF Dot
<1> HIDE DEF d
<1>3. CASE Len(s) < 4
  <2>1. Len(s) > 0
    OBVIOUS
  <2> QED BY <2>1, <1>1, <1>3, NumberIsNumeral
<1>4. CASE Len(s) >= 4
  <2>1. h \in 1..3 /\ n \in 1..2 /\ Len(s) = h + 3 * n
    <3> DEFINE l == Len(s)
               k == 1 + ((l - 1) % 3)
    <3>0. l \in 1..7 /\ l >= 4
      BY <1>4
    <3> HIDE DEF l
    <3>1. l \in 4..7
      BY <3>0
    <3>2. k \in 1..3 /\ (l - k) \div 3 \in 1..2 /\ l = k + 3 * ((l - k) \div 3)
      BY <3>1
    <3> QED BY <3>2 DEF l
  <2>2. ~(Len(s) < 4)
    BY <1>4
  <2>3. Dotted(s) = SubSeq(s, 1, h) \o g
    BY <1>1, <2>2
  <2> HIDE DEF h, n
  <2>4. Groups(s, h, n, g)
    <3>1. ASSUME NEW i \in 1..(4 * n), i % 4 # 1
          PROVE  s[h + i - 1 - (i - 1) \div 4] \in Digits
      <4> DEFINE j == h + i - 1 - (i - 1) \div 4
      <4>1. j \in 1..Len(s)
        BY <2>1, <3>1
      <4> HIDE DEF j
      <4>2. s[j] \in Digits
        BY <4>1, ElementOfSeq
      <4> QED BY <4>2 DEF j
    <3>2. \A i \in 1..(4 * n) : (IF i % 4 = 1 THEN d ELSE s[h + i - 1 - (i - 1) \div 4]) \in Digits \cup Dot
      BY <3>1, <1>2
    <3>3. 4 * n \in Nat
      BY <2>1
    <3>4. g \in Seq(Digits \cup Dot) /\ Len(g) = 4 * n
      BY <3>2, <3>3
    <3>5. \A i \in 1..(4 * n) : g[i] = IF i % 4 = 1 THEN d ELSE s[h + i - 1 - (i - 1) \div 4]
      OBVIOUS
    <3> HIDE DEF g
    <3> QED BY <3>4, <3>5, <1>2 DEF Groups
  <2> HIDE DEF g
  <2> QED BY <2>1, <2>3, <2>4, GroupedIsNumeral
<1> QED BY <1>3, <1>4

(* The two suffixes of a float. *)
LEMMA SuffixIs ==
  ASSUME NEW g \in {<<".", "0">>, <<".", "0", "0">>}
  PROVE  /\ g \in Seq(Digits \cup Dot) /\ Len(g) \in 2..3
         /\ g[1] \in Dot /\ \A i \in 2..Len(g) : g[i] \in Zero
<1> DEFINE d == "."
           z == "0"
<1>1. d \in Dot /\ z \in Zero /\ z \in Digits
  BY Marks DEF Dot, Zero
<1>2. g = <<d, z>> \/ g = <<d, z, z>>
  OBVIOUS
<1> HIDE DEF d, z
<1>3. CASE g = <<d, z>>
  <2>1. g \in Seq(Digits \cup Dot) /\ Len(g) = 2 /\ g[1] = d /\ g[2] = z
    BY <1>1, <1>3
  <2>2. \A i \in 2..2 : i = 2
    OBVIOUS
  <2> QED BY <2>1, <2>2, <1>1
<1>4. CASE g = <<d, z, z>>
  <2>1. g \in Seq(Digits \cup Dot) /\ Len(g) = 3 /\ g[1] = d /\ g[2] = z /\ g[3] = z
    BY <1>1, <1>4
  <2>2. \A i \in 2..3 : i = 2 \/ i = 3
    OBVIOUS
  <2> QED BY <2>1, <2>2, <1>1
<1> QED BY <1>2, <1>3, <1>4

(* The number that a code of digits is, less its leading zero. *)
NumberOf(code) == IF code[1] = "0" THEN Tail(code) ELSE code

(* A leading zero is restored. *)
LEMMA NumberIs ==
  ASSUME NEW cc \in Countries, NEW code \in Postcodes[cc], Expected(cc) > 0
  PROVE  /\ NumberOf(code) \in Seq(Digits) /\ Len(NumberOf(code)) \in 1..7
         /\ RestoreZero(cc, NumberOf(code)) = code
<1>1. HasPattern(cc) /\ Expected(cc) \in 3..7
  <2>1. HasPattern(cc)
    BY DEF Expected
  <2>2. Expected(cc) \in {0} \cup 3..7
    BY <2>1, EveryPattern
  <2> QED BY <2>1, <2>2
<1>2. /\ code \in Seq(AlNum) /\ code \in Text /\ Norm(code) = code /\ Len(code) \in Nat \ {0}
      /\ \E shape \in POSTAL_PATTERNS[cc].shapes : Fits(shape, code)
  BY <1>1, CodeIs
<1>3. Len(code) = Expected(cc) /\ \A i \in 1..Len(code) : code[i] \in Digits
  <2>1. Len(Norm(code)) = Expected(cc) /\ \A i \in DOMAIN code : code[i] \in Digits \cup Gaps
    BY <1>1, <1>2, FitsIs
  <2>2. \A i \in 1..Len(code) : code[i] \in AlNum
    BY <1>2, ElementOfSeq
  <2>3. AlNum \cap Gaps = {}
    BY PlainIs, GapsAreSeparators
  <2>4. DOMAIN code = 1..Len(code)
    BY <1>2, LenProperties
  <2> QED BY <2>1, <2>2, <2>3, <2>4, <1>2
<1>4. code \in Seq(Digits)
  BY <1>2, <1>3, IsASeq, LenProperties
<1>5. CASE code[1] = "0"
  <2> DEFINE number == Tail(code)
  <2>1. number \in Seq(Digits) /\ Len(number) = Len(code) - 1
    BY <1>2, <1>4, HeadTailProperties, EmptySeq
  <2>2. Nought \o number = code
    <3>1. Len(code) \in Nat /\ Len(code) >= 1 /\ code # <<>>
      BY <1>2, EmptySeq
    <3>2. code = <<code[1]>> \o Tail(code)
      BY <3>1, <1>4
    <3> QED BY <3>2, <1>5 DEF Nought
  <2>3. NumberOf(code) = number
    BY <1>5 DEF NumberOf
  <2> HIDE DEF number
  <2>4. Short(cc, number)
    <3>1. AllIn(number, Digits)
      BY <2>1, LenProperties, ElementOfSeq DEF AllIn
    <3> QED BY <3>1, <2>1, <1>1, <1>3 DEF Short
  <2>5. RestoreZero(cc, number) = code
    BY <2>2, <2>4, RestoreIs
  <2>6. Len(number) \in 1..7
    BY <2>1, <1>1, <1>3
  <2> QED BY <2>1, <2>3, <2>5, <2>6
<1>6. CASE code[1] # "0"
  <2>1. NumberOf(code) = code
    BY <1>6 DEF NumberOf
  <2>2. ~Short(cc, code)
    BY <1>1, <1>3 DEF Short
  <2>3. RestoreZero(cc, code) = code
    BY <2>2, RestoreIs
  <2>4. Len(code) \in 1..7
    BY <1>1, <1>3
  <2> QED BY <2>1, <2>3, <2>4, <1>4
<1> QED BY <1>5, <1>6

(* Whatever a spreadsheet makes of the number is read as the code. *)
LEMMA NumeralIsGood ==
  ASSUME NEW cc \in Countries, NEW code \in Postcodes[cc], Expected(cc) > 0,
         NEW u, Numeral(NumberOf(code), u)
  PROVE  Good(cc, code, u)
<1>1. u \in Seq(Digits \cup Dot) /\ Len(u) > 0 /\ DropFloat(DropThousands(u)) = NumberOf(code)
  BY DEF Numeral
<1>2. Preprocess(cc, u) = code
  BY <1>1, NumberIs DEF Preprocess
<1>3. HasPattern(cc)
  BY DEF Expected
<1>4. /\ code \in Text /\ Norm(code) = code
      /\ \E shape \in POSTAL_PATTERNS[cc].shapes : Fits(shape, code)
  BY <1>3, CodeIs
<1>5. code \in Matches(cc, code)
  BY <1>3, <1>4, MatchesItself
<1>6. Read(cc, code) = RowForm(cc, code)
  BY <1>3, <1>4, <1>5, ReadOfMatch DEF RowForm
<1>7. (Digits \cup Dot) \subseteq Inked /\ (Digits \cup Dot) \cap Space = {}
  <2>1. Dot \cap Space = {}
    BY Marks DEF Dot
  <2>2. Digits \cap Space = {}
    BY ClassesAreChars, PlainIs
  <2> QED BY <2>1, <2>2, ClassesAreChars, DotAndZero DEF Inked
<1>8. u \in Seq(Inked) /\ u[1] \notin Space /\ u[Len(u)] \notin Space
  <2>1. 1 \in 1..Len(u) /\ Len(u) \in 1..Len(u)
    BY <1>1, LenProperties
  <2>2. u[1] \in Digits \cup Dot /\ u[Len(u)] \in Digits \cup Dot
    BY <1>1, <2>1, ElementOfSeq
  <2> QED BY <2>2, <1>1, <1>7, SeqMonotonic
<1> QED BY <1>1, <1>2, <1>6, <1>8 DEF Good

LEMMA AsNumbersIsGood ==
  ASSUME NEW cc \in Countries, NEW code \in Postcodes[cc], NEW u \in AsNumbers(cc, code)
  PROVE  Good(cc, code, u)
<1> DEFINE n == NumberOf(code)
<1>1. /\ Expected(cc) # 0
      /\ \/ u = n
         \/ u = Dotted(n)
         \/ \E g \in {<<".", "0">>, <<".", "0", "0">>} : u = n \o g
  <2>1. Expected(cc) # 0
    BY DEF AsNumbers
  <2>2. u \in {n, Dotted(n), n \o <<".", "0">>, n \o <<".", "0", "0">>}
    BY <2>1, Zenon DEF AsNumbers, NumberOf
  <2> HIDE DEF n
  <2> QED BY <2>1, <2>2
<1>2. Expected(cc) > 0
  <2>1. HasPattern(cc)
    BY <1>1 DEF Expected
  <2>2. Expected(cc) \in {0} \cup 3..7
    BY <2>1, EveryPattern
  <2> QED BY <2>2, <1>1
<1>3. n \in Seq(Digits) /\ Len(n) \in 1..7
  BY <1>2, NumberIs
<1>4. Len(n) > 0
  <2> DEFINE l == Len(n)
  <2>1. l \in 1..7
    BY <1>3
  <2> HIDE DEF l
  <2>2. l > 0
    BY <2>1
  <2> QED BY <2>2 DEF l
<1>5. Numeral(n, u)
  <2> HIDE DEF n
  <2>1. CASE u = n
    BY <2>1, <1>3, <1>4, NumberIsNumeral
  <2>2. CASE u = Dotted(n)
    BY <2>2, <1>3, DottedIsNumeral
  <2>3. ASSUME NEW g \in {<<".", "0">>, <<".", "0", "0">>}, u = n \o g
        PROVE  Numeral(n, u)
    <3>1. /\ g \in Seq(Digits \cup Dot) /\ Len(g) \in 2..3
          /\ g[1] \in Dot /\ \A i \in 2..Len(g) : g[i] \in Zero
      BY <2>3, SuffixIs
    <3>2. Numeral(n, n \o g)
      BY <3>1, <1>3, <1>4, FloatIsNumeral
    <3> QED BY <2>3, <3>2
  <2> QED BY <1>1, <2>1, <2>2, <2>3
<1> QED BY <1>2, <1>5, NumeralIsGood

(* A country whose pattern takes no prefix reads a text that fits none of   *)
(* its shapes as it is.                                                     *)
LEMMA UnmatchedIsGood ==
  ASSUME NEW cc, NEW code, HasPattern(cc), Expected(cc) = 0, POSTAL_PATTERNS[cc].prefixes = {},
         NEW s \in Seq(AlNum), Len(s) > 0, s = RowForm(cc, code),
         \A shape \in POSTAL_PATTERNS[cc].shapes : ~Fits(shape, s)
  PROVE  Good(cc, code, s)
<1>1. s \in Text /\ Norm(s) = s
  BY NormOfCode
<1>2. Matches(cc, s) = {}
  <2> SUFFICES ASSUME NEW rest \in Matches(cc, s) PROVE FALSE
    OBVIOUS
  <2>1. /\ rest \in Text /\ \E shape \in POSTAL_PATTERNS[cc].shapes : Fits(shape, rest)
        /\ Heads(cc, s, rest)
    BY <1>1, MatchIs
  <2>2. Norm(s) = <<>> \o Norm(rest)
    BY <2>1 DEF Heads
  <2>3. Norm(rest) = Norm(s)
    BY <2>1, <2>2, NormIs, ConcatEmptySeq DEF Text
  <2>4. rest = s
    BY <2>3, <1>1, MatchIsWhole
  <2> QED BY <2>1, <2>4
<1>3. ~IsThousands(s) /\ ~IsFloat(s)
  <2>1. \A i \in DOMAIN s : s[i] \notin Dot
    <3>1. AlNum \cap Dot = {}
      BY PlainIs
    <3> QED BY <3>1, LenProperties, ElementOfSeq
  <2> QED BY <2>1, <1>1, NoDot
<1>4. Preprocess(cc, s) = s
  BY <1>1, <1>3, PreprocessKeeps DEF Short
<1>5. Read(cc, s) = s
  BY <1>1, <1>2 DEF Read
<1>6. s \in Seq(Inked) /\ s[1] \notin Space /\ s[Len(s)] \notin Space
  <2>1. 1 \in 1..Len(s) /\ Len(s) \in 1..Len(s)
    BY LenProperties
  <2>2. s[1] \in AlNum /\ s[Len(s)] \in AlNum
    BY <2>1, ElementOfSeq
  <2>3. AlNum \subseteq Inked
    BY PlainIs
  <2> QED BY <2>2, <2>3, PlainIs, SeqMonotonic
<1> QED BY <1>4, <1>5, <1>6 DEF Good

(* An Irish row is about a routing key, the first three characters. *)
LEMMA RowOfIE ==
  ASSUME "IE" \in Countries, NEW code \in Postcodes["IE"]
  PROVE  Good("IE", code, RowForm("IE", code))
<1> DEFINE cc == "IE"
           s == SubSeq(code, 1, 3)
<1>1. HasPattern(cc)
  BY DEF HasPattern, POSTAL_PATTERNS
<1>2. /\ POSTAL_PATTERNS[cc].prefixes = {} /\ POSTAL_PATTERNS[cc].digits = 0
      /\ POSTAL_PATTERNS[cc].tercet_map = "truncate:3"
      /\ \A shape \in POSTAL_PATTERNS[cc].shapes : HasLength(shape, 7)
  BY PatternOfIE DEF Sound
<1>3. Expected(cc) = 0
  BY <1>1, <1>2 DEF Expected
<1>4. RowForm(cc, code) = s
  BY <1>1, <1>2 DEF RowForm, ApplyTercetMap
<1> HIDE DEF cc
<1>5. /\ code \in Seq(AlNum) /\ code \in Text /\ Norm(code) = code
      /\ \E shape \in POSTAL_PATTERNS[cc].shapes : Fits(shape, code)
  BY <1>1, CodeIs DEF cc
<1>6. Len(code) = 7
  BY <1>2, <1>5 DEF HasLength
<1>7. s \in Seq(AlNum) /\ Len(s) = 3
  <2> DEFINE n == 3
  <2>1. n \in 0..Len(code) /\ code \in Seq(AlNum)
    BY <1>5, <1>6
  <2>2. SubSeq(code, 1, n) \in Seq(AlNum) /\ Len(SubSeq(code, 1, n)) = n
    <3> HIDE DEF n
    <3> QED BY <2>1, Split, Zenon
  <2> QED BY <2>2
<1> HIDE DEF s
<1>8. ASSUME NEW shape \in POSTAL_PATTERNS[cc].shapes, Fits(shape, s) PROVE FALSE
  <2>1. s \in Text /\ Norm(s) = s
    BY <1>7, NormOfCode
  <2>2. Len(Norm(s)) = 7
    BY <2>1, <1>2, <1>8 DEF HasLength
  <2> DEFINE l == Len(s)
  <2>3. l = 7 /\ l = 3
    BY <2>1, <2>2, <1>7, Zenon
  <2> HIDE DEF l
  <2> QED BY <2>3
<1>9. Good(cc, code, s)
  BY <1>1, <1>2, <1>3, <1>4, <1>7, <1>8, UnmatchedIsGood
<1> QED BY <1>4, <1>9 DEF cc

(* A Maltese row is about the letters of its codes. *)
LEMMA RowOfMT ==
  ASSUME "MT" \in Countries, NEW code \in Postcodes["MT"]
  PROVE  Good("MT", code, RowForm("MT", code))
<1> DEFINE cc == "MT"
           s == Kept(code, Letters)
<1>1. HasPattern(cc)
  BY DEF HasPattern, POSTAL_PATTERNS
<1>2. /\ POSTAL_PATTERNS[cc].prefixes = {} /\ POSTAL_PATTERNS[cc].digits = 0
      /\ POSTAL_PATTERNS[cc].tercet_map = "keep_alpha"
      /\ \A shape \in POSTAL_PATTERNS[cc].shapes :
           Len(shape) > 0 /\ shape[1] = Letters /\ shape[Len(shape)] = Digits
  BY PatternOfMT
<1>3. Expected(cc) = 0
  BY <1>1, <1>2 DEF Expected
<1>4. RowForm(cc, code) = s
  BY <1>1, <1>2 DEF RowForm, ApplyTercetMap
<1> HIDE DEF cc
<1>5. /\ code \in Text /\ Len(code) \in Nat \ {0}
      /\ \E shape \in POSTAL_PATTERNS[cc].shapes : Fits(shape, code)
  BY <1>1, CodeIs DEF cc
<1>6. s \in Seq(Letters) /\ s \in Text
  BY <1>5, KeptIsOfClass, KeptIs
<1>7. s \in Seq(AlNum)
  BY <1>6, ClassesAreChars, SeqMonotonic
<1>8. Len(s) > 0
  <2>1. 1 \in DOMAIN code
    BY <1>5, LenProperties DEF Text
  <2>2. code[1] \in Letters
    BY <2>1, <1>2, <1>5 DEF Fits
  <2>3. 1 \in Places(code, Letters)
    BY <2>1, <2>2 DEF Places
  <2>4. Cardinality(UpTo(Places(code, Letters), 1)) \in 1..Len(s)
    BY <2>3, <1>5, KeptIs
  <2> HIDE DEF s
  <2>5. Len(s) \in Nat
    BY <1>6, LenProperties DEF Text
  <2> QED BY <2>4, <2>5
<1> HIDE DEF s
<1>9. ASSUME NEW shape \in POSTAL_PATTERNS[cc].shapes, Fits(shape, s) PROVE FALSE
  <2>1. Len(shape) = Len(s) /\ Len(s) \in 1..Len(s) /\ DOMAIN s = 1..Len(s)
    BY <1>6, <1>8, <1>9, LenProperties DEF Fits
  <2>2. s[Len(s)] \in Digits
    BY <2>1, <1>2, <1>9 DEF Fits
  <2>3. s[Len(s)] \in Letters
    BY <2>1, <1>6, ElementOfSeq
  <2> QED BY <2>2, <2>3, ClassesAreDisjoint
<1>10. Good(cc, code, s)
  BY <1>1, <1>2, <1>3, <1>4, <1>7, <1>8, <1>9, UnmatchedIsGood
<1> QED BY <1>4, <1>10 DEF cc

LEMMA PrefixedHas ==
  ASSUME NEW cc, HasPattern(cc), NEW code, NEW p \in POSTAL_PATTERNS[cc].prefixes,
         NEW sep \in Joints, NEW w \in Written(cc, code)
  PROVE  (p \o sep) \o w \in Prefixed(cc, code)
BY DEF Prefixed

(* A Latvian row is about the code with the country's prefix. *)
LEMMA RowOfLV ==
  ASSUME "LV" \in Countries, NEW code \in Postcodes["LV"]
  PROVE  RowForm("LV", code) \in Prefixed("LV", code)
<1> DEFINE cc == "LV"
           p == <<"L", "V">>
           e == POSTAL_PATTERNS["LV"]
<1>1. HasPattern(cc)
  BY DEF HasPattern, POSTAL_PATTERNS
<1>2. e.prefixes = {p} /\ e.tercet_map = "prepend:LV"
  BY DEF POSTAL_PATTERNS, Numeric, Entry
<1>3. RowForm(cc, code) = p \o code
  BY <1>1, <1>2 DEF RowForm, ApplyTercetMap
<1>4. p = (p \o <<>>) /\ <<>> \in Joints
  <2>1. p \in Seq({"L", "V"})
    OBVIOUS
  <2>2. <<>> \in Joints
    BY Zenon DEF Joints
  <2> QED BY <2>1, <2>2, ConcatEmptySeq
<1>5. code \in Written(cc, code)
  <2> DEFINE W == {w \in {SubSeq(code, 1, k) \o <<sep>> \o SubSeq(code, k + 1, Len(code)) :
                           k \in 1..(Len(code) - 1), sep \in Gaps} : Matches(cc, w) # {}}
  <2>1. Written(cc, code) = {code} \cup W
    BY DEF Written
  <2> HIDE DEF W
  <2> QED BY <2>1
<1> HIDE DEF p
<1>6. (p \o <<>>) \o code \in Prefixed(cc, code)
  <2>1. p \in e.prefixes
    BY <1>2
  <2> QED BY <2>1, <1>1, <1>4, <1>5, PrefixedHas
<1> QED BY <1>3, <1>4, <1>6

(* The form a file writes a code in can itself be asked for. *)
LEMMA FileFormIsGood ==
  ASSUME NEW cc \in Countries, NEW code \in Postcodes[cc]
  PROVE  Good(cc, code, FileForm(cc, code))
<1>1. CASE FileForm(cc, code) \in Written(cc, code)
  BY <1>1, WrittenIsWhole, WholeIsGood
<1>2. CASE FileForm(cc, code) \in Prefixed(cc, code)
  BY <1>2, PrefixedIsGood
<1>3. CASE FileForm(cc, code) = RowForm(cc, code)
  <2>1. CASE cc = "IE"
    BY <2>1, <1>3, RowOfIE
  <2>2. CASE cc = "MT"
    BY <2>2, <1>3, RowOfMT
  <2>3. CASE cc = "LV"
    BY <2>3, <1>3, RowOfLV, PrefixedIsGood
  <2>4. CASE cc \notin {"IE", "MT", "LV"}
    <3>1. HasPattern(cc) => POSTAL_PATTERNS[cc].tercet_map = "none"
      BY <2>4, EveryPattern
    <3>2. RowForm(cc, code) = code
      BY <3>1 DEF RowForm, ApplyTercetMap
    <3> QED BY <3>2, <1>3, CodeIsWhole, WholeIsGood
  <2> QED BY <2>1, <2>2, <2>3, <2>4
<1>4. \/ FileForm(cc, code) = RowForm(cc, code)
      \/ FileForm(cc, code) \in Written(cc, code)
      \/ FileForm(cc, code) \in Prefixed(cc, code)
  BY FilesAssumption
<1> QED BY <1>1, <1>2, <1>3, <1>4

(* Each spelling of a code is found. *)
LEMMA SpellingIsFound ==
  ASSUME NEW cc \in Countries, NEW code \in Postcodes[cc], NEW raw \in Spellings(cc, code)
  PROVE  Found(cc, code, raw)
<1> DEFINE plain == Written(cc, code) \cup Prefixed(cc, code) \cup AsNumbers(cc, code)
                      \cup {FileForm(cc, code)}
<1>1. ASSUME NEW s \in plain PROVE Good(cc, code, s)
  <2>1. s \in Written(cc, code) \/ s \in Prefixed(cc, code) \/ s \in AsNumbers(cc, code)
        \/ s = FileForm(cc, code)
    OBVIOUS
  <2> QED BY <2>1, WrittenIsWhole, WholeIsGood, PrefixedIsGood, AsNumbersIsGood, FileFormIsGood
<1>2. raw \in plain \cup {InLower(s) : s \in plain} \cup {Blank \o s \o Blank : s \in plain}
  BY Zenon DEF Spellings, Blank
<1> HIDE DEF plain
<1>3. CASE raw \in plain
  BY <1>1, <1>3, GoodIsFound
<1>4. CASE raw \in {InLower(s) : s \in plain}
  BY <1>1, <1>4, GoodIsFound
<1>5. CASE raw \in {Blank \o s \o Blank : s \in plain}
  <2>1. PICK s \in plain : raw = Blank \o s \o Blank
    BY <1>5
  <2>2. Good(cc, code, s)
    BY <1>1
  <2>3. Found(cc, code, Blank \o s \o Blank)
    BY <2>2, GoodIsFound
  <2> QED BY <2>1, <2>3
<1> QED BY <1>2, <1>3, <1>4, <1>5

-----------------------------------------------------------------------------
(* The inductive invariant.                                                *)

(* The rows of a country's file, keyed by themselves. *)
Rows(cc) == {Row(cc, code) : code \in Postcodes[cc]}
FileOf(cc) == [k \in {<<cc, Row(cc, code)>> : code \in Postcodes[cc]} |-> k[2]]

(* What /lookup answers where that file is loaded, for a key. *)
Reply(cc, key) ==
  IF key \in Rows(cc) THEN [status |-> "exact", key |-> key, row |-> key]
  ELSE [status |-> "other_tiers", key |-> key, row |-> <<>>]

(* No file is loaded, or the file of one country. *)
LookupOK ==
  lookup = [k \in {} |-> <<>>] \/ \E cc \in Countries : lookup = FileOf(cc)

(* The last request was for a country by one of its names, in a spelling of *)
(* the code it means when it means one, and its answer is the reply to the  *)
(* key read of its text.                                                    *)
AnswerOK ==
  \/ asked = Nothing /\ answer = Unanswered
  \/ \E cc \in Countries :
       /\ asked.cc \in NamesOf(cc) /\ asked.raw \in Text
       /\ asked.code # <<>> => asked.code \in Postcodes[cc] /\ asked.raw \in Spellings(cc, asked.code)
       /\ answer = Reply(cc, ExtractPostalCode(cc, asked.raw))

IInv == LookupOK /\ AnswerOK

LEMMA CountryIs ==
  ASSUME NEW cc \in Countries, NEW country \in NamesOf(cc)
  PROVE  NormalizeCountry(country) = cc
<1>1. cc # "GR"
  BY FilesAssumption
<1> QED BY <1>1 DEF NamesOf, NormalizeCountry

LEMMA LoadedIs ==
  ASSUME LookupOK, NEW cc \in Loaded
  PROVE  cc \in Countries /\ lookup = FileOf(cc)
<1>1. PICK k \in DOMAIN lookup : k[1] = cc
  BY DEF Loaded
<1>2. PICK c \in Countries : lookup = FileOf(c)
  BY <1>1 DEF LookupOK
<1>3. DOMAIN lookup = {<<c, Row(c, code)>> : code \in Postcodes[c]}
  BY <1>2 DEF FileOf
<1>4. k[1] = c
  BY <1>1, <1>3
<1> QED BY <1>1, <1>2, <1>4

(* A request for the loaded country is answered with the reply to its key. *)
LEMMA AnswerIs ==
  ASSUME NEW cc \in Countries, lookup = FileOf(cc), cc \in Loaded,
         NEW country \in NamesOf(cc), NEW raw, NEW code, Lookup(country, raw, code)
  PROVE  /\ asked' = [cc |-> country, raw |-> raw, code |-> code]
         /\ answer' = Reply(cc, ExtractPostalCode(cc, raw))
         /\ lookup' = lookup
<1> DEFINE key == ExtractPostalCode(cc, raw)
           file == {<<cc, Row(cc, c)>> : c \in Postcodes[cc]}
<1>1. NormalizeCountry(country) = cc
  BY CountryIs
<1>2. DOMAIN lookup = file /\ \A k \in file : lookup[k] = k[2]
  BY DEF FileOf
<1>3. ~(\A k \in DOMAIN lookup : k[1] # cc)
  BY DEF Loaded
<1> HIDE DEF key
<1>4. /\ <<cc, key>> \in file <=> key \in Rows(cc)
      /\ <<cc, key>> \in file => lookup[<<cc, key>>] = key
  BY <1>2 DEF Rows
<1> HIDE DEF file
<1>5. answer' = IF <<cc, key>> \in DOMAIN lookup
                THEN [status |-> "exact", key |-> key, row |-> lookup[<<cc, key>>]]
                ELSE [status |-> "other_tiers", key |-> key, row |-> <<>>]
  BY <1>1, <1>3 DEF Lookup, key
<1>6. answer' = Reply(cc, key)
  BY <1>2, <1>4, <1>5 DEF Reply
<1>7. asked' = [cc |-> country, raw |-> raw, code |-> code] /\ lookup' = lookup
  BY DEF Lookup
<1> QED BY <1>6, <1>7 DEF key

(* The three facts of the invariant, one step per action. *)
LEMMA InitIInv == Init => IInv
BY DEF Init, IInv, LookupOK, AnswerOK

LEMMA NextIInv == IInv /\ [Next]_vars => IInv'
<1> SUFFICES ASSUME LookupOK, AnswerOK, [Next]_vars PROVE LookupOK' /\ AnswerOK'
  BY DEF IInv
<1>1. ASSUME NEW cc \in Countries, LoadFile(cc) PROVE LookupOK' /\ AnswerOK'
  <2>1. lookup' = FileOf(cc) /\ asked' = asked /\ answer' = answer
    BY <1>1 DEF LoadFile, FileOf
  <2>2. LookupOK'
    BY <2>1 DEF LookupOK, FileOf, Row
  <2>3. AnswerOK'
    BY <2>1 DEF AnswerOK
  <2> QED BY <2>2, <2>3
<1>2. CASE AskFor
  <2>1. PICK cc \in Loaded : \E country \in NamesOf(cc), code \in Postcodes[cc] :
               \E raw \in Spellings(cc, code) : Lookup(country, raw, code)
    BY <1>2 DEF AskFor
  <2>2. PICK country \in NamesOf(cc), code \in Postcodes[cc] :
               \E raw \in Spellings(cc, code) : Lookup(country, raw, code)
    BY <2>1
  <2>3. PICK raw \in Spellings(cc, code) : Lookup(country, raw, code)
    BY <2>2
  <2>4. cc \in Countries /\ lookup = FileOf(cc)
    BY LoadedIs
  <2>5. /\ asked' = [cc |-> country, raw |-> raw, code |-> code]
        /\ answer' = Reply(cc, ExtractPostalCode(cc, raw))
        /\ lookup' = lookup
    BY <2>3, <2>4, AnswerIs
  <2>6. raw \in Text
    BY <2>4, SpellingIsFound DEF Found
  <2>7. /\ asked'.cc = country /\ asked'.raw = raw /\ asked'.code = code
    BY <2>5
  <2>8. AnswerOK'
    BY <2>4, <2>5, <2>6, <2>7 DEF AnswerOK
  <2>9. LookupOK'
    BY <2>5 DEF LookupOK
  <2> QED BY <2>8, <2>9
<1>3. CASE AskAny
  <2>0. PICK cc \in Loaded : \E country \in NamesOf(cc), raw \in Typed(cc) : Lookup(country, raw, <<>>)
    BY <1>3 DEF AskAny
  <2>1. PICK country \in NamesOf(cc), raw \in Typed(cc) : Lookup(country, raw, <<>>)
    BY <2>0
  <2>2. cc \in Countries /\ lookup = FileOf(cc)
    BY LoadedIs
  <2>3. /\ asked' = [cc |-> country, raw |-> raw, code |-> <<>>]
        /\ answer' = Reply(cc, ExtractPostalCode(cc, raw))
        /\ lookup' = lookup
    BY <2>1, <2>2, AnswerIs
  <2>4. raw \in Text
    BY <2>1, <2>2, TypedAssumption DEF Text
  <2>5. /\ asked'.cc = country /\ asked'.raw = raw /\ asked'.code = <<>>
    BY <2>3
  <2>6. AnswerOK'
    BY <2>1, <2>2, <2>3, <2>4, <2>5 DEF AnswerOK
  <2>7. LookupOK'
    BY <2>3 DEF LookupOK
  <2> QED BY <2>6, <2>7
<1>4. CASE Done
  <2>1. lookup' = lookup /\ asked' = Nothing /\ answer' = Unanswered
    BY <1>4 DEF Done
  <2> QED BY <2>1 DEF LookupOK, AnswerOK, Nothing, Unanswered
<1>5. CASE UNCHANGED vars
  <2>1. lookup' = lookup /\ asked' = asked /\ answer' = answer
    BY <1>5 DEF vars
  <2> QED BY <2>1 DEF LookupOK, AnswerOK
<1> QED BY <1>1, <1>2, <1>3, <1>4, <1>5 DEF Next

(* The rows in memory are those of one file, and the last answer is the one *)
(* that file gives to the key read of what was typed (data_loader.py:281    *)
(* and 995-1003).                                                           *)
THEOREM InvariantHolds == Spec => []IInv
<1>1. Init => IInv
  BY InitIInv
<1>2. IInv /\ [Next]_vars => IInv'
  BY NextIInv
<1> QED BY <1>1, <1>2, PTL DEF Spec

LEMMA IInvFound == IInv => EverySpellingIsFound
<1> SUFFICES ASSUME AnswerOK, asked.code # <<>>
             PROVE  /\ answer.status = "exact"
                    /\ answer.row = Row(NormalizeCountry(asked.cc), asked.code)
  BY DEF IInv, EverySpellingIsFound
<1>1. asked # Nothing
  BY DEF Nothing
<1>2. PICK cc \in Countries :
        /\ asked.cc \in NamesOf(cc) /\ asked.raw \in Text
        /\ asked.code \in Postcodes[cc] /\ asked.raw \in Spellings(cc, asked.code)
        /\ answer = Reply(cc, ExtractPostalCode(cc, asked.raw))
  BY <1>1 DEF AnswerOK
<1>3. ExtractPostalCode(cc, asked.raw) = RowForm(cc, asked.code)
  BY <1>2, SpellingIsFound DEF Found
<1>4. Row(cc, asked.code) = RowForm(cc, asked.code)
  BY <1>2, FilesAssumption
<1>5. Row(cc, asked.code) \in Rows(cc)
  BY <1>2 DEF Rows
<1>6. answer.status = "exact" /\ answer.row = Row(cc, asked.code)
  BY <1>2, <1>3, <1>4, <1>5 DEF Reply
<1>7. NormalizeCountry(asked.cc) = cc
  BY <1>2, CountryIs
<1> QED BY <1>6, <1>7

LEMMA IInvAnswered ==
  ASSUME AnswerOK, answer.status \in {"exact", "other_tiers"}
  PROVE  LET cc == NormalizeCountry(asked.cc)
             text == Upper(Strip(asked.raw))
         IN  /\ text \in Text /\ answer.key = Read(cc, Preprocess(cc, text))
             /\ answer.status = "exact" => answer.row = answer.key
<1>1. answer # Unanswered
  BY DEF Unanswered
<1>2. PICK cc \in Countries :
        /\ asked.cc \in NamesOf(cc) /\ asked.raw \in Text
        /\ answer = Reply(cc, ExtractPostalCode(cc, asked.raw))
  BY <1>1 DEF AnswerOK
<1>3. NormalizeCountry(asked.cc) = cc
  BY <1>2, CountryIs
<1>4. /\ answer.key = ExtractPostalCode(cc, asked.raw)
      /\ answer.status = "exact" => answer.row = answer.key
  BY <1>2 DEF Reply
<1> QED BY <1>2, <1>3, <1>4, ExtractIs

LEMMA IInvMeant == IInv => FoundIsMeant
<1> DEFINE cc == NormalizeCountry(asked.cc)
           text == Upper(Strip(asked.raw))
<1> SUFFICES ASSUME AnswerOK, answer.status = "exact"
             PROVE  Says(cc, NormalizePostalCode(WholeNumber(text)), answer.row)
  BY DEF IInv, FoundIsMeant
<1>1. text \in Text /\ answer.row = Read(cc, Preprocess(cc, text))
  BY IInvAnswered
<1>2. Says(cc, Norm(WholeNumber(text)), Read(cc, Preprocess(cc, text)))
  <2> HIDE DEF text, cc
  <2> QED BY <1>1, NothingIsMadeUp
<1> QED BY <1>1, <1>2 DEF Norm

LEMMA IInvValid == IInv => ValidIsTaken
<1> DEFINE cc == NormalizeCountry(asked.cc)
           text == Upper(Strip(asked.raw))
<1> SUFFICES ASSUME AnswerOK, NEW rest \in Matches(cc, text),
                    answer.status \in {"exact", "other_tiers"}, ~IsFloat(text)
             PROVE  answer.key = ApplyTercetMap(cc, NormalizePostalCode(rest))
  BY DEF IInv, ValidIsTaken
<1>1. text \in Text /\ answer.key = Read(cc, Preprocess(cc, text))
  BY IInvAnswered
<1>2. Read(cc, Preprocess(cc, text)) = ApplyTercetMap(cc, Norm(rest))
  <2> HIDE DEF text, cc
  <2> QED BY <1>1, ValidIsKept
<1> QED BY <1>1, <1>2 DEF Norm

(* Whatever the country and its codes, each of the spellings the patterns   *)
(* and their documentation list is answered with the row of its code        *)
(* (postal_patterns.py:83-108, data_loader.py:57-69 and 281).               *)
THEOREM SpellingsAreFound == Spec => []EverySpellingIsFound
<1> QED BY InvariantHolds, IInvFound, PTL

(* Whatever is typed, of any length, a row answered with certainty is the   *)
(* one the text says: cleaning and extraction make up no letter or digit    *)
(* and drop none, but for a country prefix, a single leading zero, the      *)
(* zeros after a final dot and what a coarser row does not hold             *)
(* (postal_patterns.py:49-80).                                              *)
THEOREM AnswersAreMeant == Spec => []FoundIsMeant
<1> QED BY InvariantHolds, IInvMeant, PTL

(* Whatever is typed, a text that matches its country's pattern is read as  *)
(* that match, which is the same for every way to match it                  *)
(* (postal_patterns.py:93-108).                                             *)
THEOREM ValidTextIsTaken == Spec => []ValidIsTaken
<1> QED BY InvariantHolds, IInvValid, PTL
=============================================================================
