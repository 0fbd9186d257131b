--------------------------- MODULE PostalPatterns ---------------------------
(***************************************************************************)
(* What a client types and the row it means: the input patterns of every   *)
(* country (app/postal_patterns.py and .json), the cleaning of mangled     *)
(* input, the normalisations of app/data_loader.py, the keys that loading  *)
(* a country's file writes, and the first tier of /lookup that reads them. *)
(*                                                                         *)
(* A text is a sequence of characters, a regular expression the set of its *)
(* shapes: sequences of character classes, one shape for each choice of    *)
(* what the expression leaves optional.                                    *)
(***************************************************************************)
EXTENDS Integers, Sequences, FiniteSets, FiniteSetsExt, SequencesExt

CONSTANTS Chars,          \* the characters a text is made of
          Postcodes,      \* by country: postal codes in their plain form
          Typed(_),       \* any text a client may send for a country
          FileForm(_, _)  \* how the TERCET file of a country writes a code

VARIABLES
  lookup,  \* _lookup: <<country, key>> |-> the postal code its row is about
  asked,   \* the last request: its country, text and the code it means
  answer   \* of it: how it ended, the key it was read with and the row found

vars == <<lookup, asked, answer>>

-----------------------------------------------------------------------------
(* Characters. *)

Digits == {"0", "1", "2", "3", "4", "5", "6", "7", "8", "9"}
UpperOf ==
  [a |-> "A", b |-> "B", c |-> "C", d |-> "D", e |-> "E", f |-> "F", g |-> "G",
   h |-> "H", i |-> "I", j |-> "J", k |-> "K", l |-> "L", m |-> "M", n |-> "N",
   o |-> "O", p |-> "P", q |-> "Q", r |-> "R", s |-> "S", t |-> "T", u |-> "U",
   v |-> "V", w |-> "W", x |-> "X", y |-> "Y", z |-> "Z"]
Lower == DOMAIN UpperOf
Letters == {UpperOf[c] : c \in Lower}
Space == {" "}
Gaps == {" ", "-"}
Separators == {" ", "-", "."}   \* [\s\-.]; the two longer dashes fare as "-"

ASSUME CharsAssumption == Digits \cup Letters \cup Lower \cup Separators \subseteq Chars

Upper(s) == [i \in DOMAIN s |-> IF s[i] \in Lower THEN UpperOf[s[i]] ELSE s[i]]
AllIn(s, class) == \A i \in DOMAIN s : s[i] \in class

(* str.strip *)
Strip(s) ==
  LET black == {i \in DOMAIN s : s[i] \notin Space}
  IN  IF black = {} THEN <<>> ELSE SubSeq(s, Min(black), Max(black))

(* The characters of s that are in a class, in their order. *)
Kept(s, class) ==
  LET places == {i \in DOMAIN s : s[i] \in class}
      place(k) == CHOOSE i \in places : Cardinality({j \in places : j <= i}) = k
  IN  [k \in 1..Cardinality(places) |-> s[place(k)]]

NormalizePostalCode(s) == Upper(Kept(s, Digits \cup Letters \cup Lower))

NormalizeCountry(cc) == IF cc = "GR" THEN "EL" ELSE cc

-----------------------------------------------------------------------------
(* The patterns.                                                           *)

Times(n, class) == [i \in 1..n |-> class]

(* An entry: the prefixes that may come before the code, each with a run of *)
(* separators after it; the shapes of the code; expected_digits, 0 for none;*)
(* and the tercet_map.  Each expression captures, of what follows the       *)
(* prefix, at least every letter and digit.                                 *)
Entry(prefixes, shapes, digits) ==
  [prefixes |-> prefixes, shapes |-> shapes, digits |-> digits, tercet_map |-> "none"]
Numeric(prefixes, n) == Entry(prefixes, {Times(n, Digits)}, n)
(* \d{3}\s?\d{2} *)
ThreeTwo(prefixes) ==
  Entry(prefixes, {Times(5, Digits), Times(3, Digits) \o <<Space>> \o Times(2, Digits)}, 5)

POSTAL_PATTERNS ==
  [AT |-> Numeric({<<"A">>, <<"A", "T">>}, 4),
   BE |-> Numeric({<<"B">>, <<"B", "E">>}, 4),
   BG |-> Numeric({<<"B", "G">>}, 4),
   CH |-> Numeric({<<"C", "H">>}, 4),
   CY |-> Numeric({<<"C", "Y">>}, 4),
   CZ |-> ThreeTwo({<<"C", "Z">>}),
   DE |-> Numeric({<<"D">>, <<"D", "E">>}, 5),
   DK |-> Numeric({<<"D", "K">>}, 4),
   EE |-> Numeric({<<"E", "E">>}, 5),
   EL |-> Entry({<<"G", "R">>, <<"E", "L">>},
                {Times(5, Digits),
                 Times(2, Digits) \o <<Space>> \o Times(3, Digits),
                 Times(3, Digits) \o <<Space>> \o Times(2, Digits)}, 5),
   ES |-> Numeric({<<"E">>, <<"E", "S">>}, 5),
   FI |-> Numeric({<<"F", "I">>, <<"F", "I", "N">>}, 5),
   FR |-> Numeric({<<"F">>, <<"F", "R">>}, 5),
   HR |-> Numeric({<<"H", "R">>}, 5),
   HU |-> Numeric({<<"H">>, <<"H", "U">>}, 4),
   IE |-> [Entry({}, {<<Letters>> \o two \o gap \o Times(4, Letters \cup Digits) :
                        two \in {Times(2, Digits), <<{"6"}, {"W"}>>}, gap \in {<<>>, <<Space>>}}, 0)
           EXCEPT !.tercet_map = "truncate:3"],
   IS |-> Numeric({<<"I", "S">>}, 3),
   IT |-> Numeric({<<"I">>, <<"I", "T">>}, 5),
   LI |-> Numeric({<<"F", "L">>, <<"L", "I">>}, 4),
   LT |-> Numeric({<<"L", "T">>}, 5),
   LU |-> Numeric({<<"L">>, <<"L", "U">>}, 4),
   LV |-> [Numeric({<<"L", "V">>}, 4) EXCEPT !.tercet_map = "prepend:LV"],
   ME |-> Entry({<<"M", "E">>}, {<<{"8"}>> \o Times(4, Digits)}, 5),
   MK |-> Numeric({<<"M", "K">>}, 4),
   MT |-> [Entry({}, {Times(l, Letters) \o gap \o Times(d, Digits) :
                        l \in 2..3, gap \in {<<>>, <<Gaps>>}, d \in 2..4}, 0)
           EXCEPT !.tercet_map = "keep_alpha"],
   NL |-> Entry({<<"N", "L">>}, {Times(4, Digits) \o gap \o Times(2, Letters) :
                                   gap \in {<<>>, <<Space>>}}, 0),
   NO |-> Numeric({<<"N">>, <<"N", "O">>}, 4),
   PL |-> Entry({<<"P", "L">>}, {Times(2, Digits) \o gap \o Times(3, Digits) :
                                   gap \in {<<>>, <<{"-"}>>}}, 5),
   PT |-> Entry({<<"P">>, <<"P", "T">>}, {Times(4, Digits) \o gap \o Times(3, Digits) :
                                            gap \in {<<>>, <<Gaps>>}}, 7),
   RO |-> Numeric({<<"R", "O">>}, 6),
   RS |-> Numeric({<<"R", "S">>}, 5),
   SE |-> ThreeTwo({<<"S">>, <<"S", "E">>}),
   SI |-> Numeric({<<"S", "I">>}, 4),
   SK |-> ThreeTwo({<<"S", "K">>}),
   TR |-> Numeric({<<"T", "R">>}, 5)]

(* Countries may be loaded that have no pattern. *)
HasPattern(cc) == cc \in DOMAIN POSTAL_PATTERNS
Expected(cc) == IF HasPattern(cc) THEN POSTAL_PATTERNS[cc].digits ELSE 0

Fits(shape, s) == Len(shape) = Len(s) /\ \A i \in DOMAIN s : s[i] \in shape[i]

(* What may follow the optional prefix, and of that what the pattern matches. *)
Rests(prefixes, s) ==
  {s} \cup {SubSeq(s, n + 1, Len(s)) :
              n \in {m \in DOMAIN s : \E p \in prefixes :
                       IsPrefix(p, s) /\ m >= Len(p) /\ AllIn(SubSeq(s, Len(p) + 1, m), Separators)}}
Matches(cc, s) ==
  IF ~HasPattern(cc) THEN {}
  ELSE {rest \in Rests(POSTAL_PATTERNS[cc].prefixes, s) :
          \E shape \in POSTAL_PATTERNS[cc].shapes : Fits(shape, rest)}

-----------------------------------------------------------------------------
(* Cleaning.                                                               *)

(* ^\d{1,3}(\.\d{3})+$ : a number written with thousands separators. *)
IsThousands(s) ==
  \E h \in 1..3 :
    /\ Len(s) > h /\ (Len(s) - h) % 4 = 0
    /\ \A i \in DOMAIN s : s[i] \in (IF i > h /\ (i - h) % 4 = 1 THEN {"."} ELSE Digits)
DropThousands(s) == IF IsThousands(s) THEN Kept(s, Digits) ELSE s

(* Mutant: trailing zeros are stripped without a dot before them. *)
M_DropFloat(s) ==
  LET zeros == {n \in DOMAIN s : AllIn(SubSeq(s, n, Len(s)), {"0"})}
  IN  IF zeros = {} THEN s ELSE SubSeq(s, 1, Min(zeros) - 1)

(* \.0+$ : the suffix of a number that a spreadsheet took for a float. *)
DropFloat(s) ==
  LET dots == {n \in 1..(Len(s) - 1) : s[n] = "." /\ AllIn(SubSeq(s, n + 1, Len(s)), {"0"})}
  IN  IF dots = {} THEN s ELSE SubSeq(s, 1, Min(dots) - 1)

(* Mutant: a short code is filled up on its right. *)
M_RestoreZero(cc, s) ==
  IF Expected(cc) > 0 /\ Len(s) = Expected(cc) - 1 /\ AllIn(s, Digits)
  THEN s \o <<"0">> ELSE s

RestoreZero(cc, s) ==
  IF Expected(cc) > 0 /\ Len(s) = Expected(cc) - 1 /\ AllIn(s, Digits)
  THEN <<"0">> \o s ELSE s

(* Mutant: the float suffix goes first, and takes the last thousand with it. *)
M_Preprocess(cc, raw) == RestoreZero(cc, DropThousands(DropFloat(raw)))

Preprocess(cc, raw) == RestoreZero(cc, DropFloat(DropThousands(raw)))

ApplyTercetMap(cc, code) ==
  CASE POSTAL_PATTERNS[cc].tercet_map = "truncate:3" -> SubSeq(code, 1, 3)
    [] POSTAL_PATTERNS[cc].tercet_map = "prepend:LV" -> <<"L", "V">> \o code
    [] POSTAL_PATTERNS[cc].tercet_map = "keep_alpha" -> Kept(code, Letters)
    [] OTHER -> code

ExtractPostalCode(cc, raw) ==
  LET cleaned == Preprocess(cc, Strip(raw))
      matched == Matches(cc, Upper(cleaned))
  IN  IF matched = {} THEN NormalizePostalCode(cleaned)
      ELSE ApplyTercetMap(cc, NormalizePostalCode(CHOOSE rest \in matched : TRUE))

-----------------------------------------------------------------------------
(* How a code may be written: the formats of the patterns' examples and of *)
(* the list at the top of postal_patterns.py.                              *)

(* The code alone, or with one separator inside, where the pattern has it. *)
Written(cc, code) ==
  {code} \cup
  {w \in {SubSeq(code, 1, k) \o <<sep>> \o SubSeq(code, k + 1, Len(code)) :
            k \in 1..(Len(code) - 1), sep \in Gaps} : Matches(cc, w) # {}}

(* What may stand between the prefix of a country and the code. *)
Joints == {<<>>, <<" ">>, <<"-">>, <<".", " ">>}
Prefixed(cc, code) ==
  IF ~HasPattern(cc) THEN {}
  ELSE {p \o sep \o w : p \in POSTAL_PATTERNS[cc].prefixes,
          sep \in Joints, w \in Written(cc, code)}

(* What a spreadsheet makes of a code that is a number: one leading zero is *)
(* lost, the thousands are dotted, or it becomes a float.                   *)
Dotted(s) ==
  IF Len(s) < 4 THEN s
  ELSE LET h == 1 + ((Len(s) - 1) % 3)
       IN  SubSeq(s, 1, h) \o
           [i \in 1..(4 * ((Len(s) - h) \div 3)) |->
              IF i % 4 = 1 THEN "." ELSE s[h + i - 1 - (i - 1) \div 4]]
AsNumbers(cc, code) ==
  IF Expected(cc) = 0 THEN {}
  ELSE LET number == IF code[1] = "0" THEN Tail(code) ELSE code
       IN  IF number[1] = "0" THEN {}
           ELSE {number, Dotted(number), number \o <<".", "0">>, number \o <<".", "0", "0">>}

InLower(s) ==
  [i \in DOMAIN s |-> IF s[i] \in Letters THEN CHOOSE c \in Lower : UpperOf[c] = s[i] ELSE s[i]]
Spellings(cc, code) ==
  LET plain == Written(cc, code) \cup Prefixed(cc, code) \cup AsNumbers(cc, code)
                 \cup {FileForm(cc, code)}
  IN  plain \cup {InLower(s) : s \in plain} \cup {<<" ">> \o s \o <<" ">> : s \in plain}

-----------------------------------------------------------------------------
Countries == DOMAIN Postcodes

(* Several codes may share a row: an Irish row is about a routing key. *)
Row(cc, code) == NormalizePostalCode(FileForm(cc, code))

(* What the tercet_map makes of a code, or the code. *)
RowForm(cc, code) == IF HasPattern(cc) THEN ApplyTercetMap(cc, code) ELSE code

ASSUME TypedAssumption == \A cc \in Countries : Typed(cc) \subseteq Seq(Chars)
(* A plain code fits its country's pattern as it is. *)
ASSUME CodesAssumption ==
  \A cc \in Countries : \A code \in Postcodes[cc] :
    /\ code \in Seq(Digits \cup Letters) \ {<<>>}
    /\ HasPattern(cc) => \E shape \in POSTAL_PATTERNS[cc].shapes : Fits(shape, code)
(* A file writes its codes in one of their spellings or as their row is     *)
(* keyed, and Greece's is a file of EL.                                     *)
ASSUME FilesAssumption ==
  /\ "GR" \notin Countries
  /\ \A cc \in Countries : \A code \in Postcodes[cc] :
       /\ Row(cc, code) = RowForm(cc, code)
       /\ \/ FileForm(cc, code) = RowForm(cc, code)
          \/ FileForm(cc, code) \in Written(cc, code)
          \/ FileForm(cc, code) \in Prefixed(cc, code)

Nothing == [cc |-> "none", raw |-> <<>>, code |-> <<>>]
Unanswered == [status |-> "none", key |-> <<>>, row |-> <<>>]

Init ==
  /\ lookup = [k \in {} |-> <<>>]
  /\ asked = Nothing
  /\ answer = Unanswered

(* The rows of a country's file.  An instance serves one country. *)
LoadFile(cc) ==
  /\ lookup = [k \in {} |-> <<>>]
  /\ lookup' = [k \in {<<cc, Row(cc, code)>> : code \in Postcodes[cc]} |-> k[2]]
  /\ UNCHANGED <<asked, answer>>

(* GET /lookup, down to its first tier. *)
Lookup(country, raw, code) ==
  LET cc == NormalizeCountry(country)
      key == ExtractPostalCode(cc, raw)
  IN  /\ asked' = [cc |-> country, raw |-> raw, code |-> code]
      /\ answer' =
           IF \A k \in DOMAIN lookup : k[1] # cc
           THEN [status |-> "unsupported", key |-> <<>>, row |-> <<>>]
           ELSE IF <<cc, key>> \in DOMAIN lookup
           THEN [status |-> "exact", key |-> key, row |-> lookup[<<cc, key>>]]
           ELSE [status |-> "other_tiers", key |-> key, row |-> <<>>]
      /\ UNCHANGED lookup

Loaded == {k[1] : k \in DOMAIN lookup}
NamesOf(cc) == IF cc = "EL" THEN {"EL", "GR"} ELSE {cc}

(* A client that means a code, in one of its spellings. *)
AskFor ==
  /\ asked = Nothing
  /\ \E cc \in Loaded : \E country \in NamesOf(cc), code \in Postcodes[cc] :
       \E raw \in Spellings(cc, code) : Lookup(country, raw, code)

(* A client that types. *)
AskAny ==
  /\ asked = Nothing
  /\ \E cc \in Loaded : \E country \in NamesOf(cc), raw \in Typed(cc) : Lookup(country, raw, <<>>)

(* The request is over; no state of a request outlives it. *)
Done ==
  /\ asked # Nothing
  /\ asked' = Nothing
  /\ answer' = Unanswered
  /\ UNCHANGED lookup

Next == (\E cc \in Countries : LoadFile(cc)) \/ AskFor \/ AskAny \/ Done

Spec == Init /\ [][Next]_vars

-----------------------------------------------------------------------------
(* A code written in any of the ways the patterns and their documentation   *)
(* list is answered with the row of that code and of no other, whatever the *)
(* country, also when Greece is asked for as GR: loading and extraction,    *)
(* which normalise separately, agree on the key (postal_patterns.py:83-108, *)
(* data_loader.py:57-69 and 281).                                           *)
EverySpellingIsFound ==
  asked.code # <<>> =>
    /\ answer.status = "exact"
    /\ answer.row = Row(NormalizeCountry(asked.cc), asked.code)

(* A dot and zeros end the text. *)
IsFloat(text) ==
  \E n \in 1..(Len(text) - 1) : text[n] = "." /\ AllIn(SubSeq(text, n + 1, Len(text)), {"0"})

(* A text without the dot and zeros that make it a float; the dots of a     *)
(* number written with thousands do not.                                    *)
WholeNumber(text) ==
  IF IsFloat(text) /\ ~IsThousands(text)
  THEN SubSeq(text, 1, Max({n \in DOMAIN text : text[n] = "."}) - 1)
  ELSE text

(* Whether letters and digits d say the code that row is about: up to a     *)
(* country prefix and one lost leading zero.                                *)
Says(cc, d, row) ==
  \E p \in {q \in {<<>>} \cup (IF HasPattern(cc) THEN POSTAL_PATTERNS[cc].prefixes ELSE {}) :
               IsPrefix(q, d)} :
    \E lost \in 0..1 :
      LET said == Times(lost, "0") \o SubSeq(d, Len(p) + 1, Len(d))
      IN  /\ lost > 0 => Len(said) = Expected(cc)
          /\ \/ said = row
             \/ cc = "LV" /\ <<"L", "V">> \o said = row
             \/ cc = "IE" /\ Len(said) = 7 /\ SubSeq(said, 1, 3) = row
             \/ cc = "MT" /\ Kept(said, Letters) = row

(* The row answered with certainty is the one the text says: whatever is    *)
(* typed, cleaning and extraction never make up a letter or digit or drop   *)
(* one, but for a country prefix, a single leading zero, the zeros after a  *)
(* final dot and, where rows are coarser than codes, what the tercet_map    *)
(* cuts off (postal_patterns.py:49-80).                                     *)
FoundIsMeant ==
  answer.status = "exact" =>
    LET text == Upper(Strip(asked.raw))
    IN  Says(NormalizeCountry(asked.cc), NormalizePostalCode(WholeNumber(text)), answer.row)

(* Cleaning never damages what already is a valid code: a text that matches *)
(* the pattern /pattern publishes is read as that match, unless a final     *)
(* ".0" makes it a float (postal_patterns.py:93-108).                       *)
ValidIsTaken ==
  LET cc == NormalizeCountry(asked.cc)
      text == Upper(Strip(asked.raw))
  IN  \A rest \in Matches(cc, text) :
        answer.status \in {"exact", "other_tiers"} /\ ~IsFloat(text) =>
          answer.key = ApplyTercetMap(cc, NormalizePostalCode(rest))
=============================================================================
