-------------------------- MODULE MCPostalPatterns --------------------------
(* Instances of PostalPatterns for TLC. *)
EXTENDS PostalPatterns

CONSTANT OtherCountry   \* a country that is loaded and has no pattern

MCChars == Digits \cup Letters \cup Lower \cup Separators

(* All codes over two digits but the one of zeros only; 8 is what codes of  *)
(* Montenegro start with.                                                   *)
Numbers(n) == [1..n -> {"0", "8"}] \ {[i \in 1..n |-> "0"]}

MCPostcodes ==
  [cc \in DOMAIN POSTAL_PATTERNS \cup {OtherCountry} |->
     CASE cc = "IE" -> {<<"D", "0", "8", "X", "2", "8", "0">>, <<"D", "0", "8", "8", "0", "0", "0">>,
                        <<"D", "6", "W", "F", "0", "E", "2">>}
       [] cc = "MT" -> {<<"V", "L", "T", "8", "0", "8", "0">>, <<"S", "T", "8", "0">>}
       [] cc = "NL" -> {n \o <<"A", "B">> : n \in Numbers(4)}
       [] cc = "ME" -> {n \in Numbers(5) : n[1] = "8"}
       [] cc = OtherCountry -> {<<"S", "8", "0">>, <<"8", "0", "0">>}
       [] OTHER -> Numbers(POSTAL_PATTERNS[cc].digits)]

(* The forms of the files: most countries' as their post writes them. *)
MCFileForm(cc, code) ==
  CASE cc = "IE" -> SubSeq(code, 1, 3)
    [] cc = "MT" -> Kept(code, Letters)
    [] cc = "LV" -> <<"L", "V", "-">> \o code
    [] cc = "PL" -> SubSeq(code, 1, 2) \o <<"-">> \o SubSeq(code, 3, 5)
    [] cc \in {"CZ", "SE", "SK", "EL"} -> SubSeq(code, 1, 3) \o <<" ">> \o SubSeq(code, 4, 5)
    [] cc = "PT" -> SubSeq(code, 1, 4) \o <<"-">> \o SubSeq(code, 5, 7)
    [] OTHER -> code

(* What is typed: a spelling with a character left out or one put in. *)
MCTyped(cc) ==
  LET texts == UNION {Written(cc, c) \cup Prefixed(cc, c) \cup AsNumbers(cc, c) :
                        c \in {d \in MCPostcodes[cc] : d[2] # d[1]}}
      Longest == 12
      k(s, n) == IF n > Len(s) THEN Len(s) ELSE n
      Without(s, n) == SubSeq(s, 1, n - 1) \o SubSeq(s, n + 1, Len(s))
      With(s, n, c) == SubSeq(s, 1, n) \o <<c>> \o SubSeq(s, n + 1, Len(s))
  IN  {Without(s, k(s, n)) : s \in texts, n \in 1..Longest}
        \cup {With(s, k(s, n), c) : s \in texts, n \in 0..Longest, c \in {"0", ".", "-"}}
=============================================================================
