------------------------------- MODULE Lookup -------------------------------
(***************************************************************************)
(* The five-tier lookup (app/data_loader.py) and the /lookup handler       *)
(* (app/main.py): the tables a worker fills row by row at start-up, the    *)
(* prefix index and the two country tables built from them, and what a     *)
(* query is answered.                                                      *)
(*                                                                         *)
(* A postal code is a sequence of characters, taken as the key it has      *)
(* after normalisation.  A NUTS3 code is the sequence of the characters    *)
(* after the country's: its NUTS1 and NUTS2 codes are its prefixes of      *)
(* length 1 and 2.  A confidence is a number of hundredths.                *)
(***************************************************************************)
EXTENDS Integers, Sequences, FiniteSets, FiniteSetsExt

CONSTANTS FileCountries, \* country codes that rows of the loaded files carry
          Codes,         \* normalised postal codes in the files
          Queries,       \* extracted postal codes in requests
          Regions,       \* NUTS3 codes
          Pinned,        \* settings.single_nuts3_fallback
          Estimates,     \* the values of an estimates row that was parsed
          Caps,          \* settings.approximate_confidence_caps, by level
          MinConfidence, \* settings.approximate_min_confidence
          MaxRows,       \* bound on the TERCET rows of _lookup
          MaxExtras      \* bound on the rows of extra sources

ASSUME BoundsAssumption == MaxRows \in Nat /\ MaxExtras \in Nat
ASSUME RegionsAssumption == \A r \in Regions : r \in Seq(Nat) /\ Len(r) = 3
ASSUME CodesAssumption == \A pc \in Codes \cup Queries : pc \in Seq(Nat)
ASSUME CapsAssumption == Caps \in [1..3 -> 0..100] /\ MinConfidence \in Int
ASSUME PinnedAssumption == \A cc \in DOMAIN Pinned : Pinned[cc] \in Regions
ASSUME EstimatesAssumption == \A e \in Estimates :
  /\ e.nuts[3] \in Regions
  /\ \A l \in 1..2 : e.nuts[l] \in Seq(Nat) /\ (e.nuts[l] = <<>> \/ Len(e.nuts[l]) = l)
  /\ e.confidence \in [1..3 -> 0..100]

VARIABLES
  phase,           \* what load_data is at: "tercet", "extras", "serving"
  lookup,          \* _lookup, in the order of insertion
  estimates,       \* _estimates
  prefix_index,    \* _prefix_index
  single_nuts3,    \* _single_nuts3
  country_fallback, \* _country_fallback
  asked, answer,   \* the last request and its answer
  extras           \* how many rows of extra sources were read

vars == <<phase, lookup, estimates, prefix_index, single_nuts3, country_fallback,
          asked, answer, extras>>

Levels == 1..3

(* Mutant: NUTS2 codes are cut at the length of NUTS1 codes. *)
M_Level(nuts3, l) == IF l = 2 THEN SubSeq(nuts3, 1, 1) ELSE nuts3

Level(nuts3, l) == SubSeq(nuts3, 1, l)

Row == [cc : FileCountries, pc : Codes, nuts3 : Regions]
Key(row) == <<row.cc, row.pc>>
NormalizeCountry(cc) == IF cc = "GR" THEN "EL" ELSE cc
RequestCountries == FileCountries \cup DOMAIN Pinned \cup {"GR"}

(* What a table knows of a country: its rows, named by their positions. *)
CountryRows(table, cc) == {i \in DOMAIN table : table[i].cc = cc}
CountriesOf(table) == {table[i].cc : i \in DOMAIN table}
RegionsAt(table, cc, l) == {Level(table[i].nuts3, l) : i \in CountryRows(table, cc)}

(* A list of the regions of some rows, in the order of the table. *)
Nuts3Of(table, rows) == [i \in rows |-> table[i].nuts3]

-----------------------------------------------------------------------------
(* Votes and confidences.                                                  *)

(* Counter: how often x occurs. *)
Occurrences(x, votes) == Cardinality({i \in DOMAIN votes : votes[i] = x})

(* Counter.most_common(1): among the most frequent, the first met. *)
Winner(votes) ==
  votes[Min({i \in DOMAIN votes : \A j \in DOMAIN votes :
               Occurrences(votes[j], votes) <= Occurrences(votes[i], votes)})]

(* Mutant: a neighbouring region votes once, however many codes it has. *)
M_VotesAt(neighbours, l) ==
  LET first == {i \in DOMAIN neighbours :
                  \A j \in DOMAIN neighbours : j < i => neighbours[j] # neighbours[i]}
  IN  IF l = 3 THEN neighbours ELSE [i \in first |-> Level(neighbours[i], l)]

VotesAt(neighbours, l) == [i \in DOMAIN neighbours |-> Level(neighbours[i], l)]

(* round(n / d, 2): a tie goes to the even neighbour. *)
Round(n, d) == LET q == (100 * n) \div d
                   twice == 2 * ((100 * n) % d)
               IN  IF twice > d \/ (twice = d /\ q % 2 = 1) THEN q + 1 ELSE q

(* Mutant: the caps are looked up in the wrong order. *)
M_Capped(l, n, d) == Min({Round(n, d), Caps[4 - l]})

Capped(l, n, d) == Min({Round(n, d), Caps[l]})

(* _build_result: NUTS1 and NUTS2 default to those of the NUTS3 code. *)
Result(match, nuts, confidence) ==
  [match |-> match,
   nuts |-> [l \in Levels |-> IF l < 3 /\ nuts[l] = <<>> THEN Level(nuts[3], l) ELSE nuts[l]],
   confidence |-> confidence]

Certain == [l \in Levels |-> 100]

None == [match |-> "none"]

(* The vote of _estimate_by_prefix among the neighbours that share n        *)
(* characters with a query of length len.                                   *)
Vote(neighbours, n, len) ==
  LET winner == [l \in Levels |-> Winner(VotesAt(neighbours, l))]
      count(l) == Occurrences(winner[l], VotesAt(neighbours, l))
      confidence == [l \in Levels |-> Capped(l, count(l) * n, Cardinality(DOMAIN neighbours) * len)]
  IN  IF confidence[1] < MinConfidence THEN None
      ELSE Result("approximate", winner, confidence)

-----------------------------------------------------------------------------
(* _build_prefix_index.                                                    *)

(* Mutant: the prefixes start at length 2. *)
M_Prefixes(pc) == {SubSeq(pc, 1, n) : n \in 2..Len(pc) - 1}

IndexedPrefixes(pc) == {SubSeq(pc, 1, n) : n \in 1..Len(pc) - 1}

PrefixIndex(table) ==
  [cc \in CountriesOf(table) |->
     LET rows == CountryRows(table, cc) IN
     [p \in UNION {IndexedPrefixes(table[i].pc) : i \in rows} |->
        Nuts3Of(table, {i \in rows : p \in IndexedPrefixes(table[i].pc)})]]

(* Countries with one NUTS3 code in the table; the pinned ones are merged   *)
(* in where the table did not set them.                                     *)
SingleNuts3(table) ==
  LET detected == {cc \in CountriesOf(table) : Cardinality(RegionsAt(table, cc, 3)) = 1}
  IN  [cc \in detected \cup DOMAIN Pinned |->
         IF cc \in detected THEN CHOOSE r \in RegionsAt(table, cc, 3) : TRUE ELSE Pinned[cc]]

Unanimous(table, cc) == \A l \in 1..2 : Cardinality(RegionsAt(table, cc, l)) = 1

CountryFallback(table) ==
  [cc \in {c \in CountriesOf(table) \ DOMAIN SingleNuts3(table) : Unanimous(table, c)} |->
     LET votes == Nuts3Of(table, CountryRows(table, cc))
         winner == Winner(votes)
         share == Capped(3, Occurrences(winner, votes), Cardinality(DOMAIN votes))
     IN  Result("approximate",
                [l \in Levels |-> IF l = 3 THEN winner
                                  ELSE CHOOSE n \in RegionsAt(table, cc, l) : TRUE],
                <<100, 100, share>>)]

-----------------------------------------------------------------------------
(* lookup and its caller.                                                  *)

ByPrefix(cc, pc) ==
  IF cc \notin DOMAIN prefix_index THEN None
  ELSE LET idx == prefix_index[cc]
           lengths == {n \in 1..Len(pc) : SubSeq(pc, 1, n) \in DOMAIN idx}
       IN  IF lengths = {} THEN None
           ELSE Vote(idx[SubSeq(pc, 1, Max(lengths))], Max(lengths), Len(pc))

(* Mutant: the vote of the country is left out. *)
M_ByCountry(cc) ==
  IF cc \in DOMAIN single_nuts3
  THEN Result("estimated", <<<<>>, <<>>, single_nuts3[cc]>>, Certain)
  ELSE None

ByCountry(cc) ==
  IF cc \in DOMAIN country_fallback THEN country_fallback[cc]
  ELSE IF cc \in DOMAIN single_nuts3
  THEN Result("estimated", <<<<>>, <<>>, single_nuts3[cc]>>, Certain)
  ELSE None

Answer(country, pc) ==
  LET cc == NormalizeCountry(country)
      exact == {i \in DOMAIN lookup : Key(lookup[i]) = <<cc, pc>>}
  IN  IF exact # {}
      THEN Result("exact", <<<<>>, <<>>, lookup[CHOOSE i \in exact : TRUE].nuts3>>, Certain)
      ELSE IF <<cc, pc>> \in DOMAIN estimates
      THEN Result("estimated", estimates[<<cc, pc>>].nuts, estimates[<<cc, pc>>].confidence)
      ELSE IF ByPrefix(cc, pc) # None THEN ByPrefix(cc, pc) ELSE ByCountry(cc)

LoadedCountries == CountriesOf(lookup) \cup DOMAIN single_nuts3

-----------------------------------------------------------------------------
Init == /\ phase = "tercet"
        /\ lookup = <<>> /\ estimates = <<>>
        /\ prefix_index = <<>> /\ single_nuts3 = <<>> /\ country_fallback = <<>>
        /\ asked = None /\ answer = None
        /\ extras = 0

Unasked == UNCHANGED <<asked, answer>>
Unbuilt == UNCHANGED <<estimates, prefix_index, single_nuts3, country_fallback>>

Holds(row) == {i \in DOMAIN lookup : Key(lookup[i]) = Key(row)}

(* A row of a TERCET file: the first row of a key stays. *)
InsertTercet(row) ==
  /\ phase = "tercet" /\ Len(lookup) < MaxRows
  /\ lookup' = IF Holds(row) = {} THEN Append(lookup, row) ELSE lookup
  /\ UNCHANGED <<phase, extras>> /\ Unbuilt /\ Unasked

StartExtras == /\ phase = "tercet"
               /\ phase' = "extras"
               /\ UNCHANGED <<lookup, extras>> /\ Unbuilt /\ Unasked

(* A row of an extra source: the last row of a key stays, where the first   *)
(* one was inserted.                                                        *)
InsertExtra(row) ==
  /\ phase = "extras" /\ extras < MaxExtras
  /\ lookup' = IF Holds(row) = {} THEN Append(lookup, row)
               ELSE [i \in DOMAIN lookup |-> IF i \in Holds(row) THEN row ELSE lookup[i]]
  /\ extras' = extras + 1
  /\ UNCHANGED phase /\ Unbuilt /\ Unasked

(* _revalidate_estimates: the keys with an exact row go. *)
Revalidated(table) ==
  [key \in DOMAIN table \ {Key(lookup[i]) : i \in DOMAIN lookup} |-> table[key]]

(* What follows the loading of the rows. *)
Serve(table) == /\ phase = "extras"
                /\ phase' = "serving"
                /\ estimates' = Revalidated(table)
                /\ prefix_index' = PrefixIndex(lookup)
                /\ single_nuts3' = SingleNuts3(lookup)
                /\ country_fallback' = CountryFallback(lookup)
                /\ UNCHANGED <<lookup, extras>> /\ Unasked

(* GET /lookup: 400 for a country without data, 404 for no answer. *)
Ask(country, pc) ==
  /\ phase = "serving" /\ asked = None
  /\ asked' = [country |-> country, pc |-> pc]
  /\ answer' = IF NormalizeCountry(country) \in LoadedCountries THEN Answer(country, pc)
               ELSE [match |-> "unsupported"]
  /\ UNCHANGED <<phase, lookup, extras>> /\ Unbuilt

Respond == /\ asked # None
           /\ asked' = None /\ answer' = None
           /\ UNCHANGED <<phase, lookup, extras>> /\ Unbuilt

(* The tables of at most one estimate. *)
EstimateTables ==
  UNION {[K -> Estimates] : K \in {{}} \cup {{<<cc, pc>>} : cc \in FileCountries, pc \in Codes}}

Next == \/ \E row \in Row : InsertTercet(row) \/ InsertExtra(row)
        \/ StartExtras
        \/ \E table \in EstimateTables : Serve(table)
        \/ \E country \in RequestCountries, pc \in Queries : Ask(country, pc)
        \/ Respond

Spec == Init /\ [][Next]_vars
-----------------------------------------------------------------------------
Answered == answer.match \in {"exact", "estimated", "approximate"}
AskedCountry == NormalizeCountry(asked.country)
AskedRows == CountryRows(lookup, AskedCountry)

(* The tables hold what their readers expect: an index of neighbours that   *)
(* is never empty, a country in at most one of the country tables, an       *)
(* answer with a code and a confidence at each level.                       *)
TypeOK ==
  /\ phase \in {"tercet", "extras", "serving"}
  /\ lookup \in Seq(Row) /\ extras \in 0..MaxExtras
  /\ \A i, j \in DOMAIN lookup : Key(lookup[i]) = Key(lookup[j]) => i = j
  /\ DOMAIN estimates \subseteq FileCountries \X Codes
  /\ \A cc \in DOMAIN prefix_index : \A p \in DOMAIN prefix_index[cc] :
       /\ DOMAIN prefix_index[cc][p] \in (SUBSET DOMAIN lookup) \ {{}}
       /\ \A i \in DOMAIN prefix_index[cc][p] : prefix_index[cc][p][i] \in Regions
  /\ DOMAIN single_nuts3 \cap DOMAIN country_fallback = {}
  /\ Answered => /\ answer.nuts[3] \in Regions
                 /\ \A l \in Levels : /\ Len(answer.nuts[l]) = l
                                      /\ answer.confidence[l] \in 0..100

(* "Confidence is higher at coarser NUTS levels" (README.md:508), in every  *)
(* tier and after caps and rounding.                                        *)
ConfidenceOrdered == Answered =>
  /\ answer.confidence[1] >= answer.confidence[2]
  /\ answer.confidence[2] >= answer.confidence[3]

(* The estimates file has an answer of its own, which is not checked. *)
Listed == <<AskedCountry, asked.pc>> \in DOMAIN estimates

(* Each level has its own vote, so a NUTS3 code may lie outside the NUTS2   *)
(* code of the same answer; never one that is said to be more likely right  *)
(* than wrong, but for the codes of the estimates file.                     *)
ConfidentIsNested == Answered /\ ~Listed =>
  \A l \in 1..2 : answer.confidence[3] > 50 => answer.nuts[l] = Level(answer.nuts[3], l)

(* The length of the common prefix of two codes. *)
Shared(a, b) == Max({n \in 0..Min({Len(a), Len(b)}) : SubSeq(a, 1, n) = SubSeq(b, 1, n)})

(* The neighbours of a code, without an index: the rows that share the      *)
(* longest prefix with it.                                                  *)
SharedMost(rows, pc) == Max({0} \cup {Shared(lookup[i].pc, pc) : i \in rows})
Nearest(rows, pc) == {i \in rows : Shared(lookup[i].pc, pc) = SharedMost(rows, pc)}

NearestVote ==
  IF SharedMost(AskedRows, asked.pc) = 0 THEN None
  ELSE Vote(Nuts3Of(lookup, Nearest(AskedRows, asked.pc)), SharedMost(AskedRows, asked.pc), Len(asked.pc))

(* No exact row and no estimate. *)
Guessed == /\ asked # None /\ answer.match # "unsupported"
           /\ \A i \in AskedRows : lookup[i].pc # asked.pc
           /\ ~Listed

(* Where no known code is a prefix of the query, the answer of tier 3 is    *)
(* the vote of the rows that share the longest prefix with it: the index    *)
(* loses no row and adds none.  Only there: the index holds the proper      *)
(* prefixes of the codes (data_loader.py:622), so a query that extends a    *)
(* known code is not matched with that code.                                *)
NearestNeighbours ==
  Guessed /\ NearestVote # None
    /\ (\A i \in AskedRows : Shared(lookup[i].pc, asked.pc) < Len(lookup[i].pc))
  => answer = NearestVote

(* A country whose rows lie in one NUTS2 region is answered for every code, *)
(* and an answer that is neither an estimate of the file nor the pin of the *)
(* settings names that region.                                              *)
SoleRegion ==
  asked # None /\ AskedRows # {} /\ Unanimous(lookup, AskedCountry)
    => /\ Answered
       /\ ~Listed /\ AskedCountry \notin DOMAIN Pinned
            => \A l \in 1..2 : answer.nuts[l] \in RegionsAt(lookup, AskedCountry, l)
=============================================================================
