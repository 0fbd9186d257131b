---------------------------- MODULE LookupProofs ----------------------------
(***************************************************************************)
(* Proofs about Lookup, for every set of codes, queries and regions, every *)
(* table and every settings.                                               *)
(*                                                                         *)
(* Who agrees on a level agrees on the coarser ones, so a coarser winner   *)
(* has no fewer votes (BackingGrows), and a majority at one level is part  *)
(* of the majority at the coarser ones (MajorityNests).  Rounding and caps *)
(* keep both.  The tables are functions of the rows (Built), so what the   *)
(* tiers answer is known from the rows alone (AnswerHolds).                *)
(***************************************************************************)
EXTENDS Lookup, FiniteSetTheorems, TLAPS

(* The smallest and the greatest of some numbers. *)
LEMMA MinIsLeast ==
  ASSUME NEW S \in SUBSET Nat, S # {}
  PROVE  /\ Min(S) \in S
         /\ \A x \in S : Min(S) <= x
<1>1. PICK m \in S : \A x \in S : <<x, m>> \notin OpToRel(<, Nat)
  BY NatLessThanWellFounded, WFMin
<1>2. \A x \in S : ~(x < m)
  BY <1>1, Zenon DEF OpToRel
<1>3. \A x \in S : m <= x
  BY <1>2
<1> QED BY <1>3 DEF Min

LEMMA MaxIsGreatest ==
  ASSUME NEW S \in SUBSET Nat, S # {}, NEW b \in Nat, \A x \in S : x <= b
  PROVE  /\ Max(S) \in S
         /\ \A x \in S : x <= Max(S)
<1> DEFINE T == {b - x : x \in S}
<1>1. T \in SUBSET Nat /\ T # {}
  <2>1. \A x \in S : b - x \in Nat
    OBVIOUS
  <2> QED BY <2>1, Zenon
<1>2. Min(T) \in T /\ \A y \in T : Min(T) <= y
  BY <1>1, MinIsLeast
<1>3. PICK m \in S : Min(T) = b - m
  BY <1>2
<1>4. \A x \in S : x <= m
  <2> TAKE x \in S
  <2>1. b - m <= b - x
    BY <1>2, <1>3
  <2> QED BY <2>1
<1> QED BY <1>4 DEF Max

LEMMA MinOfTwo ==
  ASSUME NEW x \in Int, NEW y \in Int
  PROVE  /\ Min({x, y}) \in {x, y}
         /\ Min({x, y}) <= x /\ Min({x, y}) <= y
<1>1. \E m \in {x, y} : \A z \in {x, y} : m <= z
  OBVIOUS
<1> QED BY <1>1 DEF Min

-----------------------------------------------------------------------------
(* round(n / d, 2): between 0 and 100, growing with the share, and above   *)
(* one half only for more than half.                                       *)
LEMMA Euclid ==
  ASSUME NEW a \in Nat, NEW d \in Nat \ {0}
  PROVE  /\ a \div d \in Nat /\ a % d \in 0..d - 1
         /\ a = d * (a \div d) + (a % d)
  OBVIOUS

LEMMA Quotients ==
  ASSUME NEW d \in Nat \ {0}, NEW q \in Nat, NEW r \in 0..d - 1,
         NEW p \in Nat, NEW s \in 0..d - 1, d * q + r <= d * p + s
  PROVE  q < p \/ (q = p /\ r <= s)
<1>1. CASE q > p
  <2>1. PICK k \in Nat : q = p + 1 + k
    <3>1. q - p - 1 \in Nat /\ q = p + 1 + (q - p - 1)
      BY <1>1
    <3> QED BY <3>1
  <2>2. d * q = d * p + d + d * k
    BY <2>1
  <2>3. d * k >= 0
    OBVIOUS
  <2> QED BY <2>2, <2>3
<1>2. CASE q = p
  BY <1>2
<1> QED BY <1>1, <1>2

(* A share of at most the whole. *)
LEMMA RoundBounds ==
  ASSUME NEW n \in Nat, NEW d \in Nat \ {0}, n <= d
  PROVE  Round(n, d) \in 0..100
<1>1. 100 * n \in Nat /\ 100 * n <= d * 100 + 0
  OBVIOUS
<1> DEFINE q == (100 * n) \div d
           r == (100 * n) % d
<1>2. q \in Nat /\ r \in 0..d - 1 /\ 100 * n = d * q + r
  BY <1>1, Euclid
<1>3. Round(n, d) = IF 2 * r > d \/ (2 * r = d /\ q % 2 = 1) THEN q + 1 ELSE q
  BY DEF Round
<1> HIDE DEF q, r
<1>4. q < 100 \/ (q = 100 /\ r <= 0)
  BY <1>1, <1>2, Quotients
<1> QED BY <1>2, <1>3, <1>4

LEMMA RoundMonotone ==
  ASSUME NEW n \in Nat, NEW m \in Nat, NEW d \in Nat \ {0}, n <= m
  PROVE  Round(n, d) <= Round(m, d)
<1>1. 100 * n \in Nat /\ 100 * m \in Nat /\ 100 * n <= 100 * m
  OBVIOUS
<1> DEFINE q == (100 * n) \div d
           r == (100 * n) % d
           p == (100 * m) \div d
           s == (100 * m) % d
<1>2. q \in Nat /\ r \in 0..d - 1 /\ 100 * n = d * q + r
  BY <1>1, Euclid
<1>3. p \in Nat /\ s \in 0..d - 1 /\ 100 * m = d * p + s
  BY <1>1, Euclid
<1>4. Round(n, d) = IF 2 * r > d \/ (2 * r = d /\ q % 2 = 1) THEN q + 1 ELSE q
  BY DEF Round
<1>5. Round(m, d) = IF 2 * s > d \/ (2 * s = d /\ p % 2 = 1) THEN p + 1 ELSE p
  BY DEF Round
<1> HIDE DEF q, r, p, s
<1>6. q < p \/ (q = p /\ r <= s)
  BY <1>1, <1>2, <1>3, Quotients
<1> QED BY <1>2, <1>3, <1>4, <1>5, <1>6

LEMMA RoundMajority ==
  ASSUME NEW n \in Nat, NEW d \in Nat \ {0}, Round(n, d) > 50
  PROVE  2 * n > d
<1>1. 100 * n \in Nat
  OBVIOUS
<1> DEFINE q == (100 * n) \div d
           r == (100 * n) % d
<1>2. q \in Nat /\ r \in 0..d - 1 /\ 100 * n = d * q + r
  BY <1>1, Euclid
<1>3. Round(n, d) = IF 2 * r > d \/ (2 * r = d /\ q % 2 = 1) THEN q + 1 ELSE q
  BY DEF Round
<1> HIDE DEF q, r
<1>4. q > 50 \/ (q = 50 /\ r > 0)
  BY <1>2, <1>3
<1>5. ~(100 * n <= d * 50 + 0)
  BY <1>2, <1>4, Quotients
<1> QED BY <1>5

-----------------------------------------------------------------------------
(* The votes.  A ballot is a list of regions with the positions of rows.   *)
Tally(votes) == IsFiniteSet(DOMAIN votes) /\ DOMAIN votes \in (SUBSET Nat) \ {{}}
Ballot(votes) == Tally(votes) /\ \A i \in DOMAIN votes : votes[i] \in Regions

LEMMA Counted ==
  ASSUME NEW votes, IsFiniteSet(DOMAIN votes), NEW x
  PROVE  Occurrences(x, votes) \in 0..Cardinality(DOMAIN votes)
<1> DEFINE who == {i \in DOMAIN votes : votes[i] = x}
<1>1. who \in SUBSET DOMAIN votes
  OBVIOUS
<1>2. IsFiniteSet(who) /\ Cardinality(who) <= Cardinality(DOMAIN votes)
  BY <1>1, FS_Subset
<1>3. Cardinality(who) \in Nat /\ Cardinality(DOMAIN votes) \in Nat
  BY <1>2, FS_CardinalityType
<1> QED BY <1>2, <1>3 DEF Occurrences

LEMMA Whole ==
  ASSUME NEW votes, Tally(votes)
  PROVE  Cardinality(DOMAIN votes) \in Nat \ {0}
BY FS_CardinalityType, FS_EmptySet DEF Tally

(* The winner is voted for, by as many as anyone. *)
LEMMA WinnerHasMost ==
  ASSUME NEW votes, Tally(votes)
  PROVE  /\ \E i \in DOMAIN votes : Winner(votes) = votes[i]
         /\ \A j \in DOMAIN votes :
              Occurrences(votes[j], votes) <= Occurrences(Winner(votes), votes)
<1> DEFINE count(j) == Occurrences(votes[j], votes)
           counts == {count(j) : j \in DOMAIN votes}
           most == {i \in DOMAIN votes : \A j \in DOMAIN votes : count(j) <= count(i)}
<1>1. \A j \in DOMAIN votes : count(j) \in 0..Cardinality(DOMAIN votes)
  BY Counted DEF Tally
<1>2. Cardinality(DOMAIN votes) \in Nat /\ DOMAIN votes # {} /\ DOMAIN votes \in SUBSET Nat
  BY Whole DEF Tally
<1>3. Winner(votes) = votes[Min(most)]
  BY DEF Winner
<1> HIDE DEF count
<1>4. counts \in SUBSET Nat /\ counts # {} /\ \A x \in counts : x <= Cardinality(DOMAIN votes)
  BY <1>1, <1>2
<1>5. Max(counts) \in counts /\ \A x \in counts : x <= Max(counts)
  BY <1>2, <1>4, MaxIsGreatest
<1>6. most # {} /\ most \in SUBSET Nat
  BY <1>2, <1>5
<1>7. Min(most) \in most
  BY <1>6, MinIsLeast
<1>8. \A j \in DOMAIN votes : count(j) <= count(Min(most))
  BY <1>7
<1> QED BY <1>3, <1>7, <1>8 DEF count

(* The levels of a region. *)
LEMMA LevelOfRegion ==
  ASSUME NEW r \in Regions, NEW l \in Levels
  PROVE  /\ Level(r, l) \in Seq(Nat) /\ Len(Level(r, l)) = l
         /\ \A i \in 1..l : Level(r, l)[i] = r[i]
         /\ Level(r, 3) = r
<1>1. r \in Seq(Nat) /\ Len(r) = 3
  BY RegionsAssumption
<1>2. Level(r, 3) = r
  BY <1>1 DEF Level
<1> QED BY <1>1, <1>2 DEF Level, Levels

LEMMA LevelTwice ==
  ASSUME NEW r \in Regions, NEW l \in Levels, NEW m \in Levels, l <= m
  PROVE  Level(Level(r, m), l) = Level(r, l)
BY RegionsAssumption DEF Level, Levels

(* Who agrees on a level agrees on the coarser ones. *)
LEMMA LevelCoarser ==
  ASSUME NEW r \in Regions, NEW x \in Regions, NEW l \in Levels, NEW m \in Levels, l <= m,
         Level(r, m) = Level(x, m)
  PROVE  Level(r, l) = Level(x, l)
BY LevelTwice

(* The ballot of a level is one of the same voters. *)
LEMMA LevelBallot ==
  ASSUME NEW votes, Ballot(votes), NEW l \in Levels
  PROVE  /\ DOMAIN VotesAt(votes, l) = DOMAIN votes /\ Tally(VotesAt(votes, l))
         /\ \A i \in DOMAIN votes : VotesAt(votes, l)[i] = Level(votes[i], l)
BY DEF Ballot, Tally, VotesAt

LEMMA LevelWinner ==
  ASSUME NEW votes, Ballot(votes), NEW l \in Levels
  PROVE  /\ \E i \in DOMAIN votes : Winner(VotesAt(votes, l)) = Level(votes[i], l)
         /\ \A j \in DOMAIN votes :
              Occurrences(Level(votes[j], l), VotesAt(votes, l))
                <= Occurrences(Winner(VotesAt(votes, l)), VotesAt(votes, l))
<1> DEFINE v == VotesAt(votes, l)
<1>1. DOMAIN v = DOMAIN votes /\ Tally(v) /\ \A i \in DOMAIN votes : v[i] = Level(votes[i], l)
  BY LevelBallot
<1> HIDE DEF v
<1>2. /\ \E i \in DOMAIN v : Winner(v) = v[i]
      /\ \A j \in DOMAIN v : Occurrences(v[j], v) <= Occurrences(Winner(v), v)
  BY <1>1, WinnerHasMost
<1>3. \A j \in DOMAIN votes : Occurrences(Level(votes[j], l), v) <= Occurrences(Winner(v), v)
  BY <1>1, <1>2
<1> QED BY <1>1, <1>2, <1>3 DEF v

(* How many voted for the winner of a level. *)
Backing(votes, l) == Occurrences(Winner(VotesAt(votes, l)), VotesAt(votes, l))
Backers(votes, l) == {i \in DOMAIN votes : Level(votes[i], l) = Winner(VotesAt(votes, l))}

LEMMA BackersCounted ==
  ASSUME NEW votes, Ballot(votes), NEW l \in Levels
  PROVE  /\ Backing(votes, l) = Cardinality(Backers(votes, l))
         /\ IsFiniteSet(Backers(votes, l))
         /\ Backing(votes, l) \in 0..Cardinality(DOMAIN votes)
<1>1. Backing(votes, l) = Cardinality(Backers(votes, l))
  BY LevelBallot DEF Backing, Backers, Occurrences
<1>2. Backers(votes, l) \in SUBSET DOMAIN votes
  BY DEF Backers
<1>3. IsFiniteSet(DOMAIN votes)
  BY DEF Ballot, Tally
<1>4. IsFiniteSet(Backers(votes, l)) /\ Cardinality(Backers(votes, l)) <= Cardinality(DOMAIN votes)
  BY <1>2, <1>3, FS_Subset
<1>5. Cardinality(Backers(votes, l)) \in Nat /\ Cardinality(DOMAIN votes) \in Nat
  BY <1>3, <1>4, FS_CardinalityType
<1> QED BY <1>1, <1>4, <1>5

(* The backers of a level's winner agree on each coarser level, whose own   *)
(* winner has no fewer.                                                     *)
LEMMA BackingGrows ==
  ASSUME NEW votes, Ballot(votes), NEW l \in Levels, NEW m \in Levels, l <= m
  PROVE  Backing(votes, m) <= Backing(votes, l)
<1>1. PICK k \in DOMAIN votes : Winner(VotesAt(votes, m)) = Level(votes[k], m)
  BY LevelWinner
<1> DEFINE agree == {i \in DOMAIN votes : Level(votes[i], l) = Level(votes[k], l)}
<1>2. \A i \in DOMAIN votes : votes[i] \in Regions
  BY DEF Ballot
<1>3. Backers(votes, m) \in SUBSET agree
  <2> SUFFICES ASSUME NEW i \in DOMAIN votes, Level(votes[i], m) = Level(votes[k], m)
               PROVE  Level(votes[i], l) = Level(votes[k], l)
    BY <1>1 DEF Backers
  <2> QED BY <1>2, LevelCoarser
<1>4. IsFiniteSet(DOMAIN votes) /\ agree \in SUBSET DOMAIN votes
  BY DEF Ballot, Tally
<1>5. IsFiniteSet(agree)
  BY <1>4, FS_Subset
<1>6. Cardinality(Backers(votes, m)) <= Cardinality(agree)
  BY <1>3, <1>5, FS_Subset
<1>7. Cardinality(agree) = Occurrences(Level(votes[k], l), VotesAt(votes, l))
  BY LevelBallot DEF Occurrences
<1>8. Cardinality(agree) <= Backing(votes, l)
  BY <1>7, LevelWinner DEF Backing
<1>9. Cardinality(agree) \in Nat /\ Backing(votes, m) \in Int /\ Backing(votes, l) \in Int
  BY <1>5, BackersCounted, FS_CardinalityType
<1> QED BY <1>6, <1>8, <1>9, BackersCounted

(* More than half of the voters behind a NUTS3 code are more than half      *)
(* behind its NUTS1 and NUTS2 codes, which win then.                        *)
LEMMA MajorityNests ==
  ASSUME NEW votes, Ballot(votes), NEW l \in Levels,
         2 * Backing(votes, 3) > Cardinality(DOMAIN votes)
  PROVE  Winner(VotesAt(votes, l)) = Level(Winner(VotesAt(votes, 3)), l)
<1>1. 3 \in Levels /\ l <= 3
  BY DEF Levels
<1>2. Backing(votes, 3) <= Backing(votes, l)
  BY <1>1, BackingGrows
<1>3. Cardinality(Backers(votes, 3)) + Cardinality(Backers(votes, l)) > Cardinality(DOMAIN votes)
  <2>1. Backing(votes, 3) = Cardinality(Backers(votes, 3))
        /\ Backing(votes, 3) \in 0..Cardinality(DOMAIN votes)
    BY <1>1, BackersCounted
  <2>2. Backing(votes, l) = Cardinality(Backers(votes, l))
        /\ Backing(votes, l) \in 0..Cardinality(DOMAIN votes)
    BY BackersCounted
  <2>3. Cardinality(DOMAIN votes) \in Nat
    BY Whole DEF Ballot
  <2> QED BY <1>2, <2>1, <2>2, <2>3
<1>4. Backers(votes, 3) \cap Backers(votes, l) # {}
  BY <1>3, FS_MajoritiesIntersect DEF Ballot, Tally, Backers
<1>5. PICK i \in DOMAIN votes : /\ Level(votes[i], 3) = Winner(VotesAt(votes, 3))
                                /\ Level(votes[i], l) = Winner(VotesAt(votes, l))
  BY <1>4 DEF Backers
<1>6. votes[i] \in Regions
  BY DEF Ballot
<1> QED BY <1>1, <1>5, <1>6, LevelTwice

-----------------------------------------------------------------------------
(* What an answer is to be. *)
Given(a) == a.match \in {"exact", "estimated", "approximate"}
WellFormed(a) == /\ a.nuts[3] \in Regions
                 /\ \A l \in Levels : Len(a.nuts[l]) = l /\ a.confidence[l] \in 0..100
Ordered(a) == a.confidence[1] >= a.confidence[2] /\ a.confidence[2] >= a.confidence[3]
Nested(a) == \A l \in 1..2 : a.confidence[3] > 50 => a.nuts[l] = Level(a.nuts[3], l)

(* Settings that give a coarser level no lower a cap. *)
CapsOrdered == Caps[1] >= Caps[2] /\ Caps[2] >= Caps[3]

LEMMA ResultFields ==
  ASSUME NEW match, NEW nuts, NEW confidence, nuts[3] \in Regions,
         \A l \in 1..2 : nuts[l] = <<>> \/ Len(nuts[l]) = l,
         \A l \in Levels : confidence[l] \in 0..100
  PROVE  /\ Result(match, nuts, confidence).match = match
         /\ Result(match, nuts, confidence).confidence = confidence
         /\ Result(match, nuts, confidence).nuts[3] = nuts[3]
         /\ \A l \in 1..2 : Result(match, nuts, confidence).nuts[l] =
              IF nuts[l] = <<>> THEN Level(nuts[3], l) ELSE nuts[l]
         /\ WellFormed(Result(match, nuts, confidence))
<1> DEFINE a == Result(match, nuts, confidence)
<1>1. a.match = match /\ a.confidence = confidence
  BY DEF Result
<1>2. a.nuts[3] = nuts[3]
  BY DEF Result, Levels
<1>3. \A l \in 1..2 : a.nuts[l] = IF nuts[l] = <<>> THEN Level(nuts[3], l) ELSE nuts[l]
  BY DEF Result, Levels
<1> HIDE DEF a
<1>4. Len(a.nuts[3]) = 3
  BY <1>2, RegionsAssumption
<1>5. \A l \in 1..2 : Len(a.nuts[l]) = l
  <2> SUFFICES ASSUME NEW l \in 1..2 PROVE Len(a.nuts[l]) = l
    OBVIOUS
  <2>1. l \in Levels
    BY DEF Levels
  <2>2. Len(Level(nuts[3], l)) = l
    BY <2>1, LevelOfRegion
  <2> QED BY <1>3, <2>2
<1>6. WellFormed(a)
  <2> SUFFICES ASSUME NEW l \in Levels PROVE Len(a.nuts[l]) = l
    BY <1>1, <1>2 DEF WellFormed
  <2>1. l = 3 \/ l \in 1..2
    BY DEF Levels
  <2> QED BY <1>4, <1>5, <2>1
<1> QED BY <1>1, <1>2, <1>3, <1>6 DEF a

LEMMA CapsAreCaps ==
  \A l \in Levels : Caps[l] \in 0..100
BY CapsAssumption DEF Levels

LEMMA CappedIsLess ==
  ASSUME NEW l \in Levels, NEW n \in Nat, NEW d \in Nat \ {0}, n <= d
  PROVE  /\ Round(n, d) \in 0..100
         /\ Capped(l, n, d) \in 0..100 /\ Capped(l, n, d) \in {Round(n, d), Caps[l]}
         /\ Capped(l, n, d) <= Round(n, d) /\ Capped(l, n, d) <= Caps[l]
<1> DEFINE r == Round(n, d)
           c == Caps[l]
<1>1. r \in 0..100 /\ c \in 0..100
  BY RoundBounds, CapsAreCaps
<1>2. Capped(l, n, d) = Min({r, c})
  BY DEF Capped
<1> HIDE DEF r, c
<1>3. r \in Int /\ c \in Int
  BY <1>1
<1>4. Min({r, c}) \in {r, c} /\ Min({r, c}) <= r /\ Min({r, c}) <= c
  BY <1>3, MinOfTwo
<1>5. Min({r, c}) \in 0..100
  BY <1>1, <1>4
<1> QED BY <1>1, <1>2, <1>4, <1>5 DEF r, c

LEMMA CappedMonotone ==
  ASSUME NEW l \in Levels, NEW m \in Levels, Caps[m] <= Caps[l],
         NEW j \in Nat, NEW n \in Nat, NEW d \in Nat \ {0}, j <= n, n <= d
  PROVE  Capped(m, j, d) <= Capped(l, n, d)
<1>1. j <= d
  OBVIOUS
<1>2. /\ Capped(m, j, d) \in 0..100 /\ Round(j, d) \in 0..100
      /\ Capped(m, j, d) <= Round(j, d) /\ Capped(m, j, d) <= Caps[m]
  BY <1>1, CappedIsLess
<1>3. Capped(l, n, d) \in {Round(n, d), Caps[l]} /\ Round(n, d) \in 0..100
  BY CappedIsLess
<1>4. Caps[l] \in 0..100 /\ Caps[m] \in 0..100
  BY CapsAreCaps
<1>5. Round(j, d) <= Round(n, d)
  BY RoundMonotone
<1>6. CASE Capped(l, n, d) = Round(n, d)
  BY <1>2, <1>3, <1>5, <1>6
<1>7. CASE Capped(l, n, d) = Caps[l]
  <2> DEFINE x == Capped(m, j, d)
             y == Caps[m]
             z == Caps[l]
  <2>1. x \in Int /\ y \in Int /\ z \in Int /\ x <= y
    BY <1>2, <1>4
  <2>2. y <= z
    OBVIOUS
  <2> HIDE DEF x, y, z
  <2>3. x <= z
    BY <2>1, <2>2
  <2> QED BY <1>7, <2>3 DEF x, z
<1> QED BY <1>3, <1>6, <1>7

LEMMA Shares ==
  ASSUME NEW votes, Ballot(votes), NEW n \in Nat \ {0}, NEW len \in Nat, n <= len, NEW l \in Levels
  PROVE  /\ Cardinality(DOMAIN votes) * len \in Nat \ {0}
         /\ Backing(votes, l) * n \in Nat
         /\ Backing(votes, l) * n <= Cardinality(DOMAIN votes) * len
<1> DEFINE c == Cardinality(DOMAIN votes)
           b == Backing(votes, l)
<1>1. c \in Nat \ {0} /\ b \in 0..c
  BY Whole, BackersCounted DEF Ballot
<1> HIDE DEF b, c
<1>2. b * n <= c * n /\ c * n <= c * len
  <2>1. PICK i \in Nat : c = b + i
    <3>1. c - b \in Nat /\ c = b + (c - b)
      BY <1>1
    <3> QED BY <3>1
  <2>2. PICK k \in Nat : len = n + k
    <3>1. len - n \in Nat /\ len = n + (len - n)
      OBVIOUS
    <3> QED BY <3>1
  <2>3. c * n = b * n + i * n /\ i * n \in Nat
    BY <1>1, <2>1
  <2>4. c * len = c * n + c * k /\ c * k \in Nat
    BY <1>1, <2>2
  <2> QED BY <1>1, <2>3, <2>4
<1>3. c * len \in Nat \ {0} /\ b * n \in Nat /\ c * n \in Nat
  BY <1>1
<1> QED BY <1>2, <1>3 DEF b, c

(* The vote of a ballot: each level names the region of a voter, at a       *)
(* confidence that falls with the level if the caps do, and a NUTS3 code at *)
(* more than one half lies in the other two.                                *)
Elected(votes) == [l \in Levels |-> Winner(VotesAt(votes, l))]
Support(votes, n, len) ==
  [l \in Levels |-> Capped(l, Backing(votes, l) * n, Cardinality(DOMAIN votes) * len)]

LEMMA SupportIsOrdered ==
  ASSUME NEW votes, Ballot(votes), NEW n \in Nat \ {0}, NEW len \in Nat, n <= len,
         NEW l \in Levels, NEW m \in Levels, l <= m, Caps[m] <= Caps[l]
  PROVE  Support(votes, n, len)[m] <= Support(votes, n, len)[l]
<1> DEFINE d == Cardinality(DOMAIN votes) * len
           bl == Backing(votes, l)
           bm == Backing(votes, m)
<1>1. d \in Nat \ {0} /\ bl * n \in Nat /\ bl * n <= d
  BY Shares
<1>2. bm * n \in Nat
  BY Shares
<1>3. bm <= bl /\ bm \in Nat /\ bl \in Nat
  BY BackingGrows, BackersCounted
<1>4. Support(votes, n, len)[m] = Capped(m, bm * n, d) /\ Support(votes, n, len)[l] = Capped(l, bl * n, d)
  BY DEF Support
<1> HIDE DEF d, bl, bm
<1>5. bm * n <= bl * n
  <2>1. PICK i \in Nat : bl = bm + i
    <3>1. bl - bm \in Nat /\ bl = bm + (bl - bm)
      BY <1>3
    <3> QED BY <3>1
  <2>2. bl * n = bm * n + i * n /\ i * n \in Nat
    BY <1>3, <2>1
  <2> QED BY <1>1, <1>2, <2>2
<1>6. Capped(m, bm * n, d) <= Capped(l, bl * n, d)
  BY <1>1, <1>2, <1>5, CappedMonotone
<1> QED BY <1>4, <1>6

LEMMA SupportBounds ==
  ASSUME NEW votes, Ballot(votes), NEW n \in Nat \ {0}, NEW len \in Nat, n <= len, NEW l \in Levels
  PROVE  /\ Support(votes, n, len)[l] \in 0..100
         /\ Support(votes, n, len)[l] > 50 => 2 * Backing(votes, l) > Cardinality(DOMAIN votes)
<1> DEFINE c == Cardinality(DOMAIN votes)
           b == Backing(votes, l)
           s == Support(votes, n, len)[l]
<1>1. c * len \in Nat \ {0} /\ b * n \in Nat /\ b * n <= c * len
  BY Shares
<1>2. c \in Nat \ {0} /\ b \in Nat
  BY Whole, BackersCounted DEF Ballot
<1>3. s = Capped(l, b * n, c * len)
  BY DEF Support
<1> HIDE DEF b, c, s
<1>4. s \in 0..100 /\ Round(b * n, c * len) \in 0..100 /\ s <= Round(b * n, c * len)
  BY <1>1, <1>3, CappedIsLess
<1>5. ASSUME s > 50 PROVE 2 * b > c
  <2>1. Round(b * n, c * len) > 50
    BY <1>4, <1>5
  <2>2. 2 * (b * n) > c * len
    BY <1>1, <2>1, RoundMajority
  <2>3. SUFFICES ASSUME 2 * b <= c PROVE FALSE
    BY <1>2
  <2>4. PICK i \in Nat : c = 2 * b + i
    <3>1. c - 2 * b \in Nat /\ c = 2 * b + (c - 2 * b)
      BY <1>2, <2>3
    <3> QED BY <3>1
  <2>5. PICK k \in Nat : len = n + k
    <3>1. len - n \in Nat /\ len = n + (len - n)
      OBVIOUS
    <3> QED BY <3>1
  <2>6. c * len = c * n + c * k /\ c * k \in Nat
    BY <1>2, <2>5
  <2>7. c * n = 2 * (b * n) + i * n /\ i * n \in Nat
    BY <1>2, <2>4
  <2>8. c * n \in Nat
    BY <1>2
  <2> QED BY <1>1, <2>2, <2>6, <2>7, <2>8
<1> QED BY <1>4, <1>5 DEF b, c, s

LEMMA VoteElects ==
  ASSUME NEW votes, Ballot(votes), NEW n \in Nat \ {0}, NEW len \in Nat, n <= len
  PROVE  \/ Vote(votes, n, len) = None
         \/ /\ Vote(votes, n, len).match = "approximate"
            /\ WellFormed(Vote(votes, n, len))
            /\ Nested(Vote(votes, n, len))
            /\ CapsOrdered => Ordered(Vote(votes, n, len))
            /\ \A l \in Levels : \E i \in DOMAIN votes :
                 Vote(votes, n, len).nuts[l] = Level(votes[i], l)
<1> DEFINE w == Elected(votes)
           s == Support(votes, n, len)
           a == Result("approximate", w, s)
<1>1. Vote(votes, n, len) = None \/ Vote(votes, n, len) = a
  <2>1. [l \in Levels |-> Capped(l, Occurrences(w[l], VotesAt(votes, l)) * n,
                                 Cardinality(DOMAIN votes) * len)] = s
    BY DEF Elected, Support, Backing
  <2>2. Vote(votes, n, len) = IF s[1] < MinConfidence THEN None ELSE a
    BY <2>1, Zenon DEF Vote, Elected
  <2> QED BY <2>2
<1>2. \A l \in Levels : w[l] = Winner(VotesAt(votes, l)) /\ \E i \in DOMAIN votes : w[l] = Level(votes[i], l)
  BY LevelWinner DEF Elected
<1>3. \A i \in DOMAIN votes : votes[i] \in Regions
  BY DEF Ballot
<1>4. \A l \in Levels : Len(w[l]) = l
  BY <1>2, <1>3, LevelOfRegion
<1>5. w[3] \in Regions
  <2>1. 3 \in Levels
    BY DEF Levels
  <2>2. PICK i \in DOMAIN votes : w[3] = Level(votes[i], 3)
    BY <1>2, <2>1
  <2> QED BY <1>3, <2>1, <2>2, LevelOfRegion
<1>6. \A l \in Levels : s[l] \in 0..100 /\ (s[l] > 50 => 2 * Backing(votes, l) > Cardinality(DOMAIN votes))
  BY SupportBounds
<1>7. CapsOrdered => s[1] >= s[2] /\ s[2] >= s[3]
  <2> SUFFICES ASSUME CapsOrdered PROVE s[2] <= s[1] /\ s[3] <= s[2]
    BY <1>6 DEF Levels
  <2>1. Caps[2] <= Caps[1] /\ Caps[3] <= Caps[2] /\ 1 \in Levels /\ 2 \in Levels /\ 3 \in Levels
    BY CapsAreCaps DEF CapsOrdered, Levels
  <2>2. s[2] <= s[1]
    BY <2>1, SupportIsOrdered
  <2>3. s[3] <= s[2]
    BY <2>1, SupportIsOrdered
  <2> QED BY <2>2, <2>3
<1>8. \A l \in 1..2 : s[3] > 50 => w[l] = Level(w[3], l)
  <2> SUFFICES ASSUME NEW l \in 1..2, s[3] > 50 PROVE w[l] = Level(w[3], l)
    OBVIOUS
  <2>1. l \in Levels /\ 3 \in Levels
    BY DEF Levels
  <2>2. Winner(VotesAt(votes, l)) = Level(Winner(VotesAt(votes, 3)), l)
    BY <1>6, <2>1, MajorityNests
  <2> QED BY <1>2, <2>1, <2>2
<1> HIDE DEF w, s
<1>9. /\ a.match = "approximate" /\ a.confidence = s /\ a.nuts[3] = w[3]
      /\ \A l \in 1..2 : a.nuts[l] = IF w[l] = <<>> THEN Level(w[3], l) ELSE w[l]
      /\ WellFormed(a)
  <2>0. 1..2 \subseteq Levels
    BY DEF Levels
  <2>1. \A l \in 1..2 : w[l] = <<>> \/ Len(w[l]) = l
    BY <1>4, <2>0
  <2>2. \A l \in Levels : s[l] \in 0..100
    BY <1>6
  <2> QED BY <1>5, <2>1, <2>2, ResultFields
<1>10. \A l \in Levels : a.nuts[l] = w[l]
  <2>1. ASSUME NEW l \in 1..2 PROVE w[l] # <<>>
    <3>1. l \in Levels /\ l # 0
      BY <2>1 DEF Levels
    <3>2. Len(w[l]) = l /\ Len(<<>>) = 0
      BY <1>4, <3>1
    <3> QED BY <3>1, <3>2
  <2>2. \A l \in Levels : l = 3 \/ l \in 1..2
    BY DEF Levels
  <2> QED BY <1>9, <2>1, <2>2
<1> HIDE DEF a
<1>11. Nested(a)
  BY <1>8, <1>9, <1>10 DEF Nested, Levels
<1>12. CapsOrdered => Ordered(a)
  BY <1>7, <1>9 DEF Ordered
<1>13. \A l \in Levels : \E i \in DOMAIN votes : a.nuts[l] = Level(votes[i], l)
  BY <1>2, <1>10
<1> QED BY <1>1, <1>9, <1>11, <1>12, <1>13

-----------------------------------------------------------------------------
(* The tables built from the rows. *)
LEMMA TableRows ==
  ASSUME NEW table \in Seq(Row)
  PROVE  /\ DOMAIN table \in SUBSET Nat /\ IsFiniteSet(DOMAIN table)
         /\ \A i \in DOMAIN table : /\ table[i] \in Row /\ table[i].cc \in FileCountries
                                   /\ table[i].pc \in Codes /\ table[i].nuts3 \in Regions
<1>1. DOMAIN table = 1..Len(table) /\ Len(table) \in Nat
  OBVIOUS
<1>2. IsFiniteSet(1..Len(table))
  BY <1>1, FS_Interval
<1>3. \A i \in DOMAIN table : table[i] \in Row
  OBVIOUS
<1> QED BY <1>1, <1>2, <1>3 DEF Row

LEMMA RowsBallot ==
  ASSUME NEW table \in Seq(Row), NEW rows \in (SUBSET DOMAIN table) \ {{}}
  PROVE  Ballot(Nuts3Of(table, rows)) /\ DOMAIN Nuts3Of(table, rows) = rows
<1>1. DOMAIN Nuts3Of(table, rows) = rows /\ \A i \in rows : Nuts3Of(table, rows)[i] = table[i].nuts3
  BY DEF Nuts3Of
<1>2. IsFiniteSet(rows)
  BY TableRows, FS_Subset
<1>3. rows \in (SUBSET Nat) \ {{}}
  BY TableRows
<1>4. \A i \in rows : table[i].nuts3 \in Regions
  BY TableRows
<1> QED BY <1>1, <1>2, <1>3, <1>4 DEF Ballot, Tally

LEMMA CountryKnown ==
  ASSUME NEW table \in Seq(Row), NEW cc
  PROVE  /\ CountryRows(table, cc) \in SUBSET DOMAIN table
         /\ cc \in CountriesOf(table) <=> CountryRows(table, cc) # {}
BY DEF CountryRows, CountriesOf

(* The regions of a country at a level are the levels of its rows', and     *)
(* when there is one of them every row has it.                              *)
LEMMA RegionsOfRows ==
  ASSUME NEW table \in Seq(Row), NEW cc, NEW l \in Levels
  PROVE  /\ \A i \in CountryRows(table, cc) : Level(table[i].nuts3, l) \in RegionsAt(table, cc, l)
         /\ \A r \in RegionsAt(table, cc, l) : \E i \in CountryRows(table, cc) : r = Level(table[i].nuts3, l)
         /\ cc \in CountriesOf(table) =>
              (CHOOSE r \in RegionsAt(table, cc, l) : TRUE) \in RegionsAt(table, cc, l)
<1>1. cc \in CountriesOf(table) => RegionsAt(table, cc, l) # {}
  BY CountryKnown DEF RegionsAt
<1> QED BY <1>1 DEF RegionsAt

LEMMA FiniteRegions ==
  ASSUME NEW table \in Seq(Row), NEW cc, NEW l \in Levels
  PROVE  IsFiniteSet(RegionsAt(table, cc, l))
<1> DEFINE rows == CountryRows(table, cc)
           f == [i \in rows |-> Level(table[i].nuts3, l)]
<1>1. f \in Surjection(rows, RegionsAt(table, cc, l))
  BY DEF Surjection, RegionsAt
<1>2. rows \in SUBSET DOMAIN table /\ IsFiniteSet(DOMAIN table)
  BY TableRows, CountryKnown
<1>3. IsFiniteSet(rows)
  BY <1>2, FS_Subset
<1> HIDE DEF f, rows
<1> QED BY <1>1, <1>3, FS_Surjection

LEMMA SoleRegionOfRows ==
  ASSUME NEW table \in Seq(Row), NEW cc, NEW l \in Levels, Cardinality(RegionsAt(table, cc, l)) = 1
  PROVE  \A i \in CountryRows(table, cc) :
           Level(table[i].nuts3, l) = CHOOSE r \in RegionsAt(table, cc, l) : TRUE
<1>1. PICK x : RegionsAt(table, cc, l) = {x}
  BY FiniteRegions, FS_Singleton
<1>2. (CHOOSE r \in RegionsAt(table, cc, l) : TRUE) = x
  BY <1>1
<1> QED BY <1>1, <1>2, RegionsOfRows

(* _prefix_index: an entry of a country is what its rows with that prefix *)
(* vote.                                                                  *)
WithPrefix(table, cc, p) == {i \in CountryRows(table, cc) : p \in IndexedPrefixes(table[i].pc)}

LEMMA IndexEntries ==
  ASSUME NEW table \in Seq(Row)
  PROVE  /\ DOMAIN PrefixIndex(table) = CountriesOf(table)
         /\ \A cc \in CountriesOf(table) :
              /\ \A p : p \in DOMAIN PrefixIndex(table)[cc] <=> WithPrefix(table, cc, p) # {}
              /\ \A p \in DOMAIN PrefixIndex(table)[cc] :
                   /\ PrefixIndex(table)[cc][p] = Nuts3Of(table, WithPrefix(table, cc, p))
                   /\ WithPrefix(table, cc, p) \in (SUBSET DOMAIN table) \ {{}}
<1>1. DOMAIN PrefixIndex(table) = CountriesOf(table)
  BY DEF PrefixIndex
<1>2. ASSUME NEW cc \in CountriesOf(table)
      PROVE  PrefixIndex(table)[cc] =
               [p \in UNION {IndexedPrefixes(table[i].pc) : i \in CountryRows(table, cc)} |->
                  Nuts3Of(table, WithPrefix(table, cc, p))]
  BY <1>2 DEF PrefixIndex, WithPrefix
<1>3. \A cc, p : (p \in UNION {IndexedPrefixes(table[i].pc) : i \in CountryRows(table, cc)})
                 <=> WithPrefix(table, cc, p) # {}
  BY DEF WithPrefix
<1>4. \A cc, p : WithPrefix(table, cc, p) \in SUBSET DOMAIN table
  BY DEF WithPrefix, CountryRows
<1>5. ASSUME NEW cc \in CountriesOf(table), NEW p
      PROVE  p \in DOMAIN PrefixIndex(table)[cc] <=> WithPrefix(table, cc, p) # {}
  BY <1>2, <1>3, <1>5
<1>6. ASSUME NEW cc \in CountriesOf(table), NEW p \in DOMAIN PrefixIndex(table)[cc]
      PROVE  PrefixIndex(table)[cc][p] = Nuts3Of(table, WithPrefix(table, cc, p))
  BY <1>2, <1>6
<1> QED BY <1>1, <1>4, <1>5, <1>6

(* _single_nuts3 and _country_fallback. *)
Detected(table) == {cc \in CountriesOf(table) : Cardinality(RegionsAt(table, cc, 3)) = 1}

LEMMA SinglesOf ==
  ASSUME NEW table \in Seq(Row)
  PROVE  /\ DOMAIN SingleNuts3(table) = Detected(table) \cup DOMAIN Pinned
         /\ \A cc \in Detected(table) : SingleNuts3(table)[cc] \in RegionsAt(table, cc, 3)
         /\ \A cc \in DOMAIN SingleNuts3(table) : SingleNuts3(table)[cc] \in Regions
<1>1. SingleNuts3(table) = [cc \in Detected(table) \cup DOMAIN Pinned |->
         IF cc \in Detected(table) THEN CHOOSE r \in RegionsAt(table, cc, 3) : TRUE ELSE Pinned[cc]]
  BY Zenon DEF SingleNuts3, Detected
<1>2. 3 \in Levels
  BY DEF Levels
<1>3. ASSUME NEW cc \in Detected(table) PROVE SingleNuts3(table)[cc] \in RegionsAt(table, cc, 3)
  <2>1. cc \in CountriesOf(table)
    BY <1>3 DEF Detected
  <2>2. (CHOOSE r \in RegionsAt(table, cc, 3) : TRUE) \in RegionsAt(table, cc, 3)
    BY <1>2, <2>1, RegionsOfRows
  <2> QED BY <1>1, <1>3, <2>2
<1>4. \A cc, r : r \in RegionsAt(table, cc, 3) => r \in Regions
  <2> SUFFICES ASSUME NEW cc, NEW i \in CountryRows(table, cc)
               PROVE  Level(table[i].nuts3, 3) \in Regions
    BY DEF RegionsAt
  <2>1. table[i].nuts3 \in Regions
    BY TableRows DEF CountryRows
  <2> QED BY <1>2, <2>1, LevelOfRegion
<1>5. \A cc \in DOMAIN Pinned : Pinned[cc] \in Regions
  BY PinnedAssumption
<1>6. \A cc \in DOMAIN SingleNuts3(table) : SingleNuts3(table)[cc] \in Regions
  <2> SUFFICES ASSUME NEW cc \in DOMAIN SingleNuts3(table) PROVE SingleNuts3(table)[cc] \in Regions
    OBVIOUS
  <2>1. CASE cc \in Detected(table)
    BY <1>3, <1>4, <2>1
  <2>2. CASE cc \notin Detected(table)
    BY <1>1, <1>5, <2>2
  <2> QED BY <2>1, <2>2
<1> QED BY <1>1, <1>3, <1>6

(* Every entry of _country_fallback names the one NUTS2 region of its       *)
(* country, and a NUTS3 region in it.                                       *)
LEMMA FallbacksOf ==
  ASSUME NEW table \in Seq(Row)
  PROVE  /\ DOMAIN CountryFallback(table) =
              {cc \in CountriesOf(table) \ DOMAIN SingleNuts3(table) : Unanimous(table, cc)}
         /\ \A cc \in DOMAIN CountryFallback(table) :
              /\ CountryFallback(table)[cc].match = "approximate"
              /\ WellFormed(CountryFallback(table)[cc])
              /\ Ordered(CountryFallback(table)[cc])
              /\ Nested(CountryFallback(table)[cc])
              /\ \A l \in 1..2 : CountryFallback(table)[cc].nuts[l] \in RegionsAt(table, cc, l)
<1>1. DOMAIN CountryFallback(table) =
        {cc \in CountriesOf(table) \ DOMAIN SingleNuts3(table) : Unanimous(table, cc)}
  BY DEF CountryFallback
<1>2. ASSUME NEW cc \in DOMAIN CountryFallback(table)
      PROVE  /\ CountryFallback(table)[cc].match = "approximate"
             /\ WellFormed(CountryFallback(table)[cc])
             /\ Ordered(CountryFallback(table)[cc])
             /\ Nested(CountryFallback(table)[cc])
             /\ \A l \in 1..2 : CountryFallback(table)[cc].nuts[l] \in RegionsAt(table, cc, l)
  <2> DEFINE rows == CountryRows(table, cc)
             votes == Nuts3Of(table, rows)
             winner == Winner(votes)
             share == Capped(3, Occurrences(winner, votes), Cardinality(DOMAIN votes))
             sole(l) == CHOOSE r \in RegionsAt(table, cc, l) : TRUE
             nuts == [l \in Levels |-> IF l = 3 THEN winner ELSE sole(l)]
             a == Result("approximate", nuts, <<100, 100, share>>)
  <2>0. 1..2 \subseteq Levels /\ 3 \in Levels
    BY DEF Levels
  <2>1. cc \in CountriesOf(table) /\ \A l \in 1..2 : Cardinality(RegionsAt(table, cc, l)) = 1
    BY <1>1, <1>2 DEF Unanimous
  <2>2. CountryFallback(table)[cc] = a
    BY <1>1, <1>2 DEF CountryFallback
  <2>3. Ballot(votes) /\ DOMAIN votes = rows /\ rows # {}
    <3>1. rows \in (SUBSET DOMAIN table) \ {{}}
      BY <2>1, CountryKnown
    <3> HIDE DEF rows
    <3> QED BY <3>1, RowsBallot
  <2>4. PICK k \in rows : winner = table[k].nuts3
    <3>1. \A i \in rows : votes[i] = table[i].nuts3
      BY DEF Nuts3Of
    <3>2. PICK i \in DOMAIN votes : winner = votes[i]
      BY <2>3, WinnerHasMost DEF Ballot
    <3> QED BY <2>3, <3>1, <3>2
  <2>5. table[k].nuts3 \in Regions
    BY <2>4, TableRows DEF CountryRows
  <2>6. \A l \in 1..2 : sole(l) = Level(winner, l) /\ sole(l) \in RegionsAt(table, cc, l)
    BY <2>0, <2>1, <2>4, SoleRegionOfRows, RegionsOfRows
  <2>7. share \in 0..100
    <3> DEFINE d == Cardinality(DOMAIN votes)
               n == Occurrences(winner, votes)
    <3>1. d \in Nat \ {0}
      BY <2>3, Whole DEF Ballot
    <3>2. n \in 0..d
      BY <2>3, Counted DEF Ballot, Tally
    <3> HIDE DEF d, n
    <3>3. n \in Nat /\ n <= d
      BY <3>1, <3>2
    <3>4. Capped(3, n, d) \in 0..100
      BY <2>0, <3>1, <3>3, CappedIsLess
    <3> QED BY <3>4 DEF d, n
  <2> HIDE DEF share, sole, winner, votes, rows
  <2>8. nuts[3] = winner /\ \A l \in 1..2 : nuts[l] = sole(l) /\ l # 3
    BY DEF Levels
  <2>9. \A l \in 1..2 : Len(nuts[l]) = l /\ nuts[l] # <<>>
    <3> SUFFICES ASSUME NEW l \in 1..2 PROVE Len(nuts[l]) = l /\ nuts[l] # <<>>
      OBVIOUS
    <3>1. Len(Level(winner, l)) = l /\ l # 0
      BY <2>0, <2>4, <2>5, LevelOfRegion
    <3>2. Len(<<>>) = 0
      OBVIOUS
    <3> QED BY <2>6, <2>8, <3>1, <3>2
  <2>10. \A l \in Levels : <<100, 100, share>>[l] \in 0..100
    <3> DEFINE c == <<100, 100, share>>
    <3>1. \A l \in Levels : l = 1 \/ l = 2 \/ l = 3
      BY DEF Levels
    <3>2. c[1] \in 0..100 /\ c[2] \in 0..100 /\ c[3] \in 0..100
      BY <2>7
    <3> HIDE DEF c
    <3>3. \A l \in Levels : c[l] \in 0..100
      BY <3>1, <3>2
    <3> QED BY <3>3 DEF c
  <2>11. nuts[3] \in Regions
    BY <2>4, <2>5, <2>8
  <2>12. /\ a.match = "approximate" /\ a.confidence = <<100, 100, share>> /\ a.nuts[3] = nuts[3]
         /\ \A l \in 1..2 : a.nuts[l] = IF nuts[l] = <<>> THEN Level(nuts[3], l) ELSE nuts[l]
         /\ WellFormed(a)
    <3> DEFINE c == <<100, 100, share>>
    <3>1. \A l \in Levels : c[l] \in 0..100
      BY <2>10
    <3> HIDE DEF nuts, c
    <3>2. \A l \in 1..2 : nuts[l] = <<>> \/ Len(nuts[l]) = l
      BY <2>9
    <3>3. /\ Result("approximate", nuts, c).match = "approximate"
          /\ Result("approximate", nuts, c).confidence = c
          /\ Result("approximate", nuts, c).nuts[3] = nuts[3]
          /\ \A l \in 1..2 : Result("approximate", nuts, c).nuts[l] =
               IF nuts[l] = <<>> THEN Level(nuts[3], l) ELSE nuts[l]
          /\ WellFormed(Result("approximate", nuts, c))
      BY <2>11, <3>1, <3>2, ResultFields
    <3> QED BY <3>3 DEF c
  <2> HIDE DEF nuts, a
  <2>13. \A l \in 1..2 : a.nuts[l] = Level(a.nuts[3], l) /\ a.nuts[l] \in RegionsAt(table, cc, l)
    BY <2>6, <2>8, <2>9, <2>12
  <2>14. Nested(a)
    BY <2>13 DEF Nested
  <2>15. Ordered(a)
    BY <2>7, <2>12 DEF Ordered
  <2> QED BY <2>2, <2>12, <2>13, <2>14, <2>15
<1> QED BY <1>1, <1>2

-----------------------------------------------------------------------------
(* The tiers of an answer.  What the estimates file says is taken as it is: *)
(* its own confidences have to be in order, and its codes may not nest.     *)
EstimatesOrdered == \A e \in Estimates :
  e.confidence[1] >= e.confidence[2] /\ e.confidence[2] >= e.confidence[3]

Sound(a) == /\ WellFormed(a)
            /\ CapsOrdered /\ EstimatesOrdered => Ordered(a)

LEMMA LevelsSplit ==
  1..2 \subseteq Levels /\ 3 \in Levels /\ \A l \in Levels : l = 3 \/ l \in 1..2
BY DEF Levels

LEMMA CertainAnswer ==
  ASSUME NEW r \in Regions, NEW match \in {"exact", "estimated"}
  PROVE  /\ Result(match, <<<<>>, <<>>, r>>, Certain).match = match
         /\ Sound(Result(match, <<<<>>, <<>>, r>>, Certain))
         /\ Nested(Result(match, <<<<>>, <<>>, r>>, Certain))
         /\ \A l \in 1..2 : Result(match, <<<<>>, <<>>, r>>, Certain).nuts[l] = Level(r, l)
<1> DEFINE nuts == <<<<>>, <<>>, r>>
           a == Result(match, nuts, Certain)
<1>1. nuts[3] = r /\ \A l \in 1..2 : nuts[l] = <<>>
  OBVIOUS
<1>2. \A l \in Levels : Certain[l] = 100
  BY DEF Certain
<1> HIDE DEF nuts
<1>3. \A l \in Levels : Certain[l] \in 0..100
  BY <1>2
<1>4. nuts[3] \in Regions /\ \A l \in 1..2 : nuts[l] = <<>> \/ Len(nuts[l]) = l
  BY <1>1
<1>5. /\ a.match = match /\ a.confidence = Certain /\ a.nuts[3] = nuts[3]
      /\ \A l \in 1..2 : a.nuts[l] = IF nuts[l] = <<>> THEN Level(nuts[3], l) ELSE nuts[l]
      /\ WellFormed(a)
  BY <1>3, <1>4, ResultFields
<1> HIDE DEF a
<1>6. \A l \in 1..2 : a.nuts[l] = Level(r, l) /\ a.nuts[l] = Level(a.nuts[3], l)
  BY <1>1, <1>5
<1>7. Ordered(a)
  BY <1>2, <1>5 DEF Ordered, Levels
<1>8. Nested(a)
  BY <1>6 DEF Nested
<1> QED BY <1>5, <1>6, <1>7, <1>8 DEF Sound, a, nuts

LEMMA EstimateAnswer ==
  ASSUME NEW e \in Estimates
  PROVE  /\ Result("estimated", e.nuts, e.confidence).match = "estimated"
         /\ Sound(Result("estimated", e.nuts, e.confidence))
<1> DEFINE nuts == e.nuts
           c == e.confidence
           a == Result("estimated", nuts, c)
<1>1. nuts[3] \in Regions /\ \A l \in 1..2 : nuts[l] = <<>> \/ Len(nuts[l]) = l
  BY EstimatesAssumption
<1>2. \A l \in Levels : c[l] \in 0..100
  <2>1. c \in [1..3 -> 0..100]
    BY EstimatesAssumption
  <2> QED BY <2>1 DEF Levels
<1>3. EstimatesOrdered => c[1] >= c[2] /\ c[2] >= c[3]
  BY DEF EstimatesOrdered
<1> HIDE DEF nuts, c
<1>4. /\ a.match = "estimated" /\ a.confidence = c /\ a.nuts[3] = nuts[3]
      /\ \A l \in 1..2 : a.nuts[l] = IF nuts[l] = <<>> THEN Level(nuts[3], l) ELSE nuts[l]
      /\ WellFormed(a)
  BY <1>1, <1>2, ResultFields
<1> HIDE DEF a
<1>5. EstimatesOrdered => Ordered(a)
  BY <1>3, <1>4 DEF Ordered
<1> QED BY <1>4, <1>5 DEF Sound, a, nuts, c

(* What the tables are while the worker serves. *)
Built == /\ prefix_index = PrefixIndex(lookup)
         /\ single_nuts3 = SingleNuts3(lookup)
         /\ country_fallback = CountryFallback(lookup)

EstimatesOK == \A key \in DOMAIN estimates :
                 key \in FileCountries \X Codes /\ estimates[key] \in Estimates

LEMMA PrefixAnswer ==
  ASSUME lookup \in Seq(Row), Built, NEW cc, NEW pc \in Queries
  PROVE  \/ ByPrefix(cc, pc) = None
         \/ /\ ByPrefix(cc, pc).match = "approximate"
            /\ Sound(ByPrefix(cc, pc)) /\ Nested(ByPrefix(cc, pc))
            /\ \A l \in Levels : \E i \in CountryRows(lookup, cc) :
                 ByPrefix(cc, pc).nuts[l] = Level(lookup[i].nuts3, l)
<1> DEFINE idx == prefix_index[cc]
           lengths == {n \in 1..Len(pc) : SubSeq(pc, 1, n) \in DOMAIN idx}
           n == Max(lengths)
           p == SubSeq(pc, 1, n)
           rows == WithPrefix(lookup, cc, p)
<1>1. SUFFICES ASSUME ByPrefix(cc, pc) # None
               PROVE  /\ ByPrefix(cc, pc).match = "approximate"
                      /\ Sound(ByPrefix(cc, pc)) /\ Nested(ByPrefix(cc, pc))
                      /\ \A l \in Levels : \E i \in CountryRows(lookup, cc) :
                           ByPrefix(cc, pc).nuts[l] = Level(lookup[i].nuts3, l)
  OBVIOUS
<1>2. /\ cc \in DOMAIN prefix_index /\ lengths # {}
      /\ ByPrefix(cc, pc) = Vote(idx[p], n, Len(pc))
  BY <1>1, Zenon DEF ByPrefix
<1>3. Len(pc) \in Nat
  BY CodesAssumption
<1>4. n \in lengths
  <2>1. lengths \in SUBSET Nat /\ \A x \in lengths : x <= Len(pc)
    BY <1>3
  <2> HIDE DEF lengths
  <2> QED BY <1>2, <1>3, <2>1, MaxIsGreatest
<1>5. n \in Nat \ {0} /\ n <= Len(pc) /\ p \in DOMAIN idx
  BY <1>3, <1>4
<1> HIDE DEF n, lengths
<1>6. cc \in CountriesOf(lookup)
  BY <1>2, IndexEntries DEF Built
<1>7. idx[p] = Nuts3Of(lookup, rows) /\ rows \in (SUBSET DOMAIN lookup) \ {{}}
  BY <1>5, <1>6, IndexEntries DEF Built
<1>8. rows \in SUBSET CountryRows(lookup, cc)
  BY DEF WithPrefix
<1> HIDE DEF rows, p, idx
<1>9. Ballot(idx[p]) /\ DOMAIN idx[p] = rows
  BY <1>7, RowsBallot
<1>10. \A i \in rows : idx[p][i] = lookup[i].nuts3
  BY <1>7 DEF Nuts3Of
<1> DEFINE a == Vote(idx[p], n, Len(pc))
<1>11. /\ a.match = "approximate" /\ WellFormed(a) /\ Nested(a) /\ (CapsOrdered => Ordered(a))
       /\ \A l \in Levels : \E i \in DOMAIN idx[p] : a.nuts[l] = Level(idx[p][i], l)
  BY <1>1, <1>2, <1>3, <1>5, <1>9, VoteElects
<1> HIDE DEF a
<1>12. \A l \in Levels : \E i \in CountryRows(lookup, cc) : a.nuts[l] = Level(lookup[i].nuts3, l)
  BY <1>8, <1>9, <1>10, <1>11
<1> QED BY <1>2, <1>11, <1>12 DEF Sound, a

LEMMA CountryAnswer ==
  ASSUME lookup \in Seq(Row), Built, NEW cc
  PROVE  /\ \/ ByCountry(cc) = None
            \/ /\ ByCountry(cc).match \in {"approximate", "estimated"}
               /\ Sound(ByCountry(cc)) /\ Nested(ByCountry(cc))
         /\ cc \in CountriesOf(lookup) /\ Unanimous(lookup, cc) =>
              /\ ByCountry(cc) # None
              /\ cc \notin DOMAIN Pinned =>
                   \A l \in 1..2 : ByCountry(cc).nuts[l] \in RegionsAt(lookup, cc, l)
<1>1. CASE cc \in DOMAIN country_fallback
  <2>1. ByCountry(cc) = CountryFallback(lookup)[cc] /\ cc \in DOMAIN CountryFallback(lookup)
    BY <1>1 DEF ByCountry, Built
  <2>2. /\ ByCountry(cc).match = "approximate" /\ WellFormed(ByCountry(cc))
        /\ Ordered(ByCountry(cc)) /\ Nested(ByCountry(cc))
        /\ \A l \in 1..2 : ByCountry(cc).nuts[l] \in RegionsAt(lookup, cc, l)
    BY <2>1, FallbacksOf
  <2>3. ByCountry(cc) # None
    BY <2>2 DEF None
  <2> QED BY <2>2, <2>3 DEF Sound
<1>2. CASE cc \notin DOMAIN country_fallback /\ cc \in DOMAIN single_nuts3
  <2> DEFINE r == single_nuts3[cc]
             a == Result("estimated", <<<<>>, <<>>, r>>, Certain)
  <2>1. ByCountry(cc) = a
    BY <1>2 DEF ByCountry
  <2>2. r \in Regions
    BY <1>2, SinglesOf DEF Built
  <2>3. cc \notin DOMAIN Pinned => \A l \in 1..2 : Level(r, l) \in RegionsAt(lookup, cc, l)
    <3> SUFFICES ASSUME cc \notin DOMAIN Pinned, NEW l \in 1..2
                 PROVE  Level(r, l) \in RegionsAt(lookup, cc, l)
      OBVIOUS
    <3>1. r \in RegionsAt(lookup, cc, 3)
      BY <1>2, SinglesOf DEF Built
    <3>2. PICK i \in CountryRows(lookup, cc) : r = Level(lookup[i].nuts3, 3)
      BY <3>1, LevelsSplit, RegionsOfRows
    <3>3. lookup[i].nuts3 \in Regions
      BY TableRows DEF CountryRows
    <3>4. r = lookup[i].nuts3
      BY <3>2, <3>3, LevelsSplit, LevelOfRegion
    <3> QED BY <3>4, LevelsSplit, RegionsOfRows
  <2> HIDE DEF r
  <2>4. /\ a.match = "estimated" /\ Sound(a) /\ Nested(a) /\ \A l \in 1..2 : a.nuts[l] = Level(r, l)
    BY <2>2, CertainAnswer
  <2> HIDE DEF a
  <2>5. a # None
    BY <2>4 DEF None
  <2> QED BY <2>1, <2>3, <2>4, <2>5
<1>3. CASE cc \notin DOMAIN country_fallback /\ cc \notin DOMAIN single_nuts3
  <2>1. ByCountry(cc) = None
    BY <1>3 DEF ByCountry
  <2>2. ~(cc \in CountriesOf(lookup) /\ Unanimous(lookup, cc))
    BY <1>3, FallbacksOf DEF Built
  <2> QED BY <2>1, <2>2
<1> QED BY <1>1, <1>2, <1>3

LEMMA AnswerHolds ==
  ASSUME lookup \in Seq(Row), Built, EstimatesOK, NEW country, NEW pc \in Queries,
         NEW cc, cc = NormalizeCountry(country)
  PROVE  /\ \/ Answer(country, pc) = None
            \/ /\ Given(Answer(country, pc)) /\ Sound(Answer(country, pc))
               /\ <<cc, pc>> \notin DOMAIN estimates => Nested(Answer(country, pc))
         /\ cc \in CountriesOf(lookup) /\ Unanimous(lookup, cc) =>
              /\ Answer(country, pc) # None
              /\ <<cc, pc>> \notin DOMAIN estimates /\ cc \notin DOMAIN Pinned =>
                   \A l \in 1..2 : Answer(country, pc).nuts[l] \in RegionsAt(lookup, cc, l)
<1> DEFINE exact == {i \in DOMAIN lookup : Key(lookup[i]) = <<cc, pc>>}
           a == Answer(country, pc)
<1>1. a = IF exact # {}
          THEN Result("exact", <<<<>>, <<>>, lookup[CHOOSE i \in exact : TRUE].nuts3>>, Certain)
          ELSE IF <<cc, pc>> \in DOMAIN estimates
          THEN Result("estimated", estimates[<<cc, pc>>].nuts, estimates[<<cc, pc>>].confidence)
          ELSE IF ByPrefix(cc, pc) # None THEN ByPrefix(cc, pc) ELSE ByCountry(cc)
  BY DEF Answer
<1> HIDE DEF a
<1>2. CASE exact # {}
  <2> DEFINE i == CHOOSE j \in exact : TRUE
             r == lookup[i].nuts3
  <2>1. i \in exact
    BY <1>2
  <2> HIDE DEF i
  <2>2. i \in CountryRows(lookup, cc) /\ r \in Regions
    BY <2>1, TableRows DEF CountryRows, Key
  <2>3. \A l \in 1..2 : Level(r, l) \in RegionsAt(lookup, cc, l)
    BY <2>2, LevelsSplit, RegionsOfRows
  <2>4. a = Result("exact", <<<<>>, <<>>, r>>, Certain)
    BY <1>1, <1>2 DEF i
  <2> HIDE DEF r
  <2>5. a.match = "exact" /\ Sound(a) /\ Nested(a) /\ \A l \in 1..2 : a.nuts[l] = Level(r, l)
    BY <2>2, <2>4, CertainAnswer
  <2>6. a # None
    BY <2>5 DEF None
  <2> QED BY <2>3, <2>5, <2>6 DEF Given, a
<1>3. CASE exact = {} /\ <<cc, pc>> \in DOMAIN estimates
  <2> DEFINE e == estimates[<<cc, pc>>]
  <2>1. e \in Estimates
    BY <1>3 DEF EstimatesOK
  <2>2. a = Result("estimated", e.nuts, e.confidence)
    BY <1>1, <1>3
  <2> HIDE DEF e
  <2>3. a.match = "estimated" /\ Sound(a)
    BY <2>1, <2>2, EstimateAnswer
  <2>4. a # None
    BY <2>3 DEF None
  <2> QED BY <1>3, <2>3, <2>4 DEF Given, a
<1>4. CASE exact = {} /\ <<cc, pc>> \notin DOMAIN estimates /\ ByPrefix(cc, pc) # None
  <2>1. a = ByPrefix(cc, pc)
    BY <1>1, <1>4
  <2>2. /\ a.match = "approximate" /\ Sound(a) /\ Nested(a)
        /\ \A l \in Levels : \E i \in CountryRows(lookup, cc) : a.nuts[l] = Level(lookup[i].nuts3, l)
    BY <1>4, <2>1, PrefixAnswer
  <2>3. \A l \in 1..2 : a.nuts[l] \in RegionsAt(lookup, cc, l)
    BY <2>2, LevelsSplit, RegionsOfRows
  <2> QED BY <1>4, <2>1, <2>2, <2>3 DEF Given, a
<1>5. CASE exact = {} /\ <<cc, pc>> \notin DOMAIN estimates /\ ByPrefix(cc, pc) = None
  <2>1. a = ByCountry(cc)
    BY <1>1, <1>5
  <2> QED BY <2>1, CountryAnswer DEF Given, a
<1> QED BY <1>2, <1>3, <1>4, <1>5

-----------------------------------------------------------------------------
(* The invariant: the rows are well typed, one for each key; the tables are *)
(* those of the rows while the worker serves, and what was answered last is *)
(* what they answer.                                                        *)
RowsOK == /\ lookup \in Seq(Row)
          /\ \A i, j \in DOMAIN lookup : Key(lookup[i]) = Key(lookup[j]) => i = j

PhaseOK == /\ phase \in {"tercet", "extras", "serving"} /\ extras \in 0..MaxExtras
           /\ phase = "serving" => Built
           /\ phase # "serving" => prefix_index = <<>> /\ single_nuts3 = <<>> /\ country_fallback = <<>>

AnswerOK ==
  IF asked = None THEN answer = None
  ELSE /\ phase = "serving" /\ asked.pc \in Queries
       /\ answer = IF AskedCountry \in LoadedCountries THEN Answer(asked.country, asked.pc)
                   ELSE [match |-> "unsupported"]

Inv == RowsOK /\ EstimatesOK /\ PhaseOK /\ AnswerOK

LEMMA InitInv == Init => Inv
<1> SUFFICES ASSUME Init PROVE Inv
  OBVIOUS
<1>1. RowsOK
  BY DEF Init, RowsOK
<1>2. EstimatesOK
  BY DEF Init, EstimatesOK
<1>3. PhaseOK
  BY BoundsAssumption DEF Init, PhaseOK
<1>4. AnswerOK
  BY DEF Init, AnswerOK
<1> QED BY <1>1, <1>2, <1>3, <1>4 DEF Inv

(* Where nothing was asked nothing depends on the rows. *)
LEMMA NotServing ==
  ASSUME Inv, phase # "serving"
  PROVE  asked = None /\ answer = None
BY DEF Inv, AnswerOK

LEMMA AppendRow ==
  ASSUME RowsOK, NEW row \in Row, Holds(row) = {}, lookup' = Append(lookup, row)
  PROVE  RowsOK'
<1>1. lookup' \in Seq(Row)
  BY DEF RowsOK
<1>2. /\ DOMAIN lookup' = DOMAIN lookup \cup {Len(lookup) + 1}
      /\ lookup'[Len(lookup) + 1] = row
      /\ \A i \in DOMAIN lookup : lookup'[i] = lookup[i] /\ Key(lookup[i]) # Key(row)
  BY DEF RowsOK, Holds
<1>3. ASSUME NEW i \in DOMAIN lookup', NEW j \in DOMAIN lookup', Key(lookup'[i]) = Key(lookup'[j])
      PROVE  i = j
  BY <1>2, <1>3 DEF RowsOK
<1> QED BY <1>1, <1>3 DEF RowsOK

LEMMA ReplaceRow ==
  ASSUME RowsOK, NEW row \in Row,
         lookup' = [i \in DOMAIN lookup |-> IF i \in Holds(row) THEN row ELSE lookup[i]]
  PROVE  RowsOK'
<1>1. \A i \in DOMAIN lookup : lookup'[i] \in Row /\ Key(lookup'[i]) = Key(lookup[i])
  BY DEF RowsOK, Holds
<1>2. DOMAIN lookup' = DOMAIN lookup /\ DOMAIN lookup = 1..Len(lookup) /\ Len(lookup) \in Nat
  BY DEF RowsOK
<1>3. lookup' \in Seq(Row)
  BY <1>1, <1>2
<1> QED BY <1>1, <1>2, <1>3 DEF RowsOK

(* Handlers read the tables and leave them as they are. *)
Tables == <<lookup, estimates, prefix_index, single_nuts3, country_fallback>>

LEMMA SameAnswers ==
  ASSUME UNCHANGED Tables, NEW country, NEW pc
  PROVE  Answer(country, pc)' = Answer(country, pc) /\ LoadedCountries' = LoadedCountries
<1>1. \A cc : ByPrefix(cc, pc)' = ByPrefix(cc, pc)
  BY DEF Tables, ByPrefix
<1>2. \A cc : ByCountry(cc)' = ByCountry(cc)
  BY DEF Tables, ByCountry
<1>3. Answer(country, pc)' = Answer(country, pc)
  BY <1>1, <1>2 DEF Tables, Answer
<1>4. LoadedCountries' = LoadedCountries
  BY DEF Tables, LoadedCountries
<1> QED BY <1>3, <1>4

LEMMA SameTables ==
  ASSUME Inv, UNCHANGED Tables, UNCHANGED <<phase, extras>>
  PROVE  RowsOK' /\ EstimatesOK' /\ PhaseOK'
BY DEF Inv, RowsOK, EstimatesOK, PhaseOK, Built, Tables

LEMMA InsertTercetStep ==
  ASSUME Inv, NEW row \in Row, InsertTercet(row)
  PROVE  Inv'
<1> USE DEF InsertTercet, Unbuilt, Unasked
<1>1. RowsOK'
  <2>1. CASE Holds(row) = {}
    BY <2>1, AppendRow DEF Inv
  <2>2. CASE Holds(row) # {}
    BY <2>2 DEF Inv, RowsOK
  <2> QED BY <2>1, <2>2
<1>2. EstimatesOK'
  BY DEF Inv, EstimatesOK
<1>3. PhaseOK'
  BY DEF Inv, PhaseOK
<1>4. AnswerOK'
  BY NotServing DEF AnswerOK
<1> QED BY <1>1, <1>2, <1>3, <1>4 DEF Inv

LEMMA StartExtrasStep ==
  ASSUME Inv, StartExtras
  PROVE  Inv'
<1> USE DEF StartExtras, Unbuilt, Unasked
<1>1. RowsOK' /\ EstimatesOK'
  BY DEF Inv, RowsOK, EstimatesOK
<1>2. PhaseOK'
  BY DEF Inv, PhaseOK
<1>3. AnswerOK'
  BY NotServing DEF AnswerOK
<1> QED BY <1>1, <1>2, <1>3 DEF Inv

LEMMA InsertExtraStep ==
  ASSUME Inv, NEW row \in Row, InsertExtra(row)
  PROVE  Inv'
<1> USE DEF InsertExtra, Unbuilt, Unasked
<1>1. RowsOK'
  <2>1. CASE Holds(row) = {}
    BY <2>1, AppendRow DEF Inv
  <2>2. CASE Holds(row) # {}
    BY <2>2, ReplaceRow DEF Inv
  <2> QED BY <2>1, <2>2
<1>2. EstimatesOK'
  BY DEF Inv, EstimatesOK
<1>3. PhaseOK'
  BY BoundsAssumption DEF Inv, PhaseOK
<1>4. AnswerOK'
  BY NotServing DEF AnswerOK
<1> QED BY <1>1, <1>2, <1>3, <1>4 DEF Inv

LEMMA ServeStep ==
  ASSUME Inv, NEW table \in EstimateTables, Serve(table)
  PROVE  Inv'
<1> USE DEF Serve, Unasked
<1>1. RowsOK'
  BY DEF Inv, RowsOK
<1>2. EstimatesOK'
  <2>1. \A key \in DOMAIN table : key \in FileCountries \X Codes /\ table[key] \in Estimates
    BY DEF EstimateTables
  <2>2. \A key \in DOMAIN estimates' : key \in DOMAIN table /\ estimates'[key] = table[key]
    BY DEF Revalidated
  <2> QED BY <2>1, <2>2 DEF EstimatesOK
<1>3. PhaseOK'
  <2>1. Built'
    BY DEF Built
  <2> QED BY <2>1 DEF Inv, PhaseOK
<1>4. AnswerOK'
  BY NotServing DEF AnswerOK
<1> QED BY <1>1, <1>2, <1>3, <1>4 DEF Inv

LEMMA AskStep ==
  ASSUME Inv, NEW country \in RequestCountries, NEW pc \in Queries, Ask(country, pc)
  PROVE  Inv'
<1>1. UNCHANGED Tables /\ UNCHANGED <<phase, extras>>
  BY DEF Ask, Unbuilt, Tables
<1>2. RowsOK' /\ EstimatesOK' /\ PhaseOK'
  BY <1>1, SameTables
<1>3. AnswerOK'
  <2>1. asked'.country = country /\ asked'.pc = pc /\ phase' = "serving" /\ asked' # None
    BY DEF Ask, None
  <2>2. AskedCountry' = NormalizeCountry(country)
    BY <2>1 DEF AskedCountry
  <2>3. answer' = IF AskedCountry' \in LoadedCountries' THEN Answer(country, pc)'
                  ELSE [match |-> "unsupported"]
    BY <1>1, <2>2, SameAnswers DEF Ask
  <2>4. Answer(country, pc)' = Answer(asked.country, asked.pc)'
    BY <2>1
  <2> QED BY <2>1, <2>3, <2>4 DEF AnswerOK
<1> QED BY <1>2, <1>3 DEF Inv

LEMMA RespondStep ==
  ASSUME Inv, Respond
  PROVE  Inv'
<1>1. UNCHANGED Tables /\ UNCHANGED <<phase, extras>>
  BY DEF Respond, Unbuilt, Tables
<1>2. AnswerOK'
  BY DEF Respond, AnswerOK
<1> QED BY <1>1, <1>2, SameTables DEF Inv

LEMMA IdleStep ==
  ASSUME Inv, UNCHANGED vars
  PROVE  Inv'
<1>1. UNCHANGED Tables /\ UNCHANGED <<phase, extras, asked, answer>>
  BY DEF vars, Tables
<1>2. Answer(asked.country, asked.pc)' = Answer(asked.country, asked.pc) /\ LoadedCountries' = LoadedCountries
  BY <1>1, SameAnswers
<1>3. AnswerOK'
  BY <1>1, <1>2 DEF Inv, AnswerOK, AskedCountry
<1> QED BY <1>1, <1>3, SameTables DEF Inv

LEMMA Invariance == Spec => []Inv
<1>1. Inv /\ [Next]_vars => Inv'
  <2> SUFFICES ASSUME Inv, [Next]_vars PROVE Inv'
    OBVIOUS
  <2>1. CASE \E row \in Row : InsertTercet(row) \/ InsertExtra(row)
    BY <2>1, InsertTercetStep, InsertExtraStep
  <2>2. CASE StartExtras
    BY <2>2, StartExtrasStep
  <2>3. CASE \E table \in EstimateTables : Serve(table)
    BY <2>3, ServeStep
  <2>4. CASE \E country \in RequestCountries, pc \in Queries : Ask(country, pc)
    BY <2>4, AskStep
  <2>5. CASE Respond
    BY <2>5, RespondStep
  <2>6. CASE UNCHANGED vars
    BY <2>6, IdleStep
  <2> QED BY <2>1, <2>2, <2>3, <2>4, <2>5, <2>6 DEF Next
<1> QED BY InitInv, <1>1, PTL DEF Spec

-----------------------------------------------------------------------------
(* Whatever was answered is in order as far as the settings and the         *)
(* estimates file are, and nested where the file was not asked.             *)
LEMMA AnsweredIsSound ==
  ASSUME Inv, Answered
  PROVE  /\ asked # None /\ Sound(answer)
         /\ <<AskedCountry, asked.pc>> \notin DOMAIN estimates => Nested(answer)
<1>1. asked # None
  BY DEF Inv, AnswerOK, Answered, None
<1>2. answer = Answer(asked.country, asked.pc) /\ asked.pc \in Queries
  BY <1>1 DEF Inv, AnswerOK, Answered
<1>3. lookup \in Seq(Row) /\ Built /\ EstimatesOK
  BY <1>1 DEF Inv, RowsOK, AnswerOK, PhaseOK
<1>4. Answer(asked.country, asked.pc) # None
  BY <1>2 DEF Answered, None
<1>5. /\ Sound(Answer(asked.country, asked.pc))
      /\ <<AskedCountry, asked.pc>> \notin DOMAIN estimates => Nested(Answer(asked.country, asked.pc))
  BY <1>2, <1>3, <1>4, AnswerHolds DEF AskedCountry
<1> QED BY <1>1, <1>2, <1>5

(* The tables hold what their readers expect, and every answer a code and a *)
(* confidence at each level (data_loader.py:614-678, 961-1041).             *)
THEOREM TypeCorrect == Spec => []TypeOK
<1>1. ASSUME Inv PROVE TypeOK
  <2>1. lookup \in Seq(Row) /\ \A i, j \in DOMAIN lookup : Key(lookup[i]) = Key(lookup[j]) => i = j
    BY <1>1 DEF Inv, RowsOK
  <2>2. phase \in {"tercet", "extras", "serving"} /\ extras \in 0..MaxExtras
    BY <1>1 DEF Inv, PhaseOK
  <2>3. DOMAIN estimates \subseteq FileCountries \X Codes
    BY <1>1 DEF Inv, EstimatesOK
  <2>4. \A cc \in DOMAIN prefix_index : \A p \in DOMAIN prefix_index[cc] :
          /\ DOMAIN prefix_index[cc][p] \in (SUBSET DOMAIN lookup) \ {{}}
          /\ \A i \in DOMAIN prefix_index[cc][p] : prefix_index[cc][p][i] \in Regions
    <3>1. CASE phase = "serving"
      <4> SUFFICES ASSUME NEW cc \in DOMAIN prefix_index, NEW p \in DOMAIN prefix_index[cc]
                   PROVE  /\ DOMAIN prefix_index[cc][p] \in (SUBSET DOMAIN lookup) \ {{}}
                          /\ \A i \in DOMAIN prefix_index[cc][p] : prefix_index[cc][p][i] \in Regions
        OBVIOUS
      <4>1. prefix_index = PrefixIndex(lookup)
        BY <1>1, <3>1 DEF Inv, PhaseOK, Built
      <4>2. /\ prefix_index[cc][p] = Nuts3Of(lookup, WithPrefix(lookup, cc, p))
            /\ WithPrefix(lookup, cc, p) \in (SUBSET DOMAIN lookup) \ {{}}
        BY <2>1, <4>1, IndexEntries
      <4>3. Ballot(prefix_index[cc][p]) /\ DOMAIN prefix_index[cc][p] = WithPrefix(lookup, cc, p)
        BY <2>1, <4>2, RowsBallot
      <4> QED BY <4>2, <4>3 DEF Ballot
    <3>2. CASE phase # "serving"
      BY <1>1, <3>2 DEF Inv, PhaseOK
    <3> QED BY <3>1, <3>2
  <2>5. DOMAIN single_nuts3 \cap DOMAIN country_fallback = {}
    <3>1. CASE phase = "serving"
      <4>1. single_nuts3 = SingleNuts3(lookup) /\ country_fallback = CountryFallback(lookup)
        BY <1>1, <3>1 DEF Inv, PhaseOK, Built
      <4> QED BY <2>1, <4>1, FallbacksOf
    <3>2. CASE phase # "serving"
      BY <1>1, <3>2 DEF Inv, PhaseOK
    <3> QED BY <3>1, <3>2
  <2>6. Answered => WellFormed(answer)
    BY <1>1, AnsweredIsSound DEF Sound
  <2> QED BY <2>1, <2>2, <2>3, <2>4, <2>5, <2>6 DEF TypeOK, WellFormed
<1> QED BY Invariance, <1>1, PTL

(* "Confidence is higher at coarser NUTS levels" (README.md:508) in every   *)
(* answer, of any tier, when the caps of settings.json and the confidences  *)
(* of the estimates file fall with the level: counting, capping and         *)
(* rounding keep that order (data_loader.py:714-719).                       *)
THEOREM ConfidenceFalls ==
  ASSUME CapsOrdered, EstimatesOrdered
  PROVE  Spec => []ConfidenceOrdered
<1>1. ASSUME Inv PROVE ConfidenceOrdered
  BY <1>1, AnsweredIsSound DEF Sound, Ordered, ConfidenceOrdered
<1> QED BY Invariance, <1>1, PTL

(* A NUTS3 code given more than one half lies in the NUTS1 and NUTS2 codes  *)
(* of its answer, although each level has its own vote, whatever the rows   *)
(* and the caps: in every answer but those taken as they are from the       *)
(* estimates file (data_loader.py:702-733).                                 *)
THEOREM LikelyIsNested == Spec => []ConfidentIsNested
<1>1. ASSUME Inv PROVE ConfidentIsNested
  BY <1>1, AnsweredIsSound DEF Nested, Listed, ConfidentIsNested
<1> QED BY Invariance, <1>1, PTL

(* A country whose rows lie in one NUTS2 region is answered for every code, *)
(* and with that region where nothing else was said of it                   *)
(* (data_loader.py:644-674, 1017-1024).                                     *)
THEOREM RegionIsNamed == Spec => []SoleRegion
<1>1. ASSUME Inv PROVE SoleRegion
  <2> SUFFICES ASSUME asked # None, AskedRows # {}, Unanimous(lookup, AskedCountry)
               PROVE  /\ Answered
                      /\ <<AskedCountry, asked.pc>> \notin DOMAIN estimates /\ AskedCountry \notin DOMAIN Pinned
                           => \A l \in 1..2 : answer.nuts[l] \in RegionsAt(lookup, AskedCountry, l)
    BY DEF SoleRegion, Listed
  <2>1. lookup \in Seq(Row) /\ Built /\ EstimatesOK /\ asked.pc \in Queries
    BY <1>1 DEF Inv, RowsOK, AnswerOK, PhaseOK
  <2>2. AskedCountry \in CountriesOf(lookup)
    BY <2>1, CountryKnown DEF AskedRows
  <2>3. answer = Answer(asked.country, asked.pc)
    BY <1>1, <2>2 DEF Inv, AnswerOK, LoadedCountries
  <2>4. AskedCountry = NormalizeCountry(asked.country)
    BY DEF AskedCountry
  <2>5. /\ answer = None \/ Given(answer)
        /\ answer # None
        /\ <<AskedCountry, asked.pc>> \notin DOMAIN estimates /\ AskedCountry \notin DOMAIN Pinned =>
             \A l \in 1..2 : answer.nuts[l] \in RegionsAt(lookup, AskedCountry, l)
    BY <2>1, <2>2, <2>3, <2>4, AnswerHolds
  <2> QED BY <2>5 DEF Given, Answered
<1> QED BY Invariance, <1>1, PTL

-----------------------------------------------------------------------------
(* The index against the rows it was built from. *)
LEMMA SharedPrefix ==
  ASSUME NEW a \in Seq(Nat), NEW b \in Seq(Nat)
  PROVE  /\ Shared(a, b) \in Nat /\ Shared(a, b) <= Len(a) /\ Shared(a, b) <= Len(b)
         /\ \A n \in Nat : n <= Shared(a, b) <=>
              n <= Len(a) /\ n <= Len(b) /\ SubSeq(a, 1, n) = SubSeq(b, 1, n)
<1> DEFINE m == Min({Len(a), Len(b)})
           same == {n \in 0..m : SubSeq(a, 1, n) = SubSeq(b, 1, n)}
           k == Shared(a, b)
<1>1. m \in Nat /\ m <= Len(a) /\ m <= Len(b) /\ (m = Len(a) \/ m = Len(b))
  <2> DEFINE x == Len(a)
             y == Len(b)
  <2>1. x \in Nat /\ y \in Nat
    OBVIOUS
  <2> HIDE DEF x, y
  <2>2. x \in Int /\ y \in Int
    BY <2>1
  <2>3. Min({x, y}) \in {x, y} /\ Min({x, y}) <= x /\ Min({x, y}) <= y
    BY <2>2, MinOfTwo
  <2> QED BY <2>1, <2>3 DEF x, y
<1>2. k = Max(same)
  BY DEF Shared
<1> HIDE DEF m
<1>3. 0 \in same
  BY <1>1
<1>4. same \in SUBSET Nat /\ \A n \in same : n <= m
  BY <1>1
<1> HIDE DEF k
<1>5. k \in same /\ \A n \in same : n <= k
  <2> HIDE DEF same
  <2> QED BY <1>1, <1>2, <1>3, <1>4, MaxIsGreatest
<1>6. k \in Nat /\ k <= m /\ SubSeq(a, 1, k) = SubSeq(b, 1, k)
  BY <1>1, <1>5
<1>7. ASSUME NEW n \in Nat, n <= k
      PROVE  n <= Len(a) /\ n <= Len(b) /\ SubSeq(a, 1, n) = SubSeq(b, 1, n)
  <2>1. n <= Len(a) /\ n <= Len(b) /\ k <= Len(a) /\ k <= Len(b)
    BY <1>1, <1>6, <1>7
  <2>2. SubSeq(a, 1, n) = SubSeq(SubSeq(a, 1, k), 1, n)
    BY <1>6, <1>7, <2>1
  <2>3. SubSeq(b, 1, n) = SubSeq(SubSeq(b, 1, k), 1, n)
    BY <1>6, <1>7, <2>1
  <2> QED BY <1>6, <2>1, <2>2, <2>3
<1>8. ASSUME NEW n \in Nat, n <= Len(a), n <= Len(b), SubSeq(a, 1, n) = SubSeq(b, 1, n)
      PROVE  n <= k
  <2>1. n \in same
    BY <1>1, <1>8
  <2> QED BY <1>5, <2>1
<1> QED BY <1>1, <1>6, <1>7, <1>8 DEF k

LEMMA MostShared ==
  ASSUME lookup \in Seq(Row), NEW rows \in SUBSET DOMAIN lookup, NEW pc \in Queries
  PROVE  /\ SharedMost(rows, pc) \in 0..Len(pc)
         /\ \A i \in rows : /\ Shared(lookup[i].pc, pc) \in Nat
                           /\ Shared(lookup[i].pc, pc) <= SharedMost(rows, pc)
         /\ SharedMost(rows, pc) # 0 => \E i \in rows : Shared(lookup[i].pc, pc) = SharedMost(rows, pc)
<1> DEFINE s(i) == Shared(lookup[i].pc, pc)
           S == {0} \cup {s(i) : i \in rows}
<1>1. pc \in Seq(Nat) /\ Len(pc) \in Nat
  BY CodesAssumption
<1>2. \A i \in rows : s(i) \in Nat /\ s(i) <= Len(pc)
  <2> SUFFICES ASSUME NEW i \in rows PROVE s(i) \in Nat /\ s(i) <= Len(pc)
    OBVIOUS
  <2>1. lookup[i].pc \in Seq(Nat)
    BY TableRows, CodesAssumption
  <2> QED BY <1>1, <2>1, SharedPrefix
<1>3. SharedMost(rows, pc) = Max(S)
  BY DEF SharedMost
<1> HIDE DEF s
<1>4. S \in SUBSET Nat /\ S # {} /\ \A x \in S : x <= Len(pc)
  BY <1>1, <1>2
<1> DEFINE k == SharedMost(rows, pc)
<1> HIDE DEF k
<1>5. k \in S /\ \A x \in S : x <= k
  <2> HIDE DEF S
  <2>1. k = Max(S)
    BY <1>3 DEF k
  <2> QED BY <1>1, <1>4, <2>1, MaxIsGreatest
<1>6. k \in 0..Len(pc)
  BY <1>1, <1>4, <1>5
<1>7. \A i \in rows : s(i) \in Nat /\ s(i) <= k
  BY <1>2, <1>5
<1>8. k # 0 => \E i \in rows : s(i) = k
  BY <1>5
<1> QED BY <1>6, <1>7, <1>8 DEF s, k

(* A prefix of a query indexes a code that is longer than what they share   *)
(* just when they share that prefix.                                        *)
LEMMA IndexedIsShared ==
  ASSUME NEW code \in Seq(Nat), NEW pc \in Seq(Nat), Shared(code, pc) < Len(code),
         NEW n \in 1..Len(pc)
  PROVE  SubSeq(pc, 1, n) \in IndexedPrefixes(code) <=> n <= Shared(code, pc)
<1> DEFINE k == Shared(code, pc)
<1>1. /\ k \in Nat /\ k <= Len(code) /\ k <= Len(pc)
      /\ \A j \in Nat : j <= k <=> j <= Len(code) /\ j <= Len(pc) /\ SubSeq(code, 1, j) = SubSeq(pc, 1, j)
  BY SharedPrefix
<1>2. k < Len(code) /\ Len(code) \in Nat /\ Len(pc) \in Nat
  OBVIOUS
<1> HIDE DEF k
<1>3. ASSUME n <= k PROVE SubSeq(pc, 1, n) \in IndexedPrefixes(code)
  <2>1. n \in 1..Len(code) - 1 /\ SubSeq(code, 1, n) = SubSeq(pc, 1, n)
    BY <1>1, <1>2, <1>3
  <2> QED BY <2>1 DEF IndexedPrefixes
<1>4. ASSUME SubSeq(pc, 1, n) \in IndexedPrefixes(code) PROVE n <= k
  <2>1. PICK j \in 1..Len(code) - 1 : SubSeq(pc, 1, n) = SubSeq(code, 1, j)
    BY <1>4 DEF IndexedPrefixes
  <2>2. Len(SubSeq(pc, 1, n)) = n /\ Len(SubSeq(code, 1, j)) = j
    BY <1>2, <2>1
  <2>3. n = j
    BY <2>1, <2>2
  <2>4. n \in Nat /\ n <= Len(code) /\ n <= Len(pc) /\ SubSeq(code, 1, n) = SubSeq(pc, 1, n)
    BY <1>2, <2>1, <2>3
  <2> QED BY <1>1, <2>4
<1> QED BY <1>3, <1>4 DEF k

LEMMA VoteOfNearest ==
  ASSUME lookup \in Seq(Row), Built, NEW cc, NEW pc \in Queries,
         \A i \in CountryRows(lookup, cc) : Shared(lookup[i].pc, pc) < Len(lookup[i].pc),
         SharedMost(CountryRows(lookup, cc), pc) # 0
  PROVE  ByPrefix(cc, pc) = Vote(Nuts3Of(lookup, Nearest(CountryRows(lookup, cc), pc)),
                                 SharedMost(CountryRows(lookup, cc), pc), Len(pc))
<1> DEFINE rows == CountryRows(lookup, cc)
           s(i) == Shared(lookup[i].pc, pc)
           m == SharedMost(rows, pc)
           idx == prefix_index[cc]
           lengths == {n \in 1..Len(pc) : SubSeq(pc, 1, n) \in DOMAIN idx}
           p == SubSeq(pc, 1, m)
<1>1. pc \in Seq(Nat) /\ Len(pc) \in Nat
  BY CodesAssumption
<1>2. rows \in SUBSET DOMAIN lookup
  BY DEF CountryRows
<1>3. /\ m \in 1..Len(pc) /\ \A i \in rows : s(i) \in Nat /\ s(i) <= m
      /\ \E i \in rows : s(i) = m
  <2> HIDE DEF rows
  <2>1. m # 0
    BY DEF rows
  <2>2. m \in 0..Len(pc) /\ \A i \in rows : s(i) \in Nat /\ s(i) <= m
    BY <1>2, MostShared
  <2>3. \E i \in rows : s(i) = m
    BY <1>2, <2>1, MostShared
  <2> HIDE DEF s, m
  <2> QED BY <1>1, <2>1, <2>2, <2>3
<1>4. cc \in DOMAIN prefix_index /\ cc \in CountriesOf(lookup)
  BY <1>3, CountryKnown, IndexEntries DEF Built
<1>5. \A i \in rows : \A n \in 1..Len(pc) : SubSeq(pc, 1, n) \in IndexedPrefixes(lookup[i].pc) <=> n <= s(i)
  <2> SUFFICES ASSUME NEW i \in rows, NEW n \in 1..Len(pc)
               PROVE  SubSeq(pc, 1, n) \in IndexedPrefixes(lookup[i].pc) <=> n <= s(i)
    OBVIOUS
  <2>1. lookup[i].pc \in Seq(Nat)
    BY <1>2, TableRows, CodesAssumption
  <2>2. Shared(lookup[i].pc, pc) < Len(lookup[i].pc)
    OBVIOUS
  <2> QED BY <1>1, <2>1, <2>2, IndexedIsShared
<1>6. \A q : /\ q \in DOMAIN idx <=> WithPrefix(lookup, cc, q) # {}
             /\ q \in DOMAIN idx => idx[q] = Nuts3Of(lookup, WithPrefix(lookup, cc, q))
  BY <1>4, IndexEntries DEF Built
<1>7. \A q : WithPrefix(lookup, cc, q) = {i \in rows : q \in IndexedPrefixes(lookup[i].pc)}
  BY DEF WithPrefix
<1> HIDE DEF rows, s, m, idx
<1>8. \A n \in 1..Len(pc) : WithPrefix(lookup, cc, SubSeq(pc, 1, n)) = {i \in rows : n <= s(i)}
  BY <1>5, <1>7
<1>9. \A n \in 1..Len(pc) : n \in lengths <=> \E i \in rows : n <= s(i)
  BY <1>6, <1>8
<1>10. m \in lengths /\ \A n \in lengths : n <= m
  BY <1>3, <1>9
<1>11. Max(lengths) = m /\ lengths # {}
  <2>1. lengths \in SUBSET Nat /\ \A n \in lengths : n <= Len(pc)
    BY <1>1
  <2> HIDE DEF lengths
  <2> DEFINE k == Max(lengths)
  <2>2. k \in lengths /\ \A n \in lengths : n <= k
    BY <1>1, <1>10, <2>1, MaxIsGreatest
  <2> HIDE DEF k
  <2>3. k <= m /\ m <= k /\ k \in Nat /\ m \in Nat
    BY <1>10, <2>1, <2>2
  <2>4. k = m
    BY <2>3
  <2> QED BY <1>10, <2>4 DEF k
<1>12. idx[p] = Nuts3Of(lookup, WithPrefix(lookup, cc, p)) /\ p = SubSeq(pc, 1, Max(lengths))
  BY <1>6, <1>10, <1>11
<1>13. WithPrefix(lookup, cc, p) = Nearest(rows, pc)
  <2>1. WithPrefix(lookup, cc, p) = {i \in rows : m <= s(i)}
    BY <1>3, <1>8
  <2>2. \A i \in rows : m <= s(i) <=> s(i) = m
    BY <1>3
  <2> QED BY <2>1, <2>2 DEF Nearest, s, m
<1>14. ByPrefix(cc, pc) = Vote(idx[SubSeq(pc, 1, Max(lengths))], Max(lengths), Len(pc))
  BY <1>4, <1>11 DEF ByPrefix, idx
<1> QED BY <1>11, <1>12, <1>13, <1>14 DEF m, rows

(* The prefix index answers with the vote of the rows nearest to a query,   *)
(* without one too many or too few (data_loader.py:614-626, 681-702).       *)
THEOREM IndexLosesNoRow == Spec => []NearestNeighbours
<1>1. ASSUME Inv PROVE NearestNeighbours
  <2> SUFFICES ASSUME Guessed, NearestVote # None,
                      \A i \in AskedRows : Shared(lookup[i].pc, asked.pc) < Len(lookup[i].pc)
               PROVE  answer = NearestVote
    BY DEF NearestNeighbours
  <2> DEFINE cc == AskedCountry
             pc == asked.pc
  <2>1. asked # None /\ answer.match # "unsupported"
    BY DEF Guessed
  <2>2. lookup \in Seq(Row) /\ Built /\ pc \in Queries
    BY <1>1, <2>1 DEF Inv, RowsOK, AnswerOK, PhaseOK
  <2>3. answer = Answer(asked.country, pc)
    BY <1>1, <2>1 DEF Inv, AnswerOK
  <2>4. /\ SharedMost(CountryRows(lookup, cc), pc) # 0
        /\ NearestVote = Vote(Nuts3Of(lookup, Nearest(CountryRows(lookup, cc), pc)),
                              SharedMost(CountryRows(lookup, cc), pc), Len(pc))
    BY DEF NearestVote, AskedRows
  <2>5. ByPrefix(cc, pc) = NearestVote
    BY <2>2, <2>4, VoteOfNearest DEF AskedRows
  <2>6. {i \in DOMAIN lookup : Key(lookup[i]) = <<cc, pc>>} = {}
    BY DEF Guessed, AskedRows, CountryRows, Key
  <2>7. <<cc, pc>> \notin DOMAIN estimates /\ cc = NormalizeCountry(asked.country)
    BY DEF Guessed, Listed, AskedCountry
  <2>8. Answer(asked.country, pc) = ByPrefix(cc, pc)
    BY <2>5, <2>6, <2>7 DEF Answer
  <2> QED BY <2>3, <2>5, <2>8
<1> QED BY Invariance, <1>1, PTL
=============================================================================
