--------------------------- MODULE PostalTextProofs ---------------------------
(***************************************************************************)
(* What the operators on texts of PostalPatterns do, for texts of every    *)
(* length: keeping the characters of a class, upper case and the           *)
(* normalisation made of both, stripping, and the repairs of thousands and *)
(* floats.                                                                 *)
(***************************************************************************)
EXTENDS PostalPatterns, SequenceTheorems, FiniteSetTheorems, WellFoundedInduction, TLAPS

(* Texts; their letters and digits in upper case, and in any case. *)
Text == Seq(Chars)
AlNum == Digits \cup Letters
AnyCase == Digits \cup Letters \cup Lower

-----------------------------------------------------------------------------
(* Characters.                                                             *)

LEMMA LowerSet ==
  Lower = {"a", "b", "c", "d", "e", "f", "g", "h", "i", "j", "k", "l", "m",
           "n", "o", "p", "q", "r", "s", "t", "u", "v", "w", "x", "y", "z"}
BY DEF Lower, UpperOf

LEMMA LettersSet ==
  Letters = {"A", "B", "C", "D", "E", "F", "G", "H", "I", "J", "K", "L", "M",
             "N", "O", "P", "Q", "R", "S", "T", "U", "V", "W", "X", "Y", "Z"}
BY LowerSet DEF Letters, UpperOf

LEMMA UpperIsLetter == \A c \in Lower : UpperOf[c] \in Letters
BY Zenon DEF Letters

LEMMA ClassesAreDisjoint ==
  Digits \cap Letters = {} /\ Digits \cap Lower = {} /\ Letters \cap Lower = {}
<1>1. Digits \cap Letters = {}
  BY LettersSet DEF Digits
<1>2. Digits \cap Lower = {}
  BY LowerSet DEF Digits
<1>3. Letters \cap Lower = {}
  BY LettersSet, LowerSet
<1> QED BY <1>1, <1>2, <1>3

LEMMA SeparatorsAreNone == Separators \cap AnyCase = {}
<1>1. Separators \cap Digits = {}
  BY DEF Separators, Digits
<1>2. Separators \cap Letters = {}
  BY LettersSet DEF Separators
<1>3. Separators \cap Lower = {}
  BY LowerSet DEF Separators
<1> QED BY <1>1, <1>2, <1>3 DEF AnyCase

LEMMA Marks ==
  /\ "." \in Separators /\ "-" \in Separators /\ Space \subseteq Separators
  /\ "." \notin Space /\ "-" \notin Space /\ "0" \in Digits
BY DEF Separators, Space, Digits

LEMMA ClassesAreChars ==
  /\ Digits \subseteq AlNum /\ Letters \subseteq AlNum
  /\ AlNum \subseteq AnyCase /\ Lower \subseteq AnyCase /\ AlNum \cap Lower = {}
  /\ AnyCase \subseteq Chars /\ Separators \subseteq Chars
BY CharsAssumption, ClassesAreDisjoint DEF AlNum, AnyCase

-----------------------------------------------------------------------------
(* Induction, by a smallest counterexample: over the numbers and over the  *)
(* texts, for a set that holds those of which the claim is true.           *)

LEMMA SetOfNumbers ==
  ASSUME NEW S, 0 \in S, \A n \in Nat : n \in S => n + 1 \in S
  PROVE  Nat \subseteq S
<1> DEFINE T == Nat \ S
<1> SUFFICES ASSUME T # {} PROVE FALSE
  OBVIOUS
<1>1. T \in SUBSET Nat
  OBVIOUS
<1> HIDE DEF T
<1>2. PICK m \in T : \A x \in T : <<x, m>> \notin OpToRel(<, Nat)
  BY <1>1, NatLessThanWellFounded, WFMin, Zenon
<1>3. \A x \in T : ~(x < m)
  BY <1>1, <1>2, Zenon DEF OpToRel
<1>4. m \in Nat /\ m \notin S
  BY <1>2, Zenon DEF T
<1>5. m - 1 \in Nat
  BY <1>4
<1>6. m - 1 \notin T
  BY <1>3, <1>4, <1>5
<1>7. (m - 1) + 1 = m /\ m - 1 \in S
  BY <1>4, <1>5, <1>6 DEF T
<1> QED BY <1>4, <1>5, <1>7

LEMMA SetOfSequences ==
  ASSUME NEW C, NEW S, <<>> \in S, \A s \in Seq(C), c \in C : s \in S => Append(s, c) \in S
  PROVE  Seq(C) \subseteq S
<1> DEFINE N == {n \in Nat : \A s \in Seq(C) : Len(s) = n => s \in S}
<1>1. 0 \in N
  <2> SUFFICES ASSUME NEW s \in Seq(C), Len(s) = 0 PROVE s \in S
    OBVIOUS
  <2>1. s = <<>>
    BY EmptySeq
  <2> QED BY <2>1
<1>2. \A n \in Nat : n \in N => n + 1 \in N
  <2> SUFFICES ASSUME NEW n \in Nat, n \in N, NEW s \in Seq(C), Len(s) = n + 1
               PROVE  s \in S
    OBVIOUS
  <2>1. s # <<>>
    BY EmptySeq
  <2>2. PICK t \in Seq(C), c \in C : s = Append(t, c)
    BY <2>1, SequenceEmptyOrAppend
  <2>3. Len(t) = n
    BY <2>2, AppendProperties, LenProperties
  <2> QED BY <2>2, <2>3
<1> HIDE DEF N
<1>3. Nat \subseteq N
  BY <1>1, <1>2, SetOfNumbers
<1>4. ASSUME NEW s \in Seq(C) PROVE s \in S
  <2>1. Len(s) \in N
    BY <1>3, LenProperties
  <2> QED BY <2>1 DEF N
<1> QED BY <1>4

-----------------------------------------------------------------------------
(* Keeping the characters of a class.                                      *)

(* The places of a class in a text, and their ranks: the k-th character    *)
(* kept is the one at the place of rank k.                                 *)
Places(s, class) == {i \in DOMAIN s : s[i] \in class}
UpTo(P, i) == {j \in P : j <= i}

LEMMA PlacesAreFinite ==
  ASSUME NEW s \in Text, NEW class
  PROVE  /\ Places(s, class) \subseteq 1..Len(s)
         /\ IsFiniteSet(Places(s, class))
         /\ Cardinality(Places(s, class)) \in Nat
<1>1. Len(s) \in Nat /\ DOMAIN s = 1..Len(s)
  BY LenProperties DEF Text
<1>2. Places(s, class) \subseteq 1..Len(s)
  BY <1>1 DEF Places
<1>3. IsFiniteSet(1..Len(s))
  BY <1>1, FS_Interval
<1> QED BY <1>2, <1>3, FS_Subset, FS_CardinalityType

(* Among the places of a text every rank is taken, by one of them. *)
LEMMA EveryRankIsTaken ==
  ASSUME NEW n \in Nat, NEW P \in SUBSET (1..n), NEW k \in 1..Cardinality(P)
  PROVE  \E i \in P : Cardinality(UpTo(P, i)) = k
<1> DEFINE S == {m \in Nat : \A r \in 1..Cardinality(UpTo(P, m)) :
                               \E i \in P : Cardinality(UpTo(P, i)) = r}
<1>1. \A x \in P : x \in Nat /\ 1 <= x /\ x <= n
  OBVIOUS
<1>2. IsFiniteSet(P)
  <2>1. IsFiniteSet(1..n)
    BY FS_Interval
  <2> QED BY <2>1, FS_Subset
<1>3. \A m : IsFiniteSet(UpTo(P, m)) /\ Cardinality(UpTo(P, m)) \in Nat
  BY <1>2, FS_Subset, FS_CardinalityType DEF UpTo
<1>4. 0 \in S
  <2>1. \A x \in P : ~(x <= 0)
    BY <1>1
  <2>2. UpTo(P, 0) = {}
    BY <2>1 DEF UpTo
  <2> QED BY <2>2, FS_EmptySet
<1>5. \A m \in Nat : m \in S => m + 1 \in S
  <2> SUFFICES ASSUME NEW m \in Nat, m \in S, NEW r \in 1..Cardinality(UpTo(P, m + 1))
               PROVE  \E i \in P : Cardinality(UpTo(P, i)) = r
    OBVIOUS
  <2>1. \A x \in P : x <= m + 1 <=> x <= m \/ x = m + 1
    BY <1>1
  <2>2. CASE m + 1 \notin P
    <3>1. UpTo(P, m + 1) = UpTo(P, m)
      BY <2>1, <2>2 DEF UpTo
    <3> QED BY <3>1
  <2>3. CASE m + 1 \in P
    <3>1. UpTo(P, m + 1) = UpTo(P, m) \cup {m + 1}
      BY <2>1, <2>3 DEF UpTo
    <3>2. m + 1 \notin UpTo(P, m)
      BY DEF UpTo
    <3>3. Cardinality(UpTo(P, m + 1)) = Cardinality(UpTo(P, m)) + 1
      BY <3>1, <3>2, <1>3, FS_AddElement
    <3>4. CASE r = Cardinality(UpTo(P, m + 1))
      BY <2>3, <3>4
    <3>5. CASE r # Cardinality(UpTo(P, m + 1))
      <4>1. r \in 1..Cardinality(UpTo(P, m))
        BY <3>3, <3>5, <1>3
      <4> QED BY <4>1
    <3> QED BY <3>4, <3>5
  <2> QED BY <2>2, <2>3
<1> HIDE DEF S
<1>6. n \in S
  BY <1>4, <1>5, SetOfNumbers
<1>7. UpTo(P, n) = P
  BY <1>1 DEF UpTo
<1> QED BY <1>6, <1>7 DEF S

LEMMA RanksDiffer ==
  ASSUME NEW n \in Nat, NEW P \in SUBSET (1..n), NEW i \in P, NEW j \in P,
         Cardinality(UpTo(P, i)) = Cardinality(UpTo(P, j))
  PROVE  i = j
<1>1. \A x \in P : x \in Nat
  OBVIOUS
<1>2. IsFiniteSet(P)
  <2>1. IsFiniteSet(1..n)
    BY FS_Interval
  <2> QED BY <2>1, FS_Subset
<1>3. ASSUME NEW a \in P, NEW b \in P, a < b,
             Cardinality(UpTo(P, a)) = Cardinality(UpTo(P, b))
      PROVE  FALSE
  <2>0. \A x \in P : x <= a => x <= b
    BY <1>1, <1>3
  <2>1. UpTo(P, a) \in SUBSET UpTo(P, b)
    BY <2>0 DEF UpTo
  <2>2. IsFiniteSet(UpTo(P, b))
    BY <1>2, FS_Subset DEF UpTo
  <2>3. UpTo(P, b) = UpTo(P, a)
    BY <2>1, <2>2, <1>3, FS_Subset
  <2>4. b \in UpTo(P, b) /\ b \notin UpTo(P, a)
    BY <1>1, <1>3 DEF UpTo
  <2> QED BY <2>3, <2>4
<1> QED BY <1>1, <1>3

LEMMA KeptIs ==
  ASSUME NEW s \in Text, NEW class
  PROVE  /\ Kept(s, class) \in Text
         /\ Len(Kept(s, class)) = Cardinality(Places(s, class))
         /\ \A i \in Places(s, class) :
              /\ Cardinality(UpTo(Places(s, class), i)) \in 1..Len(Kept(s, class))
              /\ Kept(s, class)[Cardinality(UpTo(Places(s, class), i))] = s[i]
<1> DEFINE P == Places(s, class)
           rank(i) == Cardinality(UpTo(P, i))
           place(k) == CHOOSE i \in P : rank(i) = k
<1>1. Len(s) \in Nat /\ DOMAIN s = 1..Len(s) /\ s \in [1..Len(s) -> Chars]
  BY LenProperties DEF Text
<1>2. P \in SUBSET (1..Len(s)) /\ IsFiniteSet(P) /\ Cardinality(P) \in Nat
  BY PlacesAreFinite
<1>3. Kept(s, class) = [k \in 1..Cardinality(P) |-> s[place(k)]]
  BY DEF Kept, Places, UpTo
<1> HIDE DEF P
<1>4. \A k \in 1..Cardinality(P) : place(k) \in P /\ rank(place(k)) = k
  BY <1>1, <1>2, EveryRankIsTaken
<1>5. \A k \in 1..Cardinality(P) : s[place(k)] \in Chars
  BY <1>1, <1>2, <1>4
<1>6. \A i \in P : rank(i) \in 1..Cardinality(P)
  <2> SUFFICES ASSUME NEW i \in P PROVE rank(i) \in 1..Cardinality(P)
    OBVIOUS
  <2>1. UpTo(P, i) \in SUBSET P /\ i \in UpTo(P, i)
    BY <1>2 DEF UpTo
  <2>2. IsFiniteSet(UpTo(P, i)) /\ rank(i) \in Nat /\ rank(i) <= Cardinality(P)
    BY <2>1, <1>2, FS_Subset, FS_CardinalityType
  <2>3. rank(i) # 0
    BY <2>1, <2>2, FS_EmptySet
  <2> QED BY <2>2, <2>3
<1>7. \A i \in P : place(rank(i)) = i
  <2> SUFFICES ASSUME NEW i \in P PROVE place(rank(i)) = i
    OBVIOUS
  <2>1. place(rank(i)) \in P /\ rank(place(rank(i))) = rank(i)
    BY <1>4, <1>6
  <2> HIDE DEF place
  <2> QED BY <2>1, <1>1, <1>2, RanksDiffer
<1> HIDE DEF place
<1>8. Kept(s, class) \in Text /\ Len(Kept(s, class)) = Cardinality(P)
  BY <1>2, <1>3, <1>5 DEF Text
<1> HIDE DEF rank
<1>9. \A i \in P : rank(i) \in 1..Len(Kept(s, class)) /\ Kept(s, class)[rank(i)] = s[i]
  BY <1>3, <1>6, <1>7, <1>8
<1> QED BY <1>8, <1>9 DEF rank, P

LEMMA KeptEmpty == ASSUME NEW class PROVE Kept(<<>>, class) = <<>>
<1>1. <<>> \in Text
  BY DEF Text
<1>2. Places(<<>>, class) = {}
  BY DEF Places
<1>3. Len(Kept(<<>>, class)) = 0 /\ Kept(<<>>, class) \in Text
  BY <1>1, <1>2, KeptIs, FS_EmptySet
<1> QED BY <1>3, EmptySeq DEF Text

LEMMA KeptAppend ==
  ASSUME NEW s \in Text, NEW c \in Chars, NEW class
  PROVE  Kept(Append(s, c), class) =
           IF c \in class THEN Append(Kept(s, class), c) ELSE Kept(s, class)
<1> DEFINE t == Append(s, c)
           n == Len(s)
           P == Places(s, class)
           Q == Places(t, class)
           K == Kept(s, class)
           L == Kept(t, class)
<1>1. n \in Nat /\ DOMAIN s = 1..n /\ \A i \in 1..n : s[i] \in Chars
  BY LenProperties, ElementOfSeq DEF Text
<1>2. /\ t \in Text /\ Len(t) = n + 1 /\ DOMAIN t = 1..(n + 1)
      /\ \A i \in 1..n : t[i] = s[i]
      /\ t[n + 1] = c
  BY AppendProperties, LenProperties DEF Text
<1>3. Q = IF c \in class THEN P \cup {n + 1} ELSE P
  BY <1>1, <1>2 DEF Places
<1>4. /\ P \subseteq 1..n /\ IsFiniteSet(P) /\ Cardinality(P) \in Nat
      /\ Q \subseteq 1..(n + 1) /\ IsFiniteSet(Q) /\ Cardinality(Q) \in Nat
  BY <1>2, PlacesAreFinite
<1>5. Cardinality(Q) = Cardinality(P) + (IF c \in class THEN 1 ELSE 0)
  <2>1. n + 1 \notin P
    BY <1>1, <1>4
  <2> HIDE DEF P, Q
  <2>2. Cardinality(P \cup {n + 1}) = Cardinality(P) + 1
    BY <2>1, <1>4, FS_AddElement
  <2> QED BY <2>2, <1>3, <1>4
<1>6. \A i \in P : i \in Q /\ UpTo(Q, i) = UpTo(P, i)
  BY <1>1, <1>3, <1>4 DEF UpTo
<1>7. /\ K \in Text /\ Len(K) = Cardinality(P)
      /\ \A i \in P : Cardinality(UpTo(P, i)) \in 1..Len(K) /\ K[Cardinality(UpTo(P, i))] = s[i]
  BY KeptIs
<1>8. /\ L \in Text /\ Len(L) = Cardinality(Q)
      /\ \A i \in Q : Cardinality(UpTo(Q, i)) \in 1..Len(L) /\ L[Cardinality(UpTo(Q, i))] = t[i]
  BY <1>2, KeptIs
<1>9. \A k \in 1..Cardinality(P) : \E i \in P : Cardinality(UpTo(P, i)) = k
  BY <1>1, <1>4, EveryRankIsTaken
<1> HIDE DEF P, Q, t, K, L, n
<1>10. \A k \in 1..Len(K) : L[k] = K[k]
  <2> SUFFICES ASSUME NEW k \in 1..Len(K) PROVE L[k] = K[k]
    OBVIOUS
  <2>1. PICK i \in P : Cardinality(UpTo(P, i)) = k
    BY <1>7, <1>9
  <2>2. K[k] = s[i] /\ i \in Q /\ Cardinality(UpTo(Q, i)) = k /\ i \in 1..n
    BY <2>1, <1>6, <1>7, <1>4
  <2>3. L[k] = t[i]
    BY <2>2, <1>8
  <2> QED BY <2>2, <2>3, <1>2
<1>11. CASE c \notin class
  <2>1. Len(L) = Len(K)
    BY <1>5, <1>7, <1>8, <1>11, <1>4
  <2>2. L = K
    BY <2>1, <1>7, <1>8, <1>10, SeqEqual DEF Text
  <2> QED BY <2>2, <1>11 DEF L, K, t
<1>12. CASE c \in class
  <2>1. UpTo(Q, n + 1) = Q /\ n + 1 \in Q
    <3>1. \A i \in 1..(n + 1) : i <= n + 1
      BY <1>1
    <3> QED BY <1>3, <1>4, <1>12, <3>1 DEF UpTo
  <2>2. L[Len(L)] = c /\ Len(L) = Len(K) + 1
    BY <2>1, <1>2, <1>4, <1>5, <1>7, <1>8, <1>12
  <2>3. /\ Append(K, c) \in Text /\ Len(Append(K, c)) = Len(K) + 1
        /\ \A i \in 1..Len(K) : Append(K, c)[i] = K[i]
        /\ Append(K, c)[Len(K) + 1] = c
    BY <1>7, AppendProperties DEF Text
  <2>4. \A k \in 1..Len(L) : L[k] = Append(K, c)[k]
    BY <2>2, <2>3, <1>10, <1>7, LenProperties DEF Text
  <2>5. L = Append(K, c)
    BY <2>2, <2>3, <2>4, <1>8, SeqEqual DEF Text
  <2> QED BY <2>5, <1>12 DEF L, K, t
<1> QED BY <1>11, <1>12

(* What is kept of two texts is kept of each. *)
LEMMA KeptConcat ==
  ASSUME NEW s \in Text, NEW t \in Text, NEW class
  PROVE  Kept(s \o t, class) = Kept(s, class) \o Kept(t, class)
<1> DEFINE S == {u \in Text : Kept(s \o u, class) = Kept(s, class) \o Kept(u, class)}
<1>1. <<>> \in S
  <2>1. s \o <<>> = s /\ Kept(s, class) \o <<>> = Kept(s, class) /\ <<>> \in Text
    BY KeptIs, ConcatEmptySeq DEF Text
  <2> QED BY <2>1, KeptEmpty
<1>2. \A u \in Text, c \in Chars : u \in S => Append(u, c) \in S
  <2> SUFFICES ASSUME NEW u \in Text, NEW c \in Chars, u \in S PROVE Append(u, c) \in S
    OBVIOUS
  <2>1. /\ s \o u \in Text /\ Append(u, c) \in Text /\ <<c>> \in Text
        /\ Kept(s, class) \in Text /\ Kept(u, class) \in Text
    BY KeptIs, ConcatProperties, AppendProperties DEF Text
  <2>2. s \o Append(u, c) = Append(s \o u, c)
    BY <2>1, AppendIsConcat, ConcatAssociative DEF Text
  <2>3. CASE c \in class
    <3>1. Kept(s \o Append(u, c), class) = Append(Kept(s, class) \o Kept(u, class), c)
      BY <2>1, <2>2, <2>3, KeptAppend
    <3>2. Kept(s, class) \o Append(Kept(u, class), c) = Append(Kept(s, class) \o Kept(u, class), c)
      BY <2>1, AppendIsConcat, ConcatAssociative, ConcatProperties DEF Text
    <3> QED BY <2>1, <2>3, <3>1, <3>2, KeptAppend
  <2>4. CASE c \notin class
    <3>1. Kept(s \o Append(u, c), class) = Kept(s \o u, class)
      BY <2>1, <2>2, <2>4, KeptAppend
    <3>2. Kept(Append(u, c), class) = Kept(u, class)
      BY <2>4, KeptAppend
    <3> QED BY <2>1, <3>1, <3>2
  <2> QED BY <2>3, <2>4
<1> HIDE DEF S
<1>3. t \in S
  BY <1>1, <1>2, SetOfSequences DEF Text
<1> QED BY <1>3 DEF S

LEMMA KeptAll ==
  ASSUME NEW class, NEW s \in Text, AllIn(s, class)
  PROVE  Kept(s, class) = s
<1> DEFINE S == {u \in Text : AllIn(u, class) => Kept(u, class) = u}
<1>1. <<>> \in S
  BY KeptEmpty DEF Text
<1>2. \A u \in Text, c \in Chars : u \in S => Append(u, c) \in S
  <2> SUFFICES ASSUME NEW u \in Text, NEW c \in Chars, u \in S PROVE Append(u, c) \in S
    OBVIOUS
  <2>1. /\ Append(u, c) \in Text /\ DOMAIN Append(u, c) = 1..(Len(u) + 1)
        /\ DOMAIN u = 1..Len(u) /\ Len(u) \in Nat
        /\ \A i \in 1..Len(u) : Append(u, c)[i] = u[i]
        /\ Append(u, c)[Len(u) + 1] = c
    BY AppendProperties, LenProperties DEF Text
  <2>2. ASSUME AllIn(Append(u, c), class) PROVE Kept(Append(u, c), class) = Append(u, c)
    <3>1. AllIn(u, class) /\ c \in class
      BY <2>1, <2>2 DEF AllIn
    <3> QED BY <3>1, KeptAppend
  <2> QED BY <2>1, <2>2
<1> HIDE DEF S
<1>3. s \in S
  BY <1>1, <1>2, SetOfSequences DEF Text
<1> QED BY <1>3 DEF S

LEMMA KeptNone ==
  ASSUME NEW class, NEW s \in Text, \A i \in DOMAIN s : s[i] \notin class
  PROVE  Kept(s, class) = <<>>
<1>1. Places(s, class) = {}
  BY DEF Places
<1>2. Len(Kept(s, class)) = 0 /\ Kept(s, class) \in Text
  BY <1>1, KeptIs, FS_EmptySet
<1> QED BY <1>2, EmptySeq DEF Text

(* What is kept is of the class. *)
LEMMA KeptIsOfClass ==
  ASSUME NEW s \in Text, NEW class
  PROVE  Kept(s, class) \in Seq(class)
<1> DEFINE P == Places(s, class)
           K == Kept(s, class)
<1>1. /\ K \in Text /\ Len(K) = Cardinality(P)
      /\ \A i \in P : Cardinality(UpTo(P, i)) \in 1..Len(K) /\ K[Cardinality(UpTo(P, i))] = s[i]
  BY KeptIs
<1>2. P \subseteq 1..Len(s) /\ Len(s) \in Nat
  BY PlacesAreFinite, LenProperties DEF Text
<1>3. \A i \in P : s[i] \in class
  BY DEF Places
<1> HIDE DEF P, K
<1>4. \A k \in 1..Cardinality(P) : \E i \in P : Cardinality(UpTo(P, i)) = k
  BY <1>2, EveryRankIsTaken
<1>5. \A k \in 1..Len(K) : K[k] \in class
  BY <1>1, <1>3, <1>4
<1>6. K \in Seq(class)
  BY <1>1, <1>5, LenProperties DEF Text
<1> QED BY <1>6 DEF K

-----------------------------------------------------------------------------
(* Upper case.                                                             *)

(* A character in upper case. *)
Up(c) == IF c \in Lower THEN UpperOf[c] ELSE c

LEMMA UpOfChars ==
  \A c \in Chars : /\ Up(c) \in Chars /\ Up(c) \notin Lower
                   /\ c \in AnyCase => Up(c) \in AlNum
                   /\ c \notin Lower => Up(c) = c
                   /\ c \notin AnyCase => Up(c) \notin AnyCase
                   /\ c \notin Letters /\ c \notin Lower => Up(c) \notin Letters
<1>1. \A c \in Lower : Up(c) \in Letters
  BY UpperIsLetter DEF Up
<1>2. \A c : c \notin Lower => Up(c) = c
  BY DEF Up
<1> QED BY <1>1, <1>2, ClassesAreChars, ClassesAreDisjoint DEF AlNum, AnyCase

(* Upper case makes letters of letters, and nothing else of anything else. *)
LEMMA UpKeepsClass ==
  ASSUME NEW class, class \cap Letters = {}, class \cap Lower = {}
  PROVE  \A c \in Chars : Up(c) \in class <=> c \in class
<1>1. \A c \in Lower : Up(c) \in Letters
  BY UpperIsLetter DEF Up
<1>2. \A c : c \notin Lower => Up(c) = c
  BY DEF Up
<1> QED BY <1>1, <1>2

LEMMA UpperIs ==
  ASSUME NEW s \in Text
  PROVE  /\ Upper(s) \in Text
         /\ Len(Upper(s)) = Len(s)
         /\ DOMAIN Upper(s) = DOMAIN s
         /\ \A i \in DOMAIN s : s[i] \in Chars /\ Upper(s)[i] = Up(s[i])
<1>1. Len(s) \in Nat /\ DOMAIN s = 1..Len(s) /\ \A i \in 1..Len(s) : s[i] \in Chars
  BY LenProperties, ElementOfSeq DEF Text
<1>2. Upper(s) = [i \in 1..Len(s) |-> Up(s[i])]
  BY <1>1 DEF Upper, Up
<1>3. \A i \in 1..Len(s) : Up(s[i]) \in Chars
  BY <1>1, UpOfChars
<1> QED BY <1>1, <1>2, <1>3 DEF Text

LEMMA UpperConcat ==
  ASSUME NEW s \in Text, NEW t \in Text
  PROVE  Upper(s \o t) = Upper(s) \o Upper(t)
<1>1. Len(s) \in Nat /\ Len(t) \in Nat /\ DOMAIN s = 1..Len(s) /\ DOMAIN t = 1..Len(t)
  BY LenProperties DEF Text
<1>2. /\ s \o t \in Text /\ Len(s \o t) = Len(s) + Len(t)
      /\ \A i \in 1..(Len(s) + Len(t)) : (s \o t)[i] = IF i <= Len(s) THEN s[i] ELSE t[i - Len(s)]
  BY ConcatProperties DEF Text
<1>3. DOMAIN (s \o t) = 1..(Len(s) + Len(t))
  BY <1>2, LenProperties DEF Text
<1>4. /\ Upper(s) \in Text /\ Len(Upper(s)) = Len(s)
      /\ \A i \in 1..Len(s) : Upper(s)[i] = Up(s[i])
      /\ Upper(t) \in Text /\ Len(Upper(t)) = Len(t)
      /\ \A i \in 1..Len(t) : Upper(t)[i] = Up(t[i])
  BY <1>1, UpperIs
<1>5. /\ Upper(s) \o Upper(t) \in Text /\ Len(Upper(s) \o Upper(t)) = Len(s) + Len(t)
      /\ \A i \in 1..(Len(s) + Len(t)) :
           (Upper(s) \o Upper(t))[i] = IF i <= Len(s) THEN Upper(s)[i] ELSE Upper(t)[i - Len(s)]
  <2>1. /\ Upper(s) \o Upper(t) \in Seq(Chars)
        /\ Len(Upper(s) \o Upper(t)) = Len(Upper(s)) + Len(Upper(t))
        /\ \A i \in 1..(Len(Upper(s)) + Len(Upper(t))) :
             (Upper(s) \o Upper(t))[i] =
               IF i <= Len(Upper(s)) THEN Upper(s)[i] ELSE Upper(t)[i - Len(Upper(s))]
    <3>1. Upper(s) \in Seq(Chars) /\ Upper(t) \in Seq(Chars)
      BY <1>4 DEF Text
    <3> HIDE DEF Upper
    <3> QED BY <3>1, ConcatProperties
  <2>2. Len(Upper(s)) = Len(s) /\ Len(Upper(t)) = Len(t)
    BY <1>4
  <2> QED BY <2>1, <2>2, Zenon DEF Text
<1>6. /\ Upper(s \o t) \in Text /\ Len(Upper(s \o t)) = Len(s) + Len(t)
      /\ \A i \in 1..(Len(s) + Len(t)) : Upper(s \o t)[i] = Up((s \o t)[i])
  BY <1>2, <1>3, UpperIs
<1>7. ASSUME NEW i \in 1..(Len(s) + Len(t))
      PROVE  Upper(s \o t)[i] = (Upper(s) \o Upper(t))[i]
  <2>1. CASE i <= Len(s)
    <3>1. i \in 1..Len(s)
      BY <2>1, <1>1
    <3> QED BY <3>1, <2>1, <1>2, <1>4, <1>5, <1>6
  <2>2. CASE ~(i <= Len(s))
    <3>1. i - Len(s) \in 1..Len(t)
      BY <2>2, <1>1
    <3> QED BY <3>1, <2>2, <1>2, <1>4, <1>5, <1>6
  <2> QED BY <2>1, <2>2
<1> QED BY <1>5, <1>6, <1>7, SeqEqual DEF Text

LEMMA UpperIsIdentity ==
  ASSUME NEW s \in Text, \A i \in DOMAIN s : s[i] \notin Lower
  PROVE  Upper(s) = s
<1>1. \A i \in DOMAIN s : Upper(s)[i] = s[i]
  BY UpperIs, UpOfChars
<1> QED BY <1>1, UpperIs, SeqEqual, LenProperties DEF Text

LEMMA UpperUpper == ASSUME NEW s \in Text PROVE Upper(Upper(s)) = Upper(s)
<1>1. \A i \in DOMAIN Upper(s) : Upper(s)[i] \notin Lower
  BY UpperIs, UpOfChars
<1> QED BY <1>1, UpperIs, UpperIsIdentity

LEMMA KeptUpper ==
  ASSUME NEW s \in Text, NEW class, \A c \in Chars : Up(c) \in class <=> c \in class
  PROVE  Kept(Upper(s), class) = Upper(Kept(s, class))
<1> DEFINE P == Places(s, class)
           K == Kept(s, class)
           L == Kept(Upper(s), class)
<1>1. /\ Upper(s) \in Text /\ DOMAIN Upper(s) = DOMAIN s
      /\ \A i \in DOMAIN s : s[i] \in Chars /\ Upper(s)[i] = Up(s[i])
  BY UpperIs
<1>2. Places(Upper(s), class) = P
  BY <1>1 DEF Places
<1>3. /\ K \in Text /\ Len(K) = Cardinality(P)
      /\ \A i \in P : Cardinality(UpTo(P, i)) \in 1..Len(K) /\ K[Cardinality(UpTo(P, i))] = s[i]
  BY KeptIs
<1>4. /\ L \in Text /\ Len(L) = Cardinality(P)
      /\ \A i \in P : L[Cardinality(UpTo(P, i))] = Upper(s)[i]
  BY <1>1, <1>2, KeptIs
<1>5. P \in SUBSET (1..Len(s)) /\ Len(s) \in Nat /\ P \subseteq DOMAIN s
  BY PlacesAreFinite, LenProperties DEF Text
<1> HIDE DEF P, K, L
<1>6. \A k \in 1..Cardinality(P) : \E i \in P : Cardinality(UpTo(P, i)) = k
  BY <1>5, EveryRankIsTaken
<1>7. /\ Upper(K) \in Text /\ Len(Upper(K)) = Len(K)
      /\ \A k \in 1..Len(K) : Upper(K)[k] = Up(K[k])
  BY <1>3, UpperIs, LenProperties DEF Text
<1>8. ASSUME NEW k \in 1..Len(L) PROVE L[k] = Upper(K)[k]
  <2>1. PICK i \in P : Cardinality(UpTo(P, i)) = k
    BY <1>4, <1>6
  <2>2. L[k] = Up(s[i]) /\ K[k] = s[i]
    BY <2>1, <1>1, <1>3, <1>4, <1>5
  <2> QED BY <2>2, <1>3, <1>4, <1>7
<1>9. L = Upper(K)
  BY <1>3, <1>4, <1>7, <1>8, SeqEqual DEF Text
<1> QED BY <1>9 DEF L, K

-----------------------------------------------------------------------------
(* Normalisation.                                                          *)

(* The normalisation of both sides: loading and extraction. *)
Norm(s) == NormalizePostalCode(s)

LEMMA NormIs ==
  ASSUME NEW s \in Text
  PROVE  Norm(s) \in Text /\ Norm(s) \in Seq(AlNum)
<1>1. Kept(s, AnyCase) \in Text /\ Kept(s, AnyCase) \in Seq(AnyCase)
  BY KeptIs, KeptIsOfClass
<1>2. Norm(s) = Upper(Kept(s, AnyCase))
  BY DEF Norm, NormalizePostalCode, AnyCase
<1>3. \A i \in 1..Len(Kept(s, AnyCase)) : Kept(s, AnyCase)[i] \in AnyCase
  BY <1>1, ElementOfSeq
<1>4. /\ Norm(s) \in Text /\ Len(Norm(s)) = Len(Kept(s, AnyCase))
      /\ \A i \in 1..Len(Kept(s, AnyCase)) : Norm(s)[i] = Up(Kept(s, AnyCase)[i])
  BY <1>1, <1>2, UpperIs, LenProperties DEF Text
<1>5. \A i \in 1..Len(Norm(s)) : Norm(s)[i] \in AlNum
  BY <1>3, <1>4, UpOfChars, ClassesAreChars
<1> QED BY <1>4, <1>5 DEF Text

(* It goes part by part, leaves codes alone and drops everything else. *)
LEMMA NormConcat ==
  ASSUME NEW s \in Text, NEW t \in Text
  PROVE  Norm(s \o t) = Norm(s) \o Norm(t)
BY KeptIs, KeptConcat, UpperConcat, Zenon DEF Norm, NormalizePostalCode

LEMMA NormOfCode ==
  ASSUME NEW s \in Seq(AlNum)
  PROVE  s \in Text /\ Norm(s) = s
<1>1. s \in Text /\ \A i \in DOMAIN s : s[i] \in AlNum
  BY ClassesAreChars, SeqMonotonic, LenProperties, ElementOfSeq DEF Text
<1>2. AllIn(s, AnyCase)
  BY <1>1, ClassesAreChars DEF AllIn
<1>3. Kept(s, AnyCase) = s
  BY <1>1, <1>2, KeptAll
<1>4. Upper(s) = s
  BY <1>1, ClassesAreChars, UpperIsIdentity
<1> QED BY <1>1, <1>3, <1>4 DEF Norm, NormalizePostalCode, AnyCase

LEMMA NormOfNone ==
  ASSUME NEW s \in Text, \A i \in DOMAIN s : s[i] \notin AnyCase
  PROVE  Norm(s) = <<>>
<1>1. Kept(s, AnyCase) = <<>>
  BY KeptNone
<1>2. Upper(<<>>) = <<>>
  BY DEF Upper
<1> QED BY <1>1, <1>2 DEF Norm, NormalizePostalCode, AnyCase

LEMMA NormUpper ==
  ASSUME NEW s \in Text
  PROVE  Norm(Upper(s)) = Norm(s)
<1>1. \A c \in Chars : Up(c) \in AnyCase <=> c \in AnyCase
  BY UpOfChars, ClassesAreChars
<1>2. Kept(Upper(s), AnyCase) = Upper(Kept(s, AnyCase))
  BY <1>1, KeptUpper
<1> QED BY <1>2, KeptIs, UpperUpper DEF Norm, NormalizePostalCode, AnyCase

-----------------------------------------------------------------------------
(* Texts in parts.                                                         *)

LEMMA Split ==
  ASSUME NEW C, NEW s \in Seq(C), NEW n \in 0..Len(s)
  PROVE  /\ SubSeq(s, 1, n) \in Seq(C) /\ Len(SubSeq(s, 1, n)) = n
         /\ \A i \in 1..n : SubSeq(s, 1, n)[i] = s[i]
         /\ SubSeq(s, n + 1, Len(s)) \in Seq(C) /\ Len(SubSeq(s, n + 1, Len(s))) = Len(s) - n
         /\ \A i \in 1..(Len(s) - n) : SubSeq(s, n + 1, Len(s))[i] = s[n + i]
         /\ s = SubSeq(s, 1, n) \o SubSeq(s, n + 1, Len(s))
<1>1. Len(s) \in Nat /\ n \in Nat /\ n <= Len(s) /\ \A i \in 1..Len(s) : s[i] \in C
  BY LenProperties, ElementOfSeq
<1>2. /\ SubSeq(s, 1, n) \in Seq(C) /\ Len(SubSeq(s, 1, n)) = n
      /\ \A i \in 1..n : SubSeq(s, 1, n)[i] = s[i]
  BY <1>1
<1>3. /\ SubSeq(s, n + 1, Len(s)) \in Seq(C) /\ Len(SubSeq(s, n + 1, Len(s))) = Len(s) - n
      /\ \A i \in 1..(Len(s) - n) : SubSeq(s, n + 1, Len(s))[i] = s[n + i]
  BY <1>1
<1>4. s = SubSeq(s, 1, n) \o SubSeq(s, n + 1, Len(s))
  <2>1. 1 \in 1..(Len(s) + 1) /\ n \in (1 - 1)..Len(s) /\ Len(s) \in n..Len(s)
    BY <1>1
  <2> QED BY <2>1, ConcatAdjacentSubSeq, SubSeqFull
<1> QED BY <1>2, <1>3, <1>4

(* Two ways to take a text apart that agree on a length are the same. *)
LEMMA SameParts ==
  ASSUME NEW C, NEW a \in Seq(C), NEW b \in Seq(C), NEW x \in Seq(C), NEW y \in Seq(C),
         a \o x = b \o y, Len(a) = Len(b) \/ Len(x) = Len(y)
  PROVE  a = b /\ x = y
<1>1. Len(a) \in Nat /\ Len(b) \in Nat /\ Len(x) \in Nat /\ Len(y) \in Nat
  BY LenProperties
<1>2. /\ Len(a \o x) = Len(a) + Len(x) /\ Len(b \o y) = Len(b) + Len(y)
      /\ \A i \in 1..(Len(a) + Len(x)) : (a \o x)[i] = IF i <= Len(a) THEN a[i] ELSE x[i - Len(a)]
      /\ \A i \in 1..(Len(b) + Len(y)) : (b \o y)[i] = IF i <= Len(b) THEN b[i] ELSE y[i - Len(b)]
  BY ConcatProperties
<1>3. Len(a) = Len(b) /\ Len(x) = Len(y)
  BY <1>1, <1>2
<1>4. ASSUME NEW i \in 1..Len(a) PROVE a[i] = b[i]
  <2>1. i \in 1..(Len(a) + Len(x)) /\ i \in 1..(Len(b) + Len(y)) /\ i <= Len(a) /\ i <= Len(b)
    BY <1>1, <1>3
  <2> QED BY <1>2, <2>1
<1>5. ASSUME NEW i \in 1..Len(x) PROVE x[i] = y[i]
  <2> DEFINE k == Len(a) + i
  <2>1. /\ k \in 1..(Len(a) + Len(x)) /\ k \in 1..(Len(b) + Len(y)) /\ ~(k <= Len(a))
        /\ ~(k <= Len(b)) /\ k - Len(a) = i /\ k - Len(b) = i
    BY <1>1, <1>3
  <2> HIDE DEF k
  <2> QED BY <1>2, <2>1
<1> QED BY <1>3, <1>4, <1>5, SeqEqual

LEMMA Part ==
  ASSUME NEW s \in Text, NEW a \in Nat \ {0}, NEW b \in Nat, b <= Len(s)
  PROVE  /\ SubSeq(s, a, b) \in Text
         /\ Len(SubSeq(s, a, b)) = IF a <= b THEN b - a + 1 ELSE 0
         /\ \A i \in 1..(b - a + 1) : SubSeq(s, a, b)[i] = s[a + i - 1]
         /\ Upper(SubSeq(s, a, b)) = SubSeq(Upper(s), a, b)
<1>1. Len(s) \in Nat /\ DOMAIN s = 1..Len(s) /\ \A i \in a..b : s[i] \in Chars /\ i \in 1..Len(s)
  BY LenProperties, ElementOfSeq DEF Text
<1>2. /\ SubSeq(s, a, b) \in Text
      /\ Len(SubSeq(s, a, b)) = IF a <= b THEN b - a + 1 ELSE 0
      /\ \A i \in 1..(b - a + 1) : SubSeq(s, a, b)[i] = s[a + i - 1]
  BY <1>1, SubSeqProperties DEF Text
<1>3. /\ Upper(s) \in Text /\ Len(Upper(s)) = Len(s)
      /\ \A i \in 1..Len(s) : Upper(s)[i] = Up(s[i])
  BY <1>1, UpperIs
<1>4. \A i \in a..b : Upper(s)[i] \in Chars
  BY <1>1, <1>3, LenProperties, ElementOfSeq DEF Text
<1>5. /\ SubSeq(Upper(s), a, b) \in Text
      /\ Len(SubSeq(Upper(s), a, b)) = IF a <= b THEN b - a + 1 ELSE 0
      /\ \A i \in 1..(b - a + 1) : SubSeq(Upper(s), a, b)[i] = Upper(s)[a + i - 1]
  BY <1>4, SubSeqProperties DEF Text
<1> DEFINE u == SubSeq(s, a, b)
           v == SubSeq(Upper(s), a, b)
<1>6. /\ Upper(u) \in Text /\ Len(Upper(u)) = Len(u) /\ Len(u) \in Nat
      /\ \A i \in 1..Len(u) : Upper(u)[i] = Up(u[i])
  BY <1>2, UpperIs, LenProperties DEF Text
<1>7. ASSUME NEW i \in 1..Len(u) PROVE Upper(u)[i] = v[i]
  <2>1. i \in 1..(b - a + 1) /\ a + i - 1 \in 1..Len(s)
    BY <1>1, <1>2, <1>6
  <2> HIDE DEF u, v
  <2> QED BY <2>1, <1>2, <1>3, <1>5, <1>6 DEF u, v
<1>8. Len(v) = Len(u)
  BY <1>2, <1>5
<1> HIDE DEF u, v
<1>9. Upper(u) = v
  BY <1>2, <1>5, <1>6, <1>7, <1>8, SeqEqual DEF Text, v
<1> QED BY <1>2, <1>9 DEF u, v

LEMMA LeastAndGreatest ==
  ASSUME NEW n \in Nat, NEW S \in SUBSET (1..n), S # {}
  PROVE  /\ Min(S) \in S /\ \A x \in S : Min(S) <= x
         /\ Max(S) \in S /\ \A x \in S : x <= Max(S)
<1>0. S \in SUBSET Nat /\ \A x \in S : x \in Nat /\ x <= n
  OBVIOUS
<1>1. ASSUME NEW T \in SUBSET Nat, T # {} PROVE \E m \in T : \A x \in T : m <= x
  <2>1. PICK m \in T : \A x \in T : <<x, m>> \notin OpToRel(<, Nat)
    BY <1>1, NatLessThanWellFounded, WFMin, Zenon
  <2>2. \A x \in T : ~(x < m)
    BY <1>1, <2>1, Zenon DEF OpToRel
  <2> QED BY <2>2
<1>2. Min(S) \in S /\ \A x \in S : Min(S) <= x
  BY <1>0, <1>1 DEF Min
<1> DEFINE T == {n - x : x \in S}
<1>3. T \in SUBSET Nat /\ T # {}
  <2>1. \A x \in S : n - x \in Nat
    BY <1>0
  <2> QED BY <2>1, Zenon
<1>4. PICK m \in S : \A y \in T : n - m <= y
  BY <1>1, <1>3
<1>5. \A x \in S : x <= m
  <2> TAKE x \in S
  <2>1. n - m <= n - x
    BY <1>4
  <2> QED BY <2>1, <1>0
<1>6. Max(S) \in S /\ \A x \in S : x <= Max(S)
  BY <1>5 DEF Max
<1> QED BY <1>2, <1>6

LEMMA SameKept ==
  ASSUME NEW s \in Text, NEW c, NEW d, \A i \in DOMAIN s : s[i] \in c <=> s[i] \in d
  PROVE  Kept(s, c) = Kept(s, d)
<1> DEFINE K(P) == [k \in 1..Cardinality(P) |-> s[CHOOSE i \in P : Cardinality({j \in P : j <= i}) = k]]
<1>1. Kept(s, c) = K(Places(s, c)) /\ Kept(s, d) = K(Places(s, d))
  BY DEF Kept, Places
<1>2. Places(s, c) = Places(s, d)
  BY DEF Places
<1> HIDE DEF K
<1> QED BY <1>1, <1>2

-----------------------------------------------------------------------------
(* Stripping.                                                              *)

(* Stripping and upper case may be swapped. *)
LEMMA StripIs ==
  ASSUME NEW s \in Text
  PROVE  Strip(s) \in Text /\ Strip(Upper(s)) = Upper(Strip(s))
<1> DEFINE black == {i \in DOMAIN s : s[i] \notin Space}
<1>1. DOMAIN s = 1..Len(s) /\ Len(s) \in Nat /\ black \in SUBSET (1..Len(s))
  BY LenProperties DEF Text
<1>2. Strip(s) = IF black = {} THEN <<>> ELSE SubSeq(s, Min(black), Max(black))
  BY DEF Strip
<1>3. Strip(Upper(s)) = IF black = {} THEN <<>> ELSE SubSeq(Upper(s), Min(black), Max(black))
  <2>1. Space \cap Letters = {} /\ Space \cap Lower = {}
    BY Marks, SeparatorsAreNone DEF AnyCase
  <2>2. \A i \in DOMAIN s : Upper(s)[i] \in Space <=> s[i] \in Space
    BY <2>1, UpperIs, UpKeepsClass
  <2>3. {i \in DOMAIN Upper(s) : Upper(s)[i] \notin Space} = black
    BY <2>2, UpperIs
  <2> HIDE DEF black
  <2> QED BY <2>3 DEF Strip
<1> HIDE DEF black
<1>4. CASE black = {}
  BY <1>2, <1>3, <1>4 DEF Text, Upper
<1>5. CASE black # {}
  <2>1. \A x \in black : x \in Nat \ {0} /\ x <= Len(s)
    BY <1>1
  <2>2. Min(black) \in black /\ Max(black) \in black
    BY <1>1, <1>5, LeastAndGreatest
  <2> DEFINE a == Min(black)
             b == Max(black)
  <2>3. a \in Nat \ {0} /\ b \in Nat /\ b <= Len(s)
    BY <2>1, <2>2
  <2> HIDE DEF a, b
  <2>4. SubSeq(s, a, b) \in Text /\ Upper(SubSeq(s, a, b)) = SubSeq(Upper(s), a, b)
    BY <2>3, Part
  <2> QED BY <2>4, <1>2, <1>3, <1>5 DEF a, b
<1> QED BY <1>4, <1>5

(* A text that neither begins nor ends with a blank is what is left of it, *)
(* with or without a blank on both sides.                                  *)
(* A text that begins and ends with ink survives blanks around it. *)
LEMMA StripOf ==
  ASSUME NEW s \in Text, Len(s) > 0, s[1] \notin Space, s[Len(s)] \notin Space
  PROVE  Strip(s) = s /\ Strip(<<" ">> \o s \o <<" ">>) = s
<1>1. DOMAIN s = 1..Len(s) /\ Len(s) \in Nat
  BY LenProperties DEF Text
<1>2. ASSUME NEW t \in Text, NEW k \in Nat, k + Len(s) <= Len(t), SubSeq(t, k + 1, k + Len(s)) = s,
             \A i \in 1..Len(t) : i <= k \/ i > k + Len(s) => t[i] \in Space
      PROVE  Strip(t) = s
  <2> DEFINE black == {i \in DOMAIN t : t[i] \notin Space}
  <2>1. DOMAIN t = 1..Len(t) /\ Len(t) \in Nat /\ black \in SUBSET (1..Len(t))
    BY LenProperties DEF Text
  <2>2. \A i \in 1..Len(s) : t[k + i] = s[i]
    <3>0. k + 1 \in Nat \ {0} /\ k + Len(s) \in Nat /\ k + Len(s) <= Len(t)
      BY <1>1, <1>2
    <3>1. \A i \in 1..((k + Len(s)) - (k + 1) + 1) :
             SubSeq(t, k + 1, k + Len(s))[i] = t[(k + 1) + i - 1]
      BY <3>0, <1>2, Part
    <3>2. (k + Len(s)) - (k + 1) + 1 = Len(s) /\ \A i \in 1..Len(s) : (k + 1) + i - 1 = k + i
      BY <1>1
    <3> QED BY <3>1, <3>2, <1>2
  <2>3. k + 1 \in black /\ k + Len(s) \in black
    BY <1>1, <1>2, <2>1, <2>2
  <2>4. \A i \in black : k + 1 <= i /\ i <= k + Len(s)
    BY <1>1, <1>2, <2>1
  <2>5. Strip(t) = IF black = {} THEN <<>> ELSE SubSeq(t, Min(black), Max(black))
    BY DEF Strip
  <2> HIDE DEF black
  <2>6. Min(black) = k + 1 /\ Max(black) = k + Len(s)
    <3>1. /\ Min(black) \in black /\ \A x \in black : Min(black) <= x
          /\ Max(black) \in black /\ \A x \in black : x <= Max(black)
      BY <2>1, <2>3, LeastAndGreatest
    <3>0. \A x \in black : x \in Nat
      BY <2>1
    <3>2. Min(black) \in Nat /\ Max(black) \in Nat
      BY <3>0, <3>1
    <3> QED BY <3>1, <3>2, <2>3, <2>4, <1>1
  <2> QED BY <2>3, <2>5, <2>6, <1>2
<1>3. Strip(s) = s
  <2>1. 0 + Len(s) <= Len(s) /\ SubSeq(s, 0 + 1, 0 + Len(s)) = s
    BY <1>1, SubSeqFull DEF Text
  <2>2. \A i \in 1..Len(s) : ~(i <= 0 \/ i > 0 + Len(s))
    BY <1>1
  <2> QED BY <2>1, <2>2, <1>2
<1>4. Strip(<<" ">> \o s \o <<" ">>) = s
  <2> DEFINE b == <<" ">>
             t == b \o s \o b
  <2>1. b \in Text /\ Len(b) = 1 /\ b[1] \in Space
    <3> DEFINE c == " "
    <3>1. c \in Space
      BY Zenon DEF Space
    <3> HIDE DEF c
    <3>2. c \in Chars
      BY <3>1, ClassesAreChars, Marks
    <3>3. <<c>> \in Text /\ Len(<<c>>) = 1 /\ <<c>>[1] \in Space
      BY <3>1, <3>2 DEF Text
    <3> QED BY <3>3, Zenon DEF c
  <2> HIDE DEF b
  <2>2. /\ b \o s \in Text /\ Len(b \o s) = 1 + Len(s)
        /\ \A i \in 1..(1 + Len(s)) : (b \o s)[i] = IF i <= 1 THEN b[i] ELSE s[i - 1]
    <3>1. /\ b \o s \in Seq(Chars) /\ Len(b \o s) = Len(b) + Len(s)
          /\ \A i \in 1..(Len(b) + Len(s)) : (b \o s)[i] = IF i <= Len(b) THEN b[i] ELSE s[i - Len(b)]
      BY <2>1, <1>1, ConcatProperties DEF Text
    <3> QED BY <3>1, <2>1 DEF Text
  <2>3. /\ t \in Text /\ Len(t) = 2 + Len(s)
        /\ \A i \in 1..(2 + Len(s)) : t[i] = IF i <= 1 + Len(s) THEN (b \o s)[i] ELSE b[i - (1 + Len(s))]
    <3> DEFINE h == b \o s
    <3>1. /\ h \o b \in Seq(Chars) /\ Len(h \o b) = Len(h) + Len(b)
          /\ \A i \in 1..(Len(h) + Len(b)) : (h \o b)[i] = IF i <= Len(h) THEN h[i] ELSE b[i - Len(h)]
      BY <2>1, <2>2, ConcatProperties DEF Text
    <3>2. Len(h) = 1 + Len(s) /\ Len(h) + Len(b) = 2 + Len(s)
      BY <2>1, <2>2, <1>1
    <3> QED BY <3>1, <3>2 DEF Text
  <2> HIDE DEF t
  <2>4. t[1] \in Space /\ t[2 + Len(s)] \in Space /\ \A i \in 1..Len(s) : t[1 + i] = s[i]
    <3>1. /\ 1 \in 1..(2 + Len(s)) /\ 1 <= 1 + Len(s) /\ 1 \in 1..(1 + Len(s))
          /\ 2 + Len(s) \in 1..(2 + Len(s)) /\ ~(2 + Len(s) <= 1 + Len(s))
          /\ (2 + Len(s)) - (1 + Len(s)) = 1
      BY <1>1
    <3>2. \A i \in 1..Len(s) : /\ 1 + i \in 1..(2 + Len(s)) /\ 1 + i <= 1 + Len(s) /\ 1 + i \in 1..(1 + Len(s))
                               /\ ~(1 + i <= 1) /\ (1 + i) - 1 = i
      BY <1>1
    <3> QED BY <3>1, <3>2, <2>1, <2>2, <2>3
  <2>5. SubSeq(t, 1 + 1, 1 + Len(s)) = s
    <3>1. /\ SubSeq(t, 2, 1 + Len(s)) \in Text /\ Len(SubSeq(t, 2, 1 + Len(s))) = Len(s)
          /\ \A i \in 1..Len(s) : SubSeq(t, 2, 1 + Len(s))[i] = t[1 + i]
      <4>1. /\ 1 + Len(s) <= Len(t) /\ 1 + Len(s) \in Nat /\ 2 \in Nat \ {0}
            /\ (1 + Len(s)) - 2 + 1 = Len(s) /\ 2 <= 1 + Len(s)
        BY <1>1, <2>3
      <4>2. /\ SubSeq(t, 2, 1 + Len(s)) \in Text /\ Len(SubSeq(t, 2, 1 + Len(s))) = Len(s)
            /\ \A i \in 1..Len(s) : SubSeq(t, 2, 1 + Len(s))[i] = t[2 + i - 1]
        BY <4>1, <2>3, Part
      <4>3. \A i \in 1..Len(s) : 2 + i - 1 = 1 + i
        BY <1>1
      <4> QED BY <4>2, <4>3
    <3> QED BY <3>1, <2>4, SeqEqual DEF Text
  <2>6. \A i \in 1..Len(t) : i <= 1 \/ i > 1 + Len(s) => i = 1 \/ i = 2 + Len(s)
    BY <1>1, <2>3
  <2>7. 1 + Len(s) <= Len(t) /\ 1 \in Nat
    BY <1>1, <2>3
  <2>8. Strip(t) = s
    BY <2>3, <2>4, <2>5, <2>6, <2>7, <1>2
  <2> QED BY <2>8, Zenon DEF t, b
<1> QED BY <1>3, <1>4, Zenon

-----------------------------------------------------------------------------
(* Cleaning.                                                               *)

Dot == {"."}
Zero == {"0"}

LEMMA DotAndZero ==
  /\ Zero \subseteq Digits /\ Dot \subseteq Separators
  /\ Dot \cap Letters = {} /\ Dot \cap Lower = {} /\ Dot \cap Digits = {}
  /\ Zero \cap Letters = {} /\ Zero \cap Lower = {} /\ Zero \cap Dot = {}
<1>1. Zero \subseteq Digits /\ Dot \subseteq Separators
  BY Marks DEF Dot, Zero
<1>2. Dot \cap AnyCase = {}
  BY <1>1, SeparatorsAreNone
<1> HIDE DEF Dot, Zero
<1> QED BY <1>1, <1>2, ClassesAreDisjoint DEF AnyCase

LEMMA AllInUpper ==
  ASSUME NEW s \in Text, NEW class, class \cap Letters = {}, class \cap Lower = {}
  PROVE  AllIn(Upper(s), class) <=> AllIn(s, class)
<1>1. \A i \in DOMAIN s : Upper(s)[i] \in class <=> s[i] \in class
  BY UpperIs, UpKeepsClass
<1> QED BY <1>1, UpperIs DEF AllIn

(* Thousands of h digits and groups of three. *)
Grouped(s, h) ==
  /\ Len(s) > h /\ (Len(s) - h) % 4 = 0
  /\ \A i \in DOMAIN s : s[i] \in (IF i > h /\ (i - h) % 4 = 1 THEN Dot ELSE Digits)

LEMMA ThousandsIs == \A s : IsThousands(s) <=> \E h \in 1..3 : Grouped(s, h)
BY DEF IsThousands, Grouped, Dot

LEMMA ThousandsUpper ==
  ASSUME NEW s \in Text
  PROVE  IsThousands(Upper(s)) <=> IsThousands(s)
<1>1. /\ \A i \in DOMAIN s : Upper(s)[i] \in Dot <=> s[i] \in Dot
      /\ \A i \in DOMAIN s : Upper(s)[i] \in Digits <=> s[i] \in Digits
  BY UpperIs, UpKeepsClass, DotAndZero, ClassesAreDisjoint
<1>2. ASSUME NEW h \in 1..3 PROVE Grouped(Upper(s), h) <=> Grouped(s, h)
  BY <1>1, UpperIs DEF Grouped
<1> QED BY <1>2, ThousandsIs

(* Such a number begins with a digit and has a dot. *)
LEMMA ThousandsBegin ==
  ASSUME NEW s \in Text, IsThousands(s)
  PROVE  /\ Len(s) > 0 /\ s[1] \in Digits /\ \E i \in DOMAIN s : s[i] \in Dot
         /\ \A i \in DOMAIN s : s[i] \in Digits \cup Dot
<1>1. PICK h \in 1..3 : Grouped(s, h)
  BY ThousandsIs
<1>2. Len(s) \in Nat /\ DOMAIN s = 1..Len(s) /\ Len(s) > h
  BY <1>1, LenProperties DEF Text, Grouped
<1>3. 1 \in DOMAIN s /\ ~(1 > h) /\ h + 1 \in DOMAIN s /\ h + 1 > h /\ ((h + 1) - h) % 4 = 1
  BY <1>2
<1>4. s[1] \in Digits /\ s[h + 1] \in Dot
  BY <1>1, <1>3 DEF Grouped
<1>5. \A i \in DOMAIN s : s[i] \in Digits \cup Dot
  BY <1>1 DEF Grouped
<1> QED BY <1>2, <1>3, <1>4, <1>5

(* Taking the dots out changes no letter and no digit. *)
LEMMA ThousandsDropped ==
  ASSUME NEW s \in Text
  PROVE  /\ DropThousands(s) \in Text /\ Norm(DropThousands(s)) = Norm(s)
         /\ DropThousands(Upper(s)) = Upper(DropThousands(s))
         /\ IsThousands(s) => \A i \in DOMAIN DropThousands(s) : DropThousands(s)[i] \notin Dot
<1>1. CASE ~IsThousands(s)
  BY <1>1, ThousandsUpper DEF DropThousands
<1>2. CASE IsThousands(s)
  <2>1. \A i \in DOMAIN s : s[i] \in Digits \cup Dot
    BY <1>2, ThousandsBegin
  <2>2. \A i \in DOMAIN s : s[i] \in AnyCase <=> s[i] \in Digits
    BY <2>1, DotAndZero, SeparatorsAreNone, ClassesAreChars
  <2> DEFINE d == Kept(s, Digits)
  <2>3. d \in Text /\ d \in Seq(Digits) /\ Kept(s, AnyCase) = d
    BY <2>2, SameKept, KeptIs, KeptIsOfClass
  <2>4. d \in Seq(AlNum)
    BY <2>3, ClassesAreChars, SeqMonotonic
  <2>5. Norm(d) = d /\ Upper(d) = d
    <3>1. \A i \in DOMAIN d : d[i] \notin Lower
      BY <2>3, LenProperties, ElementOfSeq, ClassesAreDisjoint
    <3> QED BY <3>1, <2>3, <2>4, NormOfCode, UpperIsIdentity
  <2>6. DropThousands(s) = d
    BY <1>2 DEF DropThousands
  <2>7. DropThousands(Upper(s)) = d
    <3>1. \A c \in Chars : Up(c) \in Digits <=> c \in Digits
      BY ClassesAreDisjoint, UpKeepsClass
    <3>2. Kept(Upper(s), Digits) = Upper(d)
      BY <3>1, KeptUpper
    <3> QED BY <3>2, <2>5, <1>2, ThousandsUpper DEF DropThousands
  <2>8. Norm(s) = d
    BY <2>3, <2>5 DEF Norm, NormalizePostalCode, AnyCase
  <2>9. \A i \in DOMAIN d : d[i] \notin Dot
    BY <2>3, LenProperties, ElementOfSeq, DotAndZero
  <2> HIDE DEF d
  <2> QED BY <2>3, <2>5, <2>6, <2>7, <2>8, <2>9
<1> QED BY <1>1, <1>2

(* Where a dot and zeros end a text. *)
Dots(t) == {n \in 1..(Len(t) - 1) : t[n] \in Dot /\ AllIn(SubSeq(t, n + 1, Len(t)), Zero)}

(* The float suffix. *)
LEMMA DropFloatIs ==
  \A t : DropFloat(t) = IF Dots(t) = {} THEN t ELSE SubSeq(t, 1, Min(Dots(t)) - 1)
BY DEF DropFloat, Dots, Dot, Zero

LEMMA FloatIs == \A t : IsFloat(t) <=> Dots(t) # {}
BY DEF IsFloat, Dots, Dot, Zero

LEMMA NoFloat ==
  ASSUME NEW t \in Text, ~IsFloat(t)
  PROVE  Dots(t) = {} /\ DropFloat(t) = t
BY FloatIs, DropFloatIs

(* What has no dot is no float and no number of thousands. *)
LEMMA NoDot ==
  ASSUME NEW t \in Text, \A i \in DOMAIN t : t[i] \notin Dot
  PROVE  ~IsFloat(t) /\ ~IsThousands(t)
<1>1. DOMAIN t = 1..Len(t) /\ Len(t) \in Nat
  BY LenProperties DEF Text
<1>2. ~IsFloat(t)
  BY <1>1, FloatIs DEF Dots
<1> QED BY <1>2, ThousandsBegin

(* Dropping the zeros of a float and writing in capitals go together. *)
LEMMA FloatDropped ==
  ASSUME NEW t \in Text
  PROVE  /\ DropFloat(t) \in Text
         /\ DropFloat(Upper(t)) = Upper(DropFloat(t))
<1> DEFINE S == Dots(t)
           m == Min(S)
<1>1. DOMAIN t = 1..Len(t) /\ Len(t) \in Nat /\ \A i \in 1..Len(t) : t[i] \in Chars
  BY LenProperties, ElementOfSeq DEF Text
<1>2. \A x \in S : x \in Nat \ {0} /\ x + 1 <= Len(t) /\ x \in 1..Len(t)
  BY <1>1 DEF Dots
<1>3. Dots(Upper(t)) = S
  <2>1. ASSUME NEW n \in 1..(Len(t) - 1)
        PROVE  /\ Upper(t)[n] \in Dot <=> t[n] \in Dot
               /\ AllIn(SubSeq(Upper(t), n + 1, Len(t)), Zero) <=> AllIn(SubSeq(t, n + 1, Len(t)), Zero)
    <3>1. n \in DOMAIN t /\ n + 1 \in Nat \ {0} /\ Len(t) <= Len(t)
      BY <1>1
    <3>2. Upper(t)[n] \in Dot <=> t[n] \in Dot
      BY <3>1, UpperIs, UpKeepsClass, DotAndZero
    <3> DEFINE u == SubSeq(t, n + 1, Len(t))
    <3>3. u \in Text /\ Upper(u) = SubSeq(Upper(t), n + 1, Len(t))
      BY <3>1, <1>1, Part
    <3> HIDE DEF u
    <3>4. AllIn(Upper(u), Zero) <=> AllIn(u, Zero)
      BY <3>3, AllInUpper, DotAndZero
    <3> QED BY <3>2, <3>3, <3>4 DEF u
  <2>2. Len(Upper(t)) = Len(t)
    BY UpperIs
  <2> QED BY <2>1, <2>2 DEF Dots
<1>4. CASE S = {}
  <2>1. DropFloat(t) = t /\ DropFloat(Upper(t)) = Upper(t)
    BY <1>3, <1>4, DropFloatIs
  <2> QED BY <2>1
<1>5. CASE S # {}
  <2>1. m \in S
    <3>1. S \in SUBSET (1..Len(t))
      BY <1>2
    <3> HIDE DEF S
    <3> QED BY <3>1, <1>1, <1>5, LeastAndGreatest
  <2>2. m \in Nat \ {0} /\ m + 1 <= Len(t) /\ m \in 1..Len(t) /\ m - 1 \in 0..Len(t) /\ (m - 1) + 1 = m
    BY <2>1, <1>1, <1>2
  <2>3. DropFloat(t) = SubSeq(t, 1, m - 1) /\ DropFloat(Upper(t)) = SubSeq(Upper(t), 1, m - 1)
    BY <1>3, <1>5, DropFloatIs
  <2> HIDE DEF m, S
  <2>4. SubSeq(t, 1, m - 1) \in Text /\ Upper(SubSeq(t, 1, m - 1)) = SubSeq(Upper(t), 1, m - 1)
    <3>1. 1 \in Nat \ {0} /\ m - 1 \in Nat /\ m - 1 <= Len(t)
      BY <1>1, <2>2
    <3> QED BY <3>1, Part
  <2> QED BY <2>3, <2>4
<1> QED BY <1>4, <1>5

(* What is dropped of a float is all from its last dot on. *)
LEMMA WholeNumberIs ==
  ASSUME NEW t \in Text, IsFloat(t), ~IsThousands(t)
  PROVE  WholeNumber(t) = DropFloat(t)
<1> DEFINE S == Dots(t)
           m == Min(S)
           D == {n \in DOMAIN t : t[n] \in Dot}
<1>1. DOMAIN t = 1..Len(t) /\ Len(t) \in Nat
  BY LenProperties DEF Text
<1>2. S # {} /\ S \in SUBSET (1..Len(t)) /\ D \in SUBSET (1..Len(t))
  BY <1>1, FloatIs DEF Dots
<1>3. m \in S
  <2> HIDE DEF S
  <2> QED BY <1>1, <1>2, LeastAndGreatest
<1>4. m \in 1..(Len(t) - 1) /\ t[m] \in Dot /\ AllIn(SubSeq(t, m + 1, Len(t)), Zero)
  <2> HIDE DEF m
  <2> QED BY <1>3 DEF Dots
<1>5. WholeNumber(t) = SubSeq(t, 1, Max(D) - 1) /\ DropFloat(t) = SubSeq(t, 1, m - 1)
  BY <1>2, DropFloatIs DEF WholeNumber, Dot
<1> HIDE DEF m, S
<1>6. m \in D /\ m \in 1..Len(t)
  BY <1>1, <1>4
<1>7. \A x \in D : x <= m
  <2>1. SUFFICES ASSUME NEW x \in D, x > m PROVE FALSE
    BY <1>1, <1>6
  <2>2. x \in 1..Len(t) /\ t[x] \in Dot
    BY <1>1
  <2> DEFINE z == SubSeq(t, m + 1, Len(t))
             i == x - m
  <2>3. z \in Text /\ i \in DOMAIN z /\ z[i] = t[x]
    <3>1. m + 1 \in Nat \ {0} /\ Len(t) <= Len(t) /\ m + 1 <= Len(t)
      BY <1>1, <1>4
    <3>2. /\ z \in Text /\ Len(z) = Len(t) - (m + 1) + 1
          /\ \A j \in 1..(Len(t) - (m + 1) + 1) : z[j] = t[(m + 1) + j - 1]
      BY <3>1, <1>1, Part
    <3>3. i \in 1..(Len(t) - (m + 1) + 1) /\ (m + 1) + i - 1 = x
      BY <1>1, <1>6, <2>1, <2>2
    <3> HIDE DEF z, i
    <3> QED BY <3>2, <3>3, LenProperties DEF Text
  <2> HIDE DEF i
  <2>4. z[i] \in Zero
    BY <1>4, <2>3 DEF AllIn
  <2> QED BY <2>2, <2>3, <2>4, DotAndZero
<1>8. Max(D) = m
  <2> HIDE DEF D
  <2>1. Max(D) \in D /\ \A x \in D : x <= Max(D)
    BY <1>1, <1>2, <1>6, LeastAndGreatest
  <2>2. \A x \in D : x \in Nat
    BY <1>1, <1>2
  <2> DEFINE g == Max(D)
  <2>3. g \in Nat /\ m \in Nat /\ g <= m /\ m <= g
    BY <1>6, <1>7, <2>1, <2>2
  <2> HIDE DEF g
  <2>4. g = m
    BY <2>3
  <2> QED BY <2>4 DEF g
<1> QED BY <1>5, <1>8
====
