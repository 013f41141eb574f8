------------------------- MODULE ConfigParserProofs -------------------------
(***************************************************************************)
(* Proofs about FilterRules, for any strings, masks and rules, and about   *)
(* ConfigParser, for any configuration that users write.                   *)
(***************************************************************************)
EXTENDS ConfigParser, SequenceTheorems, WellFoundedInduction, TLAPS

-----------------------------------------------------------------------------
(* Induction over the natural numbers, for a set.                          *)
LEMMA Induct ==
  ASSUME NEW S, 0 \in S, \A n \in Nat : n \in S => n + 1 \in S
  PROVE  \A n \in Nat : n \in S
<1> DEFINE left == {n \in Nat : n \notin S}
<1> SUFFICES ASSUME left # {} PROVE FALSE
  OBVIOUS
<1>1. \E k \in left : \A m \in left : ~(<<m, k>> \in OpToRel(<, Nat))
  <2>1. left \subseteq Nat
    OBVIOUS
  <2> QED
    BY <2>1, NatLessThanWellFounded, WFMin
<1>2. PICK k \in left : \A m \in left : ~(m < k)
  BY <1>1 DEF OpToRel
<1>3. k \in Nat /\ k \notin S /\ k # 0
  OBVIOUS
<1>4. k - 1 \in Nat /\ k - 1 < k /\ (k - 1) + 1 = k
  BY <1>3
<1>5. k - 1 \in S
  BY <1>2, <1>4
<1> QED
  BY <1>3, <1>4, <1>5

-----------------------------------------------------------------------------
(* The rest of the string from i, cut into pieces for the rest of the mask *)
(* from j: piece k ends at cut[k].                                         *)
Fits(str, mask, from, to, k) ==
  \/ mask[k] = "*" /\ from <= to
  \/ /\ mask[k] # "*" /\ to = from + 1
     /\ mask[k] = "?" \/ Upper[mask[k]] = Upper[str[to]]

Cut(str, mask, i, j, cut) ==
  /\ cut[j - 1] = i - 1 /\ cut[Len(mask)] = Len(str)
  /\ \A k \in j .. Len(mask) : Fits(str, mask, cut[k - 1], cut[k], k)

CanBeCut(str, mask, i, j) ==
  \E cut \in [j - 1 .. Len(mask) -> 0 .. Len(str)] : Cut(str, mask, i, j, cut)

LEMMA CutAtEnd ==
  ASSUME NEW str, NEW mask, Len(str) \in Nat, Len(mask) \in Nat, NEW i \in 1 .. Len(str) + 1
  PROVE  CanBeCut(str, mask, i, Len(mask) + 1) <=> i > Len(str)
<1> DEFINE m == Len(mask)
           n == Len(str)
<1>1. m + 1 - 1 = m /\ (i - 1 = n <=> i > n)
  OBVIOUS
<1>2. ASSUME NEW cut, Cut(str, mask, i, m + 1, cut)
      PROVE  i - 1 = n
  BY <1>1, <1>2 DEF Cut
<1>3. ASSUME i - 1 = n
      PROVE  CanBeCut(str, mask, i, m + 1)
  <2> DEFINE cut == [k \in m + 1 - 1 .. m |-> n]
  <2>1. cut \in [m + 1 - 1 .. m -> 0 .. n]
    OBVIOUS
  <2>2. cut[m + 1 - 1] = n /\ cut[m] = n
    OBVIOUS
  <2>3. m + 1 .. m = {}
    OBVIOUS
  <2> HIDE DEF cut
  <2>4. Cut(str, mask, i, m + 1, cut)
    BY <1>3, <2>2, <2>3 DEF Cut
  <2> QED
    BY <2>1, <2>4 DEF CanBeCut
<1> QED
  BY <1>1, <1>2, <1>3 DEF CanBeCut

(* A cut without its first piece, and with one more.                       *)
LEMMA CutShorter ==
  ASSUME NEW str, NEW mask, Len(str) \in Nat, Len(mask) \in Nat, NEW i \in 1 .. Len(str) + 1,
         NEW j \in 1 .. Len(mask), NEW cut \in [j - 1 .. Len(mask) -> 0 .. Len(str)],
         Cut(str, mask, i, j, cut)
  PROVE  /\ Fits(str, mask, i - 1, cut[j], j) /\ cut[j] \in 0 .. Len(str)
         /\ CanBeCut(str, mask, cut[j] + 1, j + 1)
<1> DEFINE m == Len(mask)
           rest == [k \in j + 1 - 1 .. m |-> cut[k]]
<1>1. j + 1 - 1 = j /\ j \in j .. m /\ j \in j - 1 .. m /\ m \in j .. m
  OBVIOUS
<1>2. Fits(str, mask, i - 1, cut[j], j) /\ cut[j] \in 0 .. Len(str)
  BY <1>1 DEF Cut
<1>3. rest \in [j + 1 - 1 .. m -> 0 .. Len(str)]
  OBVIOUS
<1>4. \A k \in j .. m : rest[k] = cut[k]
  OBVIOUS
<1> HIDE DEF rest
<1>5. rest[j + 1 - 1] = cut[j] + 1 - 1
  BY <1>1, <1>2, <1>4
<1>6. rest[m] = Len(str)
  BY <1>1, <1>4 DEF Cut
<1>7. ASSUME NEW k \in j + 1 .. m
      PROVE  Fits(str, mask, rest[k - 1], rest[k], k)
  <2>1. k \in j .. m /\ k - 1 \in j .. m
    OBVIOUS
  <2>2. rest[k - 1] = cut[k - 1] /\ rest[k] = cut[k]
    BY <1>4, <2>1
  <2>3. Fits(str, mask, cut[k - 1], cut[k], k)
    BY <2>1 DEF Cut
  <2> QED
    BY <2>2, <2>3
<1>8. Cut(str, mask, cut[j] + 1, j + 1, rest)
  BY <1>5, <1>6, <1>7 DEF Cut
<1> QED
  BY <1>2, <1>3, <1>8 DEF CanBeCut

LEMMA CutLonger ==
  ASSUME NEW str, NEW mask, Len(str) \in Nat, Len(mask) \in Nat, NEW i \in 1 .. Len(str) + 1,
         NEW j \in 1 .. Len(mask), NEW to \in 0 .. Len(str),
         Fits(str, mask, i - 1, to, j), CanBeCut(str, mask, to + 1, j + 1)
  PROVE  CanBeCut(str, mask, i, j)
<1> DEFINE m == Len(mask)
<1>1. j + 1 - 1 = j /\ j \in j .. m /\ to + 1 - 1 = to /\ m \in j .. m
  OBVIOUS
<1>2. PICK rest \in [j + 1 - 1 .. m -> 0 .. Len(str)] : Cut(str, mask, to + 1, j + 1, rest)
  BY DEF CanBeCut
<1>3. rest[j] = to /\ rest[m] = Len(str)
  BY <1>1, <1>2 DEF Cut
<1> DEFINE cut == [k \in j - 1 .. m |-> IF k = j - 1 THEN i - 1 ELSE rest[k]]
<1>4. cut \in [j - 1 .. m -> 0 .. Len(str)]
  OBVIOUS
<1>5. cut[j - 1] = i - 1 /\ \A k \in j .. m : cut[k] = rest[k]
  OBVIOUS
<1> HIDE DEF cut
<1>6. cut[m] = Len(str)
  BY <1>1, <1>3, <1>5
<1>7. ASSUME NEW k \in j .. m
      PROVE  Fits(str, mask, cut[k - 1], cut[k], k)
  <2>1. CASE k = j
    <3>1. cut[k - 1] = i - 1 /\ cut[k] = to
      BY <1>1, <1>3, <1>5, <2>1
    <3> QED
      BY <2>1, <3>1
  <2>2. CASE k # j
    <3>1. k \in j + 1 .. m /\ k - 1 \in j .. m
      BY <2>2
    <3>2. cut[k - 1] = rest[k - 1] /\ cut[k] = rest[k]
      BY <1>5, <3>1
    <3>3. Fits(str, mask, rest[k - 1], rest[k], k)
      BY <1>2, <3>1 DEF Cut
    <3> QED
      BY <3>2, <3>3
  <2> QED
    BY <2>1, <2>2
<1>8. Cut(str, mask, i, j, cut)
  BY <1>5, <1>6, <1>7 DEF Cut
<1> QED
  BY <1>4, <1>8 DEF CanBeCut

LEMMA CutOne ==
  ASSUME NEW str, NEW mask, Len(str) \in Nat, Len(mask) \in Nat, NEW i \in 1 .. Len(str) + 1,
         NEW j \in 1 .. Len(mask)
  PROVE  CanBeCut(str, mask, i, j) <=>
           \E to \in 0 .. Len(str) :
             Fits(str, mask, i - 1, to, j) /\ CanBeCut(str, mask, to + 1, j + 1)
<1>1. ASSUME CanBeCut(str, mask, i, j)
      PROVE  \E to \in 0 .. Len(str) :
               Fits(str, mask, i - 1, to, j) /\ CanBeCut(str, mask, to + 1, j + 1)
  <2>1. PICK cut \in [j - 1 .. Len(mask) -> 0 .. Len(str)] : Cut(str, mask, i, j, cut)
    BY <1>1 DEF CanBeCut
  <2> QED
    BY <2>1, CutShorter
<1>2. ASSUME NEW to \in 0 .. Len(str), Fits(str, mask, i - 1, to, j),
             CanBeCut(str, mask, to + 1, j + 1)
      PROVE  CanBeCut(str, mask, i, j)
  BY <1>2, CutLonger
<1> QED
  BY <1>1, <1>2

(* The cases of the recursion.                                             *)
LEMMA CutStar ==
  ASSUME NEW str, NEW mask, Len(str) \in Nat, Len(mask) \in Nat, NEW i \in 1 .. Len(str) + 1,
         NEW j \in 1 .. Len(mask), mask[j] = "*"
  PROVE  CanBeCut(str, mask, i, j) <=>
           CanBeCut(str, mask, i, j + 1) \/ (i <= Len(str) /\ CanBeCut(str, mask, i + 1, j))
<1>1. \A from, to : Fits(str, mask, from, to, j) <=> from <= to
  BY DEF Fits
<1>2. CanBeCut(str, mask, i, j) <=>
        \E to \in 0 .. Len(str) : i - 1 <= to /\ CanBeCut(str, mask, to + 1, j + 1)
  BY <1>1, CutOne
<1>3. i <= Len(str) => i + 1 \in 1 .. Len(str) + 1
  OBVIOUS
<1>4. ASSUME i <= Len(str)
      PROVE  CanBeCut(str, mask, i + 1, j) <=>
               \E to \in 0 .. Len(str) : i + 1 - 1 <= to /\ CanBeCut(str, mask, to + 1, j + 1)
  <2> DEFINE next == i + 1
  <2>1. next \in 1 .. Len(str) + 1
    BY <1>3, <1>4
  <2> HIDE DEF next
  <2>2. CanBeCut(str, mask, next, j) <=>
          \E to \in 0 .. Len(str) : next - 1 <= to /\ CanBeCut(str, mask, to + 1, j + 1)
    BY <1>1, <2>1, CutOne
  <2> QED
    BY <2>2 DEF next
<1>5. i - 1 \in 0 .. Len(str) /\ i - 1 + 1 = i /\ i - 1 <= i - 1
  OBVIOUS
<1>6. ASSUME CanBeCut(str, mask, i, j)
      PROVE  CanBeCut(str, mask, i, j + 1) \/ (i <= Len(str) /\ CanBeCut(str, mask, i + 1, j))
  <2>1. PICK to \in 0 .. Len(str) : i - 1 <= to /\ CanBeCut(str, mask, to + 1, j + 1)
    BY <1>2, <1>6
  <2>2. CASE to = i - 1
    BY <1>5, <2>1, <2>2
  <2>3. CASE to # i - 1
    <3>1. i + 1 - 1 <= to /\ i <= Len(str)
      BY <2>1, <2>3
    <3> QED
      BY <1>4, <2>1, <3>1
  <2> QED
    BY <2>2, <2>3
<1>7. ASSUME CanBeCut(str, mask, i, j + 1)
      PROVE  CanBeCut(str, mask, i, j)
  <2>1. i - 1 \in 0 .. Len(str) /\ i - 1 <= i - 1 /\ CanBeCut(str, mask, i - 1 + 1, j + 1)
    BY <1>5, <1>7
  <2> QED
    BY <1>2, <2>1
<1>8. ASSUME i <= Len(str), CanBeCut(str, mask, i + 1, j)
      PROVE  CanBeCut(str, mask, i, j)
  <2>1. PICK to \in 0 .. Len(str) : i + 1 - 1 <= to /\ CanBeCut(str, mask, to + 1, j + 1)
    BY <1>4, <1>8
  <2>2. i - 1 <= to
    BY <2>1
  <2> QED
    BY <1>2, <2>1, <2>2
<1> QED
  BY <1>6, <1>7, <1>8

LEMMA CutChar ==
  ASSUME NEW str, NEW mask, Len(str) \in Nat, Len(mask) \in Nat, NEW i \in 1 .. Len(str) + 1,
         NEW j \in 1 .. Len(mask), mask[j] # "*"
  PROVE  CanBeCut(str, mask, i, j) <=>
           /\ i <= Len(str)
           /\ mask[j] = "?" \/ Upper[str[i]] = Upper[mask[j]]
           /\ CanBeCut(str, mask, i + 1, j + 1)
<1> DEFINE same == mask[j] = "?" \/ Upper[str[i]] = Upper[mask[j]]
<1>1. ASSUME NEW to \in 0 .. Len(str)
      PROVE  Fits(str, mask, i - 1, to, j) <=> to = i /\ same
  <2>1. i - 1 + 1 = i
    OBVIOUS
  <2> QED
    BY <2>1 DEF Fits
<1> HIDE DEF same
<1>2. CanBeCut(str, mask, i, j) <=>
        \E to \in 0 .. Len(str) : to = i /\ same /\ CanBeCut(str, mask, to + 1, j + 1)
  BY <1>1, CutOne
<1>3. i \in 0 .. Len(str) <=> i <= Len(str)
  OBVIOUS
<1>4. CanBeCut(str, mask, i, j) <=>
        i <= Len(str) /\ same /\ CanBeCut(str, mask, i + 1, j + 1)
  BY <1>2, <1>3
<1> QED
  BY <1>4 DEF same

(* The pieces of the whole string.                                         *)
LEMMA DocumentedCut ==
  ASSUME NEW str, NEW mask, Len(str) \in Nat, Len(mask) \in Nat \ {0}
  PROVE  DocumentedMatch(str, mask) <=> CanBeCut(str, mask, 1, 1)
<1> DEFINE n == Len(str)
           m == Len(mask)
           At(inner, j) == IF j = 0 THEN 0 ELSE IF j = m THEN n ELSE inner[j]
           Piece(inner, j) ==
             \/ mask[j] = "*" /\ At(inner, j - 1) <= At(inner, j)
             \/ /\ mask[j] # "*" /\ At(inner, j) = At(inner, j - 1) + 1
                /\ mask[j] = "?" \/ Upper[mask[j]] = Upper[str[At(inner, j)]]
<1>1. DocumentedMatch(str, mask) <=>
        \E inner \in [1 .. m - 1 -> 0 .. n] : \A j \in 1 .. m : Piece(inner, j)
  BY DEF DocumentedMatch
<1>2. \A inner, j : Piece(inner, j) <=> Fits(str, mask, At(inner, j - 1), At(inner, j), j)
  BY DEF Fits
<1> HIDE DEF Piece
<1>3. ASSUME NEW inner \in [1 .. m - 1 -> 0 .. n], \A j \in 1 .. m : Piece(inner, j)
      PROVE  CanBeCut(str, mask, 1, 1)
  <2> DEFINE cut == [k \in 1 - 1 .. m |-> At(inner, k)]
  <2>1. cut \in [1 - 1 .. m -> 0 .. n]
    OBVIOUS
  <2>2. \A k \in 1 - 1 .. m : cut[k] = At(inner, k)
    OBVIOUS
  <2>3. cut[1 - 1] = 1 - 1 /\ cut[m] = n
    OBVIOUS
  <2> HIDE DEF cut, At
  <2>4. ASSUME NEW k \in 1 .. m
        PROVE  Fits(str, mask, cut[k - 1], cut[k], k)
    <3>1. k \in 1 - 1 .. m /\ k - 1 \in 1 - 1 .. m
      OBVIOUS
    <3>2. cut[k - 1] = At(inner, k - 1) /\ cut[k] = At(inner, k)
      BY <2>2, <3>1
    <3> QED
      BY <1>2, <1>3, <3>2
  <2>5. Cut(str, mask, 1, 1, cut)
    BY <2>3, <2>4 DEF Cut
  <2> QED
    BY <2>1, <2>5 DEF CanBeCut
<1>4. ASSUME NEW cut \in [1 - 1 .. m -> 0 .. n], Cut(str, mask, 1, 1, cut)
      PROVE  \E inner \in [1 .. m - 1 -> 0 .. n] : \A j \in 1 .. m : Piece(inner, j)
  <2> DEFINE inner == [k \in 1 .. m - 1 |-> cut[k]]
  <2>1. inner \in [1 .. m - 1 -> 0 .. n]
    OBVIOUS
  <2>2. cut[0] = 0 /\ cut[m] = n
    BY <1>4 DEF Cut
  <2>3. \A k \in 0 .. m : At(inner, k) = cut[k]
    BY <2>2
  <2> HIDE DEF inner, At
  <2>4. ASSUME NEW k \in 1 .. m
        PROVE  Piece(inner, k)
    <3>1. k \in 0 .. m /\ k - 1 \in 0 .. m
      OBVIOUS
    <3>2. cut[k - 1] = At(inner, k - 1) /\ cut[k] = At(inner, k)
      BY <2>3, <3>1
    <3>3. Fits(str, mask, cut[k - 1], cut[k], k)
      BY <1>4 DEF Cut
    <3> QED
      BY <1>2, <3>2, <3>3
  <2> QED
    BY <2>1, <2>4
<1> QED
  BY <1>1, <1>3, <1>4 DEF CanBeCut

-----------------------------------------------------------------------------
(* The recursive function of WildcardMatch has one value for each place,   *)
(* and it is CanBeCut.                                                     *)
Rounds(str, mask) == (1 .. Len(str) + 1) \X (1 .. Len(mask) + 1)

Round(str, mask, match, i, j) ==
  IF j > Len(mask) THEN i > Len(str)
  ELSE IF mask[j] = "?" THEN i <= Len(str) /\ match[<<i + 1, j + 1>>]
  ELSE IF mask[j] = "*" THEN match[<<i, j + 1>>] \/ (i <= Len(str) /\ match[<<i + 1, j>>])
  ELSE i <= Len(str) /\ Upper[str[i]] = Upper[mask[j]] /\ match[<<i + 1, j + 1>>]

Solves(str, mask, match) ==
  match = [at \in Rounds(str, mask) |-> Round(str, mask, match, at[1], at[2])]

LEMMA MatchChosen ==
  ASSUME NEW str, NEW mask
  PROVE  WildcardMatch(str, mask) = (CHOOSE match : Solves(str, mask, match))[<<1, 1>>]
  BY DEF WildcardMatch, Solves, Rounds, Round

LEMMA CutSolves ==
  ASSUME NEW str, NEW mask, Len(str) \in Nat, Len(mask) \in Nat, NEW match,
         NEW i \in 1 .. Len(str) + 1, NEW j \in 1 .. Len(mask) + 1,
         j <= Len(mask) =>
           /\ i <= Len(str) => /\ match[<<i + 1, j + 1>>] <=> CanBeCut(str, mask, i + 1, j + 1)
                               /\ match[<<i + 1, j>>] <=> CanBeCut(str, mask, i + 1, j)
           /\ match[<<i, j + 1>>] <=> CanBeCut(str, mask, i, j + 1)
  PROVE  Round(str, mask, match, i, j) <=> CanBeCut(str, mask, i, j)
<1>1. CASE j > Len(mask)
  <2>1. j = Len(mask) + 1
    BY <1>1
  <2> QED
    BY <1>1, <2>1, CutAtEnd DEF Round
<1>2. CASE j <= Len(mask)
  <2>1. j \in 1 .. Len(mask) /\ ~(j > Len(mask))
    BY <1>2
  <2>2. CASE mask[j] = "*"
    <3>1. Round(str, mask, match, i, j) <=>
            match[<<i, j + 1>>] \/ (i <= Len(str) /\ match[<<i + 1, j>>])
      BY <2>1, <2>2 DEF Round
    <3>2. CanBeCut(str, mask, i, j) <=>
            CanBeCut(str, mask, i, j + 1) \/ (i <= Len(str) /\ CanBeCut(str, mask, i + 1, j))
      BY <2>1, <2>2, CutStar
    <3> QED
      BY <1>2, <3>1, <3>2
  <2>3. CASE mask[j] # "*"
    <3>1. Round(str, mask, match, i, j) <=>
            /\ i <= Len(str)
            /\ mask[j] = "?" \/ Upper[str[i]] = Upper[mask[j]]
            /\ match[<<i + 1, j + 1>>]
      BY <2>1, <2>3 DEF Round
    <3>2. CanBeCut(str, mask, i, j) <=>
            /\ i <= Len(str)
            /\ mask[j] = "?" \/ Upper[str[i]] = Upper[mask[j]]
            /\ CanBeCut(str, mask, i + 1, j + 1)
      BY <2>1, <2>3, CutChar
    <3> QED
      BY <1>2, <3>1, <3>2
  <2> QED
    BY <2>2, <2>3
<1> QED
  BY <1>1, <1>2

LEMMA SomeSolves ==
  ASSUME NEW str, NEW mask, Len(str) \in Nat, Len(mask) \in Nat
  PROVE  \E match : Solves(str, mask, match)
<1> DEFINE match == [at \in Rounds(str, mask) |-> CanBeCut(str, mask, at[1], at[2])]
<1>1. ASSUME NEW i \in 1 .. Len(str) + 1, NEW j \in 1 .. Len(mask) + 1
      PROVE  match[<<i, j>>] = CanBeCut(str, mask, i, j)
  <2>1. <<i, j>> \in Rounds(str, mask) /\ <<i, j>>[1] = i /\ <<i, j>>[2] = j
    BY DEF Rounds
  <2> QED
    BY <2>1
<1>2. match = [at \in Rounds(str, mask) |-> match[at]]
  OBVIOUS
<1> HIDE DEF match
<1>3. ASSUME NEW i \in 1 .. Len(str) + 1, NEW j \in 1 .. Len(mask) + 1
      PROVE  match[<<i, j>>] = Round(str, mask, match, i, j)
  <2>1. ASSUME j <= Len(mask), i <= Len(str)
        PROVE  /\ match[<<i + 1, j + 1>>] <=> CanBeCut(str, mask, i + 1, j + 1)
               /\ match[<<i + 1, j>>] <=> CanBeCut(str, mask, i + 1, j)
    <3>1. i + 1 \in 1 .. Len(str) + 1 /\ j + 1 \in 1 .. Len(mask) + 1
      BY <2>1
    <3> QED
      BY <1>1, <3>1
  <2>2. ASSUME j <= Len(mask)
        PROVE  match[<<i, j + 1>>] <=> CanBeCut(str, mask, i, j + 1)
    <3>1. j + 1 \in 1 .. Len(mask) + 1
      BY <2>2
    <3> QED
      BY <1>1, <3>1
  <2>3. Round(str, mask, match, i, j) <=> CanBeCut(str, mask, i, j)
    BY <2>1, <2>2, CutSolves
  <2>4. Round(str, mask, match, i, j) \in BOOLEAN
    <3>1. CASE j > Len(mask)
      <4>1. (i > Len(str)) \in BOOLEAN
        OBVIOUS
      <4>2. Round(str, mask, match, i, j) = (i > Len(str))
        BY <3>1, Zenon DEF Round
      <4> QED
        BY <4>1, <4>2
    <3>2. CASE ~(j > Len(mask)) /\ mask[j] = "?"
      BY <3>2, Zenon DEF Round
    <3>3. CASE ~(j > Len(mask)) /\ mask[j] # "?" /\ mask[j] = "*"
      BY <3>3, Zenon DEF Round
    <3>4. CASE ~(j > Len(mask)) /\ mask[j] # "?" /\ mask[j] # "*"
      BY <3>4, Zenon DEF Round
    <3> QED
      BY <3>1, <3>2, <3>3, <3>4
  <2>5. CanBeCut(str, mask, i, j) \in BOOLEAN
    BY DEF CanBeCut
  <2>6. Round(str, mask, match, i, j) = CanBeCut(str, mask, i, j)
    BY <2>3, <2>4, <2>5
  <2> QED
    BY <1>1, <2>6
<1>4. ASSUME NEW at \in Rounds(str, mask)
      PROVE  match[at] = Round(str, mask, match, at[1], at[2])
  <2>1. at = <<at[1], at[2]>> /\ at[1] \in 1 .. Len(str) + 1 /\ at[2] \in 1 .. Len(mask) + 1
    BY DEF Rounds
  <2> QED
    BY <1>3, <2>1
<1>5. Solves(str, mask, match)
  BY <1>2, <1>4 DEF Solves
<1> QED
  BY <1>5

LEMMA SolutionCuts ==
  ASSUME NEW str, NEW mask, Len(str) \in Nat, Len(mask) \in Nat,
         NEW match, Solves(str, mask, match)
  PROVE  match[<<1, 1>>] <=> CanBeCut(str, mask, 1, 1)
<1> DEFINE Left(i, j) == (Len(str) + 1 - i) + (Len(mask) + 1 - j)
           S == {d \in Nat : \A i \in 1 .. Len(str) + 1, j \in 1 .. Len(mask) + 1 :
                   Left(i, j) < d => (match[<<i, j>>] <=> CanBeCut(str, mask, i, j))}
<1>1. ASSUME NEW i \in 1 .. Len(str) + 1, NEW j \in 1 .. Len(mask) + 1
      PROVE  match[<<i, j>>] = Round(str, mask, match, i, j)
  <2>1. <<i, j>> \in Rounds(str, mask) /\ <<i, j>>[1] = i /\ <<i, j>>[2] = j
    BY DEF Rounds
  <2>2. \A at \in Rounds(str, mask) : match[at] = Round(str, mask, match, at[1], at[2])
    BY DEF Solves
  <2> QED
    BY <2>1, <2>2
<1>2. 0 \in S
  OBVIOUS
<1>3. ASSUME NEW d \in Nat, d \in S
      PROVE  d + 1 \in S
  <2>1. SUFFICES ASSUME NEW i \in 1 .. Len(str) + 1, NEW j \in 1 .. Len(mask) + 1,
                        Left(i, j) < d + 1
                 PROVE  match[<<i, j>>] <=> CanBeCut(str, mask, i, j)
    OBVIOUS
  <2>2. \A k \in 1 .. Len(str) + 1, l \in 1 .. Len(mask) + 1 :
          Left(k, l) < d => (match[<<k, l>>] <=> CanBeCut(str, mask, k, l))
    BY <1>3
  <2>3. ASSUME j <= Len(mask), i <= Len(str)
        PROVE  /\ match[<<i + 1, j + 1>>] <=> CanBeCut(str, mask, i + 1, j + 1)
               /\ match[<<i + 1, j>>] <=> CanBeCut(str, mask, i + 1, j)
    <3>1. /\ i + 1 \in 1 .. Len(str) + 1 /\ j + 1 \in 1 .. Len(mask) + 1
          /\ Left(i + 1, j + 1) < d /\ Left(i + 1, j) < d
      BY <2>1, <2>3
    <3> HIDE DEF Left
    <3> QED
      BY <2>2, <3>1
  <2>4. ASSUME j <= Len(mask)
        PROVE  match[<<i, j + 1>>] <=> CanBeCut(str, mask, i, j + 1)
    <3>1. j + 1 \in 1 .. Len(mask) + 1 /\ Left(i, j + 1) < d
      BY <2>1, <2>4
    <3> HIDE DEF Left
    <3> QED
      BY <2>2, <3>1
  <2>5. Round(str, mask, match, i, j) <=> CanBeCut(str, mask, i, j)
    BY <2>3, <2>4, CutSolves
  <2> QED
    BY <1>1, <2>5
<1>4. \A d \in Nat : d \in S
  <2> HIDE DEF S
  <2> QED
    BY <1>2, <1>3, Induct
<1>5. /\ Left(1, 1) + 1 \in Nat /\ Left(1, 1) < Left(1, 1) + 1
      /\ 1 \in 1 .. Len(str) + 1 /\ 1 \in 1 .. Len(mask) + 1
  OBVIOUS
<1>6. Left(1, 1) + 1 \in S
  BY <1>4, <1>5
<1> HIDE DEF Left
<1> QED
  BY <1>5, <1>6

(* Masks mean what is documented, for every name and every mask: "?" one   *)
(* character, "*" any number of them, anything else itself in either case  *)
(* (WildcardMatch, glob.cpp).  The parser keeps no empty mask.             *)
THEOREM WildcardsAsDocumented ==
  ASSUME NEW S, NEW str \in Seq(S), NEW mask \in Seq(S), mask # <<>>
  PROVE  WildcardMatch(str, mask) <=> DocumentedMatch(str, mask)
<1>1. Len(str) \in Nat /\ Len(mask) \in Nat \ {0}
  OBVIOUS
<1>2. Solves(str, mask, CHOOSE match : Solves(str, mask, match))
  BY <1>1, SomeSolves
<1>3. WildcardMatch(str, mask) <=> CanBeCut(str, mask, 1, 1)
  BY <1>1, <1>2, MatchChosen, SolutionCuts
<1> QED
  BY <1>1, <1>3, DocumentedCut

-----------------------------------------------------------------------------
(* Joined.                                                                 *)
JoinedRound(parts, end, from, i) == IF i > Len(parts) THEN end ELSE parts[i] \o from[i + 1]

LEMMA JoinedSolvable ==
  ASSUME NEW parts, NEW end, Len(parts) \in Nat
  PROVE  \E from : from = [i \in 1 .. Len(parts) + 1 |-> JoinedRound(parts, end, from, i)]
<1> DEFINE N == Len(parts)
           Solved(m) == \E from : \A i \in N + 1 - m .. N + 1 :
                          from[i] = JoinedRound(parts, end, from, i)
           S == {m \in Nat : m <= N => Solved(m)}
<1>1. 0 \in S
  <2> DEFINE from == [i \in {N + 1} |-> end]
  <2>1. \A i \in N + 1 .. N + 1 : i = N + 1
    OBVIOUS
  <2>2. from[N + 1] = JoinedRound(parts, end, from, N + 1)
    <3>1. N + 1 > N /\ N + 1 \in {N + 1}
      OBVIOUS
    <3> QED
      BY <3>1 DEF JoinedRound
  <2> HIDE DEF from
  <2>3. Solved(0)
    BY <2>1, <2>2
  <2> QED
    BY <2>3
<1>2. ASSUME NEW m \in Nat, m \in S
      PROVE  m + 1 \in S
  <2> SUFFICES ASSUME m + 1 <= N PROVE Solved(m + 1)
    OBVIOUS
  <2>1. PICK from : \A i \in N + 1 - m .. N + 1 : from[i] = JoinedRound(parts, end, from, i)
    BY <1>2
  <2> DEFINE k == N - m
             new == [i \in k .. N + 1 |-> IF i = k THEN parts[k] \o from[k + 1] ELSE from[i]]
  <2>2. k \in Nat /\ k < N + 1 /\ k + 1 = N + 1 - m /\ k = N + 1 - (m + 1) /\ ~(k > N)
    OBVIOUS
  <2>3. new[k] = parts[k] \o from[k + 1] /\ new[k + 1] = from[k + 1]
    <3>1. k \in k .. N + 1 /\ k + 1 \in k .. N + 1 /\ k + 1 # k
      BY <2>2
    <3> QED
      BY <3>1
  <2>4. new[k] = JoinedRound(parts, end, new, k)
    BY <2>2, <2>3 DEF JoinedRound
  <2>5. ASSUME NEW i \in k + 1 .. N + 1
        PROVE  new[i] = JoinedRound(parts, end, new, i)
    <3>1. new[i] = from[i] /\ (i <= N => new[i + 1] = from[i + 1])
      BY <2>2
    <3>2. i \in N + 1 - m .. N + 1 /\ (i > N \/ i <= N)
      BY <2>2
    <3> QED
      BY <2>1, <3>1, <3>2 DEF JoinedRound
  <2>6. \A i \in N + 1 - (m + 1) .. N + 1 : i = k \/ i \in k + 1 .. N + 1
    BY <2>2
  <2> HIDE DEF new, k
  <2>7. \A i \in N + 1 - (m + 1) .. N + 1 : new[i] = JoinedRound(parts, end, new, i)
    BY <2>4, <2>5, <2>6
  <2> QED
    BY <2>7
<1>3. \A m \in Nat : m \in S
  <2> HIDE DEF S
  <2> QED
    BY <1>1, <1>2, Induct
<1>4. PICK from : \A i \in 1 .. N + 1 : from[i] = JoinedRound(parts, end, from, i)
  <2>1. N \in S /\ N + 1 - N = 1
    BY <1>3
  <2> QED
    BY <2>1
<1> DEFINE new == [i \in 1 .. N + 1 |-> from[i]]
<1>5. ASSUME NEW i \in 1 .. N + 1
      PROVE  JoinedRound(parts, end, new, i) = from[i]
  <2>1. i <= N => new[i + 1] = from[i + 1]
    OBVIOUS
  <2>2. i > N \/ i <= N
    OBVIOUS
  <2> QED
    BY <1>4, <2>1, <2>2 DEF JoinedRound
<1>6. new = [i \in 1 .. N + 1 |-> JoinedRound(parts, end, new, i)]
  BY <1>5
<1> QED
  BY <1>6

IsJoined(parts, end, from) ==
  /\ from[Len(parts) + 1] = end
  /\ \A i \in 1 .. Len(parts) : from[i] = parts[i] \o from[i + 1]

LEMMA JoinedParts ==
  ASSUME NEW parts, NEW end, Len(parts) \in Nat
  PROVE  IsJoined(parts, end, Joined(parts, end))
<1> DEFINE N == Len(parts)
           J == Joined(parts, end)
<1>1. J = CHOOSE from : from = [i \in 1 .. N + 1 |-> JoinedRound(parts, end, from, i)]
  BY DEF Joined, JoinedRound
<1>2. J = [i \in 1 .. N + 1 |-> JoinedRound(parts, end, J, i)]
  BY <1>1, JoinedSolvable
<1> HIDE DEF J
<1>3. \A i \in 1 .. N + 1 : J[i] = JoinedRound(parts, end, J, i)
  BY <1>2
<1>4. J[N + 1] = end
  <2>1. N + 1 \in 1 .. N + 1 /\ N + 1 > N
    OBVIOUS
  <2> QED
    BY <1>3, <2>1 DEF JoinedRound
<1>5. \A i \in 1 .. N : J[i] = parts[i] \o J[i + 1]
  <2>1. \A i \in 1 .. N : i \in 1 .. N + 1 /\ ~(i > N)
    OBVIOUS
  <2> QED
    BY <1>3, <2>1 DEF JoinedRound
<1> QED
  BY <1>4, <1>5 DEF J, IsJoined

(* What holds behind the last part and from each part on if it does from   *)
(* the next one on, holds from each place on.                              *)
LEMMA Backwards ==
  ASSUME NEW N \in Nat, NEW S, N + 1 \in S,
         \A i \in 1 .. N : i + 1 \in S => i \in S
  PROVE  \A i \in 1 .. N + 1 : i \in S
<1> DEFINE T == {m \in Nat : m <= N => N + 1 - m \in S}
<1>1. 0 \in T
  OBVIOUS
<1>2. ASSUME NEW m \in Nat, m \in T
      PROVE  m + 1 \in T
  <2> SUFFICES ASSUME m + 1 <= N PROVE N + 1 - (m + 1) \in S
    OBVIOUS
  <2>1. N - m \in 1 .. N /\ (N - m) + 1 = N + 1 - m /\ N - m = N + 1 - (m + 1) /\ m <= N
    OBVIOUS
  <2> QED
    BY <1>2, <2>1
<1>3. \A m \in Nat : m \in T
  <2> HIDE DEF T
  <2> QED
    BY <1>1, <1>2, Induct
<1>4. ASSUME NEW i \in 1 .. N
      PROVE  i \in S
  <2>1. N + 1 - i \in Nat /\ N + 1 - i <= N /\ N + 1 - (N + 1 - i) = i
    OBVIOUS
  <2> QED
    BY <1>3, <2>1
<1>5. \A i \in 1 .. N + 1 : i = N + 1 \/ i \in 1 .. N
  OBVIOUS
<1> QED
  BY <1>4, <1>5

LEMMA JoinedTyped ==
  ASSUME NEW T, NEW parts, NEW end \in Seq(T), Len(parts) \in Nat,
         \A i \in 1 .. Len(parts) : parts[i] \in Seq(T)
  PROVE  \A i \in 1 .. Len(parts) + 1 : Joined(parts, end)[i] \in Seq(T)
<1> DEFINE J == Joined(parts, end)
           N == Len(parts)
           S == {i \in 1 .. N + 1 : J[i] \in Seq(T)}
<1>1. J[N + 1] = end /\ \A i \in 1 .. N : J[i] = parts[i] \o J[i + 1]
  <2>1. IsJoined(parts, end, Joined(parts, end))
    BY JoinedParts
  <2> QED
    BY <2>1 DEF IsJoined
<1> HIDE DEF J
<1>2. N + 1 \in S
  BY <1>1
<1>3. ASSUME NEW i \in 1 .. N, i + 1 \in S
      PROVE  i \in S
  <2>1. J[i + 1] \in Seq(T) /\ parts[i] \in Seq(T) /\ i \in 1 .. N + 1
    BY <1>3
  <2>2. parts[i] \o J[i + 1] \in Seq(T)
    BY <2>1
  <2> QED
    BY <1>1, <2>1, <2>2
<1>4. \A i \in 1 .. N + 1 : i \in S
  <2> HIDE DEF S
  <2> QED
    BY <1>2, <1>3, Backwards
<1> QED
  BY <1>4 DEF J

(* What is joined are the items of the parts.                              *)
HasItem(s, x) == \E k \in 1 .. Len(s) : s[k] = x

LEMMA JoinedItems ==
  ASSUME NEW T, NEW parts, Len(parts) \in Nat,
         \A i \in 1 .. Len(parts) : parts[i] \in Seq(T), NEW x
  PROVE  HasItem(Joined(parts, <<>>)[1], x) <=> \E i \in 1 .. Len(parts) : HasItem(parts[i], x)
<1> DEFINE end == <<>>
           J == Joined(parts, end)
           N == Len(parts)
           In(s) == \E k \in 1 .. Len(s) : s[k] = x
           Later(i) == \E m \in i .. N : In(parts[m])
           S == {i \in 1 .. N + 1 : In(J[i]) <=> Later(i)}
<1>0. end \in Seq(T) /\ Len(end) = 0
  OBVIOUS
<1> HIDE DEF end
<1>1. J[N + 1] = end /\ \A i \in 1 .. N : J[i] = parts[i] \o J[i + 1]
  <2>1. IsJoined(parts, end, Joined(parts, end))
    BY JoinedParts
  <2> QED
    BY <2>1 DEF IsJoined
<1>2. \A i \in 1 .. N + 1 : J[i] \in Seq(T)
  BY <1>0, JoinedTyped
<1> HIDE DEF J
<1>3. N + 1 \in S
  <2>1. ~In(J[N + 1])
    BY <1>0, <1>1
  <2>2. ~Later(N + 1)
    OBVIOUS
  <2> QED
    BY <2>1, <2>2
<1>4. ASSUME NEW i \in 1 .. N, i + 1 \in S
      PROVE  i \in S
  <2> DEFINE a == parts[i]
             b == J[i + 1]
  <2>1. a \in Seq(T) /\ b \in Seq(T) /\ J[i] = a \o b
    <3>1. i + 1 \in 1 .. N + 1
      OBVIOUS
    <3> QED
      BY <1>1, <1>2, <3>1
  <2>2. In(b) <=> Later(i + 1)
    BY <1>4
  <2> HIDE DEF a, b
  <2>3. In(a \o b) <=> In(a) \/ In(b)
    <3>1. Len(a) \in Nat /\ Len(b) \in Nat /\ Len(a \o b) = Len(a) + Len(b)
      BY <2>1
    <3>2. /\ \A k \in 1 .. Len(a) : (a \o b)[k] = a[k] /\ k \in 1 .. Len(a \o b)
          /\ \A k \in 1 .. Len(b) : (a \o b)[Len(a) + k] = b[k] /\ Len(a) + k \in 1 .. Len(a \o b)
      BY <2>1, <3>1
    <3>3. \A k \in 1 .. Len(a \o b) :
            k \in 1 .. Len(a) \/ (k - Len(a) \in 1 .. Len(b) /\ Len(a) + (k - Len(a)) = k)
      BY <3>1
    <3>4. ASSUME In(a \o b) PROVE In(a) \/ In(b)
      BY <3>2, <3>3, <3>4
    <3>5. ASSUME In(a) \/ In(b) PROVE In(a \o b)
      BY <3>2, <3>5
    <3> QED
      BY <3>4, <3>5
  <2>4. Later(i) <=> In(parts[i]) \/ Later(i + 1)
    <3>1. \A m : m \in i .. N <=> m = i \/ m \in i + 1 .. N
      OBVIOUS
    <3> HIDE DEF In
    <3> QED
      BY <3>1
  <2>5. In(J[i]) <=> Later(i)
    <3>1. In(J[i]) <=> In(parts[i]) \/ In(b)
      BY <2>1, <2>3 DEF a
    <3> HIDE DEF In, Later
    <3> QED
      BY <2>2, <2>4, <3>1
  <2> QED
    BY <2>5
<1>5. \A i \in 1 .. N + 1 : i \in S
  <2> HIDE DEF S
  <2> QED
    BY <1>3, <1>4, Backwards
<1>6. In(J[1]) <=> Later(1)
  <2>1. 1 \in 1 .. N + 1
    OBVIOUS
  <2> QED
    BY <1>5, <2>1
<1> QED
  BY <1>6 DEF J, end, HasItem

-----------------------------------------------------------------------------
(* Places in a line.                                                       *)

(* A line from a place on, and n characters of it.                         *)
RestFrom(s, i) == SubSeq(s, i, Len(s))
Piece(s, i, n) == SubSeq(s, i, i + n - 1)

(* From i on there is a, and then b.                                       *)
IsAt(s, i, a, b) == RestFrom(s, i) = a \o b

(* A suffix of a line that begins with a piece has the rest behind it.     *)
LEMMA Advance ==
  ASSUME NEW T, NEW s \in Seq(T), NEW i \in 1 .. Len(s) + 1, NEW a \in Seq(T), NEW b \in Seq(T),
         IsAt(s, i, a, b)
  PROVE  /\ Len(s) + 1 = i + Len(a) + Len(b)
         /\ i + Len(a) \in 1 .. Len(s) + 1
         /\ RestFrom(s, i + Len(a)) = b
         /\ Piece(s, i, Len(a)) = a
<1> DEFINE n == Len(s)
           la == Len(a)
           lb == Len(b)
           post == SubSeq(s, i, n)
<1>1. n \in Nat /\ la \in Nat /\ lb \in Nat /\ i \in Nat /\ i >= 1 /\ i <= n + 1
  OBVIOUS
<1>2. \A k \in 1 .. n : s[k] \in T
  OBVIOUS
<1>0. SubSeq(s, i, Len(s)) = a \o b
  BY DEF RestFrom, IsAt
<1>3. /\ Len(post) = n + 1 - i
      /\ \A k \in 1 .. n - i + 1 : post[k] = s[i + k - 1]
  <2>1. \A k \in i .. n : s[k] \in T
    BY <1>1, <1>2
  <2>2. Len(post) = IF i <= n THEN n - i + 1 ELSE 0
    BY <1>1, <2>1, SubSeqProperties
  <2>3. \A k \in 1 .. n - i + 1 : post[k] = s[i + k - 1]
    BY <1>1, <2>1, SubSeqProperties
  <2> QED
    BY <1>1, <2>2, <2>3
<1>4. /\ Len(a \o b) = la + lb
      /\ \A k \in 1 .. la : (a \o b)[k] = a[k]
      /\ \A k \in 1 .. lb : (a \o b)[la + k] = b[k]
  OBVIOUS
<1>5. n + 1 = i + la + lb
  BY <1>0, <1>1, <1>3, <1>4
<1>6. i + la \in 1 .. n + 1
  BY <1>1, <1>5
<1> HIDE DEF n, la, lb, post
<1>7. SubSeq(s, i + la, n) = b
  <2>1. \A k \in i + la .. n : s[k] \in T
    BY <1>1, <1>2
  <2>2. SubSeq(s, i + la, n) \in Seq(T)
    BY <1>1, <2>1, SubSeqProperties
  <2>3. Len(SubSeq(s, i + la, n)) = IF i + la <= n THEN n - (i + la) + 1 ELSE 0
    BY <1>1, <2>1, SubSeqProperties
  <2>4. \A k \in 1 .. n - (i + la) + 1 : SubSeq(s, i + la, n)[k] = s[(i + la) + k - 1]
    BY <1>1, <2>1, SubSeqProperties
  <2>5. Len(SubSeq(s, i + la, n)) = lb /\ n - (i + la) + 1 = lb
    BY <1>1, <1>5, <2>3
  <2>6. ASSUME NEW k \in 1 .. lb
        PROVE  SubSeq(s, i + la, n)[k] = b[k]
    <3>1. la + k \in 1 .. n - i + 1 /\ (i + la) + k - 1 = i + (la + k) - 1
      BY <1>1, <1>5
    <3>2. post[la + k] = s[i + (la + k) - 1] /\ post[la + k] = b[k]
      BY <1>0, <1>3, <1>4, <3>1 DEF post, n
    <3> QED
      BY <2>4, <2>5, <3>1, <3>2
  <2> QED
    BY <2>2, <2>5, <2>6, SeqEqual DEF lb
<1>8. SubSeq(s, i, i + la - 1) = a
  <2>1. \A k \in i .. i + la - 1 : s[k] \in T
    BY <1>1, <1>2, <1>5
  <2>2. SubSeq(s, i, i + la - 1) \in Seq(T)
    BY <1>1, <2>1, SubSeqProperties
  <2>3. Len(SubSeq(s, i, i + la - 1)) = IF i <= i + la - 1 THEN (i + la - 1) - i + 1 ELSE 0
    BY <1>1, <2>1, SubSeqProperties
  <2>4. \A k \in 1 .. (i + la - 1) - i + 1 : SubSeq(s, i, i + la - 1)[k] = s[i + k - 1]
    BY <1>1, <2>1, SubSeqProperties
  <2>5. Len(SubSeq(s, i, i + la - 1)) = la /\ (i + la - 1) - i + 1 = la
    BY <1>1, <2>3
  <2>6. ASSUME NEW k \in 1 .. la
        PROVE  SubSeq(s, i, i + la - 1)[k] = a[k]
    <3>1. k \in 1 .. n - i + 1
      BY <1>1, <1>5
    <3>2. post[k] = s[i + k - 1] /\ post[k] = a[k]
      BY <1>0, <1>3, <1>4, <3>1 DEF post, n
    <3> QED
      BY <2>4, <2>5, <3>1, <3>2
  <2> QED
    BY <2>2, <2>5, <2>6, SeqEqual DEF la
<1> QED
  BY <1>5, <1>6, <1>7, <1>8 DEF n, la, lb, RestFrom, Piece

(* The characters of a line are those of its suffix.                       *)
LEMMA CharAhead ==
  ASSUME NEW T, NEW s \in Seq(T), NEW i \in 1 .. Len(s) + 1, NEW k \in Nat, k >= 1
  PROVE  Char(s, i + k - 1) = Char(RestFrom(s, i), k)
<1> DEFINE n == Len(s)
           post == SubSeq(s, i, n)
<1>1. n \in Nat /\ i \in Nat /\ i >= 1 /\ i <= n + 1
  OBVIOUS
<1>2. \A j \in i .. n : s[j] \in T
  BY <1>1
<1> HIDE DEF n
<1>3. Len(post) = IF i <= n THEN n - i + 1 ELSE 0
  BY <1>1, <1>2, SubSeqProperties
<1>4. \A j \in 1 .. n - i + 1 : post[j] = s[i + j - 1]
  BY <1>1, <1>2, SubSeqProperties
<1>5. Len(post) = n - i + 1
  BY <1>1, <1>3
<1> HIDE DEF post
<1>6. CASE k <= n - i + 1
  <2>1. i + k - 1 <= n /\ k <= Len(post) /\ post[k] = s[i + k - 1]
    BY <1>1, <1>4, <1>5, <1>6
  <2>2. Char(s, i + k - 1) = Char(post, k)
    BY <2>1 DEF Char, n
  <2> QED
    BY <2>2 DEF post, n, RestFrom
<1>7. CASE ~(k <= n - i + 1)
  <2>1. ~(i + k - 1 <= n) /\ ~(k <= Len(post))
    BY <1>1, <1>5, <1>7
  <2>2. Char(s, i + k - 1) = Char(post, k)
    BY <2>1 DEF Char, n
  <2> QED
    BY <2>2 DEF post, n, RestFrom
<1> QED
  BY <1>6, <1>7

LEMMA CharConcat ==
  ASSUME NEW T, NEW a \in Seq(T), NEW b \in Seq(T), NEW k \in Nat, k >= 1
  PROVE  /\ k <= Len(a) => Char(a \o b, k) = a[k]
         /\ Char(a \o b, Len(a) + k) = Char(b, k)
<1>1. /\ Len(a \o b) = Len(a) + Len(b) /\ Len(a) \in Nat /\ Len(b) \in Nat
      /\ \A j \in 1 .. Len(a) : (a \o b)[j] = a[j]
      /\ \A j \in 1 .. Len(b) : (a \o b)[Len(a) + j] = b[j]
  OBVIOUS
<1>2. ASSUME k <= Len(a) PROVE Char(a \o b, k) = a[k]
  <2>1. k \in 1 .. Len(a) /\ k <= Len(a \o b)
    BY <1>1, <1>2
  <2> QED
    BY <1>1, <2>1 DEF Char
<1>3. CASE k <= Len(b)
  <2>1. k \in 1 .. Len(b) /\ Len(a) + k <= Len(a \o b)
    BY <1>1, <1>3
  <2>2. Char(a \o b, Len(a) + k) = Char(b, k)
    BY <1>1, <1>3, <2>1 DEF Char
  <2> QED
    BY <1>2, <2>2
<1>4. CASE ~(k <= Len(b))
  <2>1. ~(Len(a) + k <= Len(a \o b))
    BY <1>1, <1>4
  <2>2. Char(a \o b, Len(a) + k) = Char(b, k)
    BY <1>4, <2>1 DEF Char
  <2> QED
    BY <1>2, <2>2
<1> QED
  BY <1>3, <1>4

(* FirstOf and Skip are where they ought to be, once such a place is known. *)
LEMMA FirstIs ==
  ASSUME NEW ln, NEW chars, Len(ln) \in Nat, NEW i \in Nat, NEW k \in i .. Len(ln) + 1,
         Char(ln, k) \in chars, \A n \in i .. k - 1 : Char(ln, n) \notin chars
  PROVE  FirstOf(ln, i, chars) = k
<1> DEFINE Is(m) == Char(ln, m) \in chars /\ \A n \in i .. m - 1 : Char(ln, n) \notin chars
<1>1. ASSUME NEW m \in i .. Len(ln) + 1, Is(m) PROVE m = k
  <2>1. ~(m < k)
    <3>1. SUFFICES ASSUME m < k PROVE FALSE
      OBVIOUS
    <3>2. m \in i .. k - 1
      BY <3>1
    <3> QED
      BY <1>1, <3>2
  <2>2. ~(k < m)
    <3>1. SUFFICES ASSUME k < m PROVE FALSE
      OBVIOUS
    <3>2. k \in i .. m - 1
      BY <3>1
    <3> QED
      BY <1>1, <3>2
  <2> QED
    BY <2>1, <2>2
<1>2. Is(k)
  OBVIOUS
<1>3. FirstOf(ln, i, chars) = CHOOSE m \in i .. Len(ln) + 1 : Is(m)
  BY DEF FirstOf
<1> HIDE DEF Is
<1> QED
  BY <1>1, <1>2, <1>3

LEMMA SkipIs ==
  ASSUME NEW ln, NEW chars, Len(ln) \in Nat, NEW i \in Nat, NEW k \in i .. Len(ln) + 1,
         Char(ln, k) \notin chars, \A n \in i .. k - 1 : Char(ln, n) \in chars
  PROVE  Skip(ln, i, chars) = k
<1> DEFINE Is(m) == Char(ln, m) \notin chars /\ \A n \in i .. m - 1 : Char(ln, n) \in chars
<1>1. ASSUME NEW m \in i .. Len(ln) + 1, Is(m) PROVE m = k
  <2>1. ~(m < k)
    <3>1. SUFFICES ASSUME m < k PROVE FALSE
      OBVIOUS
    <3>2. m \in i .. k - 1
      BY <3>1
    <3> QED
      BY <1>1, <3>2
  <2>2. ~(k < m)
    <3>1. SUFFICES ASSUME k < m PROVE FALSE
      OBVIOUS
    <3>2. k \in i .. m - 1
      BY <3>1
    <3> QED
      BY <1>1, <3>2
  <2> QED
    BY <2>1, <2>2
<1>2. Is(k)
  OBVIOUS
<1>3. Skip(ln, i, chars) = CHOOSE m \in i .. Len(ln) + 1 : Is(m)
  BY DEF Skip
<1> HIDE DEF Is
<1> QED
  BY <1>1, <1>2, <1>3

Stops == {"#", "<", ",", ";", NUL}

-----------------------------------------------------------------------------
(* All characters: the provers do not know that a literal is a string.     *)
Characters ==
  STRING \cup {NUL, "nl", " ", "#", "a", "<", ">", ",", ";", "+", "-", "h", "r", "s", "c", "d"}

-----------------------------------------------------------------------------
(* The array statement.                                                    *)
LEMMA Least ==
  ASSUME NEW S, S \subseteq Nat, NEW x \in S
  PROVE  \E k \in S : k <= x /\ \A m \in S : k <= m
<1> DEFINE T == {n \in Nat : \A m \in S : m >= n}
<1> SUFFICES ASSUME ~\E k \in S : \A m \in S : k <= m PROVE FALSE
  <2>1. SUFFICES ASSUME \E k \in S : \A m \in S : k <= m
                 PROVE  \E k \in S : k <= x /\ \A m \in S : k <= m
    OBVIOUS
  <2> QED
    BY <2>1
<1>1. 0 \in T
  OBVIOUS
<1>2. ASSUME NEW n \in Nat, n \in T
      PROVE  n + 1 \in T
  <2>1. n \notin S
    BY <1>2
  <2> QED
    BY <1>2, <2>1
<1>3. \A n \in Nat : n \in T
  <2> HIDE DEF T
  <2> QED
    BY <1>1, <1>2, Induct
<1>4. x + 1 \in T /\ x \in Nat
  BY <1>3
<1> QED
  BY <1>4

LEMMA NewLinesDropped ==
  ASSUME NEW name \in Seq(Characters), NEW tail \in {<<>>, <<"nl">>},
         \A i \in 1 .. Len(name) : name[i] \notin NewLines
  PROVE  WithoutNewLines(name \o tail) = name
<1> DEFINE word == name \o tail
           parts == [i \in 1 .. Len(word) |-> IF word[i] \in NewLines THEN <<>> ELSE <<word[i]>>]
           end == <<>>
           J == Joined(parts, end)
           N == Len(name)
           S == {i \in 1 .. N + 1 : J[i] = SubSeq(name, i, N)}
<1>1. /\ N \in Nat /\ word \in Seq(Characters)
      /\ tail = <<>> => Len(word) = N
      /\ tail = <<"nl">> => Len(word) = N + 1 /\ word[N + 1] = "nl"
      /\ \A i \in 1 .. N : word[i] = name[i] /\ i \in 1 .. Len(word)
  <2>1. CASE tail = <<>>
    <3>1. word = name
      BY <2>1
    <3> HIDE DEF word
    <3> QED
      BY <2>1, <3>1
  <2>2. CASE tail = <<"nl">>
    <3>1. "nl" \in Characters
      BY DEF Characters
    <3>2. <<"nl">> \in Seq(Characters)
      BY <3>1
    <3> QED
      BY <2>2, <3>2
  <2> QED
    BY <2>1, <2>2
<1> HIDE DEF word
<1>2. Len(parts) = Len(word) /\ Len(word) \in Nat
  BY <1>1
<1>3. \A i \in 1 .. Len(word) : parts[i] = IF word[i] \in NewLines THEN <<>> ELSE <<word[i]>>
  OBVIOUS
<1>4. WithoutNewLines(name \o tail) = J[1]
  BY DEF WithoutNewLines, word
<1> HIDE DEF parts, end
<1>0. IsJoined(parts, end, J)
  BY <1>2, JoinedParts
<1> HIDE DEF J
<1>5. J[Len(parts) + 1] = end
  BY <1>0 DEF IsJoined
<1>6. \A i \in 1 .. Len(parts) : J[i] = parts[i] \o J[i + 1]
  BY <1>0 DEF IsJoined
<1> HIDE DEF J
<1>7. J[N + 1] = <<>>
  <2>1. CASE tail = <<>>
    BY <1>1, <1>2, <1>5, <2>1 DEF end
  <2>2. CASE tail = <<"nl">>
    <3>1. N + 1 \in 1 .. Len(word) /\ Len(word) = N + 1 /\ word[N + 1] = "nl"
      BY <1>1, <2>2
    <3>2. parts[N + 1] = <<>> /\ J[(N + 1) + 1] = <<>>
      BY <1>2, <1>3, <1>5, <3>1 DEF NewLines, end
    <3>3. J[N + 1] = parts[N + 1] \o J[(N + 1) + 1]
      BY <1>2, <1>6, <3>1
    <3>4. <<>> \o <<>> = <<>>
      OBVIOUS
    <3> QED
      BY <3>2, <3>3, <3>4
  <2> QED
    BY <2>1, <2>2
<1>8. N + 1 \in S
  <2>1. N \in Int /\ N + 1 \in Int /\ N < N + 1 /\ N + 1 \in 1 .. N + 1
    BY <1>1
  <2>2. SubSeq(name, N + 1, N) = <<>>
    BY <2>1, SubSeqEmpty
  <2> QED
    BY <1>7, <2>1, <2>2
<1>9. ASSUME NEW i \in 1 .. N, i + 1 \in S
      PROVE  i \in S
  <2>1. i \in 1 .. Len(word) /\ word[i] \notin NewLines /\ word[i] = name[i]
    BY <1>1
  <2>2. parts[i] = <<name[i]>>
    BY <1>3, <2>1
  <2>3. J[i] = <<name[i]>> \o SubSeq(name, i + 1, N)
    BY <1>2, <1>6, <1>9, <2>1, <2>2
  <2>4. SubSeq(name, i, N) = <<name[i]>> \o SubSeq(name, i + 1, N)
    <3>1. N \in i .. Len(name)
      OBVIOUS
    <3> QED
      BY <3>1, SubSeqRecursiveFirst
  <2>5. J[i] = SubSeq(name, i, N) /\ i \in 1 .. N + 1
    <3>1. i \in 1 .. N + 1
      BY <1>1
    <3> QED
      BY <2>3, <2>4, <3>1
  <2> HIDE DEF N
  <2> QED
    BY <2>5
<1>10. \A i \in 1 .. N + 1 : i \in S
  <2> HIDE DEF S, N
  <2> QED
    BY <1>1, <1>8, <1>9, Backwards
<1>11. J[1] = SubSeq(name, 1, N)
  <2>1. 1 \in 1 .. N + 1
    BY <1>1
  <2> QED
    BY <1>10, <2>1
<1> QED
  BY <1>4, <1>11, SubSeqFull

TextIn(array) == SubSeq(array, 1, FirstOf(array, 1, {NUL}) - 1)

(* The array with the name in front.                                       *)
Held(name) == [k \in 1 .. BufferSize |-> IF k <= Len(name) THEN name[k] ELSE statement[k]]

LEMMA HeldTyped ==
  ASSUME NEW name \in Seq(Characters), statement \in [1 .. BufferSize -> Characters]
  PROVE  /\ Held(name) \in [1 .. BufferSize -> Characters]
         /\ Held(name) \in Seq(Characters) /\ Len(Held(name)) = BufferSize /\ BufferSize \in Nat
         /\ \A k \in 1 .. BufferSize : Held(name)[k] = IF k <= Len(name) THEN name[k] ELSE statement[k]
<1>1. BufferSize \in Nat /\ Len(name) \in Nat
  BY BufferAssumption
<1>2. \A k \in 1 .. BufferSize : Held(name)[k] = IF k <= Len(name) THEN name[k] ELSE statement[k]
  BY DEF Held
<1>3. \A k \in 1 .. BufferSize : Held(name)[k] \in Characters
  <2>1. SUFFICES ASSUME NEW k \in 1 .. BufferSize PROVE Held(name)[k] \in Characters
    OBVIOUS
  <2>2. CASE k <= Len(name)
    <3>1. k \in 1 .. Len(name)
      BY <1>1, <2>2
    <3> QED
      BY <1>2, <2>2, <3>1
  <2>3. CASE ~(k <= Len(name))
    BY <1>2, <2>3
  <2> QED
    BY <2>2, <2>3
<1>4. Held(name) \in [1 .. BufferSize -> Characters]
  BY <1>3 DEF Held
<1> QED
  BY <1>1, <1>2, <1>4

(* The array with the terminator behind out characters.                    *)
IsEnded(array, name, out) == array = [Held(name) EXCEPT ![out + 1] = NUL]

(* What the terminator at a place behind the name leaves.                  *)
LEMMA TextBefore ==
  ASSUME NEW name \in Seq(Characters), statement \in [1 .. BufferSize -> Characters],
         \A k \in 1 .. Len(name) : name[k] # NUL,
         NEW out \in Nat, out >= Len(name), out + 1 <= BufferSize,
         NEW array, IsEnded(array, name, out)
  PROVE  /\ array \in [1 .. BufferSize -> Characters]
         /\ \A k \in 1 .. BufferSize : array[k] = IF k = out + 1 THEN NUL ELSE Held(name)[k]
         /\ TextIn(array) \in Seq(Characters)
         /\ Len(TextIn(array)) >= Len(name)
         /\ \A k \in 1 .. Len(name) : TextIn(array)[k] = name[k]
         /\ out = Len(name) => TextIn(array) = name
<1>1. /\ Held(name) \in [1 .. BufferSize -> Characters] /\ BufferSize \in Nat
      /\ \A k \in 1 .. BufferSize : Held(name)[k] = IF k <= Len(name) THEN name[k] ELSE statement[k]
  BY HeldTyped
<1>2. NUL \in Characters
  BY DEF NUL, Characters
<1>3. array \in [1 .. BufferSize -> Characters]
  BY <1>1, <1>2 DEF IsEnded
<1>4. \A k \in 1 .. BufferSize : array[k] = IF k = out + 1 THEN NUL ELSE Held(name)[k]
  BY <1>1 DEF IsEnded
<1>5. array \in Seq(Characters) /\ Len(array) = BufferSize /\ Len(name) \in Nat
  BY <1>1, <1>3
<1>6. \A k \in 1 .. BufferSize : Char(array, k) = array[k]
  BY <1>1, <1>5 DEF Char
<1> DEFINE Ends0 == {k \in 1 .. BufferSize : array[k] = NUL}
<1>7. out + 1 \in Ends0 /\ Ends0 \subseteq Nat
  BY <1>1, <1>4
<1>8. PICK f \in Ends0 : f <= out + 1 /\ \A m \in Ends0 : f <= m
  <2> HIDE DEF Ends0
  <2> QED
    BY <1>7, Least
<1>0. f \in 1 .. BufferSize /\ array[f] = NUL /\ f <= out + 1
  BY <1>8
<1>a. \A m \in 1 .. BufferSize : array[m] = NUL => f <= m
  BY <1>8
<1> HIDE DEF Ends0
<1>9. f > Len(name)
  <2>1. SUFFICES ASSUME f <= Len(name) PROVE FALSE
    BY <1>0, <1>1, <1>5
  <2>2. f \in 1 .. Len(name) /\ f # out + 1 /\ f \in 1 .. BufferSize /\ array[f] = NUL
    BY <1>0, <1>1, <1>5, <2>1
  <2>3. array[f] = name[f]
    BY <1>1, <1>4, <2>1, <2>2
  <2> QED
    BY <2>2, <2>3
<1>10. FirstOf(array, 1, {NUL}) = f
  <2>1. f \in 1 .. Len(array) + 1 /\ Char(array, f) \in {NUL}
    <3>1. f \in 1 .. Len(array) + 1
      BY <1>0, <1>1, <1>5
    <3>2. Char(array, f) = array[f]
      BY <1>0, <1>6
    <3> QED
      BY <1>0, <3>1, <3>2
  <2>2. \A n \in 1 .. f - 1 : Char(array, n) \notin {NUL}
    <3>1. SUFFICES ASSUME NEW n \in 1 .. f - 1 PROVE array[n] # NUL /\ Char(array, n) = array[n]
      OBVIOUS
    <3>2. n \in 1 .. BufferSize /\ ~(f <= n)
      BY <1>0, <1>1
    <3> QED
      BY <1>6, <1>a, <3>2
  <2>3. Len(array) \in Nat /\ 1 \in Nat
    BY <1>1, <1>5
  <2> QED
    BY <2>1, <2>2, <2>3, FirstIs
<1> DEFINE g == f - 1
<1>11. TextIn(array) = SubSeq(array, 1, g)
  BY <1>10 DEF TextIn
<1>12. \A k \in 1 .. g : array[k] \in Characters
  BY <1>1, <1>0, <1>3
<1>13. g \in Nat /\ g \in Int /\ f = g + 1 /\ 1 \in Int
  BY <1>0, <1>1
<1> HIDE DEF g
<1>14. TextIn(array) \in Seq(Characters)
  <2>1. SubSeq(array, 1, g) \in Seq(Characters)
    BY <1>12, <1>13, SubSeqProperties
  <2> QED
    BY <1>11, <2>1
<1>15. Len(TextIn(array)) = IF 1 <= g THEN g - 1 + 1 ELSE 0
  <2>1. Len(SubSeq(array, 1, g)) = IF 1 <= g THEN g - 1 + 1 ELSE 0
    BY <1>12, <1>13, SubSeqProperties
  <2> QED
    BY <1>11, <2>1
<1>16. \A k \in 1 .. g : TextIn(array)[k] = array[k]
  <2>1. \A k \in 1 .. g - 1 + 1 : SubSeq(array, 1, g)[k] = array[1 + k - 1]
    BY <1>12, <1>13, SubSeqProperties
  <2>2. g - 1 + 1 = g /\ \A k \in 1 .. g : 1 + k - 1 = k
    BY <1>13
  <2> QED
    BY <1>11, <2>1, <2>2
<1>17. Len(TextIn(array)) = g
  BY <1>13, <1>15
<1>18. \A k \in 1 .. Len(name) : TextIn(array)[k] = name[k]
  <2>1. SUFFICES ASSUME NEW k \in 1 .. Len(name) PROVE TextIn(array)[k] = name[k]
    OBVIOUS
  <2>2. k \in 1 .. g /\ k \in 1 .. BufferSize /\ k # out + 1 /\ k <= Len(name)
    BY <1>1, <1>0, <1>5, <1>9, <1>13
  <2>3. TextIn(array)[k] = array[k]
    BY <1>16, <2>2
  <2>4. array[k] = name[k]
    BY <1>1, <1>4, <2>2
  <2> QED
    BY <2>3, <2>4
<1>19. ASSUME out = Len(name)
       PROVE  TextIn(array) = name
  <2>1. Len(TextIn(array)) = Len(name)
    BY <1>0, <1>5, <1>9, <1>13, <1>17, <1>19
  <2> QED
    BY <1>14, <1>18, <2>1, SeqEqual
<1>20. Len(TextIn(array)) >= Len(name)
  BY <1>5, <1>9, <1>13, <1>17
<1> QED
  BY <1>3, <1>4, <1>14, <1>18, <1>19, <1>20

(* A place for the terminator, and the array with it.                      *)
IsOut(name, k) == Held(name)[k] \notin Blanks /\ \A n \in Len(name) .. k - 1 : Held(name)[n] \in Blanks

Out(name) == IF name = <<>> THEN 0 ELSE CHOOSE k \in Len(name) .. BufferSize - 1 : IsOut(name, k)

LEMMA StoredOut ==
  ASSUME NEW name
  PROVE  Stored(name) = [Held(name) EXCEPT ![Out(name) + 1] = NUL]
BY DEF Stored, Held, Out, IsOut

(* A name that does not end in a blank is stored as it is.                 *)
LEMMA StoredName ==
  ASSUME NEW name \in Seq(Characters), statement \in [1 .. BufferSize -> Characters],
         statement[BufferSize - 1] \notin Blanks, Len(name) + 1 <= BufferSize,
         \A k \in 1 .. Len(name) : name[k] # NUL,
         name # <<>> => name[Len(name)] \notin Blanks
  PROVE  /\ Stored(name) \in [1 .. BufferSize -> Characters]
         /\ Stored(name)[BufferSize - 1] \notin Blanks
         /\ TextIn(Stored(name)) = name
<1> DEFINE L == Len(name)
<1>1. /\ Held(name) \in [1 .. BufferSize -> Characters] /\ BufferSize \in Nat
      /\ \A k \in 1 .. BufferSize : Held(name)[k] = IF k <= L THEN name[k] ELSE statement[k]
  BY HeldTyped
<1>2. BufferSize - 1 \in 1 .. BufferSize /\ BufferSize >= 2
  BY <1>1, BufferAssumption
<1>3. L \in Nat /\ (name = <<>> => L = 0) /\ (name # <<>> => L >= 1)
  BY EmptySeq
<1>4. Out(name) = L
  <2>1. CASE name = <<>>
    BY <1>3, <2>1 DEF Out
  <2>2. CASE name # <<>>
    <3>1. L \in 1 .. BufferSize /\ L \in L .. BufferSize - 1
      BY <1>1, <1>3, <2>2
    <3>2. Held(name)[L] \notin Blanks
      BY <1>1, <2>2, <3>1
    <3>3. IsOut(name, L)
      <4>1. \A n \in L .. L - 1 : FALSE
        BY <1>3
      <4> QED
        BY <3>2, <4>1 DEF IsOut
    <3>4. ASSUME NEW k \in L .. BufferSize - 1, IsOut(name, k) PROVE k = L
      <4>1. SUFFICES ASSUME k # L PROVE FALSE
        OBVIOUS
      <4>2. L \in L .. k - 1
        BY <1>3, <4>1
      <4> QED
        BY <3>2, <3>4, <4>2 DEF IsOut
    <3> HIDE DEF L
    <3>5. (CHOOSE k \in L .. BufferSize - 1 : IsOut(name, k)) = L
      BY <3>1, <3>3, <3>4
    <3> QED
      BY <2>2, <3>5 DEF Out, L
  <2> QED
    BY <2>1, <2>2
<1>5. Stored(name) = [Held(name) EXCEPT ![L + 1] = NUL]
  BY <1>4, StoredOut
<1> DEFINE array == Stored(name)
<1> HIDE DEF array
<1>6. IsEnded(array, name, L)
  BY <1>5 DEF array, IsEnded
<1>7. /\ array \in [1 .. BufferSize -> Characters]
      /\ \A k \in 1 .. BufferSize : array[k] = IF k = L + 1 THEN NUL ELSE Held(name)[k]
      /\ TextIn(array) = name
  <2>1. L >= Len(name) /\ L + 1 <= BufferSize /\ L = Len(name)
    BY <1>3
  <2> HIDE DEF L
  <2> QED
    BY <1>3, <1>6, <2>1, TextBefore
<1>8. array[BufferSize - 1] \notin Blanks
  <2>1. CASE BufferSize - 1 = L + 1
    BY <1>2, <1>7, <2>1 DEF NUL, Blanks
  <2>2. CASE BufferSize - 1 # L + 1 /\ BufferSize - 1 <= L
    <3>1. BufferSize - 1 = L /\ name # <<>>
      BY <1>1, <1>2, <1>3, <2>2
    <3>2. array[BufferSize - 1] = name[L]
      BY <1>1, <1>2, <1>7, <2>2, <3>1
    <3> QED
      BY <3>1, <3>2
  <2>3. CASE BufferSize - 1 # L + 1 /\ ~(BufferSize - 1 <= L)
    BY <1>1, <1>2, <1>7, <2>3
  <2> QED
    BY <2>1, <2>2, <2>3
<1> QED
  BY <1>7, <1>8 DEF array

(* One that ends in a blank is stored with the blank, and maybe more.      *)
LEMMA StoredBlank ==
  ASSUME NEW name \in Seq(Characters), statement \in [1 .. BufferSize -> Characters],
         statement[BufferSize - 1] \notin Blanks, Len(name) + 2 <= BufferSize,
         \A k \in 1 .. Len(name) : name[k] # NUL,
         name # <<>>, name[Len(name)] \in Blanks
  PROVE  /\ Stored(name) \in [1 .. BufferSize -> Characters]
         /\ Stored(name)[BufferSize - 1] \notin Blanks
         /\ TextIn(Stored(name)) \in Seq(Characters)
         /\ Len(TextIn(Stored(name))) >= Len(name)
         /\ \A k \in 1 .. Len(name) : TextIn(Stored(name))[k] = name[k]
<1> DEFINE L == Len(name)
<1>1. /\ Held(name) \in [1 .. BufferSize -> Characters] /\ BufferSize \in Nat
      /\ \A k \in 1 .. BufferSize : Held(name)[k] = IF k <= L THEN name[k] ELSE statement[k]
  BY HeldTyped
<1>2. BufferSize - 1 \in 1 .. BufferSize /\ BufferSize >= 2
  BY <1>1, BufferAssumption
<1>3. L \in Nat /\ L >= 1 /\ L + 2 <= BufferSize
  BY EmptySeq
<1> DEFINE S == {k \in L .. BufferSize - 1 : Held(name)[k] \notin Blanks}
<1>4. BufferSize - 1 \in S /\ S \subseteq Nat
  <2>1. BufferSize - 1 \in L .. BufferSize - 1 /\ ~(BufferSize - 1 <= L)
    BY <1>1, <1>3
  <2>2. Held(name)[BufferSize - 1] = statement[BufferSize - 1]
    BY <1>1, <1>2, <2>1
  <2> QED
    BY <1>1, <1>3, <2>1, <2>2
<1>5. \E k \in L .. BufferSize - 1 : IsOut(name, k)
  <2>1. PICK k \in S : \A m \in S : k <= m
    <3> HIDE DEF S
    <3> QED
      BY <1>4, Least
  <2>2. ASSUME NEW n \in L .. k - 1 PROVE Held(name)[n] \in Blanks
    <3>1. n \in L .. BufferSize - 1 /\ ~(k <= n)
      BY <1>1, <1>3, <2>1
    <3> QED
      BY <2>1, <3>1
  <2>3. IsOut(name, k) /\ k \in L .. BufferSize - 1
    BY <2>1, <2>2 DEF IsOut
  <2> QED
    BY <2>3
<1> DEFINE out == Out(name)
<1>6. out \in L .. BufferSize - 1 /\ IsOut(name, out)
  <2> HIDE DEF L
  <2>1. out = CHOOSE k \in L .. BufferSize - 1 : IsOut(name, k)
    BY DEF Out, L
  <2> HIDE DEF out
  <2> QED
    BY <1>5, <2>1
<1>7. Stored(name) = [Held(name) EXCEPT ![out + 1] = NUL]
  BY StoredOut
<1> DEFINE array == Stored(name)
<1> HIDE DEF array, out
<1>8. IsEnded(array, name, out)
  BY <1>7 DEF array, IsEnded
<1>9. /\ array \in [1 .. BufferSize -> Characters]
      /\ \A k \in 1 .. BufferSize : array[k] = IF k = out + 1 THEN NUL ELSE Held(name)[k]
      /\ TextIn(array) \in Seq(Characters)
      /\ Len(TextIn(array)) >= L
      /\ \A k \in 1 .. L : TextIn(array)[k] = name[k]
  <2>1. out \in Nat /\ out >= Len(name) /\ out + 1 <= BufferSize
    BY <1>1, <1>3, <1>6
  <2> QED
    BY <1>8, <2>1, TextBefore
<1>10. array[BufferSize - 1] \notin Blanks
  <2>1. CASE BufferSize - 1 = out + 1
    BY <1>2, <1>9, <2>1 DEF NUL, Blanks
  <2>2. CASE BufferSize - 1 # out + 1
    <3>1. ~(BufferSize - 1 <= L)
      BY <1>1, <1>3
    <3> QED
      BY <1>1, <1>2, <1>9, <2>2, <3>1
  <2> QED
    BY <2>1, <2>2
<1> QED
  BY <1>9, <1>10 DEF array

-----------------------------------------------------------------------------
(* The attributes.                                                         *)
Signs == {"+", "-"}

AttribsRound(ln, attribs, n) ==
  IF Char(ln, n) \in {NUL, ">"} THEN [mask |-> {}, eor |-> {}, in |-> n]
  ELSE LET sign == Char(ln, n) \in {"+", "-"}
           at   == IF sign THEN n + 1 ELSE n
           rest == attribs[at + 1]
           flag == FlagOf(Char(ln, at))
       IN [rest EXCEPT !.mask = @ \cup flag,
                       !.eor = IF Char(ln, n) # "-" THEN @ \cup flag ELSE @]

LEMMA RoundLooksAhead ==
  ASSUME NEW ln, NEW f, NEW g, NEW n \in Nat, n >= 1, Len(ln) \in Nat, n <= Len(ln) + 1,
         Char(ln, Len(ln)) \notin Signs, \A k \in n + 1 .. Len(ln) + 1 : f[k] = g[k]
  PROVE  AttribsRound(ln, f, n) = AttribsRound(ln, g, n)
<1>1. CASE Char(ln, n) \in {NUL, ">"}
  BY <1>1 DEF AttribsRound
<1>2. CASE Char(ln, n) \notin {NUL, ">"}
  <2>1. n <= Len(ln)
    BY <1>2 DEF Char
  <2>2. CASE Char(ln, n) \in Signs
    <3>1. n # Len(ln)
      BY <2>2
    <3>2. (n + 1) + 1 \in n + 1 .. Len(ln) + 1
      BY <2>1, <3>1
    <3>3. f[(n + 1) + 1] = g[(n + 1) + 1]
      BY <3>2
    <3> QED
      BY <2>2, <3>3 DEF AttribsRound, Signs
  <2>3. CASE Char(ln, n) \notin Signs
    <3>1. n + 1 \in n + 1 .. Len(ln) + 1
      BY <2>1
    <3>2. f[n + 1] = g[n + 1]
      BY <3>1
    <3> QED
      BY <2>3, <3>2 DEF AttribsRound, Signs
  <2> QED
    BY <2>2, <2>3
<1> QED
  BY <1>1, <1>2

LEMMA AttribsSolvable ==
  ASSUME NEW ln, Len(ln) \in Nat, Char(ln, Len(ln)) \notin Signs
  PROVE  \E f : f = [n \in 1 .. Len(ln) + 1 |-> AttribsRound(ln, f, n)]
<1> DEFINE N == Len(ln)
           Solved(m) == \E f : \A i \in N + 1 - m .. N + 1 : f[i] = AttribsRound(ln, f, i)
           S == {m \in Nat : m <= N => Solved(m)}
<1>1. 0 \in S
  <2> DEFINE from == [i \in {N + 1} |-> [mask |-> {}, eor |-> {}, in |-> N + 1]]
  <2>1. \A i \in N + 1 .. N + 1 : i = N + 1
    OBVIOUS
  <2>2. from[N + 1] = AttribsRound(ln, from, N + 1)
    <3>1. ~(N + 1 <= N) /\ N + 1 \in {N + 1}
      OBVIOUS
    <3>2. Char(ln, N + 1) = NUL
      BY <3>1 DEF Char
    <3>3. AttribsRound(ln, from, N + 1) = [mask |-> {}, eor |-> {}, in |-> N + 1]
      BY <3>2 DEF AttribsRound
    <3> QED
      BY <3>1, <3>3
  <2> HIDE DEF from
  <2>3. Solved(0)
    BY <2>1, <2>2
  <2> QED
    BY <2>3
<1>2. ASSUME NEW m \in Nat, m \in S
      PROVE  m + 1 \in S
  <2> SUFFICES ASSUME m + 1 <= N PROVE Solved(m + 1)
    OBVIOUS
  <2>1. PICK from : \A i \in N + 1 - m .. N + 1 : from[i] = AttribsRound(ln, from, i)
    BY <1>2
  <2> DEFINE k == N - m
             new == [i \in k .. N + 1 |-> IF i = k THEN AttribsRound(ln, from, k) ELSE from[i]]
  <2>2. /\ k \in Nat /\ k >= 1 /\ k < N + 1 /\ k + 1 = N + 1 - m /\ k = N + 1 - (m + 1)
        /\ k \in k .. N + 1
    OBVIOUS
  <2>3. new[k] = AttribsRound(ln, from, k) /\ \A i \in k + 1 .. N + 1 : new[i] = from[i]
    <3>1. \A i \in k + 1 .. N + 1 : i \in k .. N + 1 /\ i # k
      BY <2>2
    <3> QED
      BY <2>2, <3>1
  <2> HIDE DEF new, k
  <2>4. ASSUME NEW i \in k .. N + 1
        PROVE  AttribsRound(ln, new, i) = AttribsRound(ln, from, i)
    <3>1. i \in Nat /\ i >= 1 /\ i <= N + 1 /\ \A j \in i + 1 .. N + 1 : j \in k + 1 .. N + 1
      BY <2>2
    <3>2. \A j \in i + 1 .. N + 1 : new[j] = from[j]
      BY <2>3, <3>1
    <3> QED
      BY <3>1, <3>2, RoundLooksAhead
  <2>5. ASSUME NEW i \in k .. N + 1
        PROVE  new[i] = AttribsRound(ln, new, i)
    <3>1. CASE i = k
      BY <2>3, <2>4, <3>1
    <3>2. CASE i # k
      <4>1. i \in k + 1 .. N + 1 /\ i \in N + 1 - m .. N + 1
        BY <2>2, <3>2
      <4> QED
        BY <2>1, <2>3, <2>4, <4>1
    <3> QED
      BY <3>1, <3>2
  <2> QED
    BY <2>2, <2>5
<1>3. \A m \in Nat : m \in S
  <2> HIDE DEF S
  <2> QED
    BY <1>1, <1>2, Induct
<1>4. PICK from : \A i \in 1 .. N + 1 : from[i] = AttribsRound(ln, from, i)
  <2>1. N \in S /\ N + 1 - N = 1
    BY <1>3
  <2> QED
    BY <2>1
<1> DEFINE new == [i \in 1 .. N + 1 |-> from[i]]
<1>5. ASSUME NEW i \in 1 .. N + 1
      PROVE  AttribsRound(ln, new, i) = from[i]
  <2>1. i \in Nat /\ i >= 1 /\ i <= N + 1
    OBVIOUS
  <2>2. \A j \in i + 1 .. N + 1 : new[j] = from[j]
    OBVIOUS
  <2> HIDE DEF new
  <2>3. AttribsRound(ln, new, i) = AttribsRound(ln, from, i)
    BY <2>1, <2>2, RoundLooksAhead
  <2> QED
    BY <1>4, <2>3
<1>6. new = [i \in 1 .. N + 1 |-> AttribsRound(ln, new, i)]
  BY <1>5
<1> QED
  BY <1>6

LEMMA AttribsRounds ==
  ASSUME NEW ln, Len(ln) \in Nat, Char(ln, Len(ln)) \notin Signs, NEW i \in 1 .. Len(ln) + 1
  PROVE  /\ Char(ln, i) \in {NUL, ">"} => Attribs(ln, i) = [mask |-> {}, eor |-> {}, in |-> i]
         /\ Char(ln, i) \notin Signs \cup {NUL, ">"}
              => Attribs(ln, i) =
                   [Attribs(ln, i + 1) EXCEPT !.mask = @ \cup FlagOf(Char(ln, i)),
                                              !.eor = @ \cup FlagOf(Char(ln, i))]
         /\ Char(ln, i) = "+"
              => Attribs(ln, i) =
                   [Attribs(ln, (i + 1) + 1) EXCEPT !.mask = @ \cup FlagOf(Char(ln, i + 1)),
                                                    !.eor = @ \cup FlagOf(Char(ln, i + 1))]
         /\ Char(ln, i) = "-"
              => Attribs(ln, i) =
                   [Attribs(ln, (i + 1) + 1) EXCEPT !.mask = @ \cup FlagOf(Char(ln, i + 1))]
<1> DEFINE f == CHOOSE f : f = [n \in 1 .. Len(ln) + 1 |-> AttribsRound(ln, f, n)]
<1>1. f = [n \in 1 .. Len(ln) + 1 |-> AttribsRound(ln, f, n)]
  BY AttribsSolvable
<1>2. \A n : Attribs(ln, n) = f[n]
  BY DEF Attribs, AttribsRound
<1> HIDE DEF f
<1>3. f[i] = AttribsRound(ln, f, i)
  BY <1>1
<1>4. f[i] = Attribs(ln, i) /\ f[i + 1] = Attribs(ln, i + 1) /\ f[(i + 1) + 1] = Attribs(ln, (i + 1) + 1)
  BY <1>2
<1>5. ASSUME Char(ln, i) \in {NUL, ">"}
      PROVE  Attribs(ln, i) = [mask |-> {}, eor |-> {}, in |-> i]
  BY <1>3, <1>4, <1>5 DEF AttribsRound
<1>6. ASSUME Char(ln, i) \notin Signs \cup {NUL, ">"}
      PROVE  Attribs(ln, i) =
                   [Attribs(ln, i + 1) EXCEPT !.mask = @ \cup FlagOf(Char(ln, i)),
                                              !.eor = @ \cup FlagOf(Char(ln, i))]
  BY <1>3, <1>4, <1>6 DEF AttribsRound, Signs
<1>7. ASSUME Char(ln, i) = "+"
      PROVE  Attribs(ln, i) =
                   [Attribs(ln, (i + 1) + 1) EXCEPT !.mask = @ \cup FlagOf(Char(ln, i + 1)),
                                                    !.eor = @ \cup FlagOf(Char(ln, i + 1))]
  BY <1>3, <1>4, <1>7 DEF AttribsRound, NUL
<1>8. ASSUME Char(ln, i) = "-"
      PROVE  Attribs(ln, i) =
                   [Attribs(ln, (i + 1) + 1) EXCEPT !.mask = @ \cup FlagOf(Char(ln, i + 1))]
  <2> DEFINE rest == Attribs(ln, (i + 1) + 1)
             flag == FlagOf(Char(ln, i + 1))
  <2>1. Attribs(ln, i) = [rest EXCEPT !.mask = @ \cup flag, !.eor = @]
    BY <1>3, <1>4, <1>8 DEF AttribsRound, NUL
  <2> HIDE DEF rest, flag
  <2>2. [rest EXCEPT !.mask = @ \cup flag, !.eor = @] = [rest EXCEPT !.mask = @ \cup flag]
    OBVIOUS
  <2> QED
    BY <2>1, <2>2 DEF rest, flag
<1> QED
  BY <1>5, <1>6, <1>7, <1>8

Flag(attribs, S) == {DocumentedFlag[attribs[k].letter] : k \in S}

MaskFrom(attribs, i) == Flag(attribs, i .. Len(attribs))
EorFrom(attribs, i) == Flag(attribs, {k \in i .. Len(attribs) : attribs[k].sign # "-"})

WrittenAttrib(attrib) ==
  IF attrib.sign = "none" THEN <<attrib.letter>> ELSE <<attrib.sign, attrib.letter>>

LEMMA AttribTyped ==
  ASSUME NEW attribs \in AttribLists, NEW i \in 1 .. Len(attribs)
  PROVE  /\ attribs[i].sign \in {"+", "-", "none"}
         /\ attribs[i].letter \in {"h", "r", "a", "s", "c", "d"}
         /\ FlagOf(attribs[i].letter) = {DocumentedFlag[attribs[i].letter]}
         /\ WrittenAttrib(attribs[i]) \in Seq(Characters)
<1>1. attribs[i] \in [sign : {"+", "-", "none"}, letter : {"h", "r", "a", "s", "c", "d"}]
  <2>1. attribs \in Seq([sign : {"+", "-", "none"}, letter : {"h", "r", "a", "s", "c", "d"}])
    BY DEF AttribLists
  <2> QED
    BY <2>1, ElementOfSeq
<1>2. /\ attribs[i].sign \in {"+", "-", "none"}
      /\ attribs[i].letter \in {"h", "r", "a", "s", "c", "d"}
  BY <1>1
<1>3. FlagOf(attribs[i].letter) = {DocumentedFlag[attribs[i].letter]}
  BY <1>2 DEF FlagOf, DocumentedFlag
<1>4. attribs[i].letter \in Characters /\ (attribs[i].sign # "none" => attribs[i].sign \in Characters)
  BY <1>2 DEF Characters
<1>5. WrittenAttrib(attribs[i]) \in Seq(Characters)
  <2>1. CASE attribs[i].sign = "none"
    BY <1>4, <2>1 DEF WrittenAttrib
  <2>2. CASE attribs[i].sign # "none"
    BY <1>4, <2>2 DEF WrittenAttrib
  <2> QED
    BY <2>1, <2>2
<1> QED
  BY <1>2, <1>3, <1>5

LEMMA AttribsTextParts ==
  ASSUME NEW attribs \in AttribLists
  PROVE  /\ Len(attribs) \in Nat
         /\ AttribsText(attribs)[Len(attribs) + 1] = <<">">>
         /\ \A i \in 1 .. Len(attribs) :
              AttribsText(attribs)[i] = WrittenAttrib(attribs[i]) \o AttribsText(attribs)[i + 1]
         /\ \A i \in 1 .. Len(attribs) + 1 : AttribsText(attribs)[i] \in Seq(Characters)
<1> DEFINE N == Len(attribs)
           parts == [i \in 1 .. N |-> WrittenAttrib(attribs[i])]
           end == <<">">>
<1>1. N \in Nat
  BY DEF AttribLists
<1>2. Len(parts) = N /\ \A i \in 1 .. N : parts[i] = WrittenAttrib(attribs[i])
  BY <1>1
<1>3. AttribsText(attribs) = Joined(parts, end)
  BY DEF AttribsText, WrittenAttrib
<1>4. ">" \in Characters
  BY DEF Characters
<1>5. end \in Seq(Characters)
  BY <1>4
<1>6. \A i \in 1 .. N : parts[i] \in Seq(Characters)
  BY <1>2, AttribTyped
<1> HIDE DEF parts, end
<1>7. Len(parts) \in Nat
  BY <1>1, <1>2
<1>a. IsJoined(parts, end, Joined(parts, end))
  BY <1>7, JoinedParts
<1>8. Joined(parts, end)[Len(parts) + 1] = end
  BY <1>a DEF IsJoined
<1>9. \A i \in 1 .. Len(parts) : Joined(parts, end)[i] = parts[i] \o Joined(parts, end)[i + 1]
  BY <1>a DEF IsJoined
<1>10. \A i \in 1 .. Len(parts) + 1 : Joined(parts, end)[i] \in Seq(Characters)
  <2>1. \A i \in 1 .. Len(parts) : parts[i] \in Seq(Characters)
    BY <1>2, <1>6
  <2> QED
    BY <1>5, <1>7, <2>1, JoinedTyped
<1>11. AttribsText(attribs)[N + 1] = end
  BY <1>2, <1>3, <1>8
<1>12. \A i \in 1 .. N : AttribsText(attribs)[i] = WrittenAttrib(attribs[i]) \o AttribsText(attribs)[i + 1]
  BY <1>2, <1>3, <1>9
<1>13. \A i \in 1 .. N + 1 : AttribsText(attribs)[i] \in Seq(Characters)
  BY <1>2, <1>3, <1>10
<1> QED
  BY <1>1, <1>11, <1>12, <1>13 DEF end

LEMMA FlagsFrom ==
  ASSUME NEW attribs \in AttribLists, NEW j \in 1 .. Len(attribs)
  PROVE  /\ MaskFrom(attribs, j) = MaskFrom(attribs, j + 1) \cup {DocumentedFlag[attribs[j].letter]}
         /\ attribs[j].sign # "-" =>
              EorFrom(attribs, j) = EorFrom(attribs, j + 1) \cup {DocumentedFlag[attribs[j].letter]}
         /\ attribs[j].sign = "-" => EorFrom(attribs, j) = EorFrom(attribs, j + 1)
<1>1. Len(attribs) \in Nat
  BY AttribsTextParts
<1>2. j .. Len(attribs) = (j + 1 .. Len(attribs)) \cup {j}
  BY <1>1
<1>3. ASSUME attribs[j].sign # "-"
      PROVE  {k \in j .. Len(attribs) : attribs[k].sign # "-"} =
               {k \in j + 1 .. Len(attribs) : attribs[k].sign # "-"} \cup {j}
  BY <1>2, <1>3
<1>4. ASSUME attribs[j].sign = "-"
      PROVE  {k \in j .. Len(attribs) : attribs[k].sign # "-"} =
               {k \in j + 1 .. Len(attribs) : attribs[k].sign # "-"}
  BY <1>2, <1>4
<1>5. \A S : Flag(attribs, S \cup {j}) = Flag(attribs, S) \cup {DocumentedFlag[attribs[j].letter]}
  BY DEF Flag
<1> QED
  BY <1>2, <1>3, <1>4, <1>5 DEF MaskFrom, EorFrom

(* The parser reads from the attributes what they are meant to be, up to   *)
(* the ">" behind them.                                                    *)
LEMMA AttribsRead ==
  ASSUME NEW s \in Seq(Characters), Char(s, Len(s)) \notin Signs,
         NEW attribs \in AttribLists, NEW rest \in Seq(Characters),
         NEW i \in 1 .. Len(s) + 1, IsAt(s, i, AttribsText(attribs)[1], rest)
  PROVE  Attribs(s, i) = [mask |-> MaskFrom(attribs, 1), eor |-> EorFrom(attribs, 1),
                          in |-> i + Len(AttribsText(attribs)[1]) - 1]
<1> DEFINE N == Len(attribs)
           T == AttribsText(attribs)
           Read(j, p) == [mask |-> MaskFrom(attribs, j), eor |-> EorFrom(attribs, j),
                          in |-> p + Len(T[j]) - 1]
           S == {j \in 1 .. N + 1 : \A p \in 1 .. Len(s) + 1 :
                   IsAt(s, p, T[j], rest) => Attribs(s, p) = Read(j, p)}
<1>1. /\ N \in Nat /\ T[N + 1] = <<">">>
      /\ \A j \in 1 .. N : T[j] = WrittenAttrib(attribs[j]) \o T[j + 1]
      /\ \A j \in 1 .. N + 1 : T[j] \in Seq(Characters)
  BY AttribsTextParts
<1>2. Len(s) \in Nat
  OBVIOUS
<1> HIDE DEF T
<1>3. N + 1 \in S
  <2>1. SUFFICES ASSUME NEW p \in 1 .. Len(s) + 1, IsAt(s, p, T[N + 1], rest)
                 PROVE  Attribs(s, p) = Read(N + 1, p)
    <3>1. N + 1 \in 1 .. N + 1
      BY <1>1
    <3> HIDE DEF Read, N
    <3> QED
      BY <3>1
  <2>2. p \in Nat /\ p + 1 - 1 = p
    BY <1>2
  <2>3. T[N + 1] \in Seq(Characters) /\ Len(T[N + 1]) = 1 /\ T[N + 1][1] = ">"
    <3>1. N + 1 \in 1 .. N + 1
      BY <1>1
    <3>2. T[N + 1] \in Seq(Characters)
      BY <1>1, <3>1
    <3> QED
      BY <1>1, <3>2
  <2>4. Char(s, p + 1 - 1) = Char(T[N + 1] \o rest, 1)
    <3>1. Char(s, p + 1 - 1) = Char(RestFrom(s, p), 1)
      BY CharAhead
    <3> QED
      BY <2>1, <3>1 DEF IsAt
  <2>5. Char(T[N + 1] \o rest, 1) = T[N + 1][1]
    <3> DEFINE t == T[N + 1]
    <3>1. t \in Seq(Characters) /\ 1 <= Len(t) /\ 1 \in Nat /\ 1 >= 1
      BY <2>3
    <3> HIDE DEF t
    <3>2. Char(t \o rest, 1) = t[1]
      BY <3>1, CharConcat
    <3> QED
      BY <3>2 DEF t
  <2>6. Char(s, p) = ">"
    BY <2>2, <2>3, <2>4, <2>5
  <2>7. Attribs(s, p) = [mask |-> {}, eor |-> {}, in |-> p]
    BY <1>2, <2>6, AttribsRounds
  <2>8. MaskFrom(attribs, N + 1) = {} /\ EorFrom(attribs, N + 1) = {}
    BY <1>1 DEF MaskFrom, EorFrom, Flag
  <2> QED
    BY <2>2, <2>3, <2>7, <2>8
<1>4. ASSUME NEW j \in 1 .. N, j + 1 \in S
      PROVE  j \in S
  <2>0. j \in 1 .. N + 1 /\ j + 1 \in 1 .. N + 1
    BY <1>1
  <2>1. SUFFICES ASSUME NEW p \in 1 .. Len(s) + 1, IsAt(s, p, T[j], rest)
                 PROVE  Attribs(s, p) = Read(j, p)
    BY <2>0
  <2> DEFINE part == WrittenAttrib(attribs[j])
             letter == attribs[j].letter
             sign == attribs[j].sign
             flag == {DocumentedFlag[letter]}
             more == T[j + 1] \o rest
  <2>2. /\ sign \in {"+", "-", "none"} /\ letter \in {"h", "r", "a", "s", "c", "d"}
        /\ FlagOf(letter) = flag /\ part \in Seq(Characters)
    BY AttribTyped
  <2>3. T[j] = part \o T[j + 1] /\ T[j + 1] \in Seq(Characters) /\ more \in Seq(Characters)
    <3>1. T[j] = part \o T[j + 1]
      BY <1>1
    <3>2. T[j + 1] \in Seq(Characters)
      BY <1>1, <2>0
    <3> QED
      BY <3>1, <3>2
  <2>4. IsAt(s, p, part, more)
    <3>1. (part \o T[j + 1]) \o rest = part \o (T[j + 1] \o rest)
      <4> DEFINE t == T[j + 1]
      <4>1. t \in Seq(Characters) /\ part \in Seq(Characters) /\ rest \in Seq(Characters)
        BY <2>2, <2>3
      <4> HIDE DEF t, part
      <4>2. (part \o t) \o rest = part \o (t \o rest)
        BY <4>1
      <4> QED
        BY <4>2 DEF t
    <3> QED
      BY <2>1, <2>3, <3>1 DEF IsAt
  <2> HIDE DEF part, more
  <2>5. /\ Len(s) + 1 = p + Len(part) + Len(more)
        /\ p + Len(part) \in 1 .. Len(s) + 1
        /\ RestFrom(s, p + Len(part)) = more
    BY <2>2, <2>3, <2>4, Advance
  <2>6. Attribs(s, p + Len(part)) = Read(j + 1, p + Len(part))
    <3>1. IsAt(s, p + Len(part), T[j + 1], rest)
      BY <2>5 DEF IsAt, more
    <3>2. \A q \in 1 .. Len(s) + 1 : IsAt(s, q, T[j + 1], rest) => Attribs(s, q) = Read(j + 1, q)
      BY <1>4
    <3> HIDE DEF Read
    <3> QED
      BY <2>5, <3>1, <3>2
  <2>7. Len(T[j]) = Len(part) + Len(T[j + 1]) /\ Len(part) \in Nat /\ Len(T[j + 1]) \in Nat /\ p \in Nat
    BY <1>2, <2>2, <2>3
  <2>8. (p + Len(part)) + Len(T[j + 1]) - 1 = p + Len(T[j]) - 1
    <3> DEFINE a == Len(part)
               b == Len(T[j + 1])
               d == Len(T[j])
    <3>1. d = a + b /\ a \in Nat /\ b \in Nat /\ p \in Nat
      BY <2>7
    <3> HIDE DEF a, b, d
    <3>2. (p + a) + b - 1 = p + d - 1
      BY <3>1
    <3> QED
      BY <3>2 DEF a, b, d
  <2>9. Attribs(s, p + Len(part)) =
          [mask |-> MaskFrom(attribs, j + 1), eor |-> EorFrom(attribs, j + 1),
           in |-> p + Len(T[j]) - 1]
    BY <2>6, <2>8
  <2>10. /\ MaskFrom(attribs, j) = MaskFrom(attribs, j + 1) \cup flag
         /\ sign # "-" => EorFrom(attribs, j) = EorFrom(attribs, j + 1) \cup flag
         /\ sign = "-" => EorFrom(attribs, j) = EorFrom(attribs, j + 1)
    BY FlagsFrom
  <2>11. \A k \in Nat : k >= 1 /\ k <= Len(part) => Char(s, p + k - 1) = part[k]
    <3>1. SUFFICES ASSUME NEW k \in Nat, k >= 1, k <= Len(part) PROVE Char(s, p + k - 1) = part[k]
      OBVIOUS
    <3>2. Char(s, p + k - 1) = Char(RestFrom(s, p), k)
      BY <3>1, CharAhead
    <3>0. part \in Seq(Characters) /\ more \in Seq(Characters)
      BY <2>2, <2>3
    <3>3. Char(part \o more, k) = part[k]
      BY <3>0, <3>1, CharConcat
    <3> QED
      BY <2>4, <3>2, <3>3 DEF IsAt
  <2> HIDE DEF flag, letter, sign
  <2>12. CASE sign = "none"
    <3>1. part = <<letter>>
      BY <2>12 DEF part, WrittenAttrib, letter, sign
    <3>2. Len(part) = 1 /\ part[1] = letter
      BY <3>1
    <3>3. Char(s, p + 1 - 1) = letter /\ p + 1 - 1 = p /\ p + Len(part) = p + 1
      BY <2>7, <2>11, <3>2
    <3>4. Char(s, p) = letter /\ letter \notin Signs \cup {NUL, ">"}
      BY <2>2, <3>3 DEF Signs, NUL
    <3>5. Attribs(s, p) = [Attribs(s, p + 1) EXCEPT !.mask = @ \cup FlagOf(letter),
                                                    !.eor = @ \cup FlagOf(letter)]
      BY <1>2, <3>4, AttribsRounds
    <3>6. FlagOf(letter) = flag /\ p + 1 = p + Len(part)
      BY <2>2, <3>3
    <3>7. Attribs(s, p) =
            [mask |-> MaskFrom(attribs, j + 1) \cup flag, eor |-> EorFrom(attribs, j + 1) \cup flag,
             in |-> p + Len(T[j]) - 1]
      <4> DEFINE q == Attribs(s, p)
                 r == Attribs(s, p + Len(part))
                 m == MaskFrom(attribs, j + 1)
                 e == EorFrom(attribs, j + 1)
                 to == p + Len(T[j]) - 1
      <4>1. r = [mask |-> m, eor |-> e, in |-> to]
        BY <2>9
      <4>2. q = [r EXCEPT !.mask = @ \cup flag, !.eor = @ \cup flag]
        BY <3>5, <3>6
      <4> HIDE DEF q, r, m, e, to
      <4> QED
        BY <4>1, <4>2 DEF q, m, e, to
    <3> QED
      BY <2>10, <2>12, <3>7
  <2>13. CASE sign # "none"
    <3>1. part = <<sign, letter>>
      BY <2>13 DEF part, WrittenAttrib, letter, sign
    <3>2. Len(part) = 2 /\ part[1] = sign /\ part[2] = letter
      BY <3>1
    <3>3. /\ Char(s, p + 1 - 1) = sign /\ p + 1 - 1 = p /\ Char(s, p + 2 - 1) = letter
          /\ p + 2 - 1 = p + 1 /\ p + Len(part) = (p + 1) + 1
      BY <2>7, <2>11, <3>2
    <3>4. Char(s, p) = sign /\ Char(s, p + 1) = letter
      BY <3>3
    <3>5. CASE sign = "+"
      <4>1. Char(s, p) = "+" /\ FlagOf(Char(s, p + 1)) = flag /\ (p + 1) + 1 = p + Len(part)
        BY <2>2, <3>3, <3>4, <3>5
      <4>2. Attribs(s, p) = [Attribs(s, (p + 1) + 1) EXCEPT !.mask = @ \cup FlagOf(Char(s, p + 1)),
                                                            !.eor = @ \cup FlagOf(Char(s, p + 1))]
        BY <1>2, <4>1, AttribsRounds
      <4>3. Attribs(s, p) =
              [mask |-> MaskFrom(attribs, j + 1) \cup flag, eor |-> EorFrom(attribs, j + 1) \cup flag,
               in |-> p + Len(T[j]) - 1]
        <5> DEFINE q == Attribs(s, p)
                   r == Attribs(s, p + Len(part))
                   m == MaskFrom(attribs, j + 1)
                   e == EorFrom(attribs, j + 1)
                   to == p + Len(T[j]) - 1
        <5>1. r = [mask |-> m, eor |-> e, in |-> to]
          BY <2>9
        <5>2. q = [r EXCEPT !.mask = @ \cup flag, !.eor = @ \cup flag]
          BY <4>1, <4>2
        <5> HIDE DEF q, r, m, e, to
        <5> QED
          BY <5>1, <5>2 DEF q, m, e, to
      <4> QED
        BY <2>10, <3>5, <4>3
    <3>6. CASE sign = "-"
      <4>1. Char(s, p) = "-" /\ FlagOf(Char(s, p + 1)) = flag /\ (p + 1) + 1 = p + Len(part)
        BY <2>2, <3>3, <3>4, <3>6
      <4>2. Attribs(s, p) = [Attribs(s, (p + 1) + 1) EXCEPT !.mask = @ \cup FlagOf(Char(s, p + 1))]
        BY <1>2, <4>1, AttribsRounds
      <4>3. Attribs(s, p) =
              [mask |-> MaskFrom(attribs, j + 1) \cup flag, eor |-> EorFrom(attribs, j + 1),
               in |-> p + Len(T[j]) - 1]
        <5> DEFINE q == Attribs(s, p)
                   r == Attribs(s, p + Len(part))
                   m == MaskFrom(attribs, j + 1)
                   e == EorFrom(attribs, j + 1)
                   to == p + Len(T[j]) - 1
        <5>1. r = [mask |-> m, eor |-> e, in |-> to]
          BY <2>9
        <5>2. q = [r EXCEPT !.mask = @ \cup flag]
          BY <4>1, <4>2
        <5> HIDE DEF q, r, m, e, to
        <5> QED
          BY <5>1, <5>2 DEF q, m, e, to
      <4> QED
        BY <2>10, <3>6, <4>3
    <3> QED
      BY <2>2, <2>13, <3>5, <3>6
  <2> QED
    BY <2>12, <2>13
<1>5. \A j \in 1 .. N + 1 : j \in S
  <2> HIDE DEF S
  <2> QED
    BY <1>1, <1>3, <1>4, Backwards
<1>6. Attribs(s, i) = Read(1, i)
  <2>1. 1 \in S /\ IsAt(s, i, T[1], rest)
    BY <1>1, <1>5 DEF T
  <2> QED
    BY <2>1
<1> QED
  BY <1>6 DEF T

-----------------------------------------------------------------------------
(* The lines.                                                              *)
LEMMA NameTyped ==
  ASSUME NEW name \in Names
  PROVE  /\ name \in Seq(Characters) /\ Len(name) \in Nat /\ Len(name) >= 1
         /\ name # <<"-">>
         /\ Len(name) + 3 <= BufferSize
         /\ \A i \in 1 .. Len(name) : name[i] \notin Stops /\ name[i] \notin NewLines
         /\ name[1] \notin Blanks /\ name[Len(name)] \notin Blanks
<1>1. /\ name \in Seq(STRING) /\ name # <<>> /\ name # <<"-">>
      /\ \A i \in 1 .. Len(name) : name[i] \notin {"#", "<", ",", ";", NUL} \cup NewLines
      /\ name[1] \notin Blanks /\ name[Len(name)] \notin Blanks
      /\ Len(name) + 3 <= BufferSize
  BY DEF Names, Last
<1>2. STRING \subseteq Characters
  BY DEF Characters
<1>3. name \in Seq(Characters)
  BY <1>1, <1>2, SeqMonotonic
<1>4. Len(name) \in Nat /\ Len(name) >= 1
  <2>1. Len(name) \in Nat \ {0}
    BY <1>1, <1>3, EmptySeq
  <2> QED
    BY <2>1
<1> QED
  BY <1>1, <1>3, <1>4 DEF Stops

LEMMA LineTyped ==
  ASSUME NEW ln \in Lines
  PROVE  /\ ln.exception \in BOOLEAN /\ ln.separator \in {",", ";"}
         /\ ln.comment \in {"none", "tight", "spaced"}
         /\ ln.statements \in Seq(Statements) /\ Len(ln.statements) \in Nat
         /\ \A i \in 1 .. Len(ln.statements) :
              /\ ln.statements[i] \in Statements
              /\ ln.statements[i].name \in Names /\ ln.statements[i].attribs \in AttribLists
<1>1. /\ ln.exception \in BOOLEAN /\ ln.separator \in {",", ";"}
      /\ ln.comment \in {"none", "tight", "spaced"}
      /\ ln.statements \in Seq(Statements)
  BY DEF Lines
<1>2. ASSUME NEW i \in 1 .. Len(ln.statements)
      PROVE  /\ ln.statements[i] \in Statements
             /\ ln.statements[i].name \in Names /\ ln.statements[i].attribs \in AttribLists
  <2>1. ln.statements[i] \in Statements
    BY <1>1, ElementOfSeq
  <2> QED
    BY <2>1 DEF Statements
<1>3. Len(ln.statements) \in Nat
  <2> DEFINE s == ln.statements
  <2>1. s \in Seq(Statements)
    BY <1>1
  <2> HIDE DEF s
  <2>2. Len(s) \in Nat
    BY <2>1
  <2> QED
    BY <2>2 DEF s
<1> QED
  BY <1>1, <1>2, <1>3

LEMMA Tuples ==
  ASSUME NEW S, NEW x \in S, NEW y \in S, NEW z \in S, NEW w \in S
  PROVE  /\ <<>> \in Seq(S) /\ Len(<<>>) = 0
         /\ <<x>> \in Seq(S) /\ Len(<<x>>) = 1 /\ <<x>>[1] = x
         /\ <<x, y>> \in Seq(S) /\ Len(<<x, y>>) = 2 /\ <<x, y>>[1] = x /\ <<x, y>>[2] = y
         /\ <<x, y, z>> \in Seq(S) /\ Len(<<x, y, z>>) = 3
         /\ <<x, y, z>>[1] = x /\ <<x, y, z>>[2] = y /\ <<x, y, z>>[3] = z
         /\ <<x, y, z, w>> \in Seq(S) /\ Len(<<x, y, z, w>>) = 4 /\ <<x, y, z, w>>[1] = x
         /\ <<x, y, z, w>>[2] = y /\ <<x, y, z, w>>[3] = z /\ <<x, y, z, w>>[4] = w
  OBVIOUS

LEMMA LiteralsTyped ==
  /\ <<>> \in Seq(Characters) /\ <<" ">> \in Seq(Characters) /\ <<"nl">> \in Seq(Characters)
  /\ <<"<">> \in Seq(Characters) /\ <<"-">> \in Seq(Characters)
  /\ <<"#", "a", "nl">> \in Seq(Characters) /\ <<" ", "#", "a", "nl">> \in Seq(Characters)
  /\ \A ch \in {",", ";"} : <<ch>> \in Seq(Characters) /\ <<"-", ch>> \in Seq(Characters)
<1>1. /\ " " \in Characters /\ "nl" \in Characters /\ "#" \in Characters /\ "a" \in Characters
      /\ "<" \in Characters /\ "-" \in Characters /\ "," \in Characters /\ ";" \in Characters
  BY DEF Characters
<1>2. <<>> \in Seq(Characters)
  BY EmptySeq
<1>9. <<" ">> \in Seq(Characters)
  BY <1>1, Tuples
<1>3. <<"nl">> \in Seq(Characters)
  BY <1>1, Tuples
<1>4. <<"<">> \in Seq(Characters)
  BY <1>1, Tuples
<1>5. <<"-">> \in Seq(Characters)
  BY <1>1, Tuples
<1>6. <<"#", "a", "nl">> \in Seq(Characters)
  BY <1>1, Tuples
<1>7. <<" ", "#", "a", "nl">> \in Seq(Characters)
  BY <1>1, Tuples
<1>8. ASSUME NEW ch \in {",", ";"}
      PROVE  <<ch>> \in Seq(Characters) /\ <<"-", ch>> \in Seq(Characters)
  <2>1. ch \in Characters
    BY <1>1
  <2>2. <<ch>> \in Seq(Characters)
    BY <2>1, Tuples
  <2>3. <<"-", ch>> \in Seq(Characters)
    BY <1>1, <2>1, Tuples
  <2> QED
    BY <2>2, <2>3
<1> QED
  BY <1>2, <1>3, <1>4, <1>5, <1>6, <1>7, <1>8, <1>9

LEMMA FourPlaces ==
  ASSUME NEW S, NEW x \in S, NEW y \in S, NEW z \in S, NEW w \in S
  PROVE  <<x>> \o <<y,z,w>> = <<x,y,z,w>>
<1> DEFINE l == <<x,y,z,w>>
           a == <<x>>
           b == <<y,z,w>>
           r == a \o b
<1>1. l \in Seq(S) /\ Len(l) = 4
  OBVIOUS
<1>2. a \in Seq(S) /\ b \in Seq(S) /\ Len(a) = 1 /\ Len(b) = 3
  OBVIOUS
<1>3. l[1] = x /\ l[2] = y /\ l[3] = z /\ l[4] = w /\ a[1] = x /\ b[1] = y /\ b[2] = z /\ b[3] = w
  OBVIOUS
<1> HIDE DEF l, a, b
<1>4. r \in Seq(S) /\ Len(r) = 1 + 3 /\ \A i \in 1 .. 1 + 3 : r[i] = IF i <= 1 THEN a[i] ELSE b[i - 1]
  <2>1. /\ r \in Seq(S) /\ Len(r) = Len(a) + Len(b)
        /\ \A i \in 1 .. Len(a) + Len(b) : r[i] = IF i <= Len(a) THEN a[i] ELSE b[i - Len(a)]
    BY <1>2, ConcatProperties
  <2> QED
    BY <1>2, <2>1
<1> HIDE DEF r
<1>5. \A i \in 1 .. 4 : l[i] = r[i]
  <2>1. \A i \in 1 .. 4 : i = 1 \/ i = 2 \/ i = 3 \/ i = 4
    OBVIOUS
  <2>2. r[1] = a[1] /\ r[2] = b[1] /\ r[3] = b[2] /\ r[4] = b[3]
    BY <1>4
  <2> QED
    BY <1>3, <2>2, <2>1
<1>6. l = r
  BY <1>1, <1>4, <1>5, SeqEqual
<1> QED
  BY <1>6 DEF l, r, a, b

LEMMA TwoPlaces ==
  ASSUME NEW S, NEW x \in S, NEW y \in S
  PROVE  <<x>> \o <<y>> = <<x,y>>
<1> DEFINE l == <<x,y>>
           a == <<x>>
           b == <<y>>
           r == a \o b
<1>1. l \in Seq(S) /\ Len(l) = 2
  OBVIOUS
<1>2. a \in Seq(S) /\ b \in Seq(S) /\ Len(a) = 1 /\ Len(b) = 1
  OBVIOUS
<1>3. l[1] = x /\ l[2] = y /\ a[1] = x /\ b[1] = y
  OBVIOUS
<1> HIDE DEF l, a, b
<1>4. r \in Seq(S) /\ Len(r) = 1 + 1 /\ \A i \in 1 .. 1 + 1 : r[i] = IF i <= 1 THEN a[i] ELSE b[i - 1]
  <2>1. /\ r \in Seq(S) /\ Len(r) = Len(a) + Len(b)
        /\ \A i \in 1 .. Len(a) + Len(b) : r[i] = IF i <= Len(a) THEN a[i] ELSE b[i - Len(a)]
    BY <1>2, ConcatProperties
  <2> QED
    BY <1>2, <2>1
<1> HIDE DEF r
<1>5. \A i \in 1 .. 2 : l[i] = r[i]
  <2>1. \A i \in 1 .. 2 : i = 1 \/ i = 2
    OBVIOUS
  <2>2. r[1] = a[1] /\ r[2] = b[1]
    BY <1>4
  <2> QED
    BY <1>3, <2>2, <2>1
<1>6. l = r
  BY <1>1, <1>4, <1>5, SeqEqual
<1> QED
  BY <1>6 DEF l, r, a, b


(* What may be ahead once the statements of a line are read.               *)
Ends == {<<>>, <<"nl">>, <<"#", "a", "nl">>, <<" ", "#", "a", "nl">>}

LEMMA CommentEnds ==
  ASSUME NEW ln \in Lines
  PROVE  /\ WrittenComment(ln) \in Ends /\ WrittenComment(ln) \in Seq(Characters)
         /\ Len(WrittenComment(ln)) >= 1
         /\ WrittenComment(ln)[Len(WrittenComment(ln))] = "nl"
<1>1. CASE ln.comment = "none"
  <2>1. WrittenComment(ln) = <<"nl">>
    BY <1>1 DEF WrittenComment
  <2>2. <<"nl">> \in Ends
    BY DEF Ends
  <2>3. <<"nl">> \in Seq(Characters)
    BY LiteralsTyped
  <2>4. Len(<<"nl">>) = 1 /\ <<"nl">>[1] = "nl"
    BY Tuples
  <2> DEFINE l == <<"nl">>
  <2>5. WrittenComment(ln) = l /\ l \in Ends /\ l \in Seq(Characters) /\ Len(l) = 1 /\ l[1] = "nl"
    BY <2>1, <2>2, <2>3, <2>4
  <2> HIDE DEF l
  <2> QED
    BY <2>5
<1>2. CASE ln.comment = "tight"
  <2>1. WrittenComment(ln) = <<"#", "a", "nl">>
    BY <1>2 DEF WrittenComment
  <2>2. <<"#", "a", "nl">> \in Ends
    BY DEF Ends
  <2>3. <<"#", "a", "nl">> \in Seq(Characters)
    BY LiteralsTyped
  <2>4. Len(<<"#", "a", "nl">>) = 3 /\ <<"#", "a", "nl">>[3] = "nl"
    BY Tuples
  <2> DEFINE l == <<"#", "a", "nl">>
  <2>5. WrittenComment(ln) = l /\ l \in Ends /\ l \in Seq(Characters) /\ Len(l) = 3 /\ l[3] = "nl"
    BY <2>1, <2>2, <2>3, <2>4
  <2> HIDE DEF l
  <2> QED
    BY <2>5
<1>3. CASE ln.comment = "spaced"
  <2>1. WrittenComment(ln) = <<" ", "#", "a", "nl">>
    BY <1>3 DEF WrittenComment
  <2>2. <<" ", "#", "a", "nl">> \in Ends
    BY DEF Ends
  <2>3. <<" ", "#", "a", "nl">> \in Seq(Characters)
    BY LiteralsTyped
  <2>4. Len(<<" ", "#", "a", "nl">>) = 4 /\ <<" ", "#", "a", "nl">>[4] = "nl"
    BY Tuples
  <2> DEFINE l == <<" ", "#", "a", "nl">>
  <2>5. WrittenComment(ln) = l /\ l \in Ends /\ l \in Seq(Characters) /\ Len(l) = 4 /\ l[4] = "nl"
    BY <2>1, <2>2, <2>3, <2>4
  <2> HIDE DEF l
  <2> QED
    BY <2>5
<1> QED
  BY <1>1, <1>2, <1>3, LineTyped

LEMMA WrittenAttribsTyped ==
  ASSUME NEW attribs \in AttribLists
  PROVE  WrittenAttribs(attribs) \in Seq(Characters)
<1>1. CASE attribs = <<>>
  BY <1>1 DEF WrittenAttribs
<1>2. CASE attribs # <<>>
  <2> DEFINE t == AttribsText(attribs)[1]
  <2>1. 1 \in 1 .. Len(attribs) + 1
    BY AttribsTextParts
  <2>2. t \in Seq(Characters)
    BY <2>1, AttribsTextParts
  <2>3. WrittenAttribs(attribs) = <<"<">> \o t
    BY <1>2 DEF WrittenAttribs
  <2> DEFINE open == <<"<">>
  <2>4. open \in Seq(Characters)
    BY LiteralsTyped
  <2> HIDE DEF t, open
  <2>5. open \o t \in Seq(Characters)
    BY <2>2, <2>4
  <2> QED
    BY <2>3, <2>5 DEF open
<1> QED
  BY <1>1, <1>2

BlankBefore(i) == IF i > 1 THEN <<" ">> ELSE <<>>
Separator(ln, i) ==
  IF i < Len(ln.statements) /\ ln.statements[i].attribs = <<>> THEN <<ln.separator>> ELSE <<>>

LEMMA PiecesTyped ==
  ASSUME NEW ln \in Lines, NEW i \in 1 .. Len(ln.statements)
  PROVE  /\ BlankBefore(i) \in Seq(Characters)
         /\ \A k \in 1 .. Len(BlankBefore(i)) : BlankBefore(i)[k] \in Blanks
         /\ Separator(ln, i) \in Seq(Characters)
         /\ ln.statements[i].name \in Seq(Characters)
         /\ WrittenAttribs(ln.statements[i].attribs) \in Seq(Characters)
<1>1. <<ln.separator>> \in Seq(Characters) /\ <<>> \in Seq(Characters)
  BY LineTyped, LiteralsTyped
<1>2. Separator(ln, i) \in Seq(Characters)
  BY <1>1 DEF Separator
<1>3. BlankBefore(i) \in Seq(Characters)
  BY LiteralsTyped DEF BlankBefore
<1>4. \A k \in 1 .. Len(BlankBefore(i)) : BlankBefore(i)[k] \in Blanks
  <2>1. CASE i > 1
    <3>1. BlankBefore(i) = <<" ">>
      BY <2>1 DEF BlankBefore
    <3>2. Len(<<" ">>) = 1 /\ <<" ">>[1] = " "
      BY Tuples
    <3>3. \A k \in 1 .. 1 : k = 1
      OBVIOUS
    <3>4. " " \in Blanks
      BY DEF Blanks
    <3>5. Len(BlankBefore(i)) = 1 /\ BlankBefore(i)[1] \in Blanks
      BY <3>1, <3>2, <3>4
    <3> QED
      BY <3>3, <3>5
  <2>2. CASE ~(i > 1)
    <3>1. BlankBefore(i) = <<>>
      BY <2>2 DEF BlankBefore
    <3> QED
      BY <3>1
  <2> QED
    BY <2>1, <2>2
<1>5. ln.statements[i].name \in Names /\ ln.statements[i].attribs \in AttribLists
  BY LineTyped
<1> QED
  BY <1>2, <1>3, <1>4, <1>5, NameTyped, WrittenAttribsTyped

LEMMA StatementsTextParts ==
  ASSUME NEW ln \in Lines
  PROVE  /\ StatementsText(ln)[Len(ln.statements) + 1] = WrittenComment(ln)
         /\ \A i \in 1 .. Len(ln.statements) :
              StatementsText(ln)[i] = WrittenStatement(ln, i) \o StatementsText(ln)[i + 1]
         /\ \A i \in 1 .. Len(ln.statements) : WrittenStatement(ln, i) \in Seq(Characters)
         /\ \A i \in 1 .. Len(ln.statements) + 1 : StatementsText(ln)[i] \in Seq(Characters)
<1> DEFINE N == Len(ln.statements)
           parts == [i \in 1 .. N |-> WrittenStatement(ln, i)]
           end == WrittenComment(ln)
<1>1. N \in Nat
  BY LineTyped
<1>2. Len(parts) = N /\ \A i \in 1 .. N : parts[i] = WrittenStatement(ln, i)
  BY <1>1
<1>3. StatementsText(ln) = Joined(parts, end)
  BY DEF StatementsText
<1>4. end \in Seq(Characters)
  BY CommentEnds
<1>5. ASSUME NEW i \in 1 .. N
      PROVE  WrittenStatement(ln, i) \in Seq(Characters)
  <2> DEFINE b == BlankBefore(i)
             n == ln.statements[i].name
             a == WrittenAttribs(ln.statements[i].attribs)
             e == Separator(ln, i)
  <2>1. b \in Seq(Characters) /\ n \in Seq(Characters) /\ a \in Seq(Characters) /\ e \in Seq(Characters)
    BY PiecesTyped
  <2>2. WrittenStatement(ln, i) = b \o n \o a \o e
    BY DEF WrittenStatement, BlankBefore, Separator
  <2> HIDE DEF b, n, a, e
  <2> QED
    BY <2>1, <2>2
<1> HIDE DEF parts, end
<1>6. Len(parts) \in Nat
  BY <1>1, <1>2
<1>7. IsJoined(parts, end, Joined(parts, end))
  BY <1>6, JoinedParts
<1>8. Joined(parts, end)[Len(parts) + 1] = end
  BY <1>7 DEF IsJoined
<1>9. \A i \in 1 .. Len(parts) : Joined(parts, end)[i] = parts[i] \o Joined(parts, end)[i + 1]
  BY <1>7 DEF IsJoined
<1>10. \A i \in 1 .. Len(parts) + 1 : Joined(parts, end)[i] \in Seq(Characters)
  <2>1. \A i \in 1 .. Len(parts) : parts[i] \in Seq(Characters)
    BY <1>2, <1>5
  <2> QED
    BY <1>4, <1>6, <2>1, JoinedTyped
<1>11. StatementsText(ln)[N + 1] = end
  BY <1>2, <1>3, <1>8
<1>12. \A i \in 1 .. N : StatementsText(ln)[i] = WrittenStatement(ln, i) \o StatementsText(ln)[i + 1]
  BY <1>2, <1>3, <1>9
<1>13. \A i \in 1 .. N + 1 : StatementsText(ln)[i] \in Seq(Characters)
  BY <1>2, <1>3, <1>10
<1> QED
  BY <1>5, <1>11, <1>12, <1>13 DEF end

(* The last character of a text.                                           *)
EndsIn(s, x) == s \in Seq(Characters) /\ Len(s) >= 1 /\ s[Len(s)] = x

LEMMA EndKept ==
  ASSUME NEW x, NEW a \in Seq(Characters), NEW b, EndsIn(b, x)
  PROVE  EndsIn(a \o b, x)
<1>0. b \in Seq(Characters) /\ Len(b) >= 1 /\ b[Len(b)] = x
  BY DEF EndsIn
<1>1. Len(b) \in Nat /\ Len(a) \in Nat /\ Len(a \o b) = Len(a) + Len(b) /\ Len(b) \in 1 .. Len(b)
  BY <1>0
<1>2. \A k \in 1 .. Len(b) : (a \o b)[Len(a) + k] = b[k]
  BY <1>0
<1>3. a \o b \in Seq(Characters)
  BY <1>0
<1> QED
  BY <1>0, <1>1, <1>2, <1>3 DEF EndsIn

LEMMA WrittenTyped ==
  ASSUME NEW ln \in Lines
  PROVE  EndsIn(Written(ln), "nl")
<1> DEFINE N == Len(ln.statements)
           T == StatementsText(ln)
           S == {i \in 1 .. N + 1 : EndsIn(T[i], "nl")}
<1>1. /\ T[N + 1] = WrittenComment(ln)
      /\ \A i \in 1 .. N : T[i] = WrittenStatement(ln, i) \o T[i + 1]
      /\ \A i \in 1 .. N : WrittenStatement(ln, i) \in Seq(Characters)
  BY StatementsTextParts
<1>2. N \in Nat
  BY LineTyped
<1>3. EndsIn(WrittenComment(ln), "nl")
  BY CommentEnds DEF EndsIn
<1> HIDE DEF T, N
<1>4. N + 1 \in S
  BY <1>1, <1>2, <1>3
<1>5. ASSUME NEW i \in 1 .. N, i + 1 \in S
      PROVE  i \in S
  <2>1. EndsIn(T[i + 1], "nl") /\ i \in 1 .. N + 1
    BY <1>2, <1>5
  <2>2. EndsIn(WrittenStatement(ln, i) \o T[i + 1], "nl")
    BY <1>1, <2>1, EndKept
  <2> QED
    BY <1>1, <2>1, <2>2
<1>6. \A i \in 1 .. N + 1 : i \in S
  <2> HIDE DEF S
  <2> QED
    BY <1>2, <1>4, <1>5, Backwards
<1> DEFINE t == T[1]
           mark == IF ln.exception THEN <<"-", ln.separator>> ELSE <<>>
<1>7. EndsIn(t, "nl")
  <2>1. 1 \in 1 .. N + 1
    BY <1>2
  <2> QED
    BY <1>6, <2>1
<1>8. mark \in Seq(Characters)
  <2>1. <<"-", ln.separator>> \in Seq(Characters) /\ <<>> \in Seq(Characters)
    BY LineTyped, LiteralsTyped
  <2> QED
    BY <2>1
<1>9. Written(ln) = mark \o t
  BY DEF Written, T
<1> HIDE DEF mark, t
<1> QED
  BY <1>7, <1>8, <1>9, EndKept

(* The attributes end in the ">" that closes them.                         *)
LEMMA AttribsTextEnd ==
  ASSUME NEW attribs \in AttribLists
  PROVE  EndsIn(AttribsText(attribs)[1], ">")
<1> DEFINE N == Len(attribs)
           T == AttribsText(attribs)
           S == {i \in 1 .. N + 1 : EndsIn(T[i], ">")}
<1>1. /\ N \in Nat /\ T[N + 1] = <<">">>
      /\ \A i \in 1 .. N : T[i] = WrittenAttrib(attribs[i]) \o T[i + 1]
      /\ \A i \in 1 .. N + 1 : T[i] \in Seq(Characters)
  BY AttribsTextParts
<1>2. \A i \in 1 .. N : WrittenAttrib(attribs[i]) \in Seq(Characters)
  BY AttribTyped
<1>3. EndsIn(T[N + 1], ">")
  <2>1. ">" \in Characters
    BY DEF Characters
  <2>2. <<">">> \in Seq(Characters) /\ Len(<<">">>) = 1 /\ <<">">>[1] = ">"
    BY <2>1, Tuples
  <2>3. T[N + 1] = <<">">>
    BY <1>1
  <2> HIDE DEF T, N
  <2>4. EndsIn(<<">">>, ">")
    BY <2>2 DEF EndsIn
  <2> QED
    BY <2>3, <2>4
<1> HIDE DEF T, N
<1>4. N + 1 \in S
  BY <1>1, <1>3
<1>5. ASSUME NEW i \in 1 .. N, i + 1 \in S
      PROVE  i \in S
  <2>1. EndsIn(T[i + 1], ">") /\ i \in 1 .. N + 1
    BY <1>1, <1>5
  <2>2. EndsIn(WrittenAttrib(attribs[i]) \o T[i + 1], ">")
    BY <1>2, <2>1, EndKept
  <2> QED
    BY <1>1, <2>1, <2>2
<1>6. \A i \in 1 .. N + 1 : i \in S
  <2> HIDE DEF S
  <2> QED
    BY <1>1, <1>4, <1>5, Backwards
<1>7. 1 \in 1 .. N + 1
  BY <1>1
<1> QED
  BY <1>6, <1>7 DEF T

-----------------------------------------------------------------------------
(* What Scan reads.                                                        *)
ScanStart(s, p) == Skip(s, p, Blanks)
ScanStop(s, p) == FirstOf(s, ScanStart(s, p), Stops)
ScanName(s, p) == WithoutNewLines(SubSeq(s, ScanStart(s, p), ScanStop(s, p) - 1))
ScanIn(s, p) ==
  IF Char(s, ScanStop(s, p)) \in {"#", NUL} THEN ScanStop(s, p) ELSE ScanStop(s, p) + 1

(* From p on it reads name up to the character d, and then ahead is left.  *)
ScannedAs(s, p, name, d, ahead) ==
  /\ Char(s, ScanStart(s, p)) # "#"
  /\ ScanName(s, p) = name
  /\ Char(s, ScanStop(s, p)) = d
  /\ ScanIn(s, p) \in 1 .. Len(s) + 1
  /\ RestFrom(s, ScanIn(s, p)) = ahead

IsWord(word) ==
  word \in Seq(Characters) /\ \A k \in 1 .. Len(word) : word[k] \notin Stops /\ word[k] \notin NewLines

AllBlank(blanks) ==
  blanks \in Seq(Characters) /\ \A k \in 1 .. Len(blanks) : blanks[k] \in Blanks

NoStops(word) ==
  word \in Seq(Characters) /\ \A k \in 1 .. Len(word) : word[k] \notin Stops

WordAt(s, i, blanks, word, text, rest) ==
  /\ Skip(s, i, Blanks) = i + Len(blanks)
  /\ FirstOf(s, i + Len(blanks), Stops) = i + Len(blanks) + Len(word)
  /\ Char(s, i + Len(blanks)) = Char(text, 1)
  /\ Char(s, i + Len(blanks) + Len(word)) = Char(rest, 1)
  /\ Piece(s, i + Len(blanks), Len(word)) = word
  /\ RestFrom(s, i + Len(blanks) + Len(word)) = rest
  /\ i + Len(blanks) + Len(word) \in 1 .. Len(s) + 1

(* Blanks, then a word, then what begins with a character that stops it.   *)
LEMMA WordScanned ==
  ASSUME NEW s \in Seq(Characters), NEW i \in 1 .. Len(s) + 1,
         NEW blanks, AllBlank(blanks), NEW word, NoStops(word), NEW rest \in Seq(Characters),
         NEW text, text = word \o rest, IsAt(s, i, blanks, text),
         Char(rest, 1) \in Stops, Char(text, 1) \notin Blanks
  PROVE  WordAt(s, i, blanks, word, text, rest)
<1>0. /\ blanks \in Seq(Characters) /\ \A k \in 1 .. Len(blanks) : blanks[k] \in Blanks
      /\ word \in Seq(Characters) /\ \A k \in 1 .. Len(word) : word[k] \notin Stops
      /\ IsAt(s, i, blanks, word \o rest) /\ Char(word \o rest, 1) \notin Blanks
  BY DEF AllBlank, NoStops
<1> DEFINE n == Len(s)
           lb == Len(blanks)
           lw == Len(word)
           more == word \o rest
           start == i + lb
           stop == start + lw
<1>1. n \in Nat /\ lb \in Nat /\ lw \in Nat /\ i \in Nat /\ i >= 1 /\ Len(rest) \in Nat
  BY <1>0
<1>2. more \in Seq(Characters) /\ blanks \o more \in Seq(Characters) /\ Len(more) = lw + Len(rest)
  BY <1>0
<1>3. IsAt(s, i, blanks, more) /\ RestFrom(s, i) = blanks \o more
  BY <1>0 DEF IsAt
<1> HIDE DEF more
<1>4. /\ start \in 1 .. n + 1 /\ RestFrom(s, start) = more
      /\ n + 1 = i + lb + Len(more)
  <2>1. blanks \in Seq(Characters) /\ i \in 1 .. Len(s) + 1 /\ IsAt(s, i, blanks, more)
    BY <1>0, <1>3
  <2>2. /\ Len(s) + 1 = i + Len(blanks) + Len(more)
        /\ i + Len(blanks) \in 1 .. Len(s) + 1
        /\ RestFrom(s, i + Len(blanks)) = more
    BY <1>2, <2>1, Advance
  <2> QED
    BY <2>2
<1>5. RestFrom(s, start) = word \o rest /\ IsAt(s, start, word, rest)
  BY <1>4 DEF more, IsAt
<1>6. /\ start + lw \in 1 .. n + 1 /\ RestFrom(s, start + lw) = rest
      /\ Piece(s, start, lw) = word
  <2>1. start \in 1 .. Len(s) + 1 /\ IsAt(s, start, word, rest)
    BY <1>4, <1>5
  <2> HIDE DEF start
  <2>2. /\ start + Len(word) \in 1 .. Len(s) + 1
        /\ RestFrom(s, start + Len(word)) = rest
        /\ Piece(s, start, Len(word)) = word
    BY <1>0, <2>1, Advance
  <2> QED
    BY <2>2
<1>7. \A k \in i .. start - 1 : Char(s, k) \in Blanks
  <2>1. SUFFICES ASSUME NEW k \in i .. start - 1 PROVE Char(s, k) \in Blanks
    OBVIOUS
  <2>2. k - i + 1 \in Nat /\ k - i + 1 >= 1 /\ k - i + 1 <= lb /\ i + (k - i + 1) - 1 = k
    BY <1>1, <2>1
  <2>3. Char(s, i + (k - i + 1) - 1) = Char(blanks \o more, k - i + 1)
    BY <1>3, <2>2, CharAhead
  <2>4. Char(blanks \o more, k - i + 1) = blanks[k - i + 1]
    BY <1>0, <1>2, <2>2, CharConcat
  <2>5. blanks[k - i + 1] \in Blanks
    BY <1>0, <2>2
  <2> QED
    BY <2>2, <2>3, <2>4, <2>5
<1>8. Char(s, start) = Char(more, 1)
  <2>1. start + 1 - 1 = start
    BY <1>1
  <2>2. Char(s, start + 1 - 1) = Char(RestFrom(s, start), 1)
    <3>1. start \in 1 .. Len(s) + 1 /\ 1 \in Nat /\ 1 >= 1
      BY <1>4
    <3> HIDE DEF start
    <3>2. Char(s, start + 1 - 1) = Char(RestFrom(s, start), 1)
      BY <3>1, CharAhead
    <3> QED
      BY <3>2
  <2> QED
    BY <1>4, <2>1, <2>2
<1>9. Char(s, stop) = Char(rest, 1)
  <2>1. stop + 1 - 1 = stop /\ stop \in 1 .. n + 1
    BY <1>1, <1>6
  <2>2. Char(s, stop + 1 - 1) = Char(RestFrom(s, stop), 1)
    <3> HIDE DEF stop
    <3> QED
      BY <2>1, CharAhead DEF n
  <2> QED
    BY <1>6, <2>1, <2>2
<1>10. \A k \in start .. stop - 1 : Char(s, k) \notin Stops
  <2>1. SUFFICES ASSUME NEW k \in start .. stop - 1 PROVE Char(s, k) \notin Stops
    OBVIOUS
  <2>2. k - start + 1 \in Nat /\ k - start + 1 >= 1 /\ k - start + 1 <= lw
        /\ start + (k - start + 1) - 1 = k
    BY <1>1, <2>1
  <2>3. Char(s, start + (k - start + 1) - 1) = Char(RestFrom(s, start), k - start + 1)
    <3> HIDE DEF start
    <3> QED
      BY <1>4, <2>2, CharAhead DEF n
  <2>4. Char(word \o rest, k - start + 1) = word[k - start + 1]
    BY <1>0, <1>2, <2>2, CharConcat
  <2>5. word[k - start + 1] \notin Stops
    BY <1>0, <2>2
  <2> QED
    BY <1>5, <2>2, <2>3, <2>4, <2>5
<1>11. Skip(s, i, Blanks) = start
  <2>1. start \in i .. n + 1 /\ Char(s, start) \notin Blanks
    BY <1>0, <1>1, <1>4, <1>8 DEF more
  <2> HIDE DEF start
  <2> QED
    BY <1>1, <1>7, <2>1, SkipIs DEF n
<1>12. FirstOf(s, start, Stops) = stop
  <2>1. stop \in start .. n + 1 /\ start \in Nat /\ Char(s, stop) \in Stops
    BY <1>1, <1>6, <1>9
  <2> HIDE DEF start, stop
  <2> QED
    BY <1>1, <1>10, <2>1, FirstIs DEF n
<1> QED
  BY <1>1, <1>2, <1>4, <1>6, <1>8, <1>9, <1>11, <1>12 DEF more, WordAt

(* A word is a name, or one with the new line that the parser drops.       *)
IsWritten(word, name) == word = name \/ word = name \o <<"nl">>

ReadTo(s, p, name, text, rest) ==
  /\ Char(s, ScanStart(s, p)) = Char(text, 1)
  /\ ScanName(s, p) = name
  /\ Char(s, ScanStop(s, p)) = Char(rest, 1)
  /\ ScanStop(s, p) \in 1 .. Len(s) + 1
  /\ RestFrom(s, ScanStop(s, p)) = rest

LEMMA ScanTo ==
  ASSUME NEW s \in Seq(Characters), NEW p \in 1 .. Len(s) + 1,
         NEW blanks, AllBlank(blanks), NEW name, IsWord(name), NEW word, IsWritten(word, name),
         NEW rest \in Seq(Characters), NEW text, text = word \o rest, IsAt(s, p, blanks, text),
         Char(rest, 1) \in Stops, Char(text, 1) \notin Blanks
  PROVE  ReadTo(s, p, name, text, rest)
<1>1. PICK tail \in {<<>>, <<"nl">>} : word = name \o tail
  <2>1. name \in Seq(Characters)
    BY DEF IsWord
  <2>2. name \o <<>> = name
    BY <2>1
  <2> QED
    BY <2>2 DEF IsWritten
<1>2. tail \in Seq(Characters) /\ \A k \in 1 .. Len(tail) : tail[k] \notin Stops
  <2>1. CASE tail = <<>>
    <3>1. <<>> \in Seq(Characters) /\ Len(<<>>) = 0
      BY EmptySeq
    <3> QED
      BY <2>1, <3>1
  <2>2. CASE tail = <<"nl">>
    <3>1. <<"nl">> \in Seq(Characters) /\ Len(<<"nl">>) = 1 /\ <<"nl">>[1] = "nl"
      BY LiteralsTyped, Tuples
    <3>2. "nl" \notin Stops
      BY DEF Stops, NUL
    <3>3. \A k \in 1 .. 1 : k = 1
      OBVIOUS
    <3> DEFINE t == <<"nl">>
    <3>4. tail = t /\ t \in Seq(Characters) /\ Len(t) = 1 /\ t[1] \notin Stops
      BY <2>2, <3>1, <3>2
    <3> HIDE DEF t
    <3> QED
      BY <3>3, <3>4
  <2> QED
    BY <2>1, <2>2
<1>3. name \in Seq(Characters) /\ \A k \in 1 .. Len(name) : name[k] \notin Stops /\ name[k] \notin NewLines
  BY DEF IsWord
<1>4. word \in Seq(Characters) /\ \A k \in 1 .. Len(word) : word[k] \notin Stops
  BY <1>1, <1>2, <1>3
<1>5. WithoutNewLines(word) = name
  <2>1. WithoutNewLines(name \o tail) = name
    BY <1>3, NewLinesDropped
  <2> QED
    BY <1>1, <2>1
<1>7. NoStops(word)
  BY <1>4 DEF NoStops
<1> DEFINE start == p + Len(blanks)
           stop == start + Len(word)
<1>8. /\ Skip(s, p, Blanks) = start
      /\ FirstOf(s, start, Stops) = stop
      /\ Char(s, start) = Char(text, 1)
      /\ Char(s, stop) = Char(rest, 1)
      /\ Piece(s, start, Len(word)) = word
      /\ RestFrom(s, stop) = rest
      /\ stop \in 1 .. Len(s) + 1
  <2>1. WordAt(s, p, blanks, word, text, rest)
    BY <1>7, WordScanned
  <2> QED
    BY <2>1 DEF WordAt
<1>9. ScanStart(s, p) = start /\ ScanStop(s, p) = stop
  BY <1>8 DEF ScanStart, ScanStop
<1>10. SubSeq(s, start, stop - 1) = word
  BY <1>8 DEF Piece
<1>11. ScanName(s, p) = name
  BY <1>5, <1>9, <1>10 DEF ScanName
<1> HIDE DEF start, stop
<1> QED
  BY <1>8, <1>9, <1>11 DEF ReadTo

(* A name in front of a comment or at the end of the line.                 *)
LEMMA ScanLast ==
  ASSUME NEW s \in Seq(Characters), NEW p \in 1 .. Len(s) + 1,
         NEW blanks, AllBlank(blanks), NEW name, IsWord(name), NEW word, IsWritten(word, name),
         NEW rest \in Seq(Characters), NEW text, text = word \o rest, IsAt(s, p, blanks, text),
         Char(rest, 1) \in {"#", NUL}, Char(text, 1) \notin Blanks \cup {"#"}
  PROVE  ScannedAs(s, p, name, Char(rest, 1), rest)
<1>1. Char(rest, 1) \in Stops /\ Char(text, 1) \notin Blanks /\ Char(text, 1) # "#"
  BY DEF Stops
<1>2. /\ Char(s, ScanStart(s, p)) = Char(text, 1)
      /\ ScanName(s, p) = name
      /\ Char(s, ScanStop(s, p)) = Char(rest, 1)
      /\ ScanStop(s, p) \in 1 .. Len(s) + 1
      /\ RestFrom(s, ScanStop(s, p)) = rest
  <2>1. ReadTo(s, p, name, text, rest)
    BY <1>1, ScanTo
  <2> QED
    BY <2>1 DEF ReadTo
<1>3. ScanIn(s, p) = ScanStop(s, p)
  BY <1>2 DEF ScanIn
<1> QED
  BY <1>1, <1>2, <1>3 DEF ScannedAs

(* A name with a character behind it that is read.                         *)
Closing == {"<", ",", ";"}

IsSingle(one, d) == one \in Seq(Characters) /\ Len(one) = 1 /\ one[1] = d

LEMMA FirstChar ==
  ASSUME NEW a \in Seq(Characters), NEW b \in Seq(Characters), Len(a) >= 1
  PROVE  Char(a \o b, 1) = a[1]
<1>1. 1 \in Nat /\ 1 >= 1 /\ 1 <= Len(a)
  OBVIOUS
<1>2. 1 <= Len(a) => Char(a \o b, 1) = a[1]
  BY <1>1, CharConcat
<1> QED
  BY <1>1, <1>2

LEMMA ScanWord ==
  ASSUME NEW s \in Seq(Characters), NEW p \in 1 .. Len(s) + 1,
         NEW blanks, AllBlank(blanks), NEW name, IsWord(name), Len(name) >= 1, name[1] \notin Blanks,
         NEW d \in Closing, NEW one, IsSingle(one, d), NEW after \in Seq(Characters),
         NEW rest, rest = one \o after, NEW text, text = name \o rest, IsAt(s, p, blanks, text)
  PROVE  ScannedAs(s, p, name, d, after)
<1>1. d \in Stops /\ d \notin {"#", NUL}
  BY DEF Closing, Stops, NUL
<1>2. one \in Seq(Characters) /\ Len(one) = 1 /\ one[1] = d
  BY DEF IsSingle
<1>3. rest \in Seq(Characters)
  BY <1>2
<1>4. Char(rest, 1) = d
  <2>1. Char(one \o after, 1) = one[1]
    BY <1>2, FirstChar
  <2> QED
    BY <1>2, <2>1
<1>5. name \in Seq(Characters) /\ \A k \in 1 .. Len(name) : name[k] \notin Stops
  BY DEF IsWord
<1>6. 1 \in 1 .. Len(name)
  BY <1>5
<1>7. Char(name \o rest, 1) = name[1]
  BY <1>3, <1>5, FirstChar
<1>8. Char(text, 1) \notin Blanks /\ Char(text, 1) # "#"
  <2>1. name[1] \notin Stops
    BY <1>5, <1>6
  <2>2. name[1] # "#"
    BY <2>1 DEF Stops
  <2> QED
    BY <1>7, <2>2
<1>9. IsWritten(name, name)
  BY DEF IsWritten
<1>10. /\ Char(s, ScanStart(s, p)) = Char(text, 1)
       /\ ScanName(s, p) = name
       /\ Char(s, ScanStop(s, p)) = Char(rest, 1)
       /\ ScanStop(s, p) \in 1 .. Len(s) + 1
       /\ RestFrom(s, ScanStop(s, p)) = rest
  <2>1. Char(rest, 1) \in Stops /\ Char(text, 1) \notin Blanks
    BY <1>1, <1>4, <1>8
  <2> QED
    <3>1. ReadTo(s, p, name, text, rest)
      BY <1>3, <1>9, <2>1, ScanTo
    <3> QED
      BY <3>1 DEF ReadTo
<1> DEFINE stop == ScanStop(s, p)
<1>11. ScanIn(s, p) = stop + 1
  BY <1>1, <1>4, <1>10 DEF ScanIn
<1>12. stop \in 1 .. Len(s) + 1 /\ IsAt(s, stop, one, after)
  BY <1>10 DEF IsAt
<1> HIDE DEF stop
<1>13. stop + Len(one) \in 1 .. Len(s) + 1 /\ RestFrom(s, stop + Len(one)) = after
  BY <1>2, <1>12, Advance
<1> QED
  BY <1>2, <1>4, <1>8, <1>10, <1>11, <1>13 DEF ScannedAs

-----------------------------------------------------------------------------
(* What Scan reads of what is written.                                     *)

(* Behind statement i of a line.                                           *)
IsAfter(ln, i, after) ==
  IF i < Len(ln.statements) THEN after = StatementsText(ln)[i + 1] ELSE after \in Ends

(* Attributes and what is behind them.                                     *)
IsBefore(ahead, attribs, after) == ahead = AttribsText(attribs)[1] \o after

(* When its name is read, up to d.                                         *)
BehindName(ln, i, d, ahead) ==
  IF ln.statements[i].attribs = <<>>
    THEN d # "<" /\ IsAfter(ln, i, ahead)
    ELSE d = "<" /\ \E after \in Seq(Characters) :
                      IsAfter(ln, i, after) /\ IsBefore(ahead, ln.statements[i].attribs, after)

(* The name that is read for it.                                           *)
NameRead(ln, i, name) ==
  IF Spoiled(ln) /\ i = Len(ln.statements) THEN name = ln.statements[i].name \o <<" ">>
                                           ELSE name = ln.statements[i].name

Grouped(b, n, a, e, t) == (b \o n \o a \o e) \o t = b \o (n \o (a \o (e \o t)))

LEMMA Regrouped ==
  ASSUME NEW S, NEW b \in Seq(S), NEW n \in Seq(S), NEW a \in Seq(S), NEW e \in Seq(S), NEW t \in Seq(S)
  PROVE  Grouped(b, n, a, e, t)
<1>1. b \o n \in Seq(S) /\ (b \o n) \o a \in Seq(S) /\ e \o t \in Seq(S) /\ a \o (e \o t) \in Seq(S)
  OBVIOUS
<1> DEFINE bn == b \o n
           et == e \o t
           bna == bn \o a
           aet == a \o et
<1>2. bn \in Seq(S) /\ bna \in Seq(S) /\ et \in Seq(S) /\ aet \in Seq(S)
  BY <1>1
<1>3. (bna \o e) \o t = bna \o et
  <2> HIDE DEF bna
  <2> QED
    BY <1>2
<1>4. bna \o et = bn \o aet
  <2> HIDE DEF bn, et
  <2> QED
    BY <1>2
<1>5. bn \o aet = b \o (n \o aet)
  <2> HIDE DEF aet
  <2> QED
    BY <1>2
<1> QED
  BY <1>3, <1>4, <1>5 DEF Grouped

LEMMA NothingTyped ==
  /\ <<>> \in Seq(Characters) /\ Len(<<>>) = 0 /\ AllBlank(<<>>)
  /\ \A s \in Seq(Characters) : <<>> \o s = s /\ s \o <<>> = s
  /\ Char(<<>>, 1) = NUL
<1>1. <<>> \in Seq(Characters) /\ Len(<<>>) = 0
  BY EmptySeq
<1>2. AllBlank(<<>>)
  BY <1>1 DEF AllBlank
<1>3. \A s \in Seq(Characters) : <<>> \o s = s /\ s \o <<>> = s
  BY ConcatEmptySeq
<1>4. Char(<<>>, 1) = NUL
  BY <1>1 DEF Char
<1> QED
  BY <1>1, <1>2, <1>3, <1>4

(* One character.                                                          *)
LEMMA SinglesTyped ==
  /\ IsSingle(<<"<">>, "<") /\ IsSingle(<<"-">>, "-") /\ IsSingle(<<" ">>, " ") /\ IsSingle(<<"nl">>, "nl")
  /\ \A ln \in Lines : IsSingle(<<ln.separator>>, ln.separator)
<1>1. IsSingle(<<"<">>, "<")
  BY LiteralsTyped, Tuples DEF IsSingle
<1>2. IsSingle(<<"-">>, "-")
  BY LiteralsTyped, Tuples DEF IsSingle
<1>3. IsSingle(<<" ">>, " ")
  BY LiteralsTyped, Tuples DEF IsSingle
<1>4. IsSingle(<<"nl">>, "nl")
  BY LiteralsTyped, Tuples DEF IsSingle
<1>5. ASSUME NEW ln \in Lines
      PROVE  IsSingle(<<ln.separator>>, ln.separator)
  <2>1. <<ln.separator>> \in Seq(Characters)
    BY LineTyped, LiteralsTyped
  <2> DEFINE x == ln.separator
  <2>2. Len(<<x>>) = 1 /\ <<x>>[1] = x
    <3> HIDE DEF x
    <3> QED
      BY Tuples
  <2> QED
    BY <2>1, <2>2 DEF IsSingle
<1> QED
  BY <1>1, <1>2, <1>3, <1>4, <1>5

LEMMA NameIsWord ==
  ASSUME NEW name \in Names
  PROVE  /\ IsWord(name) /\ Len(name) >= 1 /\ name[1] \notin Blanks
         /\ IsWord(name \o <<" ">>)
<1>1. /\ name \in Seq(Characters) /\ Len(name) \in Nat /\ Len(name) >= 1
      /\ \A i \in 1 .. Len(name) : name[i] \notin Stops /\ name[i] \notin NewLines
      /\ name[1] \notin Blanks
  BY NameTyped
<1>2. IsWord(name)
  BY <1>1 DEF IsWord
<1> DEFINE blank == <<" ">>
<1>3. blank \in Seq(Characters) /\ Len(blank) = 1 /\ blank[1] = " "
  BY SinglesTyped DEF IsSingle
<1>4. blank \in Seq(Characters) /\ Len(blank) = 1 /\ blank[1] \notin Stops /\ blank[1] \notin NewLines
  <2>1. " " \notin Stops /\ " " \notin NewLines
    BY DEF Stops, NewLines, NUL
  <2> QED
    BY <1>3, <2>1
<1> HIDE DEF blank
<1>5. /\ name \o blank \in Seq(Characters) /\ Len(name \o blank) = Len(name) + 1
      /\ \A i \in 1 .. Len(name) + 1 :
           (name \o blank)[i] = IF i <= Len(name) THEN name[i] ELSE blank[i - Len(name)]
  <2>1. name \in Seq(Characters) /\ blank \in Seq(Characters)
    BY <1>1, <1>4
  <2>2. /\ name \o blank \in Seq(Characters) /\ Len(name \o blank) = Len(name) + Len(blank)
        /\ \A i \in 1 .. Len(name) + Len(blank) :
             (name \o blank)[i] = IF i <= Len(name) THEN name[i] ELSE blank[i - Len(name)]
    BY <2>1, ConcatProperties
  <2> QED
    BY <1>4, <2>2
<1>6. \A i \in 1 .. Len(name \o blank) :
        (name \o blank)[i] = IF i <= Len(name) THEN name[i] ELSE blank[i - Len(name)]
  BY <1>5
<1>7. \A i \in 1 .. Len(name \o blank) : (name \o blank)[i] \notin Stops /\ (name \o blank)[i] \notin NewLines
  <2>1. SUFFICES ASSUME NEW i \in 1 .. Len(name \o blank)
                 PROVE  (name \o blank)[i] \notin Stops /\ (name \o blank)[i] \notin NewLines
    OBVIOUS
  <2>2. CASE i <= Len(name)
    BY <1>1, <1>6, <2>2
  <2>3. CASE ~(i <= Len(name))
    <3>1. i - Len(name) = 1
      BY <1>1, <1>5, <2>3
    <3> QED
      BY <1>4, <1>6, <2>3, <3>1
  <2> QED
    BY <2>2, <2>3
<1>8. IsWord(name \o blank)
  BY <1>5, <1>7 DEF IsWord
<1> QED
  BY <1>1, <1>2, <1>8 DEF blank

(* The sign of an exception line.                                          *)
LEMMA MarkScanned ==
  ASSUME NEW ln \in Lines, NEW s \in Seq(Characters), NEW p \in 1 .. Len(s) + 1,
         RestFrom(s, p) = <<"-", ln.separator>> \o StatementsText(ln)[1]
  PROVE  ln.separator # "<" /\ ScannedAs(s, p, <<"-">>, ln.separator, StatementsText(ln)[1])
<1> DEFINE t == StatementsText(ln)[1]
           one == <<ln.separator>>
           mark == <<"-">>
           rest == one \o t
           blanks == <<>>
           text == mark \o rest
           d == ln.separator
<1>1. t \in Seq(Characters)
  <2>1. Len(ln.statements) \in Nat
    BY LineTyped
  <2>2. 1 \in 1 .. Len(ln.statements) + 1
    BY <2>1
  <2> QED
    BY <2>2, StatementsTextParts
<1>2. d \in Closing /\ d # "<"
  <2>1. d \in {",", ";"}
    BY LineTyped
  <2> QED
    BY <2>1 DEF Closing
<1>3. IsSingle(one, d) /\ IsSingle(mark, "-")
  BY SinglesTyped
<1>4. IsWord(mark) /\ mark[1] \notin Blanks
  <2>1. "-" \notin Stops /\ "-" \notin NewLines /\ "-" \notin Blanks
    BY DEF Stops, NUL, NewLines, Blanks
  <2>2. mark \in Seq(Characters) /\ Len(mark) = 1 /\ mark[1] = "-"
    BY <1>3 DEF IsSingle
  <2> HIDE DEF mark
  <2>3. \A k \in 1 .. Len(mark) : mark[k] = "-"
    BY <2>2
  <2> QED
    BY <2>1, <2>2, <2>3 DEF IsWord
<1>5. Len(mark) >= 1
  BY <1>3 DEF IsSingle
<1>6. RestFrom(s, p) = text
  <2>1. <<"-">> \o <<ln.separator>> = <<"-", ln.separator>>
    <3>1. "-" \in Characters /\ d \in Characters
      <4>1. d \in {",", ";"}
        BY LineTyped
      <4> QED
        BY <4>1 DEF Characters
    <3> DEFINE x == "-"
    <3>2. x \in Characters
      BY <3>1
    <3> HIDE DEF x, d
    <3>3. <<x>> \o <<d>> = <<x, d>>
      BY <3>1, <3>2, TwoPlaces
    <3> QED
      BY <3>3 DEF x, d
  <2>2. RestFrom(s, p) = (mark \o one) \o t
    BY <2>1
  <2>3. one \in Seq(Characters) /\ mark \in Seq(Characters)
    BY <1>3 DEF IsSingle
  <2> HIDE DEF one, mark, t
  <2>4. (mark \o one) \o t = mark \o (one \o t)
    BY <1>1, <2>3
  <2> QED
    BY <2>2, <2>4
<1>7. rest \in Seq(Characters) /\ text \in Seq(Characters)
  <2>1. one \in Seq(Characters) /\ mark \in Seq(Characters)
    BY <1>3 DEF IsSingle
  <2> HIDE DEF one, mark, t
  <2> QED
    BY <1>1, <2>1
<1>8. IsAt(s, p, blanks, text) /\ AllBlank(blanks)
  <2>1. AllBlank(blanks) /\ blanks \o text = text
    BY <1>7, NothingTyped
  <2> HIDE DEF blanks, text
  <2> QED
    BY <1>6, <2>1 DEF IsAt
<1>9. rest = one \o t /\ text = mark \o rest
  OBVIOUS
<1> HIDE DEF t, one, mark, rest, blanks, text, d
<1>10. ScannedAs(s, p, mark, d, t)
  BY <1>1, <1>2, <1>3, <1>4, <1>5, <1>8, <1>9, ScanWord
<1> QED
  BY <1>2, <1>10 DEF mark, d, t

(* The end of a line: a comment, or an empty name.                         *)
LEMMA EndScanned ==
  ASSUME NEW s \in Seq(Characters), NEW p \in 1 .. Len(s) + 1, RestFrom(s, p) \in Ends,
         Char(s, ScanStart(s, p)) # "#"
  PROVE  \E d, ahead : ScannedAs(s, p, <<>>, d, ahead)
<1> DEFINE none == <<>>
<1>1. none \in Seq(Characters) /\ AllBlank(none) /\ Char(none, 1) = NUL /\ IsWord(none)
      /\ \A u \in Seq(Characters) : none \o u = u /\ u \o none = u
  BY NothingTyped DEF IsWord
<1>2. Char(none, 1) \in {"#", NUL} /\ Char(none, 1) \in Stops
  BY <1>1 DEF Stops
<1>3. CASE RestFrom(s, p) = <<>>
  <2> DEFINE text == none
             word == none
  <2>1. text = word \o none /\ IsAt(s, p, none, text) /\ IsWritten(word, none)
    BY <1>1, <1>3 DEF IsAt, IsWritten
  <2>2. Char(text, 1) \notin Blanks \cup {"#"}
    BY <1>1 DEF Blanks, NUL
  <2> HIDE DEF none, text, word
  <2>3. ScannedAs(s, p, none, Char(none, 1), none)
    BY <1>1, <1>2, <2>1, <2>2, ScanLast
  <2> QED
    BY <2>3 DEF none
<1>4. CASE RestFrom(s, p) = <<"nl">>
  <2> DEFINE text == <<"nl">>
             word == <<"nl">>
  <2>1. text \in Seq(Characters) /\ IsSingle(text, "nl")
    BY LiteralsTyped, SinglesTyped
  <2>2. text = word \o none /\ IsAt(s, p, none, text) /\ IsWritten(word, none)
    BY <1>1, <1>4, <2>1 DEF IsAt, IsWritten
  <2>3. Char(text, 1) \notin Blanks \cup {"#"}
    <3>1. Char(text, 1) = "nl"
      <4> HIDE DEF text
      <4> QED
        BY <2>1 DEF IsSingle, Char
    <3> HIDE DEF text
    <3> QED
      BY <3>1 DEF Blanks
  <2> HIDE DEF none, text, word
  <2>4. ScannedAs(s, p, none, Char(none, 1), none)
    BY <1>1, <1>2, <2>2, <2>3, ScanLast
  <2> QED
    BY <2>4 DEF none
<1> DEFINE comment == <<"#", "a", "nl">>
<1>5. /\ comment \in Seq(Characters) /\ Char(comment, 1) = "#"
      /\ Char(comment, 1) \in Stops /\ Char(comment, 1) \notin Blanks
  <2>1. comment \in Seq(Characters) /\ Len(comment) = 3 /\ comment[1] = "#"
    BY LiteralsTyped, Tuples
  <2> HIDE DEF comment
  <2>2. Char(comment, 1) = "#"
    BY <2>1 DEF Char
  <2>3. "#" \in Stops /\ "#" \notin Blanks
    BY DEF Stops, Blanks
  <2> QED
    BY <2>1, <2>2, <2>3
<1>6. CASE RestFrom(s, p) = comment
  <2>1. comment = none \o comment /\ IsAt(s, p, none, comment) /\ IsWritten(none, none)
    BY <1>1, <1>5, <1>6 DEF IsAt, IsWritten
  <2> HIDE DEF none, comment
  <2>2. ReadTo(s, p, none, comment, comment)
    BY <1>1, <1>5, <2>1, ScanTo
  <2> QED
    BY <1>5, <2>2 DEF ReadTo
<1>7. CASE RestFrom(s, p) = <<" ", "#", "a", "nl">>
  <2> DEFINE blank == <<" ">>
  <2>1. AllBlank(blank)
    <3>1. blank \in Seq(Characters) /\ Len(blank) = 1 /\ blank[1] = " "
      BY SinglesTyped DEF IsSingle
    <3>2. blank \in Seq(Characters) /\ Len(blank) = 1 /\ blank[1] \in Blanks
      BY <3>1 DEF Blanks
    <3> HIDE DEF blank
    <3> QED
      BY <3>2 DEF AllBlank
  <2>2. RestFrom(s, p) = blank \o comment
    <3> DEFINE x == " "
               y == "#"
               z == "a"
               w == "nl"
    <3>1. x \in Characters /\ y \in Characters /\ z \in Characters /\ w \in Characters
      BY DEF Characters
    <3>2. RestFrom(s, p) = <<x, y, z, w>>
      BY <1>7
    <3> HIDE DEF x, y, z, w
    <3>3. <<x>> \o <<y, z, w>> = <<x, y, z, w>>
      BY <3>1, FourPlaces
    <3> QED
      BY <3>2, <3>3 DEF x, y, z, w
  <2>3. comment = none \o comment /\ IsAt(s, p, blank, comment) /\ IsWritten(none, none)
    BY <1>1, <1>5, <2>2 DEF IsAt, IsWritten
  <2> HIDE DEF none, comment, blank
  <2>4. ReadTo(s, p, none, comment, comment)
    BY <1>1, <1>5, <2>1, <2>3, ScanTo
  <2> QED
    BY <1>5, <2>4 DEF ReadTo
<1> QED
  BY <1>3, <1>4, <1>6, <1>7 DEF Ends

(* A statement is a blank or none, a name, and what is behind the name.    *)
BehindWritten(ln, i) ==
  WrittenAttribs(ln.statements[i].attribs) \o (Separator(ln, i) \o StatementsText(ln)[i + 1])

LEMMA StatementSplit ==
  ASSUME NEW ln \in Lines, NEW i \in 1 .. Len(ln.statements)
  PROVE  /\ StatementsText(ln)[i] = BlankBefore(i) \o (ln.statements[i].name \o BehindWritten(ln, i))
         /\ StatementsText(ln)[i + 1] \in Seq(Characters)
         /\ AllBlank(BlankBefore(i)) /\ BehindWritten(ln, i) \in Seq(Characters)
<1> DEFINE b == BlankBefore(i)
           n == ln.statements[i].name
           a == WrittenAttribs(ln.statements[i].attribs)
           e == Separator(ln, i)
           t == StatementsText(ln)[i + 1]
<1>1. /\ b \in Seq(Characters) /\ n \in Seq(Characters) /\ a \in Seq(Characters) /\ e \in Seq(Characters)
      /\ \A k \in 1 .. Len(b) : b[k] \in Blanks
  BY PiecesTyped
<1>2. t \in Seq(Characters)
  <2>1. Len(ln.statements) \in Nat
    BY LineTyped
  <2>2. i + 1 \in 1 .. Len(ln.statements) + 1
    BY <2>1
  <2> QED
    BY <2>2, StatementsTextParts
<1>3. StatementsText(ln)[i] = WrittenStatement(ln, i) \o t
  BY StatementsTextParts
<1>4. WrittenStatement(ln, i) = b \o n \o a \o e
  BY DEF WrittenStatement, BlankBefore, Separator
<1>5. BehindWritten(ln, i) = a \o (e \o t)
  BY DEF BehindWritten
<1> HIDE DEF b, n, a, e, t
<1>6. (b \o n \o a \o e) \o t = b \o (n \o (a \o (e \o t)))
  <2>1. Grouped(b, n, a, e, t)
    BY <1>1, <1>2, Regrouped
  <2> QED
    BY <2>1 DEF Grouped
<1>7. e \o t \in Seq(Characters)
  BY <1>1, <1>2
<1>8. a \o (e \o t) \in Seq(Characters)
  <2> DEFINE et == e \o t
  <2>1. et \in Seq(Characters)
    BY <1>7
  <2> HIDE DEF et
  <2>2. a \o et \in Seq(Characters)
    BY <1>1, <2>1
  <2> QED
    BY <2>2 DEF et
<1>9. AllBlank(b)
  BY <1>1 DEF AllBlank
<1> QED
  BY <1>2, <1>3, <1>4, <1>5, <1>6, <1>8, <1>9 DEF b, n, a, e, t

LEMMA EndOfLine ==
  ASSUME NEW ln \in Lines, NEW i \in 1 .. Len(ln.statements), ~(i < Len(ln.statements))
  PROVE  i = Len(ln.statements) /\ StatementsText(ln)[i + 1] = WrittenComment(ln)
<1>1. Len(ln.statements) \in Nat
  BY LineTyped
<1>2. i = Len(ln.statements)
  BY <1>1
<1> QED
  BY <1>2, StatementsTextParts

(* What may be read of a statement.                                        *)
StatementRead(s, p, ln, i) ==
  \E name, d, ahead :
    ScannedAs(s, p, name, d, ahead) /\ NameRead(ln, i, name) /\ BehindName(ln, i, d, ahead)

LEMMA WithAttribsScanned ==
  ASSUME NEW ln \in Lines, NEW i \in 1 .. Len(ln.statements), NEW s \in Seq(Characters),
         NEW p \in 1 .. Len(s) + 1, RestFrom(s, p) = StatementsText(ln)[i],
         ln.statements[i].attribs # <<>>
  PROVE  StatementRead(s, p, ln, i)
<1> DEFINE b == BlankBefore(i)
           n == ln.statements[i].name
           attribs == ln.statements[i].attribs
           t == StatementsText(ln)[i + 1]
           at == AttribsText(attribs)[1]
           one == <<"<">>
           d == "<"
           after == at \o t
           rest == BehindWritten(ln, i)
           text == n \o rest
<1>1. n \in Names /\ attribs \in AttribLists
  BY LineTyped
<1>2. at \in Seq(Characters)
  <2>1. Len(attribs) \in Nat
    BY <1>1, AttribsTextParts
  <2>2. 1 \in 1 .. Len(attribs) + 1
    BY <2>1
  <2> QED
    BY <1>1, <2>2, AttribsTextParts
<1>3. StatementsText(ln)[i] = b \o text /\ t \in Seq(Characters) /\ AllBlank(b)
  BY StatementSplit
<1>4. IsSingle(one, d) /\ d \in Closing
  BY SinglesTyped DEF Closing
<1>5. rest = one \o after
  <2>1. Separator(ln, i) = <<>>
    BY DEF Separator
  <2>2. <<>> \o t = t
    BY <1>3, NothingTyped
  <2>3. WrittenAttribs(attribs) = one \o at
    BY DEF WrittenAttribs
  <2>4. rest = (one \o at) \o t
    BY <2>1, <2>2, <2>3 DEF BehindWritten
  <2>5. one \in Seq(Characters)
    BY <1>4 DEF IsSingle
  <2> HIDE DEF one, at, t, rest
  <2>6. (one \o at) \o t = one \o (at \o t)
    BY <1>2, <1>3, <2>5
  <2> QED
    BY <2>4, <2>6
<1>6. after \in Seq(Characters)
  <2> HIDE DEF at, t
  <2> QED
    BY <1>2, <1>3
<1>7. IsWord(n) /\ Len(n) >= 1 /\ n[1] \notin Blanks
  BY <1>1, NameIsWord
<1>8. IsAt(s, p, b, text)
  BY <1>3 DEF IsAt
<1>9. ScannedAs(s, p, n, d, after)
  <2>1. text = n \o rest
    OBVIOUS
  <2> HIDE DEF b, n, attribs, t, at, one, d, after, rest, text
  <2> QED
    BY <1>3, <1>4, <1>5, <1>6, <1>7, <1>8, <2>1, ScanWord
<1>10. NameRead(ln, i, n)
  <2>1. Last(ln.statements) = ln.statements[Len(ln.statements)]
    BY DEF Last
  <2>2. ~(Spoiled(ln) /\ i = Len(ln.statements))
    BY <2>1 DEF Spoiled
  <2> QED
    BY <2>2 DEF NameRead
<1>11. IsAfter(ln, i, t)
  <2>1. CASE i < Len(ln.statements)
    BY <2>1 DEF IsAfter
  <2>2. CASE ~(i < Len(ln.statements))
    <3>1. t = WrittenComment(ln)
      BY <2>2, EndOfLine
    <3> QED
      BY <2>2, <3>1, CommentEnds DEF IsAfter
  <2> QED
    BY <2>1, <2>2
<1>12. IsBefore(after, attribs, t)
  BY DEF IsBefore
<1>13. BehindName(ln, i, d, after)
  <2> HIDE DEF t, after
  <2> QED
    BY <1>3, <1>11, <1>12 DEF BehindName
<1> HIDE DEF n, d, after
<1> QED
  BY <1>9, <1>10, <1>13 DEF StatementRead

LEMMA SeparatedScanned ==
  ASSUME NEW ln \in Lines, NEW i \in 1 .. Len(ln.statements), NEW s \in Seq(Characters),
         NEW p \in 1 .. Len(s) + 1, RestFrom(s, p) = StatementsText(ln)[i],
         ln.statements[i].attribs = <<>>, i < Len(ln.statements)
  PROVE  StatementRead(s, p, ln, i)
<1> DEFINE b == BlankBefore(i)
           n == ln.statements[i].name
           t == StatementsText(ln)[i + 1]
           one == <<ln.separator>>
           d == ln.separator
           rest == BehindWritten(ln, i)
           text == n \o rest
<1>1. n \in Names
  BY LineTyped
<1>2. d \in Closing /\ d # "<"
  <2>1. d \in {",", ";"}
    BY LineTyped
  <2> QED
    BY <2>1 DEF Closing
<1>3. StatementsText(ln)[i] = b \o text /\ t \in Seq(Characters) /\ AllBlank(b)
  BY StatementSplit
<1>4. IsSingle(one, d)
  BY SinglesTyped
<1>5. rest = one \o t
  <2>1. Separator(ln, i) = one
    BY DEF Separator
  <2>2. WrittenAttribs(ln.statements[i].attribs) = <<>>
    BY DEF WrittenAttribs
  <2>3. rest = <<>> \o (one \o t)
    BY <2>1, <2>2 DEF BehindWritten
  <2>4. one \in Seq(Characters)
    BY <1>4 DEF IsSingle
  <2> DEFINE u == one \o t
  <2>5. u \in Seq(Characters)
    <3> HIDE DEF one, t
    <3> QED
      BY <1>3, <2>4
  <2>6. <<>> \o u = u
    BY <2>5, NothingTyped
  <2> QED
    BY <2>3, <2>6
<1>6. IsWord(n) /\ Len(n) >= 1 /\ n[1] \notin Blanks
  BY <1>1, NameIsWord
<1>7. IsAt(s, p, b, text)
  BY <1>3 DEF IsAt
<1>8. ScannedAs(s, p, n, d, t)
  <2>1. text = n \o rest
    OBVIOUS
  <2> HIDE DEF b, n, t, one, d, rest, text
  <2> QED
    BY <1>2, <1>3, <1>4, <1>5, <1>6, <1>7, <2>1, ScanWord
<1>9. NameRead(ln, i, n)
  <2>1. i # Len(ln.statements)
    <3>1. Len(ln.statements) \in Nat
      BY LineTyped
    <3> QED
      BY <3>1
  <2> QED
    BY <2>1 DEF NameRead
<1>10. BehindName(ln, i, d, t)
  BY <1>2 DEF BehindName, IsAfter
<1> HIDE DEF n, d, t
<1> QED
  BY <1>8, <1>9, <1>10 DEF StatementRead

LEMMA LastScanned ==
  ASSUME NEW ln \in Lines, NEW i \in 1 .. Len(ln.statements), NEW s \in Seq(Characters),
         NEW p \in 1 .. Len(s) + 1, RestFrom(s, p) = StatementsText(ln)[i],
         ln.statements[i].attribs = <<>>, ~(i < Len(ln.statements))
  PROVE  StatementRead(s, p, ln, i)
<1> DEFINE b == BlankBefore(i)
           n == ln.statements[i].name
           t == WrittenComment(ln)
           none == <<>>
           text == n \o t
<1>1. n \in Names
  BY LineTyped
<1>2. i = Len(ln.statements) /\ StatementsText(ln)[i + 1] = t
  BY EndOfLine
<1>3. /\ StatementsText(ln)[i] = b \o (n \o BehindWritten(ln, i))
      /\ t \in Seq(Characters) /\ AllBlank(b)
  BY <1>2, StatementSplit
<1>4. BehindWritten(ln, i) = t
  <2>1. Separator(ln, i) = <<>>
    BY DEF Separator
  <2>2. WrittenAttribs(ln.statements[i].attribs) = <<>>
    BY DEF WrittenAttribs
  <2>3. BehindWritten(ln, i) = <<>> \o (<<>> \o t)
    BY <1>2, <2>1, <2>2 DEF BehindWritten
  <2>4. <<>> \o t = t
    BY <1>3, NothingTyped
  <2> QED
    BY <2>3, <2>4
<1>5. IsAt(s, p, b, text)
  BY <1>3, <1>4 DEF IsAt
<1>6. IsWord(n) /\ Len(n) >= 1 /\ n[1] \notin Blanks /\ IsWord(n \o <<" ">>)
  BY <1>1, NameIsWord
<1>7. n \in Seq(Characters) /\ none \in Seq(Characters) /\ n \o none = n
  BY <1>6, NothingTyped DEF IsWord
<1>8. Char(text, 1) \notin Blanks \cup {"#"}
  <2>1. Char(text, 1) = n[1]
    <3> HIDE DEF t
    <3> QED
      BY <1>3, <1>6, <1>7, FirstChar
  <2>2. 1 \in 1 .. Len(n)
    <3>1. Len(n) >= 1 /\ n \in Seq(Characters)
      BY <1>6, <1>7
    <3> HIDE DEF n
    <3> QED
      BY <3>1
  <2>3. n[1] \notin Stops
    BY <1>6, <2>2 DEF IsWord
  <2>4. n[1] # "#"
    BY <2>3 DEF Stops
  <2> QED
    BY <1>6, <2>1, <2>4
<1>9. ln.statements # <<>> /\ Last(ln.statements) = ln.statements[i]
  <2>1. ln.statements # <<>>
    <3>1. ln.statements = <<>> => Len(ln.statements) = 0
      BY EmptySeq
    <3>2. Len(ln.statements) \in Nat
      BY LineTyped
    <3> QED
      BY <3>1, <3>2
  <2> QED
    BY <1>2, <2>1 DEF Last
<1>10. Spoiled(ln) <=> ln.comment = "spaced"
  BY <1>9 DEF Spoiled
<1> DEFINE comment == <<"#", "a", "nl">>
<1>11. comment \in Seq(Characters) /\ Char(comment, 1) = "#" /\ comment \in Ends
  <2>1. comment \in Seq(Characters) /\ Len(comment) = 3 /\ comment[1] = "#"
    BY LiteralsTyped, Tuples
  <2>2. comment \in Ends
    BY DEF Ends
  <2> HIDE DEF comment
  <2> QED
    BY <2>1, <2>2 DEF Char
<1>12. Char(none, 1) = NUL /\ none \in Ends
  BY NothingTyped DEF Ends
<1>13. Char(comment, 1) \in {"#", NUL} /\ Char(none, 1) \in {"#", NUL}
       /\ Char(comment, 1) # "<" /\ Char(none, 1) # "<"
  BY <1>11, <1>12 DEF NUL
<1>14. CASE ln.comment = "none"
  <2> DEFINE word == n \o <<"nl">>
  <2>1. t = <<"nl">>
    BY <1>14 DEF WrittenComment
  <2>2. text = word \o none /\ IsWritten(word, n)
    <3>1. text = word
      BY <2>1
    <3>2. word \in Seq(Characters)
      <4> DEFINE nl == <<"nl">>
      <4>1. nl \in Seq(Characters)
        BY LiteralsTyped
      <4> HIDE DEF nl
      <4>2. n \o nl \in Seq(Characters)
        BY <1>7, <4>1
      <4> QED
        BY <4>2 DEF nl
    <3>3. word \o none = word
      BY <3>2, NothingTyped
    <3> QED
      BY <3>1, <3>3 DEF IsWritten
  <2>3. ScannedAs(s, p, n, Char(none, 1), none)
    <3> HIDE DEF b, n, none, text, word
    <3> QED
      BY <1>3, <1>5, <1>6, <1>7, <1>8, <1>13, <2>2, ScanLast
  <2>4. NameRead(ln, i, n)
    BY <1>10, <1>14 DEF NameRead
  <2>5. BehindName(ln, i, Char(none, 1), none)
    <3> HIDE DEF none
    <3> QED
      BY <1>12, <1>13 DEF BehindName, IsAfter
  <2> HIDE DEF n, none
  <2> QED
    BY <2>3, <2>4, <2>5 DEF StatementRead
<1>15. CASE ln.comment = "tight"
  <2>1. t = comment
    BY <1>15 DEF WrittenComment
  <2>2. text = n \o comment /\ IsWritten(n, n)
    BY <2>1 DEF IsWritten
  <2>3. ScannedAs(s, p, n, Char(comment, 1), comment)
    <3> HIDE DEF b, n, comment, text
    <3> QED
      BY <1>3, <1>5, <1>6, <1>8, <1>11, <1>13, <2>2, ScanLast
  <2>4. NameRead(ln, i, n)
    BY <1>10, <1>15 DEF NameRead
  <2>5. BehindName(ln, i, Char(comment, 1), comment)
    <3> HIDE DEF comment
    <3> QED
      BY <1>11, <1>13 DEF BehindName, IsAfter
  <2> HIDE DEF n, comment
  <2> QED
    BY <2>3, <2>4, <2>5 DEF StatementRead
<1>16. CASE ln.comment = "spaced"
  <2> DEFINE blank == <<" ">>
             word == n \o blank
  <2>1. t = <<" ", "#", "a", "nl">>
    BY <1>16 DEF WrittenComment
  <2>2. t = blank \o comment
    <3> DEFINE x == " "
               y == "#"
               z == "a"
               w == "nl"
    <3>1. x \in Characters /\ y \in Characters /\ z \in Characters /\ w \in Characters
      BY DEF Characters
    <3>2. t = <<x, y, z, w>>
      BY <2>1
    <3> HIDE DEF x, y, z, w, t
    <3>3. <<x>> \o <<y, z, w>> = <<x, y, z, w>>
      BY <3>1, FourPlaces
    <3> QED
      BY <3>2, <3>3 DEF x, y, z, w
  <2>3. text = word \o comment /\ IsWritten(word, word)
    <3>1. blank \in Seq(Characters)
      BY LiteralsTyped
    <3>2. text = n \o (blank \o comment)
      BY <2>2
    <3> HIDE DEF blank, comment, n
    <3>3. n \o (blank \o comment) = (n \o blank) \o comment
      BY <1>7, <1>11, <3>1
    <3> QED
      BY <3>2, <3>3 DEF IsWritten
  <2>4. IsWord(word)
    BY <1>6
  <2>5. ScannedAs(s, p, word, Char(comment, 1), comment)
    <3> HIDE DEF b, word, comment, text
    <3> QED
      BY <1>3, <1>5, <1>8, <1>11, <1>13, <2>3, <2>4, ScanLast
  <2>6. NameRead(ln, i, word)
    BY <1>2, <1>10, <1>16 DEF NameRead
  <2>7. BehindName(ln, i, Char(comment, 1), comment)
    <3> HIDE DEF comment
    <3> QED
      BY <1>11, <1>13 DEF BehindName, IsAfter
  <2> HIDE DEF word, comment
  <2> QED
    BY <2>5, <2>6, <2>7 DEF StatementRead
<1> QED
  BY <1>14, <1>15, <1>16, LineTyped

(* The statements of a line.                                               *)
LEMMA StatementScanned ==
  ASSUME NEW ln \in Lines, NEW i \in 1 .. Len(ln.statements), NEW s \in Seq(Characters),
         NEW p \in 1 .. Len(s) + 1, RestFrom(s, p) = StatementsText(ln)[i]
  PROVE  StatementRead(s, p, ln, i)
  BY WithAttribsScanned, SeparatedScanned, LastScanned

-----------------------------------------------------------------------------
(* The inductive invariant of the parser: the lists have the rules of the  *)
(* statements that are read, and ahead in the line is what is written of   *)
(* the others.                                                             *)
Flags == {"hidden", "readonly", "archive", "system", "compressed", "directory", "reparsePoint"}

Rules == [expr : Seq(Characters), eor : SUBSET Flags, mask : SUBSET Flags]
Items == [statement : Statements, spoiled : BOOLEAN]

ItemsOfLine(cfg, exc, n) ==
  IF cfg[n].exception # exc THEN <<>>
  ELSE [i \in 1 .. Len(cfg[n].statements) |->
         [statement |-> cfg[n].statements[i],
          spoiled |-> Spoiled(cfg[n]) /\ i = Len(cfg[n].statements)]]

(* Those of the lines from each line on.                                   *)
ItemsFrom(cfg, exc) == Joined([n \in 1 .. Len(cfg) |-> ItemsOfLine(cfg, exc, n)], <<>>)

(* The rule that a statement ought to become.                              *)
RuleFor(rule, item) ==
  /\ rule.mask = MaskFrom(item.statement.attribs, 1)
  /\ rule.eor = EorFrom(item.statement.attribs, 1)
  /\ IF item.spoiled THEN IsPrefix(item.statement.name, rule.expr)
                     ELSE rule.expr = item.statement.name

RulesFor(list, items) ==
  /\ list \in Seq(Rules) /\ items \in Seq(Items)
  /\ Len(list) = Len(items) /\ \A k \in 1 .. Len(list) : RuleFor(list[k], items[k])

(* The list has the rules for all items but these last ones.               *)
ReadUpTo(list, all, left) == \E items \in Seq(Items) : RulesFor(list, items) /\ all = items \o left

(* The items of line n from its i-th statement on, and of those behind it. *)
ItemsLeft(cfg, exc, n, i) ==
  SubSeq(ItemsOfLine(cfg, exc, n), i, Len(ItemsOfLine(cfg, exc, n))) \o ItemsFrom(cfg, exc)[n + 1]

(* The lines in front of line n are read.                                  *)
LinesRead(cfg, lists, n) ==
  \A exc \in BOOLEAN : ReadUpTo(lists[exc], ItemsFrom(cfg, exc)[1], ItemsFrom(cfg, exc)[n])

(* And the statements of line n in front of its i-th one.                  *)
StatementsRead(cfg, lists, n, i) ==
  \A exc \in BOOLEAN : ReadUpTo(lists[exc], ItemsFrom(cfg, exc)[1], ItemsLeft(cfg, exc, n, i))

(* At the label next: a line's sign, one of its statements, or its end.    *)
SignAhead(cfg, lists, n, exc, ahead) ==
  /\ cfg[n].exception /\ ~exc
  /\ ahead = <<"-", cfg[n].separator>> \o StatementsText(cfg[n])[1]
  /\ LinesRead(cfg, lists, n)

StatementAhead(cfg, lists, n, exc, ahead) ==
  \E i \in 1 .. Len(cfg[n].statements) :
    /\ exc = cfg[n].exception
    /\ StatementsRead(cfg, lists, n, i)
    /\ ahead = StatementsText(cfg[n])[i]

NextOk(cfg, lists, n, exc, ahead) ==
  \/ SignAhead(cfg, lists, n, exc, ahead)
  \/ StatementAhead(cfg, lists, n, exc, ahead)
  \/ ahead \in Ends /\ LinesRead(cfg, lists, n + 1)

(* With the sign or the name of a statement read.                          *)
SignRead(cfg, lists, n, d, ahead) ==
  /\ cfg[n].exception /\ d # "<"
  /\ ahead = StatementsText(cfg[n])[1]
  /\ LinesRead(cfg, lists, n)

AtStatement(cfg, lists, n, exc, d, ahead, i) ==
  /\ exc = cfg[n].exception
  /\ StatementsRead(cfg, lists, n, i)
  /\ BehindName(cfg[n], i, d, ahead)

(* The text that is stored for the name of statement i.                    *)
TextFor(ln, i, text) ==
  IF Spoiled(ln) /\ i = Len(ln.statements)
    THEN Len(text) > Len(ln.statements[i].name) /\ IsPrefix(ln.statements[i].name, text)
    ELSE text = ln.statements[i].name

ScannedOk(cfg, lists, n, exc, text, d, ahead) ==
  \/ text = <<"-">> /\ SignRead(cfg, lists, n, d, ahead)
  \/ \E i \in 1 .. Len(cfg[n].statements) :
       TextFor(cfg[n], i, text) /\ AtStatement(cfg, lists, n, exc, d, ahead, i)
  \/ text = <<>> /\ LinesRead(cfg, lists, n + 1)

(* What is not read yet of the line, and what is read of all lines.        *)
Ahead == RestFrom(line, in)
Lists == [exc \in BOOLEAN |-> IF exc THEN filterExcpExpr ELSE filterExpr]

(* No name reaches the last but one place of the array, and so no blank.   *)
TypeInv ==
  /\ config \in Seq(Lines)
  /\ lineNo \in 0 .. Len(config)
  /\ exception \in BOOLEAN
  /\ statement \in [1 .. BufferSize -> Characters]
  /\ statement[BufferSize - 1] \notin Blanks
  /\ pc \in {"gets", "next", "scanned", "done"}
  /\ line \in Seq(Characters)
  /\ in \in 1 .. Len(line) + 1
  /\ filterExpr \in Seq(Rules) /\ filterExcpExpr \in Seq(Rules)
  /\ pc \in {"next", "scanned"} => lineNo \in 1 .. Len(config) /\ Char(line, Len(line)) \notin Signs
  /\ pc = "scanned" => Text \in Seq(Characters)

ParserInv ==
  /\ TypeInv
  /\ pc = "gets" => LinesRead(config, Lists, lineNo + 1)
  /\ pc = "next" => NextOk(config, Lists, lineNo, exception, Ahead)
  /\ pc = "scanned" => ScannedOk(config, Lists, lineNo, exception, Text, c, Ahead)
  /\ pc = "done" => LinesRead(config, Lists, Len(config) + 1)

-----------------------------------------------------------------------------
(* The items that are read.                                                *)
LEMMA ItemsTyped ==
  ASSUME NEW cfg \in Seq(Lines), NEW exc \in BOOLEAN, NEW n \in 1 .. Len(cfg)
  PROVE  /\ ItemsOfLine(cfg, exc, n) \in Seq(Items)
         /\ exc = cfg[n].exception =>
              /\ Len(ItemsOfLine(cfg, exc, n)) = Len(cfg[n].statements)
              /\ \A i \in 1 .. Len(cfg[n].statements) :
                   ItemsOfLine(cfg, exc, n)[i] =
                     [statement |-> cfg[n].statements[i],
                      spoiled |-> Spoiled(cfg[n]) /\ i = Len(cfg[n].statements)]
         /\ exc # cfg[n].exception => ItemsOfLine(cfg, exc, n) = <<>>
<1> DEFINE ln == cfg[n]
           N == Len(ln.statements)
           item(i) == [statement |-> ln.statements[i], spoiled |-> Spoiled(ln) /\ i = N]
<1>1. ln \in Lines
  BY ElementOfSeq
<1>2. N \in Nat
  BY <1>1, LineTyped
<1>3. ASSUME NEW i \in 1 .. N
      PROVE  item(i) \in Items
  <2>1. ln.statements[i] \in Statements
    BY <1>1, LineTyped
  <2>2. (Spoiled(ln) /\ i = N) \in BOOLEAN
    OBVIOUS
  <2> HIDE DEF ln, N
  <2> QED
    BY <2>1, <2>2 DEF Items
<1>4. CASE exc # ln.exception
  <2>1. ItemsOfLine(cfg, exc, n) = <<>>
    BY <1>4 DEF ItemsOfLine
  <2>2. <<>> \in Seq(Items)
    BY EmptySeq
  <2> QED
    BY <1>4, <2>1, <2>2
<1>5. CASE exc = ln.exception
  <2> DEFINE items == [i \in 1 .. N |-> item(i)]
  <2>1. ItemsOfLine(cfg, exc, n) = items
    BY <1>5 DEF ItemsOfLine
  <2> HIDE DEF item, N
  <2>2. items \in Seq(Items) /\ Len(items) = N /\ \A i \in 1 .. N : items[i] = item(i)
    BY <1>2, <1>3
  <2> HIDE DEF items
  <2> QED
    BY <1>5, <2>1, <2>2 DEF item, N
<1> QED
  BY <1>4, <1>5

LEMMA ItemsParts ==
  ASSUME NEW cfg \in Seq(Lines), NEW exc \in BOOLEAN
  PROVE  /\ ItemsFrom(cfg, exc)[Len(cfg) + 1] = <<>>
         /\ \A n \in 1 .. Len(cfg) :
              ItemsFrom(cfg, exc)[n] = ItemsOfLine(cfg, exc, n) \o ItemsFrom(cfg, exc)[n + 1]
         /\ \A n \in 1 .. Len(cfg) + 1 : ItemsFrom(cfg, exc)[n] \in Seq(Items)
<1> DEFINE N == Len(cfg)
           parts == [n \in 1 .. N |-> ItemsOfLine(cfg, exc, n)]
           end == <<>>
<1>1. N \in Nat
  OBVIOUS
<1>2. Len(parts) = N /\ \A n \in 1 .. N : parts[n] = ItemsOfLine(cfg, exc, n)
  BY <1>1
<1>3. ItemsFrom(cfg, exc) = Joined(parts, end)
  BY DEF ItemsFrom
<1>4. end \in Seq(Items)
  BY EmptySeq
<1>5. \A n \in 1 .. N : ItemsOfLine(cfg, exc, n) \in Seq(Items)
  BY ItemsTyped
<1> HIDE DEF parts, end
<1>6. Len(parts) \in Nat
  BY <1>1, <1>2
<1>7. IsJoined(parts, end, Joined(parts, end))
  BY <1>6, JoinedParts
<1>8. \A n \in 1 .. Len(parts) + 1 : Joined(parts, end)[n] \in Seq(Items)
  <2>1. \A n \in 1 .. Len(parts) : parts[n] \in Seq(Items)
    BY <1>2, <1>5
  <2> QED
    BY <1>4, <1>6, <2>1, JoinedTyped
<1>9. ItemsFrom(cfg, exc)[N + 1] = end
  BY <1>2, <1>3, <1>7 DEF IsJoined
<1>10. \A n \in 1 .. N : ItemsFrom(cfg, exc)[n] = ItemsOfLine(cfg, exc, n) \o ItemsFrom(cfg, exc)[n + 1]
  BY <1>2, <1>3, <1>7 DEF IsJoined
<1>11. \A n \in 1 .. N + 1 : ItemsFrom(cfg, exc)[n] \in Seq(Items)
  BY <1>2, <1>3, <1>8
<1> QED
  BY <1>9, <1>10, <1>11 DEF end

(* Before the first line.                                                  *)
LEMMA NothingRead ==
  ASSUME NEW cfg \in Seq(Lines), NEW lists, \A exc \in BOOLEAN : lists[exc] = <<>>
  PROVE  LinesRead(cfg, lists, 1)
<1> SUFFICES ASSUME NEW exc \in BOOLEAN
             PROVE  ReadUpTo(lists[exc], ItemsFrom(cfg, exc)[1], ItemsFrom(cfg, exc)[1])
  BY DEF LinesRead
<1> DEFINE all == ItemsFrom(cfg, exc)[1]
           none == <<>>
<1>1. all \in Seq(Items)
  <2>1. 1 \in 1 .. Len(cfg) + 1
    OBVIOUS
  <2> QED
    BY <2>1, ItemsParts
<1>2. none \in Seq(Items) /\ none \in Seq(Rules) /\ Len(none) = 0 /\ lists[exc] = none
  BY EmptySeq
<1>3. all = none \o all
  BY <1>1, ConcatEmptySeq
<1> HIDE DEF all, none
<1>4. RulesFor(none, none)
  BY <1>2 DEF RulesFor
<1> QED
  BY <1>2, <1>3, <1>4 DEF ReadUpTo, all

(* The items of a line from its first statement on, and behind its last.   *)
LEMMA ItemsLeftFirst ==
  ASSUME NEW cfg \in Seq(Lines), NEW exc \in BOOLEAN, NEW n \in 1 .. Len(cfg)
  PROVE  ItemsLeft(cfg, exc, n, 1) = ItemsFrom(cfg, exc)[n]
<1> DEFINE items == ItemsOfLine(cfg, exc, n)
<1>1. items \in Seq(Items)
  BY ItemsTyped
<1>2. ItemsFrom(cfg, exc)[n] = items \o ItemsFrom(cfg, exc)[n + 1]
  BY ItemsParts
<1>3. ItemsLeft(cfg, exc, n, 1) = SubSeq(items, 1, Len(items)) \o ItemsFrom(cfg, exc)[n + 1]
  BY DEF ItemsLeft
<1> HIDE DEF items
<1>4. SubSeq(items, 1, Len(items)) = items
  BY <1>1, SubSeqFull
<1> QED
  BY <1>2, <1>3, <1>4

LEMMA ItemsLeftNone ==
  ASSUME NEW cfg \in Seq(Lines), NEW exc \in BOOLEAN, NEW n \in 1 .. Len(cfg),
         NEW i \in Nat, i > Len(ItemsOfLine(cfg, exc, n))
  PROVE  ItemsLeft(cfg, exc, n, i) = ItemsFrom(cfg, exc)[n + 1]
<1> DEFINE items == ItemsOfLine(cfg, exc, n)
           behind == ItemsFrom(cfg, exc)[n + 1]
<1>1. items \in Seq(Items) /\ i > Len(items)
  BY ItemsTyped
<1>2. behind \in Seq(Items)
  <2>1. n + 1 \in 1 .. Len(cfg) + 1
    OBVIOUS
  <2> QED
    BY <2>1, ItemsParts
<1>3. ItemsLeft(cfg, exc, n, i) = SubSeq(items, i, Len(items)) \o behind
  BY DEF ItemsLeft
<1> HIDE DEF items, behind
<1>4. SubSeq(items, i, Len(items)) = <<>>
  BY <1>1, SubSeqEmpty
<1>5. <<>> \o behind = behind
  BY <1>2, ConcatEmptySeq
<1> QED
  BY <1>3, <1>4, <1>5 DEF behind

(* Behind the sign the statements begin, if there are any.                 *)
LEMMA BeginStatements ==
  ASSUME NEW cfg \in Seq(Lines), NEW lists, NEW n \in 1 .. Len(cfg), LinesRead(cfg, lists, n)
  PROVE  StatementsRead(cfg, lists, n, 1)
  BY ItemsLeftFirst DEF LinesRead, StatementsRead

LEMMA EndStatements ==
  ASSUME NEW cfg \in Seq(Lines), NEW lists, NEW n \in 1 .. Len(cfg),
         StatementsRead(cfg, lists, n, Len(cfg[n].statements) + 1)
  PROVE  LinesRead(cfg, lists, n + 1)
<1> SUFFICES ASSUME NEW exc \in BOOLEAN
             PROVE  ReadUpTo(lists[exc], ItemsFrom(cfg, exc)[1], ItemsFrom(cfg, exc)[n + 1])
  BY DEF LinesRead
<1> DEFINE i == Len(cfg[n].statements) + 1
<1>1. i \in Nat /\ i > Len(ItemsOfLine(cfg, exc, n))
  <2>1. cfg[n] \in Lines
    BY ElementOfSeq
  <2>2. Len(cfg[n].statements) \in Nat
    BY <2>1, LineTyped
  <2>3. Len(ItemsOfLine(cfg, exc, n)) = Len(cfg[n].statements) \/ ItemsOfLine(cfg, exc, n) = <<>>
    BY ItemsTyped
  <2>4. Len(<<>>) = 0
    BY EmptySeq
  <2> QED
    BY <2>2, <2>3, <2>4
<1>2. ReadUpTo(lists[exc], ItemsFrom(cfg, exc)[1], ItemsLeft(cfg, exc, n, i))
  BY DEF StatementsRead
<1> HIDE DEF i
<1> QED
  BY <1>1, <1>2, ItemsLeftNone

LEMMA LineBegins ==
  ASSUME NEW cfg \in Seq(Lines), NEW lists, NEW n \in 1 .. Len(cfg), LinesRead(cfg, lists, n)
  PROVE  NextOk(cfg, lists, n, cfg[n].exception, StatementsText(cfg[n])[1])
<1> DEFINE N == Len(cfg[n].statements)
<1>1. cfg[n] \in Lines
  BY ElementOfSeq
<1>2. N \in Nat
  BY <1>1, LineTyped
<1>3. StatementsRead(cfg, lists, n, 1)
  BY BeginStatements
<1>4. CASE N = 0
  <2>1. StatementsText(cfg[n])[1] = WrittenComment(cfg[n])
    BY <1>1, <1>4, StatementsTextParts
  <2>2. StatementsText(cfg[n])[1] \in Ends
    BY <1>1, <2>1, CommentEnds
  <2>3. StatementsRead(cfg, lists, n, N + 1)
    BY <1>3, <1>4
  <2>4. LinesRead(cfg, lists, n + 1)
    BY <2>3, EndStatements
  <2> QED
    BY <2>2, <2>4 DEF NextOk
<1>5. CASE N # 0
  <2>1. 1 \in 1 .. N
    BY <1>2, <1>5
  <2> QED
    BY <1>3, <2>1 DEF NextOk, StatementAhead
<1> QED
  BY <1>4, <1>5

(* Behind a statement there is the next one or the end of the line.        *)
LEMMA LineGoesOn ==
  ASSUME NEW cfg \in Seq(Lines), NEW lists, NEW n \in 1 .. Len(cfg),
         NEW i \in 1 .. Len(cfg[n].statements), StatementsRead(cfg, lists, n, i + 1),
         NEW ahead, IsAfter(cfg[n], i, ahead)
  PROVE  NextOk(cfg, lists, n, cfg[n].exception, ahead)
<1> DEFINE N == Len(cfg[n].statements)
<1>1. N \in Nat
  <2>1. cfg[n] \in Lines
    BY ElementOfSeq
  <2> QED
    BY <2>1, LineTyped
<1>2. CASE i < N
  <2>1. i + 1 \in 1 .. N
    BY <1>1, <1>2
  <2>2. ahead = StatementsText(cfg[n])[i + 1]
    BY <1>2 DEF IsAfter
  <2> QED
    BY <2>1, <2>2 DEF NextOk, StatementAhead
<1>3. CASE ~(i < N)
  <2>1. i + 1 = N + 1
    BY <1>1, <1>3
  <2>2. LinesRead(cfg, lists, n + 1)
    BY <2>1, EndStatements
  <2>3. ahead \in Ends
    BY <1>3 DEF IsAfter
  <2> QED
    BY <2>2, <2>3 DEF NextOk
<1> QED
  BY <1>2, <1>3

(* One statement more is read.                                             *)
LEMMA RuleAdded ==
  ASSUME NEW list, NEW items, RulesFor(list, items), NEW rule \in Rules, NEW item \in Items,
         RuleFor(rule, item)
  PROVE  RulesFor(Append(list, rule), Append(items, item))
<1> DEFINE l == Append(list, rule)
           m == Append(items, item)
           N == Len(list)
<1>1. /\ list \in Seq(Rules) /\ items \in Seq(Items) /\ N \in Nat
      /\ Len(items) = N /\ \A k \in 1 .. N : RuleFor(list[k], items[k])
  BY DEF RulesFor
<1>2. /\ l \in Seq(Rules) /\ Len(l) = N + 1
      /\ (\A k \in 1 .. N : l[k] = list[k]) /\ l[N + 1] = rule
  BY <1>1, AppendProperties
<1>3. /\ m \in Seq(Items) /\ Len(m) = N + 1
      /\ (\A k \in 1 .. N : m[k] = items[k]) /\ m[N + 1] = item
  BY <1>1, AppendProperties
<1> HIDE DEF l, m, N
<1>4. \A k \in 1 .. N + 1 : RuleFor(l[k], m[k])
  <2>1. SUFFICES ASSUME NEW k \in 1 .. N + 1 PROVE RuleFor(l[k], m[k])
    OBVIOUS
  <2>2. CASE k \in 1 .. N
    BY <1>1, <1>2, <1>3, <2>2
  <2>3. CASE k = N + 1
    BY <1>2, <1>3, <2>3
  <2> QED
    BY <1>1, <2>2, <2>3
<1> QED
  BY <1>2, <1>3, <1>4 DEF RulesFor, l, m

LEMMA ItemsLeftOne ==
  ASSUME NEW cfg \in Seq(Lines), NEW n \in 1 .. Len(cfg), NEW i \in 1 .. Len(cfg[n].statements),
         NEW item, item = ItemsOfLine(cfg, cfg[n].exception, n)[i]
  PROVE  /\ item \in Items
         /\ ItemsLeft(cfg, cfg[n].exception, n, i)
              = <<item>> \o ItemsLeft(cfg, cfg[n].exception, n, i + 1)
         /\ ItemsLeft(cfg, cfg[n].exception, n, i + 1) \in Seq(Items)
<1> DEFINE e == cfg[n].exception
           items == ItemsOfLine(cfg, e, n)
           behind == ItemsFrom(cfg, e)[n + 1]
           rest == SubSeq(items, i + 1, Len(items))
           one == <<item>>
<1>1. cfg[n] \in Lines
  BY ElementOfSeq
<1>2. e \in BOOLEAN /\ Len(cfg[n].statements) \in Nat
  BY <1>1, LineTyped
<1>3. items \in Seq(Items) /\ Len(items) = Len(cfg[n].statements)
  BY <1>2, ItemsTyped
<1>4. behind \in Seq(Items)
  <2>1. n + 1 \in 1 .. Len(cfg) + 1
    OBVIOUS
  <2> QED
    BY <1>2, <2>1, ItemsParts
<1>5. item = items[i] /\ i \in 1 .. Len(items)
  BY <1>3
<1>6. /\ ItemsLeft(cfg, e, n, i) = SubSeq(items, i, Len(items)) \o behind
      /\ ItemsLeft(cfg, e, n, i + 1) = rest \o behind
  BY DEF ItemsLeft
<1> HIDE DEF items, behind, e
<1>7. item \in Items /\ rest \in Seq(Items)
  BY <1>3, <1>5
<1>8. SubSeq(items, i, Len(items)) = one \o rest
  <2>1. Len(items) \in i .. Len(items)
    BY <1>3, <1>5
  <2>2. SubSeq(items, i, Len(items)) = <<items[i]>> \o SubSeq(items, i + 1, Len(items))
    BY <1>3, <1>5, <2>1, SubSeqRecursiveFirst
  <2> QED
    BY <1>5, <2>2
<1>9. one \in Seq(Items)
  BY <1>7
<1> HIDE DEF one, rest
<1>10. (one \o rest) \o behind = one \o (rest \o behind)
  BY <1>4, <1>7, <1>9
<1>11. rest \o behind \in Seq(Items)
  BY <1>4, <1>7
<1> QED
  BY <1>6, <1>7, <1>8, <1>10, <1>11 DEF one, e

Associate(s, t, u) == (s \o t) \o u = s \o (t \o u)

LEMMA AnyWay ==
  ASSUME NEW S, NEW s \in Seq(S), NEW t \in Seq(S), NEW u \in Seq(S)
  PROVE  Associate(s, t, u)
  BY DEF Associate

LEMMA StatementPushed ==
  ASSUME NEW cfg \in Seq(Lines), NEW lists, NEW n \in 1 .. Len(cfg),
         NEW i \in 1 .. Len(cfg[n].statements), StatementsRead(cfg, lists, n, i),
         NEW rule \in Rules, RuleFor(rule, ItemsOfLine(cfg, cfg[n].exception, n)[i]),
         NEW more, more[cfg[n].exception] = Append(lists[cfg[n].exception], rule),
         \A exc \in BOOLEAN : exc # cfg[n].exception => more[exc] = lists[exc]
  PROVE  StatementsRead(cfg, more, n, i + 1)
<1> DEFINE e == cfg[n].exception
<1>1. cfg[n] \in Lines
  BY ElementOfSeq
<1>2. e \in BOOLEAN /\ Len(cfg[n].statements) \in Nat
  BY <1>1, LineTyped
<1>3. ReadUpTo(more[e], ItemsFrom(cfg, e)[1], ItemsLeft(cfg, e, n, i + 1))
  <2> DEFINE item == ItemsOfLine(cfg, e, n)[i]
             all == ItemsFrom(cfg, e)[1]
             left == ItemsLeft(cfg, e, n, i)
             behind == ItemsLeft(cfg, e, n, i + 1)
             one == <<item>>
  <2>1. item \in Items /\ left = one \o behind /\ behind \in Seq(Items)
    BY ItemsLeftOne
  <2>2. ReadUpTo(lists[e], all, left)
    BY <1>2 DEF StatementsRead
  <2>3. RuleFor(rule, item) /\ more[e] = Append(lists[e], rule)
    OBVIOUS
  <2> HIDE DEF e, item, all, left, behind
  <2>4. PICK items \in Seq(Items) : RulesFor(lists[e], items) /\ all = items \o left
    BY <2>2 DEF ReadUpTo
  <2>5. RulesFor(Append(lists[e], rule), Append(items, item))
    BY <2>1, <2>3, <2>4, RuleAdded
  <2>6. Append(items, item) \in Seq(Items) /\ Append(items, item) = items \o one
    BY <2>1
  <2>7. one \in Seq(Items)
    BY <2>1
  <2> HIDE DEF one
  <2>8. items \o (one \o behind) = (items \o one) \o behind
    <3>1. items \in Seq(Items) /\ one \in Seq(Items) /\ behind \in Seq(Items)
      BY <2>1, <2>7
    <3>2. Associate(items, one, behind)
      BY <3>1, AnyWay
    <3> QED
      BY <3>2 DEF Associate
  <2>9. all = Append(items, item) \o behind
    BY <2>1, <2>4, <2>6, <2>8
  <2> QED
    BY <2>3, <2>5, <2>6, <2>9 DEF ReadUpTo, all, behind
<1>4. ASSUME NEW exc \in BOOLEAN, exc # e
      PROVE  ReadUpTo(more[exc], ItemsFrom(cfg, exc)[1], ItemsLeft(cfg, exc, n, i + 1))
  <2>1. ItemsOfLine(cfg, exc, n) = <<>> /\ Len(<<>>) = 0
    BY <1>4, ItemsTyped, EmptySeq
  <2>2. i \in Nat /\ i + 1 \in Nat /\ i > Len(ItemsOfLine(cfg, exc, n))
        /\ i + 1 > Len(ItemsOfLine(cfg, exc, n))
    BY <1>2, <2>1
  <2>3. ItemsLeft(cfg, exc, n, i) = ItemsLeft(cfg, exc, n, i + 1)
    BY <2>2, ItemsLeftNone
  <2> QED
    BY <1>4, <2>3 DEF StatementsRead
<1> QED
  BY <1>3, <1>4 DEF StatementsRead

-----------------------------------------------------------------------------
(* The steps of the parser.                                                *)

(* What is read ahead.                                                     *)
NameOk(cfg, lists, n, exc, name, d, ahead) ==
  \/ name = <<"-">> /\ SignRead(cfg, lists, n, d, ahead)
  \/ \E i \in 1 .. Len(cfg[n].statements) :
       NameRead(cfg[n], i, name) /\ AtStatement(cfg, lists, n, exc, d, ahead, i)
  \/ name = <<>> /\ LinesRead(cfg, lists, n + 1)

LEMMA SignScanned ==
  ASSUME NEW cfg \in Seq(Lines), NEW lists, NEW n \in 1 .. Len(cfg), NEW exc,
         NEW s \in Seq(Characters), NEW p \in 1 .. Len(s) + 1,
         SignAhead(cfg, lists, n, exc, RestFrom(s, p))
  PROVE  /\ Char(s, ScanStart(s, p)) # "#"
         /\ \E name, d, ahead : ScannedAs(s, p, name, d, ahead) /\ NameOk(cfg, lists, n, exc, name, d, ahead)
<1> DEFINE ln == cfg[n]
           name == <<"-">>
           d == ln.separator
           ahead == StatementsText(ln)[1]
<1>1. ln \in Lines
  BY ElementOfSeq
<1>2. RestFrom(s, p) = <<"-", ln.separator>> \o ahead /\ ln.exception /\ LinesRead(cfg, lists, n)
  BY DEF SignAhead
<1>3. d # "<" /\ ScannedAs(s, p, name, d, ahead)
  BY <1>1, <1>2, MarkScanned
<1>4. NameOk(cfg, lists, n, exc, name, d, ahead)
  BY <1>2, <1>3 DEF NameOk, SignRead
<1> HIDE DEF name, d, ahead
<1> QED
  BY <1>3, <1>4 DEF ScannedAs

LEMMA NameScanned ==
  ASSUME NEW cfg \in Seq(Lines), NEW lists, NEW n \in 1 .. Len(cfg), NEW exc,
         NEW s \in Seq(Characters), NEW p \in 1 .. Len(s) + 1,
         StatementAhead(cfg, lists, n, exc, RestFrom(s, p))
  PROVE  /\ Char(s, ScanStart(s, p)) # "#"
         /\ \E name, d, ahead : ScannedAs(s, p, name, d, ahead) /\ NameOk(cfg, lists, n, exc, name, d, ahead)
<1> DEFINE ln == cfg[n]
<1>1. ln \in Lines
  BY ElementOfSeq
<1>2. PICK i \in 1 .. Len(ln.statements) :
        /\ exc = ln.exception /\ StatementsRead(cfg, lists, n, i)
        /\ RestFrom(s, p) = StatementsText(ln)[i]
  BY DEF StatementAhead
<1>3. StatementRead(s, p, ln, i)
  BY <1>1, <1>2, StatementScanned
<1>4. PICK name, d, ahead :
        ScannedAs(s, p, name, d, ahead) /\ NameRead(ln, i, name) /\ BehindName(ln, i, d, ahead)
  BY <1>3 DEF StatementRead
<1>5. AtStatement(cfg, lists, n, exc, d, ahead, i)
  BY <1>2, <1>4 DEF AtStatement
<1>6. NameOk(cfg, lists, n, exc, name, d, ahead)
  BY <1>4, <1>5 DEF NameOk
<1> QED
  BY <1>4, <1>6 DEF ScannedAs

LEMMA AheadScanned ==
  ASSUME NEW cfg \in Seq(Lines), NEW lists, NEW n \in 1 .. Len(cfg), NEW exc,
         NEW s \in Seq(Characters), NEW p \in 1 .. Len(s) + 1,
         NextOk(cfg, lists, n, exc, RestFrom(s, p))
  PROVE  IF Char(s, ScanStart(s, p)) = "#" THEN LinesRead(cfg, lists, n + 1)
         ELSE \E name, d, ahead :
                ScannedAs(s, p, name, d, ahead) /\ NameOk(cfg, lists, n, exc, name, d, ahead)
<1>1. CASE SignAhead(cfg, lists, n, exc, RestFrom(s, p))
  BY <1>1, SignScanned
<1>2. CASE StatementAhead(cfg, lists, n, exc, RestFrom(s, p))
  BY <1>2, NameScanned
<1>3. CASE RestFrom(s, p) \in Ends /\ LinesRead(cfg, lists, n + 1)
  <2>1. ASSUME Char(s, ScanStart(s, p)) # "#"
        PROVE  \E name, d, ahead :
                 ScannedAs(s, p, name, d, ahead) /\ NameOk(cfg, lists, n, exc, name, d, ahead)
    <3>1. PICK d, ahead : ScannedAs(s, p, <<>>, d, ahead)
      BY <1>3, <2>1, EndScanned
    <3>2. NameOk(cfg, lists, n, exc, <<>>, d, ahead)
      BY <1>3 DEF NameOk
    <3> QED
      BY <3>1, <3>2
  <2> QED
    BY <1>3, <2>1
<1> QED
  BY <1>1, <1>2, <1>3 DEF NextOk

(* The array once a name is stored in it.                                  *)
IsStored(array, text) ==
  /\ array \in [1 .. BufferSize -> Characters]
  /\ array[BufferSize - 1] \notin Blanks
  /\ text = TextIn(array) /\ text \in Seq(Characters)

LEMMA PlainStored ==
  ASSUME NEW name, IsWord(name), statement \in [1 .. BufferSize -> Characters],
         statement[BufferSize - 1] \notin Blanks, Len(name) + 1 <= BufferSize,
         name # <<>> => name[Len(name)] \notin Blanks
  PROVE  IsStored(Stored(name), name)
<1>1. name \in Seq(Characters) /\ \A k \in 1 .. Len(name) : name[k] # NUL
  BY DEF IsWord, Stops
<1>2. /\ Stored(name) \in [1 .. BufferSize -> Characters]
      /\ Stored(name)[BufferSize - 1] \notin Blanks
      /\ TextIn(Stored(name)) = name
  BY <1>1, StoredName
<1> QED
  BY <1>1, <1>2 DEF IsStored

(* Each name that is read is stored as the text that it ought to be.       *)
LEMMA SignStored ==
  ASSUME statement \in [1 .. BufferSize -> Characters], statement[BufferSize - 1] \notin Blanks
  PROVE  IsStored(Stored(<<"-">>), <<"-">>) /\ IsStored(Stored(<<>>), <<>>)
<1>1. IsStored(Stored(<<>>), <<>>)
  <2> DEFINE none == <<>>
  <2>1. IsWord(none) /\ Len(none) + 1 <= BufferSize /\ ~(none # <<>>)
    BY NothingTyped, BufferAssumption DEF IsWord
  <2>2. none # <<>> => none[Len(none)] \notin Blanks
    BY <2>1
  <2> HIDE DEF none
  <2>3. IsStored(Stored(none), none)
    BY <2>1, <2>2, PlainStored
  <2> QED
    BY <2>3 DEF none
<1>2. IsStored(Stored(<<"-">>), <<"-">>)
  <2> DEFINE mark == <<"-">>
  <2>1. mark \in Seq(Characters) /\ Len(mark) = 1 /\ mark[1] = "-"
    BY SinglesTyped DEF IsSingle
  <2>2. "-" \notin Stops /\ "-" \notin NewLines /\ "-" \notin Blanks
    BY DEF Stops, NUL, NewLines, Blanks
  <2>3. mark \in Seq(Characters) /\ Len(mark) = 1 /\ mark[1] \notin Stops
        /\ mark[1] \notin NewLines /\ mark[1] \notin Blanks
    BY <2>1, <2>2
  <2> HIDE DEF mark
  <2>4. \A k \in 1 .. Len(mark) : k = 1
    BY <2>3
  <2>5. IsWord(mark)
    BY <2>3, <2>4 DEF IsWord
  <2>6. Len(mark) + 1 <= BufferSize /\ mark[Len(mark)] \notin Blanks
    BY <2>3, BufferAssumption
  <2>7. IsStored(Stored(mark), mark)
    BY <2>5, <2>6, PlainStored
  <2> QED
    BY <2>7 DEF mark
<1> QED
  BY <1>1, <1>2

LEMMA NameStored ==
  ASSUME NEW ln \in Lines, NEW i \in 1 .. Len(ln.statements), NEW name, NameRead(ln, i, name),
         statement \in [1 .. BufferSize -> Characters], statement[BufferSize - 1] \notin Blanks
  PROVE  \E text : IsStored(Stored(name), text) /\ TextFor(ln, i, text)
<1> DEFINE n == ln.statements[i].name
<1>1. n \in Names
  BY LineTyped
<1>2. IsWord(n) /\ IsWord(n \o <<" ">>)
  BY <1>1, NameIsWord
<1>3. /\ n \in Seq(Characters) /\ Len(n) \in Nat /\ Len(n) >= 1
      /\ Len(n) + 3 <= BufferSize /\ n[Len(n)] \notin Blanks
  BY <1>1, NameTyped
<1>4. CASE ~(Spoiled(ln) /\ i = Len(ln.statements))
  <2>1. name = n
    BY <1>4 DEF NameRead
  <2>2. Len(n) + 1 <= BufferSize
    <3> HIDE DEF n
    <3> QED
      BY <1>3, BufferAssumption
  <2> HIDE DEF n
  <2>3. IsStored(Stored(n), n)
    BY <1>2, <1>3, <2>2, PlainStored
  <2>4. TextFor(ln, i, n)
    BY <1>4 DEF TextFor, n
  <2> QED
    BY <2>1, <2>3, <2>4
<1>5. CASE Spoiled(ln) /\ i = Len(ln.statements)
  <2> DEFINE blank == <<" ">>
             more == n \o blank
             text == TextIn(Stored(more))
  <2>1. name = more
    BY <1>5 DEF NameRead
  <2>2. blank \in Seq(Characters) /\ Len(blank) = 1 /\ blank[1] \in Blanks
    <3>1. blank \in Seq(Characters) /\ Len(blank) = 1 /\ blank[1] = " "
      BY SinglesTyped DEF IsSingle
    <3> QED
      BY <3>1 DEF Blanks
  <2>3. IsWord(more)
    BY <1>2
  <2>4. /\ more \in Seq(Characters) /\ Len(more) = Len(n) + 1
        /\ (\A k \in 1 .. Len(n) : more[k] = n[k]) /\ more[Len(more)] \in Blanks
    <3> HIDE DEF n, blank
    <3>1. n \in Seq(Characters) /\ blank \in Seq(Characters) /\ Len(n) \in Nat
      BY <1>3, <2>2
    <3>2. /\ more \in Seq(Characters) /\ Len(more) = Len(n) + Len(blank)
          /\ \A k \in 1 .. Len(n) + Len(blank) :
               more[k] = IF k <= Len(n) THEN n[k] ELSE blank[k - Len(n)]
      BY <3>1, ConcatProperties
    <3> HIDE DEF more
    <3> QED
      BY <2>2, <3>1, <3>2
  <2> HIDE DEF n, blank, more
  <2>5. \A k \in 1 .. Len(more) : more[k] # NUL
    BY <2>3 DEF IsWord, Stops
  <2>6. Len(more) + 2 <= BufferSize /\ more # <<>>
    <3>1. more # <<>>
      BY <1>3, <2>4, EmptySeq
    <3> QED
      BY <1>3, <2>4, <3>1, BufferAssumption
  <2>7. /\ Stored(more) \in [1 .. BufferSize -> Characters]
        /\ Stored(more)[BufferSize - 1] \notin Blanks
        /\ text \in Seq(Characters)
        /\ Len(text) >= Len(more)
        /\ \A k \in 1 .. Len(more) : text[k] = more[k]
    BY <2>4, <2>5, <2>6, StoredBlank
  <2>8. IsStored(Stored(more), text)
    BY <2>7 DEF IsStored
  <2> HIDE DEF text
  <2>9. Len(text) \in Nat /\ Len(text) > Len(n) /\ \A k \in 1 .. Len(n) : text[k] = n[k]
    BY <1>3, <2>4, <2>7
  <2>10. IsPrefix(n, text)
    <3> DEFINE a == SubSeq(n, 1, Len(n))
               b == SubSeq(text, 1, Len(n))
    <3>1. a \in Seq(Characters) /\ Len(a) = Len(n) /\ \A k \in 1 .. Len(n) : a[k] = n[k]
      BY <1>3
    <3>2. b \in Seq(Characters) /\ Len(b) = Len(n) /\ \A k \in 1 .. Len(n) : b[k] = text[k]
      BY <1>3, <2>7, <2>9
    <3>3. Len(n) <= Len(text)
      BY <1>3, <2>9
    <3> HIDE DEF a, b
    <3>4. a = b
      BY <2>9, <3>1, <3>2, SeqEqual
    <3> QED
      BY <3>3, <3>4 DEF IsPrefix, a, b
  <2>11. TextFor(ln, i, text)
    BY <1>5, <2>9, <2>10 DEF TextFor, n
  <2> QED
    BY <2>1, <2>8, <2>11
<1> QED
  BY <1>4, <1>5

LEMMA TextStored ==
  ASSUME NEW cfg \in Seq(Lines), NEW lists, NEW n \in 1 .. Len(cfg), NEW exc, NEW name, NEW d,
         NEW ahead, NameOk(cfg, lists, n, exc, name, d, ahead),
         statement \in [1 .. BufferSize -> Characters], statement[BufferSize - 1] \notin Blanks
  PROVE  \E text : IsStored(Stored(name), text) /\ ScannedOk(cfg, lists, n, exc, text, d, ahead)
<1>1. cfg[n] \in Lines
  BY ElementOfSeq
<1>2. CASE name = <<"-">> /\ SignRead(cfg, lists, n, d, ahead)
  <2>1. IsStored(Stored(name), name)
    BY <1>2, SignStored
  <2>2. ScannedOk(cfg, lists, n, exc, name, d, ahead)
    BY <1>2 DEF ScannedOk
  <2> QED
    BY <2>1, <2>2
<1>3. CASE name = <<>> /\ LinesRead(cfg, lists, n + 1)
  <2>1. IsStored(Stored(name), name)
    BY <1>3, SignStored
  <2>2. ScannedOk(cfg, lists, n, exc, name, d, ahead)
    BY <1>3 DEF ScannedOk
  <2> QED
    BY <2>1, <2>2
<1>4. ASSUME NEW i \in 1 .. Len(cfg[n].statements), NameRead(cfg[n], i, name),
             AtStatement(cfg, lists, n, exc, d, ahead, i)
      PROVE  \E text : IsStored(Stored(name), text) /\ ScannedOk(cfg, lists, n, exc, text, d, ahead)
  <2>1. PICK text : IsStored(Stored(name), text) /\ TextFor(cfg[n], i, text)
    BY <1>1, <1>4, NameStored
  <2>2. ScannedOk(cfg, lists, n, exc, text, d, ahead)
    BY <1>4, <2>1 DEF ScannedOk
  <2> QED
    BY <2>1, <2>2
<1> QED
  BY <1>2, <1>3, <1>4 DEF NameOk

(* What is read behind a name.                                             *)
AttribsAt(s, p, d) == IF d = "<" THEN Attribs(s, p) ELSE [mask |-> {}, eor |-> {}, in |-> p]
ResumeAt(s, p, d) ==
  IF d = "<" /\ Char(s, AttribsAt(s, p, d).in) = ">" THEN AttribsAt(s, p, d).in + 1
                                                     ELSE AttribsAt(s, p, d).in

IsReadBehind(ln, i, s, p, d) ==
  /\ AttribsAt(s, p, d).mask = MaskFrom(ln.statements[i].attribs, 1)
  /\ AttribsAt(s, p, d).eor = EorFrom(ln.statements[i].attribs, 1)
  /\ ResumeAt(s, p, d) \in 1 .. Len(s) + 1
  /\ IsAfter(ln, i, RestFrom(s, ResumeAt(s, p, d)))

LEMMA NoFlags == MaskFrom(<<>>, 1) = {} /\ EorFrom(<<>>, 1) = {}
<1>1. Len(<<>>) = 0
  BY EmptySeq
<1>2. 1 .. Len(<<>>) = {}
  BY <1>1
<1> DEFINE none == <<>>
           S == {k \in 1 .. Len(none) : none[k].sign # "-"}
<1>3. S = {}
  BY <1>2
<1> HIDE DEF none, S
<1>4. \A a : Flag(a, {}) = {}
  BY DEF Flag
<1> QED
  BY <1>2, <1>3, <1>4 DEF MaskFrom, EorFrom, none, S

LEMMA BehindRead ==
  ASSUME NEW ln \in Lines, NEW i \in 1 .. Len(ln.statements), NEW s \in Seq(Characters),
         Char(s, Len(s)) \notin Signs, NEW p \in 1 .. Len(s) + 1, NEW d,
         BehindName(ln, i, d, RestFrom(s, p))
  PROVE  IsReadBehind(ln, i, s, p, d)
<1> DEFINE attribs == ln.statements[i].attribs
<1>1. attribs \in AttribLists
  BY LineTyped
<1>2. CASE attribs = <<>>
  <2>1. d # "<" /\ IsAfter(ln, i, RestFrom(s, p))
    BY <1>2 DEF BehindName
  <2>2. AttribsAt(s, p, d) = [mask |-> {}, eor |-> {}, in |-> p] /\ ResumeAt(s, p, d) = AttribsAt(s, p, d).in
    BY <2>1 DEF AttribsAt, ResumeAt
  <2>3. AttribsAt(s, p, d).mask = {} /\ AttribsAt(s, p, d).eor = {} /\ ResumeAt(s, p, d) = p
    BY <2>2
  <2>4. MaskFrom(attribs, 1) = {} /\ EorFrom(attribs, 1) = {}
    BY <1>2, NoFlags
  <2> QED
    BY <2>1, <2>3, <2>4 DEF IsReadBehind
<1>3. CASE attribs # <<>>
  <2> DEFINE text == AttribsText(attribs)[1]
  <2>1. d = "<" /\ \E after \in Seq(Characters) : IsAfter(ln, i, after) /\ IsBefore(RestFrom(s, p), attribs, after)
    BY <1>3 DEF BehindName
  <2>2. PICK after \in Seq(Characters) : IsAfter(ln, i, after) /\ IsBefore(RestFrom(s, p), attribs, after)
    BY <2>1
  <2>3. IsAt(s, p, text, after)
    BY <2>2 DEF IsBefore, IsAt
  <2>4. EndsIn(text, ">")
    BY <1>1, AttribsTextEnd
  <2>5. Attribs(s, p) = [mask |-> MaskFrom(attribs, 1), eor |-> EorFrom(attribs, 1),
                         in |-> p + Len(text) - 1]
    <3> HIDE DEF attribs
    <3> QED
      BY <1>1, <2>3, AttribsRead
  <2>6. AttribsAt(s, p, d) = Attribs(s, p)
    BY <2>1 DEF AttribsAt
  <2> DEFINE mask == MaskFrom(attribs, 1)
             eor == EorFrom(attribs, 1)
             last == p + Len(text) - 1
  <2> HIDE DEF text, mask, eor, attribs
  <2>7. text \in Seq(Characters) /\ Len(text) \in Nat /\ Len(text) >= 1 /\ text[Len(text)] = ">"
    BY <2>4 DEF EndsIn
  <2>8. p + Len(text) \in 1 .. Len(s) + 1 /\ RestFrom(s, p + Len(text)) = after
    BY <2>3, <2>7, Advance
  <2>9. Char(s, last) = ">"
    <3>1. Char(s, p + Len(text) - 1) = Char(RestFrom(s, p), Len(text))
      BY <2>7, CharAhead
    <3>2. RestFrom(s, p) = text \o after
      BY <2>3 DEF IsAt
    <3>3. Len(text) <= Len(text) => Char(text \o after, Len(text)) = text[Len(text)]
      BY <2>7, CharConcat
    <3> QED
      BY <2>7, <3>1, <3>2, <3>3
  <2>10. AttribsAt(s, p, d) = [mask |-> mask, eor |-> eor, in |-> last]
    BY <2>5, <2>6 DEF mask, eor
  <2> HIDE DEF last
  <2>11. AttribsAt(s, p, d).mask = mask /\ AttribsAt(s, p, d).eor = eor /\ AttribsAt(s, p, d).in = last
    BY <2>10
  <2>12. ResumeAt(s, p, d) = last + 1
    BY <2>1, <2>9, <2>11 DEF ResumeAt
  <2>13. last + 1 = p + Len(text)
    BY <2>7 DEF last
  <2> QED
    BY <2>2, <2>8, <2>11, <2>12, <2>13 DEF IsReadBehind, mask, eor, attribs
<1> QED
  BY <1>2, <1>3

LEMMA FlagsTyped ==
  ASSUME NEW attribs \in AttribLists
  PROVE  MaskFrom(attribs, 1) \subseteq Flags /\ EorFrom(attribs, 1) \subseteq Flags
<1>1. \A k \in 1 .. Len(attribs) : DocumentedFlag[attribs[k].letter] \in Flags
  <2>1. SUFFICES ASSUME NEW k \in 1 .. Len(attribs) PROVE DocumentedFlag[attribs[k].letter] \in Flags
    OBVIOUS
  <2>2. attribs[k].letter \in {"h", "r", "a", "s", "c", "d"}
    BY AttribTyped
  <2> QED
    BY <2>2 DEF DocumentedFlag, Flags
<1>2. Len(attribs) \in Nat
  BY AttribsTextParts
<1> QED
  BY <1>1, <1>2 DEF MaskFrom, EorFrom, Flag

(* The rule that is made of a statement is the one that it ought to become. *)
LEMMA RuleMade ==
  ASSUME NEW cfg \in Seq(Lines), NEW n \in 1 .. Len(cfg), NEW i \in 1 .. Len(cfg[n].statements),
         NEW text \in Seq(Characters), TextFor(cfg[n], i, text), NEW rule, NEW eor, NEW mask,
         rule = [expr |-> text, eor |-> eor, mask |-> mask],
         mask = MaskFrom(cfg[n].statements[i].attribs, 1),
         eor = EorFrom(cfg[n].statements[i].attribs, 1)
  PROVE  rule \in Rules /\ RuleFor(rule, ItemsOfLine(cfg, cfg[n].exception, n)[i])
<1> DEFINE ln == cfg[n]
           st == ln.statements[i]
           spoiled == Spoiled(ln) /\ i = Len(ln.statements)
           item == ItemsOfLine(cfg, ln.exception, n)[i]
<1>1. ln \in Lines
  BY ElementOfSeq
<1>2. st.attribs \in AttribLists /\ ln.exception \in BOOLEAN
  BY <1>1, LineTyped
<1>3. mask \in SUBSET Flags /\ eor \in SUBSET Flags
  BY <1>2, FlagsTyped
<1>4. rule \in Rules
  BY <1>3 DEF Rules
<1>5. item = [statement |-> st, spoiled |-> spoiled]
  BY <1>2, ItemsTyped
<1> HIDE DEF st, spoiled, item
<1>6. item.statement = st /\ item.spoiled = spoiled
  BY <1>5
<1>7. rule.expr = text /\ rule.mask = mask /\ rule.eor = eor
  OBVIOUS
<1>8. IF spoiled THEN IsPrefix(st.name, text) ELSE text = st.name
  BY DEF TextFor, spoiled, st
<1>9. mask = MaskFrom(st.attribs, 1) /\ eor = EorFrom(st.attribs, 1)
  BY DEF st
<1>10. RuleFor(rule, item)
  BY <1>6, <1>7, <1>8, <1>9 DEF RuleFor
<1> QED
  BY <1>4, <1>10 DEF item

-----------------------------------------------------------------------------
(* The invariant holds at the start, and each step keeps it.               *)
LEMMA ParserInit == Init => ParserInv
<1> SUFFICES ASSUME Init PROVE ParserInv
  OBVIOUS
<1>1. /\ config \in Seq(Lines) /\ lineNo = 0 /\ line = <<>> /\ in = 1 /\ exception = FALSE
      /\ pc = "gets" /\ filterExpr = <<>> /\ filterExcpExpr = <<>>
  BY ConfigurationsAssumption DEF Init
<1>2. PICK g \in Garbage : statement = [k \in 1 .. BufferSize |-> g]
  BY DEF Init
<1>3. g \in Characters /\ g \notin Blanks
  BY BufferAssumption DEF Characters
<1>4. statement \in [1 .. BufferSize -> Characters] /\ statement[BufferSize - 1] \notin Blanks
  <2>1. BufferSize - 1 \in 1 .. BufferSize
    BY BufferAssumption
  <2> QED
    BY <1>2, <1>3, <2>1
<1>5. line \in Seq(Characters) /\ in \in 1 .. Len(line) + 1
  <2>1. <<>> \in Seq(Characters) /\ Len(<<>>) = 0
    BY EmptySeq
  <2>2. 1 \in 1 .. 0 + 1
    OBVIOUS
  <2> QED
    BY <1>1, <2>1, <2>2
<1>6. filterExpr \in Seq(Rules) /\ filterExcpExpr \in Seq(Rules)
  BY <1>1, EmptySeq
<1>7. lineNo \in 0 .. Len(config)
  BY <1>1
<1>8. TypeInv
  BY <1>1, <1>4, <1>5, <1>6, <1>7 DEF TypeInv
<1>9. LinesRead(config, Lists, lineNo + 1)
  <2>1. \A exc \in BOOLEAN : Lists[exc] = <<>>
    BY <1>1 DEF Lists
  <2>2. LinesRead(config, Lists, 1)
    BY <1>1, <2>1, NothingRead
  <2> QED
    BY <1>1, <2>2
<1> QED
  BY <1>1, <1>8, <1>9 DEF ParserInv

(* The next line is read, and its sign or statements are ahead.            *)
LEMMA LineWritten ==
  ASSUME NEW cfg \in Seq(Lines), NEW lists, NEW n \in 1 .. Len(cfg), LinesRead(cfg, lists, n)
  PROVE  NextOk(cfg, lists, n, FALSE, Written(cfg[n]))
<1> DEFINE ln == cfg[n]
           t == StatementsText(ln)[1]
<1>1. ln \in Lines
  BY ElementOfSeq
<1>2. ln.exception \in BOOLEAN
  BY <1>1, LineTyped
<1>3. CASE ln.exception
  <2>1. Written(ln) = <<"-", ln.separator>> \o t
    BY <1>3 DEF Written
  <2> QED
    BY <1>3, <2>1 DEF NextOk, SignAhead
<1>4. CASE ln.exception = FALSE
  <2>1. Written(ln) = <<>> \o t
    BY <1>4 DEF Written
  <2>2. t \in Seq(Characters)
    <3>1. Len(ln.statements) \in Nat
      BY <1>1, LineTyped
    <3>2. 1 \in 1 .. Len(ln.statements) + 1
      BY <3>1
    <3> QED
      BY <1>1, <3>2, StatementsTextParts
  <2>3. Written(ln) = t
    BY <2>1, <2>2, NothingTyped
  <2>4. NextOk(cfg, lists, n, ln.exception, t)
    BY LineBegins
  <2> QED
    BY <1>4, <2>3, <2>4
<1> QED
  BY <1>2, <1>3, <1>4

LEMMA GetsKeeps ==
  ASSUME ParserInv, Gets
  PROVE  ParserInv'
<1>1. TypeInv /\ LinesRead(config, Lists, lineNo + 1)
  BY DEF ParserInv, Gets
<1>2. /\ config \in Seq(Lines) /\ lineNo \in 0 .. Len(config) /\ exception \in BOOLEAN
      /\ statement \in [1 .. BufferSize -> Characters] /\ statement[BufferSize - 1] \notin Blanks
      /\ line \in Seq(Characters) /\ in \in 1 .. Len(line) + 1
      /\ filterExpr \in Seq(Rules) /\ filterExcpExpr \in Seq(Rules)
  BY <1>1 DEF TypeInv
<1>3. UNCHANGED <<config, statement, c, filterExpr, filterExcpExpr>> /\ Lists' = Lists
  BY DEF Gets, Lists
<1>4. CASE lineNo < Len(config)
  <2> DEFINE n == lineNo + 1
             text == Written(config[n])
  <2>1. lineNo' = n /\ line' = text /\ in' = 1 /\ exception' = FALSE /\ pc' = "next"
    BY <1>4 DEF Gets
  <2>2. n \in 1 .. Len(config) /\ n \in 0 .. Len(config)
    BY <1>2, <1>4
  <2>3. config[n] \in Lines
    BY <1>2, <2>2, ElementOfSeq
  <2>4. NextOk(config, Lists, n, FALSE, text)
    BY <1>1, <1>2, <2>2, LineWritten
  <2>5. EndsIn(text, "nl")
    BY <2>3, WrittenTyped
  <2> HIDE DEF n, text
  <2>6. text \in Seq(Characters) /\ Len(text) \in Nat /\ Len(text) >= 1 /\ text[Len(text)] = "nl"
    BY <2>5 DEF EndsIn
  <2>7. Char(text, Len(text)) \notin Signs
    BY <2>6 DEF Char, Signs
  <2>8. Ahead' = text
    <3>1. Ahead' = SubSeq(text, 1, Len(text))
      BY <2>1 DEF Ahead, RestFrom
    <3> QED
      BY <2>6, <3>1, SubSeqFull
  <2>9. 1 \in 1 .. Len(text) + 1
    BY <2>6
  <2>10. TypeInv'
    BY <1>2, <1>3, <2>1, <2>2, <2>6, <2>7, <2>9 DEF TypeInv
  <2>11. NextOk(config, Lists, lineNo, exception, Ahead)'
    BY <1>3, <2>1, <2>4, <2>8
  <2> QED
    BY <2>1, <2>10, <2>11 DEF ParserInv
<1>5. CASE ~(lineNo < Len(config))
  <2>1. pc' = "done" /\ UNCHANGED <<lineNo, line, in, exception>>
    BY <1>5 DEF Gets
  <2>2. lineNo = Len(config)
    BY <1>2, <1>5
  <2>3. TypeInv'
    BY <1>2, <1>3, <2>1 DEF TypeInv
  <2>4. LinesRead(config, Lists, Len(config) + 1)'
    BY <1>1, <1>3, <2>2
  <2> QED
    BY <2>1, <2>3, <2>4 DEF ParserInv
<1> QED
  BY <1>4, <1>5

LEMMA CommentKeeps ==
  ASSUME ParserInv, Comment
  PROVE  ParserInv'
<1>1. TypeInv /\ NextOk(config, Lists, lineNo, exception, Ahead) /\ lineNo \in 1 .. Len(config)
  BY DEF ParserInv, Comment, TypeInv
<1>2. config \in Seq(Lines) /\ line \in Seq(Characters) /\ in \in 1 .. Len(line) + 1
  BY <1>1 DEF TypeInv
<1>3. Char(line, ScanStart(line, in)) = "#"
  BY DEF Comment, ScanStart
<1>4. NextOk(config, Lists, lineNo, exception, RestFrom(line, in))
  BY <1>1 DEF Ahead
<1>5. LinesRead(config, Lists, lineNo + 1)
  BY <1>1, <1>2, <1>3, <1>4, AheadScanned
<1>6. /\ UNCHANGED <<config, lineNo, line, in, exception, statement, c, filterExpr, filterExcpExpr>>
      /\ pc' = "gets" /\ Lists' = Lists
  BY DEF Comment, Lists
<1>7. TypeInv'
  BY <1>1, <1>6 DEF TypeInv
<1>8. LinesRead(config, Lists, lineNo + 1)'
  BY <1>5, <1>6
<1> QED
  BY <1>6, <1>7, <1>8 DEF ParserInv

LEMMA ScanKeeps ==
  ASSUME ParserInv, Scan
  PROVE  ParserInv'
<1>1. /\ TypeInv /\ NextOk(config, Lists, lineNo, exception, Ahead)
      /\ lineNo \in 1 .. Len(config) /\ Char(line, Len(line)) \notin Signs
  BY DEF ParserInv, Scan, TypeInv
<1>2. /\ config \in Seq(Lines) /\ line \in Seq(Characters) /\ in \in 1 .. Len(line) + 1
      /\ statement \in [1 .. BufferSize -> Characters] /\ statement[BufferSize - 1] \notin Blanks
  BY <1>1 DEF TypeInv
<1>3. NextOk(config, Lists, lineNo, exception, RestFrom(line, in))
  BY <1>1 DEF Ahead
<1>4. /\ Char(line, ScanStart(line, in)) # "#"
      /\ statement' = Stored(ScanName(line, in))
      /\ c' = Char(line, ScanStop(line, in))
      /\ in' = ScanIn(line, in)
      /\ pc' = "scanned"
  BY DEF Scan, ScanStart, ScanStop, ScanName, ScanIn, Stops
<1>5. UNCHANGED <<config, lineNo, line, exception, filterExpr, filterExcpExpr>> /\ Lists' = Lists
  BY DEF Scan, Lists
<1>6. PICK name, d, ahead :
        ScannedAs(line, in, name, d, ahead) /\ NameOk(config, Lists, lineNo, exception, name, d, ahead)
  BY <1>1, <1>2, <1>3, <1>4, AheadScanned
<1>7. PICK text : IsStored(Stored(name), text) /\ ScannedOk(config, Lists, lineNo, exception, text, d, ahead)
  BY <1>1, <1>2, <1>6, TextStored
<1>8. /\ ScanName(line, in) = name /\ Char(line, ScanStop(line, in)) = d
      /\ ScanIn(line, in) \in 1 .. Len(line) + 1 /\ RestFrom(line, ScanIn(line, in)) = ahead
  BY <1>6 DEF ScannedAs
<1>9. statement' = Stored(name) /\ c' = d /\ in' \in 1 .. Len(line) + 1 /\ Ahead' = ahead
  BY <1>4, <1>5, <1>8 DEF Ahead
<1>10. /\ statement' \in [1 .. BufferSize -> Characters] /\ statement'[BufferSize - 1] \notin Blanks
       /\ Text' = text /\ text \in Seq(Characters)
  BY <1>7, <1>9 DEF IsStored, Text, TextIn
<1>11. TypeInv'
  BY <1>1, <1>4, <1>5, <1>9, <1>10 DEF TypeInv
<1>12. ScannedOk(config, Lists, lineNo, exception, Text, c, Ahead)'
  BY <1>5, <1>7, <1>9, <1>10
<1> QED
  BY <1>4, <1>11, <1>12 DEF ParserInv

(* The text tells what was read.                                           *)
LEMMA NameIsNoSign ==
  ASSUME NEW ln \in Lines, NEW i \in 1 .. Len(ln.statements), NEW text \in Seq(Characters),
         TextFor(ln, i, text)
  PROVE  text # <<>> /\ text # <<"-">>
<1> DEFINE name == ln.statements[i].name
<1>1. name \in Names
  BY LineTyped
<1>2. name \in Seq(Characters) /\ Len(name) \in Nat /\ Len(name) >= 1 /\ name # <<"-">>
  BY <1>1, NameTyped
<1>3. Len(<<>>) = 0 /\ Len(<<"-">>) = 1
  BY Tuples, EmptySeq
<1>4. CASE Spoiled(ln) /\ i = Len(ln.statements)
  <2>1. Len(text) > Len(name)
    BY <1>4 DEF TextFor
  <2>2. Len(text) \in Nat
    OBVIOUS
  <2>3. Len(text) # 0 /\ Len(text) # 1
    BY <1>2, <2>1, <2>2
  <2> QED
    BY <1>3, <2>3
<1>5. CASE ~(Spoiled(ln) /\ i = Len(ln.statements))
  <2>1. text = name
    BY <1>5 DEF TextFor
  <2>2. Len(name) # 0
    BY <1>2
  <2> QED
    BY <1>2, <1>3, <2>1, <2>2
<1> QED
  BY <1>4, <1>5

LEMMA SignIsNotEmpty == <<"-">> # <<>>
<1>1. Len(<<>>) = 0 /\ Len(<<"-">>) = 1
  BY Tuples, EmptySeq
<1> QED
  BY <1>1

LEMMA EmptyNameKeeps ==
  ASSUME ParserInv, EmptyName
  PROVE  ParserInv'
<1>1. /\ TypeInv /\ ScannedOk(config, Lists, lineNo, exception, Text, c, Ahead)
      /\ lineNo \in 1 .. Len(config) /\ Text \in Seq(Characters) /\ config \in Seq(Lines)
  BY DEF ParserInv, EmptyName, TypeInv
<1>2. /\ UNCHANGED <<config, lineNo, line, in, exception, statement, c, filterExpr, filterExcpExpr>>
      /\ Text = <<>> /\ pc' = "gets" /\ Lists' = Lists
  BY DEF EmptyName, Lists
<1>3. config[lineNo] \in Lines
  BY <1>1, ElementOfSeq
<1>4. LinesRead(config, Lists, lineNo + 1)
  <2>1. \A i \in 1 .. Len(config[lineNo].statements) : ~TextFor(config[lineNo], i, Text)
    BY <1>1, <1>2, <1>3, NameIsNoSign
  <2>2. Text # <<"-">>
    BY <1>2, SignIsNotEmpty
  <2> QED
    BY <1>1, <2>1, <2>2 DEF ScannedOk
<1>5. TypeInv'
  BY <1>1, <1>2 DEF TypeInv
<1>6. LinesRead(config, Lists, lineNo + 1)'
  BY <1>2, <1>4
<1> QED
  BY <1>2, <1>5, <1>6 DEF ParserInv

LEMMA AttributesAre ==
  Attributes = AttribsAt(line, in, c) /\ Resume = ResumeAt(line, in, c)
  BY DEF Attributes, Resume, AttribsAt, ResumeAt

LEMMA ExceptionMarkKeeps ==
  ASSUME ParserInv, ExceptionMark
  PROVE  ParserInv'
<1>1. /\ TypeInv /\ ScannedOk(config, Lists, lineNo, exception, Text, c, Ahead)
      /\ lineNo \in 1 .. Len(config) /\ Text \in Seq(Characters) /\ config \in Seq(Lines)
      /\ in \in 1 .. Len(line) + 1 /\ Char(line, Len(line)) \notin Signs
  BY DEF ParserInv, ExceptionMark, TypeInv
<1>2. /\ UNCHANGED <<config, lineNo, line, statement, c, filterExpr, filterExcpExpr>>
      /\ Text = <<"-">> /\ in' = Resume /\ exception' = TRUE /\ pc' = "next" /\ Lists' = Lists
  BY DEF ExceptionMark, Lists
<1>3. config[lineNo] \in Lines
  BY <1>1, ElementOfSeq
<1>4. SignRead(config, Lists, lineNo, c, Ahead)
  <2>1. \A i \in 1 .. Len(config[lineNo].statements) : ~TextFor(config[lineNo], i, Text)
    BY <1>1, <1>2, <1>3, NameIsNoSign
  <2>2. Text # <<>>
    BY <1>2, SignIsNotEmpty
  <2> QED
    BY <1>1, <2>1, <2>2 DEF ScannedOk
<1>5. /\ config[lineNo].exception /\ c # "<" /\ Ahead = StatementsText(config[lineNo])[1]
      /\ LinesRead(config, Lists, lineNo)
  BY <1>4 DEF SignRead
<1>6. Resume = in
  <2>1. AttribsAt(line, in, c) = [mask |-> {}, eor |-> {}, in |-> in]
    BY <1>5 DEF AttribsAt
  <2>2. AttribsAt(line, in, c).in = in
    BY <2>1
  <2> QED
    BY <1>5, <2>2, AttributesAre DEF ResumeAt
<1>7. NextOk(config, Lists, lineNo, TRUE, Ahead)
  <2>1. NextOk(config, Lists, lineNo, config[lineNo].exception, Ahead)
    BY <1>1, <1>5, LineBegins
  <2>2. config[lineNo].exception = TRUE
    BY <1>3, <1>5, LineTyped
  <2> QED
    BY <2>1, <2>2
<1>8. in' = in /\ Ahead' = Ahead
  BY <1>2, <1>6 DEF Ahead
<1>9. TypeInv'
  BY <1>1, <1>2, <1>8 DEF TypeInv
<1>10. NextOk(config, Lists, lineNo, exception, Ahead)'
  BY <1>2, <1>7, <1>8
<1> QED
  BY <1>2, <1>9, <1>10 DEF ParserInv

LEMMA PushStatementKeeps ==
  ASSUME ParserInv, PushStatement
  PROVE  ParserInv'
<1> DEFINE rule == [expr |-> Text, eor |-> Attributes.eor, mask |-> Attributes.mask]
           ln == config[lineNo]
<1>1. /\ TypeInv /\ ScannedOk(config, Lists, lineNo, exception, Text, c, Ahead)
      /\ lineNo \in 1 .. Len(config) /\ Text \in Seq(Characters) /\ config \in Seq(Lines)
      /\ line \in Seq(Characters) /\ in \in 1 .. Len(line) + 1
      /\ Char(line, Len(line)) \notin Signs /\ exception \in BOOLEAN
      /\ filterExpr \in Seq(Rules) /\ filterExcpExpr \in Seq(Rules)
  BY DEF ParserInv, PushStatement, TypeInv
<1>2. /\ UNCHANGED <<config, lineNo, line, exception, statement, c>>
      /\ Text # <<>> /\ Text # <<"-">> /\ in' = Resume /\ pc' = "next"
      /\ filterExpr' = IF exception THEN filterExpr ELSE Append(filterExpr, rule)
      /\ filterExcpExpr' = IF exception THEN Append(filterExcpExpr, rule) ELSE filterExcpExpr
  BY DEF PushStatement
<1> HIDE DEF rule
<1>3. ln \in Lines
  BY <1>1, ElementOfSeq
<1>4. PICK i \in 1 .. Len(ln.statements) :
        TextFor(ln, i, Text) /\ AtStatement(config, Lists, lineNo, exception, c, Ahead, i)
  BY <1>1, <1>2 DEF ScannedOk
<1>5. /\ exception = ln.exception /\ StatementsRead(config, Lists, lineNo, i)
      /\ BehindName(ln, i, c, RestFrom(line, in))
  BY <1>4 DEF AtStatement, Ahead
<1>6. IsReadBehind(ln, i, line, in, c)
  BY <1>1, <1>3, <1>5, BehindRead
<1>7. /\ Attributes.mask = MaskFrom(ln.statements[i].attribs, 1)
      /\ Attributes.eor = EorFrom(ln.statements[i].attribs, 1)
      /\ Resume \in 1 .. Len(line) + 1 /\ IsAfter(ln, i, RestFrom(line, Resume))
  BY <1>6, AttributesAre DEF IsReadBehind
<1>8. rule \in Rules /\ RuleFor(rule, ItemsOfLine(config, ln.exception, lineNo)[i])
  <2> DEFINE eor == Attributes.eor
             mask == Attributes.mask
  <2>1. rule = [expr |-> Text, eor |-> eor, mask |-> mask]
    BY DEF rule
  <2>2. mask = MaskFrom(ln.statements[i].attribs, 1) /\ eor = EorFrom(ln.statements[i].attribs, 1)
    BY <1>7
  <2> HIDE DEF eor, mask
  <2> QED
    BY <1>1, <1>4, <2>1, <2>2, RuleMade
<1>9. /\ Lists'[ln.exception] = Append(Lists[ln.exception], rule)
      /\ \A exc \in BOOLEAN : exc # ln.exception => Lists'[exc] = Lists[exc]
  BY <1>1, <1>2, <1>5 DEF Lists
<1>10. StatementsRead(config, Lists', lineNo, i + 1)
  BY <1>1, <1>5, <1>8, <1>9, StatementPushed
<1>11. NextOk(config, Lists', lineNo, ln.exception, RestFrom(line, Resume))
  BY <1>1, <1>7, <1>10, LineGoesOn
<1>12. Ahead' = RestFrom(line, Resume)
  BY <1>2 DEF Ahead
<1>13. filterExpr' \in Seq(Rules) /\ filterExcpExpr' \in Seq(Rules)
  BY <1>1, <1>2, <1>8
<1>14. in' \in 1 .. Len(line') + 1
  BY <1>2, <1>7
<1>15. TypeInv'
  BY <1>1, <1>2, <1>13, <1>14 DEF TypeInv
<1>16. NextOk(config, Lists, lineNo, exception, Ahead)'
  BY <1>2, <1>5, <1>11, <1>12
<1> QED
  BY <1>2, <1>15, <1>16 DEF ParserInv

LEMMA StutterKeeps ==
  ASSUME ParserInv, UNCHANGED vars
  PROVE  ParserInv'
<1>1. /\ UNCHANGED <<config, lineNo, line, in, exception, statement, c, pc, filterExpr, filterExcpExpr>>
      /\ Lists' = Lists /\ Ahead' = Ahead /\ Text' = Text
  BY DEF vars, Lists, Ahead, Text
<1>2. TypeInv'
  BY <1>1 DEF ParserInv, TypeInv
<1> QED
  BY <1>1, <1>2 DEF ParserInv

(* The lists hold, in order, the rules of the statements that were read,   *)
(* and what is ahead in the line is what was written of the others, for    *)
(* any configuration, whatever the array statement held before             *)
(* (ReadSettings, Inject.cpp).                                             *)
THEOREM ParserInvariant == Spec => []ParserInv
<1>1. ParserInv /\ [Next]_vars => ParserInv'
  BY GetsKeeps, CommentKeeps, ScanKeeps, EmptyNameKeeps, ExceptionMarkKeeps, PushStatementKeeps,
     StutterKeeps DEF Next
<1> QED
  BY ParserInit, <1>1, PTL DEF Spec

-----------------------------------------------------------------------------
(* What is read in the end.                                                *)
LEMMA AllRead ==
  ASSUME ParserInv, pc = "done", NEW exc \in BOOLEAN
  PROVE  RulesFor(Lists[exc], ItemsFrom(config, exc)[1])
<1>1. config \in Seq(Lines) /\ LinesRead(config, Lists, Len(config) + 1)
  BY DEF ParserInv, TypeInv
<1> DEFINE all == ItemsFrom(config, exc)[1]
           none == <<>>
<1>2. ItemsFrom(config, exc)[Len(config) + 1] = none
  BY <1>1, ItemsParts
<1>3. ReadUpTo(Lists[exc], all, none)
  BY <1>1, <1>2 DEF LinesRead
<1> HIDE DEF all, none
<1>4. PICK items \in Seq(Items) : RulesFor(Lists[exc], items) /\ all = items \o none
  BY <1>3 DEF ReadUpTo
<1>5. items \o none = items
  BY ConcatEmptySeq DEF none
<1> QED
  BY <1>4, <1>5 DEF all

LEMMA StatementsAreItems ==
  ASSUME NEW exc
  PROVE  StatementsOf(exc) = ItemsFrom(config, exc)[1]
  BY DEF StatementsOf, ItemsFrom, ItemsOfLine

LEMMA DamageIsContained == ParserInv => DamageContained
<1> SUFFICES ASSUME ParserInv, pc = "done", NEW exc \in BOOLEAN
             PROVE  LET stmts == StatementsOf(exc)
                        list == IF exc THEN filterExcpExpr ELSE filterExpr
                    IN /\ Len(list) = Len(stmts)
                       /\ \A i \in 1 .. Len(list) :
                            IF stmts[i].spoiled THEN IsPrefix(stmts[i].statement.name, list[i].expr)
                                                ELSE list[i].expr = stmts[i].statement.name
  BY DEF DamageContained
<1> DEFINE stmts == StatementsOf(exc)
           list == IF exc THEN filterExcpExpr ELSE filterExpr
<1>1. RulesFor(Lists[exc], ItemsFrom(config, exc)[1])
  BY AllRead
<1>2. Lists[exc] = list
  BY DEF Lists
<1>3. RulesFor(list, stmts)
  BY <1>1, <1>2, StatementsAreItems
<1> HIDE DEF stmts, list
<1>4. /\ Len(list) = Len(stmts)
      /\ \A i \in 1 .. Len(list) : RuleFor(list[i], stmts[i])
  BY <1>3 DEF RulesFor
<1>5. \A i \in 1 .. Len(list) :
        IF stmts[i].spoiled THEN IsPrefix(stmts[i].statement.name, list[i].expr)
                            ELSE list[i].expr = stmts[i].statement.name
  BY <1>4 DEF RuleFor
<1> QED
  BY <1>4, <1>5 DEF stmts, list

(* A name with a blank behind it spoils itself and no other statement: the *)
(* lists that ReadSettings builds have one rule per statement, in order,   *)
(* for every configuration and every content of the array statement.       *)
THEOREM NoMoreDamage == Spec => []DamageContained
  BY ParserInvariant, DamageIsContained, PTL

-----------------------------------------------------------------------------
(* What the rules decide.                                                  *)
LEMMA LettersDiffer ==
  ASSUME NEW a \in {"h", "r", "a", "s", "c", "d"}, NEW b \in {"h", "r", "a", "s", "c", "d"},
         DocumentedFlag[a] = DocumentedFlag[b]
  PROVE  a = b
  BY DEF DocumentedFlag

(* The masks of a rule say what the attributes of its statement say.       *)
LEMMA MasksAsDocumented ==
  ASSUME NEW attribs \in AttribLists, NEW has, NEW rule,
         rule.mask = MaskFrom(attribs, 1), rule.eor = EorFrom(attribs, 1)
  PROVE  ~AttribsDiffer(rule, has) <=> DocumentedAttribs(attribs, has)
<1> DEFINE N == Len(attribs)
           flag(k) == DocumentedFlag[attribs[k].letter]
<1>1. N \in Nat
  BY AttribsTextParts
<1>2. rule.mask = {flag(k) : k \in 1 .. N}
  BY DEF MaskFrom, Flag
<1>3. rule.eor = {flag(k) : k \in {m \in 1 .. N : attribs[m].sign # "-"}}
  BY DEF EorFrom, Flag
<1>4. \A i, j \in 1 .. N : attribs[i].letter = attribs[j].letter
                             => (attribs[i].sign = "-" <=> attribs[j].sign = "-")
  BY DEF AttribLists
<1>5. \A i, j \in 1 .. N : flag(i) = flag(j) => attribs[i].letter = attribs[j].letter
  BY AttribTyped, LettersDiffer
<1>6. DocumentedAttribs(attribs, has) <=> \A i \in 1 .. N : attribs[i].sign = "-" <=> flag(i) \notin has
  BY DEF DocumentedAttribs
<1> HIDE DEF N, flag
<1>7. \A i \in 1 .. N : flag(i) \in rule.eor <=> attribs[i].sign # "-"
  <2>1. SUFFICES ASSUME NEW i \in 1 .. N PROVE flag(i) \in rule.eor <=> attribs[i].sign # "-"
    OBVIOUS
  <2>2. ASSUME attribs[i].sign # "-" PROVE flag(i) \in rule.eor
    BY <1>3, <2>2
  <2>3. ASSUME flag(i) \in rule.eor PROVE attribs[i].sign # "-"
    <3>1. PICK k \in 1 .. N : attribs[k].sign # "-" /\ flag(k) = flag(i)
      BY <1>3, <2>3
    <3> QED
      BY <1>4, <1>5, <3>1
  <2> QED
    BY <2>2, <2>3
<1>8. AttribsDiffer(rule, has) <=> \E f \in rule.mask : ~(f \in has <=> f \in rule.eor)
  BY DEF AttribsDiffer
<1>9. AttribsDiffer(rule, has) <=> \E i \in 1 .. N : ~(flag(i) \in has <=> flag(i) \in rule.eor)
  BY <1>2, <1>8
<1> QED
  BY <1>6, <1>7, <1>9

(* A rule applies to the files that its statement means.                   *)
LEMMA RuleMeans ==
  ASSUME NEW st \in Statements, NEW rule, NEW item, item.statement = st, item.spoiled = FALSE,
         RuleFor(rule, item), NEW rest \in Seq(Characters), NEW has
  PROVE  Applies(rule, rest, has) <=> Means(st, rest, has)
<1>1. st.name \in Names /\ st.attribs \in AttribLists
  BY DEF Statements
<1>2. rule.mask = MaskFrom(st.attribs, 1) /\ rule.eor = EorFrom(st.attribs, 1) /\ rule.expr = st.name
  BY DEF RuleFor
<1>3. ~AttribsDiffer(rule, has) <=> DocumentedAttribs(st.attribs, has)
  BY <1>1, <1>2, MasksAsDocumented
<1>4. WildcardMatch(rest, rule.expr) <=> DocumentedMatch(rest, st.name)
  <2> DEFINE name == st.name
  <2>1. name \in Seq(Characters) /\ name # <<>>
    BY <1>1, NameTyped DEF Names
  <2>2. rule.expr = name
    BY <1>2
  <2> HIDE DEF name
  <2>3. WildcardMatch(rest, name) <=> DocumentedMatch(rest, name)
    BY <2>1, WildcardsAsDocumented
  <2> QED
    BY <2>2, <2>3 DEF name
<1> QED
  BY <1>3, <1>4 DEF Applies, Means

(* The items are the statements of the lines.                              *)
LEMMA ItemsAreStatements ==
  ASSUME NEW cfg \in Seq(Lines), NEW exc \in BOOLEAN, NEW x,
         \A n \in 1 .. Len(cfg) : ~Spoiled(cfg[n])
  PROVE  (\E k \in 1 .. Len(ItemsFrom(cfg, exc)[1]) : ItemsFrom(cfg, exc)[1][k] = x)
           <=> \E n \in 1 .. Len(cfg) : cfg[n].exception = exc /\
                 \E i \in 1 .. Len(cfg[n].statements) :
                   x = [statement |-> cfg[n].statements[i], spoiled |-> FALSE]
<1> DEFINE N == Len(cfg)
           parts == [n \in 1 .. N |-> ItemsOfLine(cfg, exc, n)]
           In(n) == \E k \in 1 .. Len(ItemsOfLine(cfg, exc, n)) : ItemsOfLine(cfg, exc, n)[k] = x
           Of(n) == cfg[n].exception = exc /\
                      \E i \in 1 .. Len(cfg[n].statements) :
                        x = [statement |-> cfg[n].statements[i], spoiled |-> FALSE]
<1>1. N \in Nat /\ Len(parts) = N /\ \A n \in 1 .. N : parts[n] = ItemsOfLine(cfg, exc, n)
  OBVIOUS
<1>2. ItemsFrom(cfg, exc) = Joined(parts, <<>>)
  BY DEF ItemsFrom
<1>3. \A n \in 1 .. N : ItemsOfLine(cfg, exc, n) \in Seq(Items)
  BY ItemsTyped
<1>4. ASSUME NEW n \in 1 .. N
      PROVE  In(n) <=> Of(n)
  <2>1. CASE cfg[n].exception = exc
    <3> DEFINE items == ItemsOfLine(cfg, exc, n)
               stmts == cfg[n].statements
               M == Len(stmts)
               spoiled(i) == Spoiled(cfg[n]) /\ i = M
    <3>1. Len(items) = M /\ \A i \in 1 .. M : items[i] = [statement |-> stmts[i], spoiled |-> spoiled(i)]
      BY <2>1, ItemsTyped
    <3>2. \A i \in 1 .. M : spoiled(i) = FALSE
      OBVIOUS
    <3> HIDE DEF items, stmts, M, spoiled
    <3>3. \A i \in 1 .. M : items[i] = [statement |-> stmts[i], spoiled |-> FALSE]
      BY <3>1, <3>2
    <3>4. (\E k \in 1 .. Len(items) : items[k] = x)
            <=> \E i \in 1 .. M : x = [statement |-> stmts[i], spoiled |-> FALSE]
      BY <3>1, <3>3
    <3> QED
      BY <2>1, <3>4 DEF items, stmts, M
  <2>2. CASE cfg[n].exception # exc
    <3>1. ItemsOfLine(cfg, exc, n) = <<>>
      BY <2>2, ItemsTyped
    <3>2. \A k \in 1 .. Len(<<>>) : FALSE
      OBVIOUS
    <3>3. ~In(n)
      BY <3>1, <3>2
    <3> QED
      BY <2>2, <3>3
  <2> QED
    BY <2>1, <2>2
<1>5. HasItem(Joined(parts, <<>>)[1], x) <=> \E n \in 1 .. Len(parts) : HasItem(parts[n], x)
  <2> HIDE DEF parts
  <2>1. Len(parts) \in Nat /\ \A n \in 1 .. Len(parts) : parts[n] \in Seq(Items)
    BY <1>1, <1>3
  <2> QED
    BY <2>1, JoinedItems
<1> HIDE DEF parts, N
<1>6. (\E n \in 1 .. Len(parts) : HasItem(parts[n], x)) <=> \E n \in 1 .. N : In(n)
  BY <1>1 DEF HasItem
<1> HIDE DEF In, Of
<1>7. (\E n \in 1 .. N : In(n)) <=> \E n \in 1 .. N : Of(n)
  BY <1>4
<1> QED
  BY <1>2, <1>5, <1>6, <1>7 DEF Of, N, HasItem

(* A rule of the list applies exactly where a statement is meant.          *)
LEMMA SomeRuleApplies ==
  ASSUME ParserInv, pc = "done", \A n \in 1 .. Len(config) : ~Spoiled(config[n]),
         NEW exc \in BOOLEAN, NEW rest \in Seq(Characters), NEW has
  PROVE  (\E i \in 1 .. Len(Lists[exc]) : Applies(Lists[exc][i], rest, has))
           <=> SomeStatement(exc, rest, has)
<1> DEFINE list == Lists[exc]
           items == ItemsFrom(config, exc)[1]
           N == Len(config)
           item(n, i) == [statement |-> config[n].statements[i], spoiled |-> FALSE]
<1>1. config \in Seq(Lines)
  BY DEF ParserInv, TypeInv
<1>2. RulesFor(list, items)
  BY AllRead
<1>3. \A x : (\E k \in 1 .. Len(items) : items[k] = x)
               <=> \E n \in 1 .. N : config[n].exception = exc /\
                     \E i \in 1 .. Len(config[n].statements) : x = item(n, i)
  BY <1>1, ItemsAreStatements
<1>4. ASSUME NEW n \in 1 .. N, NEW i \in 1 .. Len(config[n].statements)
      PROVE  /\ config[n].statements[i] \in Statements
             /\ item(n, i).statement = config[n].statements[i]
             /\ item(n, i).spoiled = FALSE
  <2>1. config[n] \in Lines
    BY <1>1, ElementOfSeq
  <2>2. config[n].statements[i] \in Statements
    BY <2>1, LineTyped
  <2> QED
    BY <2>2
<1> HIDE DEF list, items, N, item
<1>5. Len(list) = Len(items) /\ \A k \in 1 .. Len(list) : RuleFor(list[k], items[k])
  BY <1>2 DEF RulesFor
<1>6. ASSUME NEW k \in 1 .. Len(list), Applies(list[k], rest, has)
      PROVE  SomeStatement(exc, rest, has)
  <2>1. \E m \in 1 .. Len(items) : items[m] = items[k]
    BY <1>5
  <2>2. PICK n \in 1 .. N : config[n].exception = exc /\
               \E i \in 1 .. Len(config[n].statements) : items[k] = item(n, i)
    BY <1>3, <2>1
  <2>3. PICK i \in 1 .. Len(config[n].statements) : items[k] = item(n, i)
    BY <2>2
  <2> DEFINE st == config[n].statements[i]
             it == item(n, i)
             rule == list[k]
  <2>4. st \in Statements /\ it.statement = st /\ it.spoiled = FALSE
    BY <1>4
  <2>5. RuleFor(rule, it)
    BY <1>5, <2>3
  <2>6. Applies(rule, rest, has)
    BY <1>6
  <2> HIDE DEF st, it, rule
  <2>7. Means(st, rest, has)
    BY <2>4, <2>5, <2>6, RuleMeans
  <2> QED
    BY <2>2, <2>7 DEF SomeStatement, st, N
<1>7. ASSUME SomeStatement(exc, rest, has)
      PROVE  \E k \in 1 .. Len(list) : Applies(list[k], rest, has)
  <2>1. PICK n \in 1 .. N : config[n].exception = exc /\
               \E i \in 1 .. Len(config[n].statements) : Means(config[n].statements[i], rest, has)
    BY <1>7 DEF SomeStatement, N
  <2>2. PICK i \in 1 .. Len(config[n].statements) : Means(config[n].statements[i], rest, has)
    BY <2>1
  <2> DEFINE st == config[n].statements[i]
             it == item(n, i)
  <2>3. PICK k \in 1 .. Len(items) : items[k] = it
    BY <1>3, <2>1
  <2>4. st \in Statements /\ it.statement = st /\ it.spoiled = FALSE
    BY <1>4
  <2> DEFINE rule == list[k]
  <2>5. k \in 1 .. Len(list) /\ RuleFor(rule, it)
    BY <1>5, <2>3
  <2>6. Means(st, rest, has)
    BY <2>2
  <2> HIDE DEF st, it, rule
  <2>7. Applies(rule, rest, has)
    BY <2>4, <2>5, <2>6, RuleMeans
  <2> QED
    BY <2>5, <2>7 DEF rule
<1> QED
  BY <1>6, <1>7 DEF list

(* The first rule that applies is as good as any.                          *)
LEMMA SomeRuleDecides ==
  ASSUME NEW rules, NEW excps, NEW name, NEW attrib, Len(rules) \in Nat
  PROVE  FilterBelow(rules, excps, name, attrib)
           <=> /\ \E i \in 1 .. Len(rules) : Applies(rules[i], name, attrib)
               /\ ~ \E i \in 1 .. Len(excps) : Applies(excps[i], name, attrib)
<1> DEFINE apply == {i \in 1 .. Len(rules) : Applies(rules[i], name, attrib)}
<1>1. ASSUME apply # {}
      PROVE  \E i \in apply : \A j \in 1 .. i - 1 : ~Applies(rules[j], name, attrib)
  <2>0. apply \subseteq Nat /\ \E x : x \in apply
    BY <1>1
  <2>1. PICK i \in apply : \A j \in apply : i <= j
    <3> HIDE DEF apply
    <3> QED
      BY <2>0, Least
  <2>2. \A j \in 1 .. i - 1 : ~Applies(rules[j], name, attrib)
    BY <2>1
  <2> QED
    BY <2>1, <2>2
<1> QED
  BY <1>1 DEF FilterBelow, FilterExceptions

(* What is behind the prefix of a path, and behind the directory.          *)
LEMMA RestTyped ==
  ASSUME NEW T, NEW path \in Seq(T), NEW n \in Nat
  PROVE  SubSeq(path, n + 1, Len(path)) \in Seq(T)
<1>1. \A k \in n + 1 .. Len(path) : path[k] \in T
  OBVIOUS
<1> QED
  BY <1>1, SubSeqProperties

LEMMA SeqsOfMore ==
  ASSUME NEW S, NEW T, S \subseteq T, NEW s \in Seq(S)
  PROVE  s \in Seq(T)
<1>1. Len(s) \in Nat /\ s \in [1 .. Len(s) -> T]
  OBVIOUS
<1> QED
  BY <1>1

LEMMA FourOf ==
  ASSUME NEW x, NEW y
  PROVE  Len(<<x, x, y, x>>) \in Nat
  OBVIOUS

LEMMA FilterIsMeant == ParserInv => FilteredAsMeant
<1> SUFFICES ASSUME ParserInv, pc = "done", \A n \in 1 .. Len(config) : ~Spoiled(config[n]),
                    NEW file \in Probes
             PROVE  Filter(filterExpr, filterExcpExpr, file.path, file.attribs) <=> Meant(file)
  BY DEF FilteredAsMeant
<1> DEFINE n == Len(LongPathPrefix)
           path == IF BeginsWith(file.path, LongPathPrefix)
                     THEN SubSeq(file.path, n + 1, Len(file.path)) ELSE file.path
           rest == SubSeq(path, Len(DropboxPath) + 1, Len(path))
           has == file.attribs
<1>1. file.path \in Seq(STRING) /\ DropboxPath \in Seq(STRING) /\ Len(DropboxPath) \in Nat
  BY ProbesAssumption
<1>2. n \in Nat
  BY FourOf DEF LongPathPrefix
<1>3. path \in Seq(STRING)
  <2>1. SubSeq(file.path, n + 1, Len(file.path)) \in Seq(STRING)
    BY <1>1, <1>2, RestTyped
  <2> QED
    BY <1>1, <2>1
<1> HIDE DEF n, path
<1>4. rest \in Seq(Characters)
  <2>1. rest \in Seq(STRING)
    BY <1>1, <1>3, RestTyped
  <2>2. STRING \subseteq Characters
    BY DEF Characters
  <2> HIDE DEF rest
  <2> QED
    BY <2>1, <2>2, SeqsOfMore
<1> HIDE DEF rest
<1>5. /\ filterExpr = Lists[FALSE] /\ filterExcpExpr = Lists[TRUE]
      /\ Len(filterExpr) \in Nat
  BY DEF Lists, ParserInv, TypeInv
<1>6. (\E i \in 1 .. Len(filterExpr) : Applies(filterExpr[i], rest, has))
        <=> SomeStatement(FALSE, rest, has)
  BY <1>4, <1>5, SomeRuleApplies
<1>7. (\E i \in 1 .. Len(filterExcpExpr) : Applies(filterExcpExpr[i], rest, has))
        <=> SomeStatement(TRUE, rest, has)
  BY <1>4, <1>5, SomeRuleApplies
<1>8. FilterBelow(filterExpr, filterExcpExpr, rest, has)
        <=> SomeStatement(FALSE, rest, has) /\ ~SomeStatement(TRUE, rest, has)
  BY <1>5, <1>6, <1>7, SomeRuleDecides
<1>9. Filter(filterExpr, filterExcpExpr, file.path, has)
        <=> /\ ~EndsWith(file.path, ConfigName)
            /\ BeginsWith(path, DropboxPath)
            /\ FilterBelow(filterExpr, filterExcpExpr, rest, has)
  BY DEF Filter, path, rest, n
<1>10. Meant(file)
         <=> /\ BeginsWith(path, DropboxPath) /\ ~EndsWith(file.path, ConfigName)
             /\ SomeStatement(FALSE, rest, has) /\ ~SomeStatement(TRUE, rest, has)
  BY DEF Meant, path, rest, n
<1> QED
  BY <1>8, <1>9, <1>10

(* The files that are filtered are those that the user meant: wildcards,   *)
(* attributes with their signs, exceptions and comments mean what the      *)
(* documentation says, for every configuration in which no name has a      *)
(* blank behind it, every file and every Dropbox directory (ReadSettings   *)
(* and Filter, Inject.cpp; WildcardMatch, glob.cpp).                       *)
THEOREM MeantIsFiltered == Spec => []FilteredAsMeant
  BY ParserInvariant, FilterIsMeant, PTL

=============================================================================
