----------------------------- MODULE TaiProofs ------------------------------
(***************************************************************************)
(* What TLAPS proves of the scores, for every deck, size of hand and way to *)
(* win: whatever is awarded, what it contains is not counted beside it.     *)
(***************************************************************************)
EXTENDS Tai, TLAPS

\* A score that is counted takes back what check_tai() says it does.
LEMMA TakenBack ==
  ASSUME NEW c, NEW k, NEW q, q \in TakesBack(k), k \in Scores(c)
  PROVE  q \notin Scores(c)
BY DEF Scores

\* Of two situations or patterns that exclude each other, one is counted.
LEMMA Exclusive ==
  ASSUME NEW c
  PROVE  /\ ~({28, 4} \subseteq Scores(c))
         /\ ~({38, 29} \subseteq Scores(c))
         /\ ~({45, 38} \subseteq Scores(c))
         /\ ~({39, 30} \subseteq Scores(c))
         /\ \A i \in 1 .. 4 : ~({i + 16, i + 8} \subseteq Scores(c))
<1>1. 28 \in Scores(c) => Cardinality(Doubles(c)) >= 2
  <2>1. 28 \notin OfTiles /\ 28 \notin Situational BY DEF OfTiles, Situational
  <2>2. GroupScore(c, 28) => Cardinality(Doubles(c)) >= 2 BY DEF GroupScore
  <2> QED BY <2>1, <2>2 DEF Scores
<1>2. 4 \in Scores(c) => Cardinality(Doubles(c)) = 1
  <2>1. 4 \notin OfTiles /\ 4 \notin Situational BY DEF OfTiles, Situational
  <2>2. GroupScore(c, 4) => Cardinality(Doubles(c)) = 1 BY DEF GroupScore
  <2> QED BY <2>1, <2>2 DEF Scores
<1>3. /\ 29 \in Scores(c) => HiddenTriplets(c) = 3
      /\ 38 \in Scores(c) => HiddenTriplets(c) = 4
      /\ 45 \in Scores(c) => HiddenTriplets(c) = 5
  <2>1. {29, 38, 45} \cap (OfTiles \cup Situational) = {} BY DEF OfTiles, Situational
  <2>2. GroupScore(c, 29) => HiddenTriplets(c) = 3 BY DEF GroupScore
  <2>3. GroupScore(c, 38) => HiddenTriplets(c) = 4 BY DEF GroupScore
  <2>4. GroupScore(c, 45) => HiddenTriplets(c) = 5 BY DEF GroupScore
  <2> QED BY <2>1, <2>2, <2>3, <2>4 DEF Scores
<1>4. /\ 30 \in Scores(c) => Kongs = 3
      /\ 39 \in Scores(c) => Kongs = 4
  <2>1. {30, 39} \cap (OfGroups \cup Situational) = {} BY DEF OfGroups, Situational
  <2>2. TileScore(30) => Kongs = 3 BY DEF TileScore
  <2>3. TileScore(39) => Kongs = 4 BY DEF TileScore
  <2> QED BY <2>1, <2>2, <2>3 DEF Scores
<1>5. ASSUME NEW i \in 1 .. 4
      PROVE  /\ i + 8 \in Scores(c) => WindHolds(i)
             /\ i + 16 \in Scores(c) => DoubleWind(i)
  <2>1. {i + 8, i + 16} \cap (OfGroups \cup Situational) = {} BY DEF OfGroups, Situational
  <2>2. TileScore(i + 8) <=> WindHolds(i)
    <3>1. /\ TileScore(9)  <=> WindHolds(1)
          /\ TileScore(10) <=> WindHolds(2)
          /\ TileScore(11) <=> WindHolds(3)
          /\ TileScore(12) <=> WindHolds(4)
      BY 9 - 8 = 1, 10 - 8 = 2, 11 - 8 = 3, 12 - 8 = 4 DEF TileScore
    <3> QED BY <3>1, 1 + 8 = 9, 2 + 8 = 10, 3 + 8 = 11, 4 + 8 = 12, i \in {1, 2, 3, 4}
  <2>3. TileScore(i + 16) <=> DoubleWind(i)
    <3>1. /\ TileScore(17) <=> DoubleWind(1)
          /\ TileScore(18) <=> DoubleWind(2)
          /\ TileScore(19) <=> DoubleWind(3)
          /\ TileScore(20) <=> DoubleWind(4)
      BY 17 - 16 = 1, 18 - 16 = 2, 19 - 16 = 3, 20 - 16 = 4 DEF TileScore
    <3> QED BY <3>1, 1 + 16 = 17, 2 + 16 = 18, 3 + 16 = 19, 4 + 16 = 20, i \in {1, 2, 3, 4}
  <2> QED BY <2>1, <2>2, <2>3 DEF Scores
<1>6. \A i \in 1 .. 4 : ~(WindHolds(i) /\ DoubleWind(i)) BY DEF WindHolds, DoubleWind
<1> QED BY <1>1, <1>2, <1>3, <1>4, <1>5, <1>6

(* No score is counted beside one that contains it.                        *)
THEOREM NothingIsTwice == Spec => []NothingTwice
<1>1. ASSUME NEW c, NEW q \in Included
      PROVE  ~({q[1], q[2]} \subseteq Scores(c))
  BY TakenBack, Exclusive DEF Included, TakesBack
<1>2. NothingTwice
  BY <1>1 DEF NothingTwice
<1> QED BY <1>2, PTL
=============================================================================
