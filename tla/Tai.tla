-------------------------------- MODULE Tai --------------------------------
(***************************************************************************)
(* What a won hand is worth.  check_tai() counts some fifty scores, each   *)
(* with a function of its own, for every combination in which the hand can *)
(* be read, and lets the larger scores take back the smaller ones they     *)
(* contain; process_make() takes the combination that is worth most.       *)
(*                                                                         *)
(* A won hand is enumerated, and then the same tiles as they would be if   *)
(* the player had claimed one group after the other: only the melds differ. *)
(***************************************************************************)
EXTENDS Winning

CONSTANTS
  HandSize,  \* tiles of a hand: 16 in the code
  Families   \* bound: what hands are made of and how they are won, see Init

Wins ==
  [own : BOOLEAN,           \* sit == card_owner: the winner drew the tile
   dealer : BOOLEAN,        \* sit == info.dealer
   cont : Nat,              \* info.cont_dealer
   kang : BOOLEAN,          \* in_kang
   last : BOOLEAN,          \* the wall is used up
   first : BOOLEAN,         \* first_round
   wind : 1 .. 4, door : 1 .. 4,
   flower : SUBSET (1 .. 8)]

ASSUME TaiAssumption ==
  /\ HandSize \in Nat /\ HandSize % 3 = 1
  /\ Families \subseteq [rows : SUBSET RowStarts, threes : SUBSET Tile, pairs : SUBSET Tile,
                         melds : SUBSET Types, wins : SUBSET Wins]

VARIABLES
  hand,  \* pool_buf[]: the tiles in the hand and the one that wins, as a bag
  out,   \* out_card[]: the melds
  make,  \* the tile that wins
  win,   \* how it was won
  claims \* the melds that may be made: not in the code

vars == <<hand, out, make, win, claims>>

num == HandSize - 3 * Len(out)

Concealed == num = HandSize

-----------------------------------------------------------------------------
(* The combinations of a hand.                                              *)

\* The combinations of the suit that full_check() takes, see valid_type().
Valid(s) == {c \in Range(Combinations[OfSuit(hand, s)]) : Pairs(c) <= 1}

\* full_check(): each suit in each way, the winds and dragons in their only one.
Combs ==
  LET honours == Combinations[OfSuit(hand, 3)][1] \o Combinations[OfSuit(hand, 4)][1]
  IN  {a \o b \o c \o honours : a \in Valid(0), b \in Valid(1), c \in Valid(2)}

\* Groups of the combination c and melds, of a kind that P and Q tell.
Count(c, P(_), Q(_)) ==
  Cardinality({i \in DOMAIN c : P(c[i])}) + Cardinality({i \in DOMAIN out : Q(out[i])})

\* Mutant: the first tile shown is taken for the lowest, which it is not when the
\* lowest was claimed.
LowestFirst(m) == m.card[1]

Lowest(m)   == IF m.type = 7 THEN m.card[2] ELSE m.card[1]
AllEqual(m) == m.card[1] = m.card[2] /\ m.card[2] = m.card[3]

\* exist_card(), exist_3(), exist_straight().
Exist(t) ==
  hand[t] + Cardinality({p \in (DOMAIN out) \X (1 .. 4) :
                           p[2] <= Len(out[p[1]].card) /\ out[p[1]].card[p[2]] = t})
Exist3(c, t) ==
  Count(c, LAMBDA g : g = Triplet(t), LAMBDA m : AllEqual(m) /\ m.card[1] = t)
ExistStraight(c, t) ==
  Count(c, LAMBDA g : g = Straight(t), LAMBDA m : m.type \in EatTypes /\ Lowest(m) = t)

Has(t, n) == t \in Tile /\ Exist(t) >= n

Winds   == 31 .. 34
Dragons == 41 .. 43
IsEnd(t)   == t % 10 \in {1, 9}
\* One of a group's tiles, or of the first three of a meld, is an end.
GroupEnd(g) == \E t \in Tile : Uses(g, t) > 0 /\ IsEnd(t)
MeldEnd(m)  == \E j \in 1 .. 3 : IsEnd(m.card[j])
AllEnds(m)  == \A j \in 1 .. 3 : IsEnd(m.card[j])

InHand == Held(hand)
\* The tiles of the suits in the hand, and the tiles that stand for the melds.
Suited == {t \in InHand \cup {out[i].card[1] : i \in DOMAIN out} : t < 30}

Kongs == Cardinality({i \in DOMAIN out : out[i].type \in {3, 11, 12}})

-----------------------------------------------------------------------------
(* The scores, by their number in tai[].                                    *)

\* A straight that occurs twice in a concealed hand.
Doubles(c) == {t \in Tile : ExistStraight(c, t) >= 2}

\* check_tai45() does not count a triplet that another player completed.
HiddenTriplets(c) ==
  Count(c, LAMBDA g : g.kind = "three" /\ (g.lead # make \/ win.own), LAMBDA m : m.type = 11)

\* check_tai24().  Whoever holds card_owner has the turn when a hand is won,
\* see Round: its test turn == card_owner is TRUE.
TurnIsOwners == TRUE

FlatHand(c) ==
  LET Instead(t) ==
        CheckMake([u \in Tile |-> hand[u] - (IF u = make THEN 1 ELSE 0) + (IF u = t THEN 1 ELSE 0)])
  IN  /\ win.flower = {}
      /\ \A i \in DOMAIN c : /\ c[i].kind # "three"
                             /\ c[i].kind = "pair" => c[i].lead # make /\ c[i].lead <= 30
      /\ ~TurnIsOwners
      /\ \A i \in DOMAIN out : out[i].card[1] # out[i].card[2]
      /\ \E t \in {make - 3, make + 3} \cap Tile : t \div 10 = make \div 10 /\ Instead(t)

\* A wind of the round or of the door is worth one, and the two in one two.
WindHolds(i)   == Has(30 + i, 3) /\ (win.wind = i) # (win.door = i)
DoubleWind(i)  == Has(30 + i, 3) /\ win.wind = i /\ win.door = i

AllTerminals ==
  /\ \A t \in InHand : IsEnd(t) /\ t < 30
  /\ \A i \in DOMAIN out : out[i].card[1] < 30 /\ AllEnds(out[i])

\* The scores of the tiles, however they are grouped: does check_tai<k>() award k?
TileScore(k) ==
  CASE k = 3  -> \A t \in Tile : Exist(t) > 0 => t < 30 /\ ~IsEnd(t)
    [] k \in 9 .. 12  -> WindHolds(k - 8)
    [] k \in 13 .. 15 -> Has(k + 28, 3)
    [] k \in 17 .. 20 -> DoubleWind(k - 16)
    [] k = 30 -> Kongs = 3
    [] k = 34 -> Suited # {} /\ \A t, u \in Suited : t \div 10 = u \div 10
    [] k = 36 -> /\ \A t \in InHand : t < 30 => IsEnd(t)
                 /\ \A i \in DOMAIN out : AllEnds(out[i])
                 /\ out # <<>> \/ \E t \in InHand : t < 30
    [] k = 37 -> \A t \in Dragons : Has(t, 2)
    [] k = 39 -> Kongs = 4
    [] k = 40 -> \A t \in Dragons : Has(t, 3)
    [] k = 41 -> \A t \in Winds : Has(t, 2)
    [] k = 42 -> \E s \in 0 .. 2 : /\ \A t \in InHand : t \div 10 = s
                                   /\ \A i \in DOMAIN out : out[i].card[1] \div 10 = s
    [] k = 43 -> /\ \A t \in InHand : t \in Winds \cup Dragons
                 /\ \A i \in DOMAIN out : Range(out[i].card) \subseteq Winds \cup Dragons
    [] k = 46 -> AllTerminals
    [] k = 47 -> \A t \in Winds : Has(t, 3)

\* The scores of the groups of the combination c.
GroupScore(c, k) ==
  CASE k = 4  -> Concealed /\ Cardinality(Doubles(c)) = 1
    [] k = 24 -> FlatHand(c)
    [] k = 25 -> /\ \E i \in DOMAIN c : c[i].lead < 30
                 /\ \A i \in DOMAIN c : c[i].lead < 30 => GroupEnd(c[i])
                 /\ \A i \in DOMAIN out : out[i].card[1] < 30 => MeldEnd(out[i])
    [] k = 26 -> \E r \in 1 .. 7 : \A s \in 0 .. 2 : ExistStraight(c, 10 * s + r) > 0
    [] k = 27 -> \E s \in 0 .. 2 : \A r \in {1, 4, 7} : ExistStraight(c, 10 * s + r) > 0
    [] k = 28 -> Concealed /\ Cardinality(Doubles(c)) >= 2
    [] k = 29 -> HiddenTriplets(c) = 3
    [] k = 31 -> \E r \in 1 .. 9 : \A s \in 0 .. 2 : Exist3(c, 10 * s + r) > 0
    [] k = 33 -> /\ \A i \in DOMAIN c : c[i].kind # "straight"
                 /\ \A i \in DOMAIN out : out[i].card[1] = out[i].card[2]
    [] k = 35 -> /\ \A i \in DOMAIN c : c[i].lead <= 30 /\ GroupEnd(c[i])
                 /\ \A i \in DOMAIN out : out[i].card[1] <= 30 /\ MeldEnd(out[i])
    [] k = 38 -> HiddenTriplets(c) = 4
    [] k = 45 -> HiddenTriplets(c) = 5

\* The scores of the situation.
SituationScore(k) ==
  CASE k = 0  -> win.dealer
    [] k = 1  -> Concealed
    [] k = 2  -> win.own
    [] k = 5  -> win.kang
    [] k = 6  -> win.last /\ win.own
    [] k = 7  -> win.last /\ ~win.own
    [] k = 16 -> {win.door, win.door + 4} \cap win.flower # {}
    [] k = 21 -> 1 .. 4 \subseteq win.flower
    [] k = 22 -> 5 .. 8 \subseteq win.flower
    [] k = 23 -> num = 1 /\ ~win.own
    [] k = 32 -> Concealed /\ win.own
    [] k = 49 -> win.first /\ win.dealer
    [] k = 50 -> win.first /\ ~win.dealer /\ win.own
    [] k = 51 -> win.first /\ ~win.dealer /\ ~win.own
    [] k = 52 -> win.dealer /\ win.cont > 0

Situational == {0, 1, 2, 5, 6, 7, 16, 21, 22, 23, 32} \cup 49 .. 52
OfTiles     == {3, 30, 34, 36, 37, 46, 47} \cup 9 .. 15 \cup 17 .. 20 \cup 39 .. 43
OfGroups    == {4, 31, 33, 35, 38, 45} \cup 24 .. 29

\* Mutant: the large dragons do not take back the small ones.
TakesBackNot40(k) ==
  CASE k = 32 -> {1, 2}
    [] k = 35 -> {25}
    [] k = 36 -> {25, 33}
    [] k = 37 -> 13 .. 15
    [] k = 40 -> 13 .. 15
    [] k = 41 -> 9 .. 12 \cup 17 .. 20
    [] k = 42 -> {34}
    [] k \in {43, 45} -> {33}
    [] k = 46 -> {33, 35, 36}
    [] k = 47 -> 9 .. 12 \cup 17 .. 20 \cup {41}
    [] OTHER  -> {}

\* The scores that k sets to 0.
TakesBack(k) ==
  CASE k = 32 -> {1, 2}
    [] k = 35 -> {25}
    [] k = 36 -> {25, 33}
    [] k = 37 -> 13 .. 15
    [] k = 40 -> 13 .. 15 \cup {37}
    [] k = 41 -> 9 .. 12 \cup 17 .. 20
    [] k = 42 -> {34}
    [] k \in {43, 45} -> {33}
    [] k = 46 -> {33, 35, 36}
    [] k = 47 -> 9 .. 12 \cup 17 .. 20 \cup {41}
    [] OTHER  -> {}

\* tai[].score.
Points(k) ==
  CASE k \in 0 .. 16 -> 1
    [] k \in (17 .. 31) \cup {52} -> 2
    [] k = 32 -> 3
    [] k \in 33 .. 37 -> 4
    [] k \in {38, 39} -> 6
    [] k \in 40 .. 46 -> 8
    [] k \in 47 .. 51 -> 16

\* tai_score[]: flowers of the door count one each, unless all four of a kind are
\* there; some scores count less for an open hand.
Worth(k) ==
  CASE k = 16 -> Cardinality({win.door, win.door + 4} \cap win.flower)
                 - Cardinality({q \in {21, 22} : SituationScore(q)})
    [] k \in 25 .. 27 -> IF Concealed THEN Points(k) ELSE Points(k) - 1
    [] k = 52 -> Points(k) * win.cont
    [] OTHER  -> Points(k)

\* check_tai(): the scores of the combination c.
Scores(c) ==
  LET awarded == {k \in Situational : SituationScore(k)} \cup {k \in OfTiles : TileScore(k)}
                 \cup {k \in OfGroups : GroupScore(c, k)}
  IN  awarded \ UNION {TakesBack(k) : k \in awarded}

\* tai_sum.
Sum(c) == MapThenSumSet(Worth, Scores(c))

-----------------------------------------------------------------------------
(* Hands.                                                                   *)

Sets == (HandSize - 1) \div 3

\* A pair p, the triplets of three and x[r] straights from r on.
Won(x, three, p) ==
  [t \in Tile |->
     LET Rows(r) == IF r \in DOMAIN x THEN x[r] ELSE 0
     IN  Rows(t) + Rows(t - 1) + Rows(t - 2)
         + (IF t \in three THEN 3 ELSE 0) + (IF t = p THEN 2 ELSE 0)]

\* A hand of the groups of one family, none of them melded yet, won with a tile of
\* the pair or with the lowest one (a bound).
Init ==
  /\ \E f \in Families :
       /\ \E x \in [f.rows -> 0 .. 2], three \in SUBSET f.threes, p \in f.pairs :
            /\ SumFunction(x) + Cardinality(three) = Sets
            /\ hand = Won(x, three, p)
            /\ make \in {p, Lead(hand)}
       /\ claims = f.melds
       /\ win \in f.wins
  /\ \A t \in Tile : hand[t] <= Copies
  /\ CheckMake(hand)
  /\ out = <<>>

\* The group is claimed instead: see process_epk().  A kong takes its fourth tile
\* from the wall.  Groups are claimed in the order of their tiles.
Meld(type, t) ==
  LET card == Shown(type, t)
      taken == [u \in Tile |-> Cardinality({j \in 1 .. 3 : card[j] = u})]
      left == [u \in Tile |-> hand[u] - taken[u]]
  IN  /\ type \in claims
      /\ type \in EatTypes => t < 30 /\ \E r \in RowStarts : Range(card) = r .. r + 2
      /\ Len(card) = 4 => Exist(t) = 3
      /\ \A u \in Tile : left[u] >= 0
      /\ left[make] > 0 /\ CheckMake(left)
      /\ out # <<>> => out[Len(out)].card[1] <= card[1]
      /\ hand' = left
      /\ out' = Append(out, [type |-> type, card |-> card])
      /\ UNCHANGED <<make, win, claims>>

Next == \E type \in Types, t \in Tile : Meld(type, t)

Spec == Init /\ [][Next]_vars

-----------------------------------------------------------------------------
TypeOK ==
  /\ hand \in Hands /\ SumFunction(hand) = num + 1
  /\ out \in Seq([type : Types, card : Seq(Tile)])
  /\ make \in InHand /\ win \in Wins
  /\ Combs # {} /\ \A c \in Combs : Len(c) = Sets + 1 - Len(out) /\ Sum(c) \in Nat

(* The scores for one suit, honours or ends are those of all the tiles of the *)
(* player, melded ones included, though the code looks at the first tile of a *)
(* meld only and gives the larger score by taking the smaller one back.       *)
SuitScoresExact ==
  LET all     == {t \in Tile : Exist(t) > 0}
      suits   == {t \div 10 : t \in {u \in all : u < 30}}
      honours == {t \in all : t > 30}
  IN  \A S \in {Scores(c) : c \in Combs} :
        /\ 42 \in S <=> Cardinality(suits) = 1 /\ honours = {}
        /\ 34 \in S <=> Cardinality(suits) = 1 /\ honours # {}
        /\ 43 \in S <=> suits = {}
        /\ 46 \in S <=> honours = {} /\ \A t \in all : IsEnd(t)
        /\ 3  \in S <=> honours = {} /\ \A t \in all : ~IsEnd(t)

\* The tiles of the groups, in the hand and melded, without the pair.
Groupings(c) ==
  {{t \in Tile : Uses(c[i], t) > 0} : i \in {j \in DOMAIN c : c[j].kind # "pair"}}
  \cup {Range(out[i].card) : i \in DOMAIN out}

(* The scores for the pattern of the groups depend on the groups only: not on *)
(* which of them are melded, nor on which tile of a row was claimed, although *)
(* the three ways to eat put the row's lowest tile at different places.       *)
PatternScoresExact ==
  \A r \in {[scores |-> Scores(c), groups |-> Groupings(c), all |-> Range(c)] : c \in Combs} :
    LET S == r.scores
        G == r.groups
    IN  /\ 26 \in S <=> \E n \in 1 .. 7 : \A s \in {0, 10, 20} : (s + n) .. (s + n + 2) \in G
        /\ 27 \in S <=> \E s \in {0, 10, 20} : \A n \in {1, 4, 7} : (s + n) .. (s + n + 2) \in G
        /\ 31 \in S <=> \E n \in 1 .. 9 : \A s \in {0, 10, 20} : {s + n} \in G
        /\ 33 \in S <=> (\A g \in G : Cardinality(g) = 1) /\ S \cap {36, 43, 45, 46} = {}
        /\ 35 \in S <=> /\ \A t \in Tile : Exist(t) > 0 => t < 30
                        /\ \A g \in G \cup {{t} : t \in {u \in Tile : Pair(u) \in r.all}} :
                             \E t \in g : IsEnd(t)
                        /\ 46 \notin S

(* The scores are those of the player's tiles and groups, whatever is melded. *)
ScoresExact == SuitScoresExact /\ PatternScoresExact

(* No score is counted beside one that contains it.                           *)
Included ==
  {<<32, 1>>, <<32, 2>>, <<28, 4>>, <<35, 25>>, <<36, 25>>, <<36, 33>>, <<42, 34>>, <<43, 33>>,
   <<46, 35>>, <<46, 36>>, <<46, 33>>, <<40, 37>>, <<47, 41>>, <<38, 29>>, <<45, 38>>, <<39, 30>>}
  \cup {37, 40} \X (13 .. 15)
  \cup {41, 47} \X (9 .. 12 \cup 17 .. 20)
  \cup {<<i + 8, i>> : i \in 9 .. 12}

NothingTwice ==
  \A S \in {Scores(c) : c \in Combs} : \A q \in Included : ~({q[1], q[2]} \subseteq S)

(* Whatever group can be taken out of the hand so that a won hand is left is  *)
(* in one of the combinations that are scored, so that the best reading is    *)
(* among them: the search tries a pair only where there is no triplet, and    *)
(* full_check() takes one reading of the honours.                             *)
EveryReadingScored ==
  \A t \in InHand : \A g \in {Triplet(t), Straight(t)} :
    Fits(hand, g) /\ CheckMake(Without(hand, g)) => \E c \in Combs : g \in Range(c)

(* Every reading of a won hand is found, has as many groups as it should and   *)
(* is worth something that is not negative, whatever was taken back.          *)
ReadingsSound == TypeOK /\ EveryReadingScored
=============================================================================
