------------------------------ MODULE Winning ------------------------------
(***************************************************************************)
(* When is a hand won?  check_make() of the table's host, and what it is   *)
(* to decide.                                                              *)
(*                                                                         *)
(* A tile is its number in the code: the tens are the suit (0, 1, 2 the    *)
(* three suits of nine, 3 the winds, 4 the dragons), the units the rank.   *)
(* The hand with the tile in question is a bag, [Tile -> Nat]: the code    *)
(* sorts pool_buf[] first, and its search depends on the order of the      *)
(* tiles alone.                                                            *)
(***************************************************************************)
EXTENDS Integers, SequencesExt

CONSTANTS Tile,   \* the tiles in play
          Copies  \* how often each of them occurs

ASSUME TileAssumption ==
  Tile \subseteq {10 * s + r : s \in 0 .. 2, r \in 1 .. 9} \cup 31 .. 34 \cup 41 .. 43

ASSUME CopiesAssumption == Copies \in Nat

Hands == [Tile -> 0 .. Copies]

-----------------------------------------------------------------------------
(* The search tree of one suit.  Its nodes are groups of tiles; a branch    *)
(* that uses up the suit is a combination, read here from the leaf to the   *)
(* root as list_path() does.                                                *)

Triplet(t)  == [kind |-> "three",    lead |-> t]
Straight(t) == [kind |-> "straight", lead |-> t]
Pair(t)     == [kind |-> "pair",     lead |-> t]

\* How many tiles t the group g takes.
Uses(g, t) ==
  CASE g.kind = "three"    -> IF t = g.lead THEN 3 ELSE 0
    [] g.kind = "pair"     -> IF t = g.lead THEN 2 ELSE 0
    [] g.kind = "straight" -> IF t \in g.lead .. g.lead + 2 THEN 1 ELSE 0

\* Are the tiles of g in b?
Fits(b, g) ==
  /\ g.kind = "straight" => g.lead < 28 /\ {g.lead + 1, g.lead + 2} \subseteq Tile
  /\ \A t \in Tile : b[t] >= Uses(g, t)

Without(b, g) == [t \in Tile |-> b[t] - Uses(g, t)]

Held(b) == {t \in Tile : b[t] > 0}

\* find_lead(): the first tile that is not chosen yet.
Lead(b) == CHOOSE t \in Held(b) : \A u \in Held(b) : t <= u

\* Mutant: a triplet, once found, is the only group that is tried.
GroupsGreedy(b) ==
  LET t == Lead(b)
  IN  IF Fits(b, Triplet(t)) THEN <<Triplet(t)>>
      ELSE SelectSeq(<<Straight(t), Pair(t)>>, LAMBDA g : Fits(b, g))

\* build_tree(): the groups tried for the leading tile, in their order.  A pair
\* is tried only where there is no triplet.
Groups(b) ==
  LET t == Lead(b)
  IN  SelectSeq(<<Triplet(t), Straight(t), Pair(t)>>,
                LAMBDA g : Fits(b, g) /\ (g.kind = "pair" => ~Fits(b, Triplet(t))))

\* pretrav(): the combinations of a suit, in the order in which they are listed.
Combinations[b \in Hands] ==
  IF Held(b) = {} THEN << <<>> >>
  ELSE LET tried == Groups(b)
           under[i \in DOMAIN tried] ==
             LET rest == Combinations[Without(b, tried[i])]
             IN  [j \in DOMAIN rest |-> Append(rest[j], tried[i])]
       IN  FlattenSeq(under)

Pairs(c) == Cardinality({i \in DOMAIN c : c[i].kind = "pair"})

\* card_component[][].type of the suit's first combination: 0 none, 1 no tiles,
\* 2 no pair, 3 one pair, 4 more.
FirstType(b) ==
  LET found == Combinations[b]
  IN  CASE found = <<>>           -> 0
        [] Held(b) = {}           -> 1
        [] Pairs(found[1]) = 0    -> 2
        [] Pairs(found[1]) = 1    -> 3
        [] OTHER                  -> 4

OfSuit(b, s) == [t \in Tile |-> IF t \div 10 = s THEN b[t] ELSE 0]

\* check_make(): every suit splits, with one pair in all.
CheckMake(b) ==
  LET type == [s \in 0 .. 4 |-> FirstType(OfSuit(b, s))]
  IN  /\ \A s \in 0 .. 4 : type[s] \in 1 .. 3
      /\ Cardinality({s \in 0 .. 4 : type[s] = 3}) = 1

-----------------------------------------------------------------------------
(* Melds.                                                                   *)

\* The types of out_card[]: 2 PONG, 3 KANG, 7, 8, 9 EAT as the lowest, middle or
\* highest tile, 11 a kong of drawn tiles, 12 a kong added to a pong.
EatTypes == {7, 8, 9}
Types    == EatTypes \cup {2, 3, 11, 12}

\* The tiles of a meld of this type with t.
Shown(type, t) ==
  CASE type = 7 -> <<t + 1, t, t + 2>>
    [] type = 8 -> <<t - 1, t, t + 1>>
    [] type = 9 -> <<t - 2, t, t - 1>>
    [] type = 2 -> <<t, t, t>>
    [] OTHER    -> <<t, t, t, t>>

-----------------------------------------------------------------------------
(* What it is to decide: the hand is a pair and groups of three, equal or   *)
(* in a row.  x[t] is the number of rows that start at t; three equal rows  *)
(* are three triplets, so two are enough.                                   *)

RowStarts == {t \in Tile : t < 30 /\ t % 10 < 8 /\ {t + 1, t + 2} \subseteq Tile}

Splits(b) ==
  \E p \in Tile, x \in [RowStarts -> 0 .. 2] :
    LET Rows(t) == IF t \in RowStarts THEN x[t] ELSE 0
    IN  \A t \in Tile :
          b[t] - (IF t = p THEN 2 ELSE 0) - Rows(t) - Rows(t - 1) - Rows(t - 2) \in {0, 3}
=============================================================================
