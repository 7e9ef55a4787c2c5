------------------------------- MODULE Hand --------------------------------
(***************************************************************************)
(* The hand of a guest through a round, in the two places where it is      *)
(* kept: the guest's process, which plays from it, and the host's, which   *)
(* decides from its copy what the guest may claim and whether it has won.  *)
(* Each side changes its array of tiles in place when a tile is drawn,     *)
(* thrown or melded, and nothing but the tile's number is sent.            *)
(*                                                                         *)
(* In which order the messages travel is the subject of Round; here host   *)
(* and guest take each step together.  Flowers have been replaced.         *)
(***************************************************************************)
EXTENDS Winning

CONSTANTS HandSize,  \* tiles dealt: 16 in the code
          MaxTurns   \* bound: draws and discards of others that a behaviour sees

ASSUME HandSizeAssumption == HandSize \in Nat \ {0}
ASSUME MaxTurnsAssumption == MaxTurns \in Nat

VARIABLES
  pool,     \* pool[sit] of this guest, at the host and in its own process
  phase,    \* "rest", "asked", "get", "throw" or "over"
  current,  \* the tile last checked, for whom it was drawn, and whose turn is next
  flag,     \* check_flag[sit]: what the host finds current good for
  gone,     \* how often each tile lies open on the table
  left,     \* how often each tile is in the wall or with the others
  turns     \* tiles drawn, and thrown by others, so far

vars == <<pool, phase, current, flag, gone, left, turns>>

Sides  == {"host", "guest"}
Claims == {"eat", "pong", "kang", "make"}

NoCheck == [tile |-> 0, own |-> FALSE, next |-> FALSE]

-----------------------------------------------------------------------------
(* Arrays.  card[1 .. num] is the hand, card[num + 1] the 17th tile, if     *)
(* there is one.  What lies behind it is never read.                        *)

\* search_card(): the first place of t in the hand, 0 if there is none.
Search(s, n, t) == SelectInSubSeq(s, 1, n, LAMBDA u : u = t)

\* Mutant: a hand that is not sorted.
SortHandNot(s, n) == s

\* sort_pool(), sort_card(): the first n tiles.
SortHand(s, n) == SortSeq(SubSeq(s, 1, n), <) \o SubSeq(s, n + 1, Len(s))

\* s[i] := s[j].
Copy(s, i, j) == [s EXCEPT ![i] = s[j]]

BagOf(s) == [t \in Tile |-> Cardinality({i \in DOMAIN s : s[i] = t})]

HandOf(p) == SubSeq(p.card, 1, p.num)

-----------------------------------------------------------------------------
(* What the host asks about.                                                *)

\* check_eat(), for the guest whose turn is next.
CheckEat(p, t) ==
  LET Has(u) == Search(p.card, p.num, u) > 0
  IN  /\ t < 30
      /\ \/ t % 10 >= 3       /\ Has(t - 2) /\ Has(t - 1)
         \/ t % 10 \in 2 .. 8 /\ Has(t - 1) /\ Has(t + 1)
         \/ t % 10 <= 7       /\ Has(t + 1) /\ Has(t + 2)

\* k tiles t side by side in the hand.
InRow(p, t, k) ==
  \E i \in 1 .. p.num - k + 1 : \A j \in i .. i + k - 1 : p.card[j] = t

CheckPong(p, t) == InRow(p, t, 2)

\* check_kang(); own: the guest has drawn t itself.
CheckKang(p, t, own) ==
  \/ InRow(p, t, 3)
  \/ own /\ \E i \in DOMAIN p.out : p.out[i].type = 2 /\ p.out[i].card[1] = t

\* send_one_card() looks for a kong and a win, check_card() for all four.
FlagsOf(p, c) ==
  {k \in Claims :
     \/ k = "eat"  /\ c.next /\ CheckEat(p, c.tile)
     \/ k = "pong" /\ ~c.own /\ CheckPong(p, c.tile)
     \/ k = "kang" /\ CheckKang(p, c.tile, c.own)
     \/ k = "make" /\ CheckMake(BagOf(Append(HandOf(p), c.tile)))}

Check(c) ==
  /\ current' = c
  /\ flag' = FlagsOf(pool["host"], c)

-----------------------------------------------------------------------------
(* Steps.                                                                   *)

Deals == {b \in Hands : SumFunction(b) = HandSize}

\* The tiles of b in their order.
InOrder(b) ==
  LET tiles == SetToSortSeq(Tile, <)
  IN  FlattenSeq([i \in DOMAIN tiles |-> [j \in 1 .. b[tiles[i]] |-> tiles[i]]])

\* open_deal(): both sides hold the same tiles, sorted.
Init ==
  /\ \E b \in Deals :
       /\ pool = [side \in Sides |-> [card |-> InOrder(b), num |-> HandSize, out |-> <<>>]]
       /\ left = [t \in Tile |-> Copies - b[t]]
  /\ phase = "rest" /\ current = NoCheck /\ flag = {}
  /\ gone = [t \in Tile |-> 0] /\ turns = 0

\* send_one_card() and process_new_card(): the tile is put behind the hand.
Draw(t) ==
  /\ phase \in {"rest", "get"} /\ turns < MaxTurns /\ left[t] > 0
  /\ Check([tile |-> t, own |-> TRUE, next |-> FALSE])
  /\ pool' = [side \in Sides |-> [pool[side] EXCEPT !.card = Append(HandOf(pool[side]), t)]]
  /\ phase' = IF flag' = {} THEN "throw" ELSE "asked"
  /\ left' = [left EXCEPT ![t] = @ - 1] /\ turns' = turns + 1
  /\ UNCHANGED gone

\* Another player throws t.
Discard(t, next) ==
  /\ phase = "rest" /\ turns < MaxTurns /\ left[t] > 0
  /\ Check([tile |-> t, own |-> FALSE, next |-> next])
  /\ phase' = IF flag' = {} THEN "rest" ELSE "asked"
  /\ left' = [left EXCEPT ![t] = @ - 1] /\ turns' = turns + 1
  /\ gone' = [gone EXCEPT ![t] = @ + 1]
  /\ UNCHANGED pool

\* The guest passes, or another claim goes before its own.
Pass ==
  /\ phase = "asked"
  /\ phase' = IF current.own THEN "throw" ELSE "rest"
  /\ UNCHANGED <<pool, current, flag, gone, left, turns>>

Win ==
  /\ phase = "asked" /\ "make" \in flag
  /\ phase' = "over"
  /\ UNCHANGED <<pool, current, flag, gone, left, turns>>

\* Mutant: both tiles are replaced by the last one.
MeldPongTwice(s, n, i) == Copy(Copy(s, i, n), i + 1, n)

\* The last tiles of the hand, s[n] first, take the places of the claimed ones.
MeldPong(s, n, i)   == Copy(Copy(s, i, n), i + 1, n - 1)
MeldKong(s, n, i)   == Copy(MeldPong(s, n, i), i + 2, n - 2)
MeldEat(s, n, a, b) == LET r == Copy(s, Search(s, n, a), n)
                       IN  Copy(r, Search(r, n, b), n - 1)

\* The guest's loop over a kong does not stop at the first tile it finds, and
\* writes up to two places behind the hand.
MeldKongs(s, n, t) ==
  LET after[i \in 0 .. n] ==
        IF i = 0 THEN s \o <<0, 0>>
        ELSE IF after[i - 1][i] = t THEN MeldKong(after[i - 1], n, i) ELSE after[i - 1]
  IN  after[n]

\* The two tiles an eating guest puts down, in the order in which it does.
Put(type, t) ==
  CASE type = 7 -> <<t + 1, t + 2>>
    [] type = 8 -> <<t - 1, t + 1>>
    [] type = 9 -> <<t - 1, t - 2>>

\* The hand s that is left of p, sorted up to the given place, and the new meld.
Melded(p, s, sorted, meld) ==
  [card |-> SortHand(s, sorted), num |-> p.num - 3, out |-> Append(p.out, meld)]

\* process_epk() at the guest.
GuestMelds(p, type, t) ==
  LET n    == p.num
      meld == [type |-> type, card |-> Shown(type, t)]
      put  == Put(type, t)
      pong == SelectInSeq(p.out, LAMBDA m : t \in {m.card[1], m.card[2]})
  IN  CASE type = 12 -> [p EXCEPT !.card = HandOf(p), !.out[pong].type = 12]
        [] type \in {3, 11} -> Melded(p, SubSeq(MeldKongs(p.card, n, t), 1, n - 3), n - 3, meld)
        [] type = 2 ->
             Melded(p, SubSeq(MeldPong(p.card, n, Search(p.card, n, t)), 1, n - 2), n - 2, meld)
        [] type \in EatTypes ->
             Melded(p, SubSeq(MeldEat(p.card, n, put[1], put[2]), 1, n - 2), n - 2, meld)

\* Mutant: the tiles eaten are looked for under the first and second tile shown.
HostMeldsShown(p, type, t) ==
  LET n    == p.num
      show == Shown(type, t)
      meld == [type |-> type, card |-> show]
      here == Search(p.card, n, t)
      pong == SelectInSeq(p.out, LAMBDA m : m.type = 2 /\ m.card[1] = t)
  IN  CASE type = 12 -> [p EXCEPT !.card = HandOf(p), !.out[pong] = meld]
        [] type \in {3, 11} -> Melded(p, SubSeq(MeldKong(p.card, n, here), 1, n - 3), n - 3, meld)
        [] type = 2 -> Melded(p, SubSeq(MeldPong(p.card, n, here), 1, n - 2), n - 3, meld)
        [] type \in EatTypes ->
             Melded(p, SubSeq(MeldEat(p.card, n, show[1], show[2]), 1, n - 2), n - 3, meld)

\* MSG_SHOW_EPK at the host: the tiles come from the message, and the tile that
\* is left over as the 17th need not be the guest's.
HostMelds(p, type, t) ==
  LET n    == p.num
      show == Shown(type, t)
      meld == [type |-> type, card |-> show]
      here == Search(p.card, n, t)
      pong == SelectInSeq(p.out, LAMBDA m : m.type = 2 /\ m.card[1] = t)
  IN  CASE type = 12 -> [p EXCEPT !.card = HandOf(p), !.out[pong] = meld]
        [] type \in {3, 11} -> Melded(p, SubSeq(MeldKong(p.card, n, here), 1, n - 3), n - 3, meld)
        [] type = 2 -> Melded(p, SubSeq(MeldPong(p.card, n, here), 1, n - 2), n - 3, meld)
        [] type \in EatTypes ->
             Melded(p, SubSeq(MeldEat(p.card, n, show[1], show[3]), 1, n - 2), n - 3, meld)

\* The guest chooses among the rows its own tiles allow (process_key()), the
\* host says what kind of kong it is (compare_check()).
Rank(t) == t % 10

TypesFor(claim, t) ==
  LET Has(side, u) == Search(pool[side].card, pool[side].num, u) > 0
      Edible == {k \in EatTypes : CASE k = 7 -> Rank(t) <= 7
                                    [] k = 8 -> Rank(t) \in 2 .. 8
                                    [] k = 9 -> Rank(t) >= 3}
  IN  CASE claim = "eat"  -> {k \in Edible : \A u \in Range(Put(k, t)) : Has("guest", u)}
        [] claim = "pong" -> {2}
        [] claim = "kang" -> {IF ~Has("host", t) THEN 12 ELSE IF current.own THEN 11 ELSE 3}

\* draw_epk(): a tile that was claimed from the table is taken off it.
OffTable(type, t) == IF type \in {11, 12} THEN gone ELSE [gone EXCEPT ![t] = @ - 1]

\* The claim is granted.
Claim(claim, type) ==
  LET t == current.tile
  IN  /\ phase = "asked" /\ claim \in flag \ {"make"} /\ type \in TypesFor(claim, t)
      /\ pool' = [host  |-> HostMelds(pool["host"], type, t),
                  guest |-> GuestMelds(pool["guest"], type, t)]
      /\ gone' = OffTable(type, t)
      /\ phase' = IF claim = "kang" THEN "get" ELSE "throw"
      /\ current' = NoCheck /\ flag' = {}
      /\ UNCHANGED <<left, turns>>

\* The 17th tile takes the place of the i-th.
Thrown(p, i) == [p EXCEPT !.card = SortHand(SubSeq(Copy(@, i, p.num + 1), 1, p.num), p.num)]

\* The host looks for the tile in the hand before it takes the 17th.
PlaceOf(p, t) == LET i == Search(p.card, p.num, t) IN IF i = 0 THEN p.num + 1 ELSE i

\* action_throw_card() at the guest, MSG_THROW_CARD at the host.
Throw(i) ==
  LET t == pool["guest"].card[i]
  IN  /\ phase = "throw"
      /\ pool' = [host  |-> Thrown(pool["host"], PlaceOf(pool["host"], t)),
                  guest |-> Thrown(pool["guest"], i)]
      /\ gone' = [gone EXCEPT ![t] = @ + 1]
      /\ phase' = "rest" /\ current' = NoCheck /\ flag' = {}
      /\ UNCHANGED <<left, turns>>

Next ==
  \/ \E t \in Tile : Draw(t)
  \/ \E t \in Tile, next \in BOOLEAN : Discard(t, next)
  \/ Pass
  \/ Win
  \/ \E claim \in Claims : \E type \in Types : Claim(claim, type)
  \/ \E i \in DOMAIN pool["guest"].card : Throw(i)

Spec == Init /\ [][Next]_vars

-----------------------------------------------------------------------------
TypeOK ==
  /\ phase \in {"rest", "asked", "get", "throw", "over"}
  /\ current \in [tile : Tile \cup {0}, own : BOOLEAN, next : BOOLEAN]
  /\ flag \subseteq Claims /\ turns \in 0 .. MaxTurns
  /\ gone \in Hands /\ left \in Hands
  /\ \A side \in Sides :
       /\ pool[side].card \in Seq(Tile) /\ pool[side].num \in 0 .. HandSize
       /\ pool[side].out \in Seq([type : Types, card : Seq(Tile)])

(* The copy from which the host judges is the hand the guest plays: the same  *)
(* tiles, as many of them melded, though the two arrays are changed by         *)
(* different code and may hold their tiles at different places.               *)
CopiesAgree ==
  LET h == pool["host"]
      g == pool["guest"]
  IN  /\ BagOf(h.card) = BagOf(g.card) /\ h.num = g.num
      /\ [i \in DOMAIN h.out |-> h.out[i].type] = [i \in DOMAIN g.out |-> g.out[i].type]

(* No tile is lost or doubled when claimed tiles are overwritten in place by  *)
(* those at the end of the hand.                                              *)
TilesKept ==
  LET out == pool["host"].out
      InMelds(t) == Cardinality({p \in (DOMAIN out) \X (1 .. 4) :
                      p[2] <= Len(out[p[1]].card) /\ out[p[1]].card[p[2]] = t})
  IN  \A t \in Tile :
        BagOf(pool["host"].card)[t] + InMelds(t) + gone[t] + left[t] = Copies

(* Both arrays are well-formed and hold all tiles that they should.           *)
HandsKept == TypeOK /\ TilesKept

(* The guest is offered what its tiles allow, and all of it: a row for the    *)
(* next in turn, a pong with two, a kong with three or, for its own tile, with *)
(* a pong on the table.  The code finds equal tiles only side by side.        *)
OffersAreReal ==
  LET g == pool["guest"]
      b == BagOf(HandOf(g))
      t == current.tile
  IN  current # NoCheck =>
        /\ "eat" \in flag <=>
             current.next /\ \E r \in RowStarts :
               t \in r .. r + 2 /\ \A u \in (r .. r + 2) \ {t} : b[u] > 0
        /\ "pong" \in flag <=> ~current.own /\ b[t] >= 2
        /\ "kang" \in flag <=>
             \/ b[t] >= 3
             \/ current.own /\ \E i \in DOMAIN g.out : g.out[i].type = 2 /\ g.out[i].card[1] = t

(* The win is offered exactly when the hand with the tile is a pair and groups *)
(* of three, which is what check_make() says it looks for.                     *)
WinIffSplits ==
  current # NoCheck =>
    ("make" \in flag <=> Splits(BagOf(Append(HandOf(pool["guest"]), current.tile))))
=============================================================================
