----------------------------- MODULE Settlement -----------------------------
(***************************************************************************)
(* Who pays what.  When a hand is won every process at the table runs      *)
(* process_make() on what it knows itself: who drew the tile that is out,  *)
(* who is dealer and for how long, whether a kong was just made, who has   *)
(* not thrown yet, whose flowers lie open, and everybody's money.  The     *)
(* host reports its own result to the lobby; the others keep theirs.       *)
(*                                                                         *)
(* Round.tla has the order of the messages: the next move is made by a     *)
(* player who has heard of the last one.  So a move changes here what      *)
(* every process knows, each as its own handler does, while the settlement *)
(* happens at each process in its own time.  What the tiles are worth is   *)
(* Tai.tla's part.                                                         *)
(***************************************************************************)
EXTENDS Integers, Sequences, FiniteSets

CONSTANTS
  Seated,     \* the seats that are taken, table[]; the host has seat 1
  Base,       \* info.base_value
  Value,      \* info.tai_value
  Start,      \* everybody's money at the start, by seat
  TileScores, \* bound: what the tiles of a hand may count
  MaxRounds,  \* bound: deals
  Doors,      \* bound: the seats whose flower of the door is in the deck
  AddedWins   \* bound, BOOLEAN: may the hand that added a kong to a pong win, or a
              \* new one be dealt, before it throws?

Seats == 1 .. 4
Host  == 1

ASSUME SeatedAssumption == Seated \subseteq Seats /\ Host \in Seated
ASSUME PaymentAssumption == Base \in Nat /\ Value \in Nat /\ Start \in [Seats -> Int]
ASSUME ScoresAssumption == TileScores \subseteq Nat
ASSUME BoundAssumption == MaxRounds \in Nat /\ Doors \subseteq Seats /\ AddedWins \in BOOLEAN

VARIABLES
  knows,    \* knows[p]: the globals of the process of the player at p, see Known
  phase,    \* what the player whose turn it is does next, see Phases
  wall,     \* card_point: tiles left, none, or more taken than there were to take
  replaced, \* what the last tile came in place of, see Replaced: not in the code
  win,      \* the MSG_MAKE under way: who wins, and what its tiles are worth
  settled,  \* wait_hit[]: who has settled
  reports,  \* MSG_WIN_GAME under way to the lobby
  account,  \* the money in the lobby's database
  rounds    \* deals so far

vars == <<knows, phase, wall, replaced, win, settled, reports, account, rounds>>

\* Money of an empty seat is a share of player[0].money.
Known ==
  [owner : Seated, kang : BOOLEAN,                \* card_owner, in_kang
   dealer : Seats, cont : Nat, wind : 1 .. 4,     \* info
   first : SUBSET Seats,                          \* first_round
   flowers : SUBSET Seats,                        \* pool[].flower: of the door
   money : [Seats -> Int]]                        \* player[table[]].money

Phases ==
  {"holding",  \* has drawn
   "melded",   \* has claimed a discard, and throws
   "kong", "added", "flower", \* draws in place of one of them
   "thrown",   \* has thrown
   "won"}

Replaced == {"nothing", "kong", "added", "flower"}

Turn == knows[Host].owner

\* next_turn().
NextTurn(s) ==
  CHOOSE t \in Seated : \E d \in 1 .. 4 :
    /\ t = ((s + d - 1) % 4) + 1
    /\ \A e \in 1 .. d - 1 : ((s + e - 1) % 4) + 1 \notin Seated

-----------------------------------------------------------------------------
(* A round.                                                                 *)

\* opening() and open_deal() at the process of p; flowers were dealt if any, and to
\* the seats fs one of their door.  Guests only see that there was a flower.
Dealt(p, k, any, fs) ==
  [k EXCEPT !.owner = IF k.dealer \in Seated THEN k.dealer ELSE NextTurn(k.dealer),
            !.first = Seats,
            !.flowers = IF p = Host THEN fs ELSE {},
            !.kang = @ \/ any]

DealtFlowers == {f \in [any : BOOLEAN, doors : SUBSET (Doors \cap Seated)] : f.doors # {} => f.any}

\* A new deal, after k at every process.
Deal(k) ==
  /\ rounds < MaxRounds /\ rounds' = rounds + 1
  /\ \E f \in DealtFlowers : knows' = [p \in Seated |-> Dealt(p, k[p], f.any, f.doors)]
  /\ phase' = "holding" /\ wall' = "more" /\ replaced' = "nothing"
  /\ settled' = {}
  /\ UNCHANGED <<win, reports, account>>

\* send_one_card(), or action_draw_card() of the host: MSG_CARD_OWNER and
\* MSG_CARD_POINT go to everybody.
Draw(s) ==
  /\ \/ phase = "thrown" /\ wall = "more" /\ s = NextTurn(Turn) /\ replaced' = "nothing"
     \/ phase \in Replaced /\ s = Turn /\ replaced' = phase
  /\ knows' = [p \in Seated |-> [knows[p] EXCEPT !.owner = s]]
  /\ wall' \in IF wall = "more" THEN {"more", "last"} ELSE {"beyond"}
  /\ phase' = "holding"
  /\ UNCHANGED <<win, settled, reports, account, rounds>>

\* Mutant: the host does not forget the kong.
AfterThrowHost(p, s) ==
  [knows[p] EXCEPT !.kang = IF p = Host THEN @ ELSE FALSE, !.first = @ \ {s}]

\* Mutant: who looks on does not note that s has thrown.
AfterThrowUnseen(p, s) ==
  [knows[p] EXCEPT !.kang = FALSE, !.first = IF p \in {s, Host} THEN @ \ {s} ELSE @]

\* action_throw_card(), MSG_THROW_CARD at the host, MSG_CARD_THROWN.
AfterThrow(p, s) == [knows[p] EXCEPT !.kang = FALSE, !.first = @ \ {s}]

Throw ==
  /\ phase \in {"holding", "melded"}
  /\ knows' = [p \in Seated |-> AfterThrow(p, Turn)]
  /\ phase' = "thrown"
  /\ UNCHANGED <<wall, replaced, win, settled, reports, account, rounds>>

\* MSG_SHOW_EPK of s at the process of p.  draw_epk() notes a kong; a guest that
\* hears of a kong added to a pong does not get there.
AfterMeld(p, s, kong, added) ==
  [knows[p] EXCEPT !.owner = s,
                   !.kang = @ \/ (kong /\ (added => p \in {s, Host}))]

\* process_epk(): a discard is claimed.
Claim(s, kong) ==
  /\ phase = "thrown" /\ s \in Seated \ {Turn}
  /\ knows' = [p \in Seated |-> AfterMeld(p, s, kong, FALSE)]
  /\ phase' = IF kong THEN "kong" ELSE "melded"
  /\ UNCHANGED <<wall, replaced, win, settled, reports, account, rounds>>

\* process_epk(): a kong of drawn tiles, or of a drawn tile and a pong.
Kong(added) ==
  /\ phase = "holding"
  /\ knows' = [p \in Seated |-> AfterMeld(p, Turn, TRUE, added)]
  /\ phase' = IF added THEN "added" ELSE "kong"
  /\ UNCHANGED <<wall, replaced, win, settled, reports, account, rounds>>

\* check_flower() at the one who drew it, MSG_FLOWER at the others, which take the
\* tile for the seat and look for a place the message has not got; door if it is
\* the flower of the seat.
Flower(door) ==
  /\ phase = "holding" /\ (door => Turn \in Doors)
  /\ knows' = [p \in Seated |->
       [knows[p] EXCEPT !.kang = TRUE,
                        !.flowers = IF door /\ p = Turn THEN @ \cup {p} ELSE @]]
  /\ phase' = "flower"
  /\ UNCHANGED <<wall, replaced, win, settled, reports, account, rounds>>

JustAdded == phase = "added" \/ (phase = "holding" /\ replaced = "added")

\* compare_check() grants a win.
Win(s) ==
  /\ \/ phase = "holding" /\ s = Turn /\ (JustAdded => AddedWins)
     \/ phase = "thrown" /\ s \in Seated \ {Turn}
  /\ phase' = "won"
  /\ \E t \in TileScores : win' = [sit |-> s, tiles |-> t]
  /\ settled' = {}
  /\ UNCHANGED <<knows, wall, replaced, reports, account, rounds>>

\* The wall is used up: the dealer stays, and everybody counts that.
SeaBottom ==
  /\ phase = "thrown" /\ wall # "more"
  /\ Deal([p \in Seated |-> [knows[p] EXCEPT !.cont = @ + 1]])

\* /NEW of the host.
New == phase # "won" /\ (JustAdded => AddedWins) /\ Deal(knows)

-----------------------------------------------------------------------------
(* process_make() at the process that knows k.                              *)

\* What is known of the score beside the tiles: check_tai0, 2, 5, 6 and 7, 16, 49 to
\* 51, and 52.
Score(k) ==
  LET If(b, n) == IF b THEN n ELSE 0 IN
  win.tiles
  + If(win.sit = k.dealer, 1)
  + If(win.sit = k.owner, 1)
  + If(k.kang, 1)
  + If(wall = "last", 1)
  + If(win.sit \in k.flowers, 1)
  + If(win.sit \in k.first, 16)
  + If(win.sit = k.dealer, 2 * k.cont)

\* Mutant: a dealer that pays adds only the rounds it stayed.
DueStayedOnly(k, i) ==
  Base + (IF i = k.dealer THEN Score(k) + k.cont * 2 ELSE Score(k)) * Value

\* What the player at i pays to the winner.
Due(k, i) ==
  Base + (IF i = k.dealer THEN Score(k) + 1 + k.cont * 2 ELSE Score(k)) * Value

Pays(k, i) == i # win.sit /\ (win.sit = k.owner \/ i = k.owner)

\* Mutant: of three who pay the winner gets only what the discarder would.
ChangeOne(k) ==
  LET Paid(i) == IF Pays(k, i) THEN Due(k, i) ELSE 0
  IN  [i \in Seats |-> IF i = win.sit THEN Paid(NextTurn(i)) ELSE -Paid(i)]

\* change_money[].
Change(k) ==
  LET Paid(i) == IF Pays(k, i) THEN Due(k, i) ELSE 0
  IN  [i \in Seats |-> IF i = win.sit THEN Paid(1) + Paid(2) + Paid(3) + Paid(4) ELSE -Paid(i)]

\* A dealer that wins stays; otherwise the next seat is dealer, whether taken or
\* not, and the wind of the round turns with the first.
Rotated(k) ==
  IF win.sit = k.dealer THEN [k EXCEPT !.cont = @ + 1]
  ELSE [k EXCEPT !.dealer = (@ % 4) + 1, !.cont = 0,
                 !.wind = IF k.dealer = 4 THEN (@ % 4) + 1 ELSE @]

\* Mutant: the money before the win is reported.
ReportsBefore(k) ==
  LET Report(i) == IF i \in Seated THEN <<[who |-> i, money |-> k.money[i]]>> ELSE <<>>
  IN  Report(1) \o Report(2) \o Report(3) \o Report(4)

\* MSG_WIN_GAME for those who sit.
Reports(k) ==
  LET Report(i) == IF i \in Seated THEN <<[who |-> i, money |-> k.money[i] + Change(k)[i]]>>
                   ELSE <<>>
  IN  Report(1) \o Report(2) \o Report(3) \o Report(4)

\* What process_make() leaves.
AfterWin(k) == [Rotated(k) EXCEPT !.money = [i \in Seats |-> k.money[i] + Change(k)[i]]]

\* The process of p settles and tells the host that its player has seen it.
Settle(p) ==
  /\ phase = "won" /\ p \in Seated \ settled
  /\ knows' = [knows EXCEPT ![p] = AfterWin(@)]
  /\ settled' = settled \cup {p}
  /\ reports' = IF p = Host THEN reports \o Reports(knows[p]) ELSE reports
  /\ UNCHANGED <<phase, wall, replaced, win, account, rounds>>

\* Everybody has seen the win.
NewRound == phase = "won" /\ settled = Seated /\ Deal(knows)

\* MSG_WIN_GAME at the lobby.
LobbyHears ==
  /\ reports # <<>> /\ reports' = Tail(reports)
  /\ account' = [account EXCEPT ![Head(reports).who] = Head(reports).money]
  /\ UNCHANGED <<knows, phase, wall, replaced, win, settled, rounds>>

-----------------------------------------------------------------------------
\* A game that starts, before its first deal.
Fresh ==
  [owner |-> Host, kang |-> FALSE, dealer |-> 1, cont |-> 0, wind |-> 1,
   first |-> Seats, flowers |-> {}, money |-> Start]

Init ==
  /\ \E f \in DealtFlowers : knows = [p \in Seated |-> Dealt(p, Fresh, f.any, f.doors)]
  /\ phase = "holding" /\ wall = "more" /\ replaced = "nothing"
  /\ win = [sit |-> Host, tiles |-> 0]
  /\ settled = {} /\ reports = <<>>
  /\ account = Start
  /\ rounds = 1

Next ==
  \/ \E s \in Seats : Draw(s) \/ Win(s) \/ (\E kong \in BOOLEAN : Claim(s, kong))
  \/ Throw \/ (\E door \in BOOLEAN : Flower(door)) \/ (\E added \in BOOLEAN : Kong(added))
  \/ SeaBottom \/ New \/ NewRound \/ LobbyHears
  \/ \E p \in Seated : Settle(p)

Spec == Init /\ [][Next]_vars

-----------------------------------------------------------------------------
(* Properties.                                                              *)

TypeOK ==
  /\ knows \in [Seated -> Known]
  /\ phase \in Phases /\ wall \in {"more", "last", "beyond"} /\ replaced \in Replaced
  /\ win \in [sit : Seated, tiles : Nat]
  /\ settled \subseteq Seated
  /\ reports \in Seq([who : Seated, money : Int])
  /\ account \in [Seats -> Int]
  /\ rounds \in Nat

(* What one player wins the others lose: in every process's book the money of *)
(* the four seats adds up to what it was at the start, empty seats included.  *)
Sum(m) == m[1] + m[2] + m[3] + m[4]
SumsKept == \A p \in Seated : Sum(knows[p].money) = Sum(Start)

(* Every book is well-formed and nothing in it is made or lost.               *)
BooksSound == TypeOK /\ SumsKept

(* The processes settle by themselves, each from what it has heard, and come  *)
(* to the same money, dealer, wind and count of the dealer's rounds.          *)
BooksAgree ==
  \A p, q \in Seated : (p \in settled <=> q \in settled) =>
    /\ knows[p].money = knows[q].money
    /\ knows[p].dealer = knows[q].dealer
    /\ knows[p].cont = knows[q].cont /\ knows[p].wind = knows[q].wind

(* The lobby has the money the host has, as soon as it has read the reports.  *)
AccountsMatch ==
  reports = <<>> => \A i \in Seated : account[i] = knows[Host].money[i]

(* A payment has the dealer's stake, one and two for each round it stayed, if *)
(* the dealer pays or is paid, and has it once: a dealer that wins has it as   *)
(* two scores of the hand, and one that pays as an addition to the sum.       *)
DealerStake ==
  phase = "won" => \A p \in Seated \ settled :
    LET k == knows[p]
        drawn == win.sit = k.owner
        bare == win.tiles + (IF drawn THEN 1 ELSE 0) + (IF k.kang THEN 1 ELSE 0)
                + (IF wall = "last" THEN 1 ELSE 0) + (IF win.sit \in k.flowers THEN 1 ELSE 0)
                + (IF win.sit \in k.first THEN 16 ELSE 0)
        payers == IF drawn THEN Seats \ {win.sit} ELSE {k.owner}
    IN  \A i \in Seats \ {win.sit} :
          Change(k)[i] =
            IF i \notin payers THEN 0
            ELSE -(Base + (bare + (IF k.dealer \in {i, win.sit} THEN 1 + 2 * k.cont ELSE 0)) * Value)

(* A kong counts at the win with the tile that was drawn in its place, at     *)
(* every process, and at no other; the hand that is dealt is left out, since  *)
(* the flag outlives the round before.                                        *)
KongCounted ==
  phase = "won" /\ settled = {} /\ win.sit \notin knows[Host].first =>
    \A p \in Seated : knows[p].kang <=> (replaced # "nothing" /\ win.sit = knows[p].owner)
=============================================================================
