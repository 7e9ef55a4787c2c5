------------------------------- MODULE Round -------------------------------
(***************************************************************************)
(* The round engine of a QKMJ table.  The client that opened the table is  *)
(* its host: it owns the tiles, runs the main loop of qkmjclient/qkmj.c    *)
(* and speaks to the other clients, the guests, over one TCP connection    *)
(* each.  One iteration of the loop handles the keys typed at the host,    *)
(* then at most one message of each guest in the order of their numbers,   *)
(* and then runs four stages in order: the next deal when everybody has    *)
(* seen a win, the verdict on the claims, the next player's turn, and the  *)
(* tile a guest has asked for.                                             *)
(*                                                                         *)
(* A tile is the set of things it is good for when it is drawn; which      *)
(* tiles come, and who can claim a discard, is left open, within what the  *)
(* constants allow.  A player that leaves, /NEW and the screens are not    *)
(* here.                                                                   *)
(***************************************************************************)
EXTENDS Integers, Sequences, FiniteSets

CONSTANTS
  Seated,      \* occupied seats, as many as /NUM says; the host's is seat 1
  Wall,        \* tiles drawn before the sea bottom, the last 16 of the deck
  Flowers,     \* flower tiles that can be drawn in a round
  MaxMelds,    \* sets a player lays open in a round: 5 in the game
  Tiles,       \* what drawn tiles can be
  HostDealt,   \* what the 17th tile of a host that is dealer can be
  GuestDealt,  \* what the 17th tile of a guest that is dealer can be
  DealtFlower, \* BOOLEAN: can a guest that is dealer be dealt a flower?
  HostFlower,  \* BOOLEAN: can the host draw a flower?
  Claims,      \* what a discard can be good for, for one player
  Hasty,       \* BOOLEAN: do players discard before a verdict they wait for?
  PlayOn       \* BOOLEAN: is a round that follows a sea bottom played?

Host   == 1
Guests == Seated \ {Host}
Calls  == {"eat", "pong", "kang", "make"}
Flower == {"flower"}

ASSUME RoundAssumption ==
  /\ Seated \subseteq 1 .. 4 /\ Host \in Seated
  /\ Wall \in Nat \ {0} /\ Flowers \in Nat /\ MaxMelds \in Nat \ {0}
  /\ Tiles \subseteq (SUBSET {"kang", "added", "make"}) \cup {Flower}
  /\ HostDealt \subseteq SUBSET {"kang", "make"} /\ HostDealt # {}
  /\ GuestDealt \subseteq SUBSET {"kang", "make"} /\ GuestDealt # {}
  /\ {} \in Tiles
  /\ Claims \subseteq SUBSET Calls /\ {} \in Claims
  /\ {DealtFlower, HostFlower, Hasty, PlayOn} \subseteq BOOLEAN

VARIABLES
  host,     \* the globals of the host's process, see Hosts
  seat,     \* seat[s]: what the process of the player at s knows of its hand
  toGuest,  \* toGuest[g]: messages under way from the host to guest g
  toHost,   \* toHost[g]: messages under way from guest g to the host
  pile,     \* tiles that went from hands to the table, beyond 3 for each meld
  loop      \* where the main loop is, and the last guest it heard

vars == <<host, seat, toGuest, toHost, pile, loop>>

Hosts ==
  [turn : Seated, owner : Seated, dealer : 1 .. 4,
   wall : Int,                           \* 128 - card_point
   flowers : 0 .. Flowers,
   card : Tiles \cup HostDealt \cup GuestDealt,  \* current_card, if just drawn
   checkOn : BOOLEAN, inCheck : [Seated -> BOOLEAN],
   checkFor : [Seated -> Calls \cup {"pass"}],
   nextReq : BOOLEAN, nextOn : BOOLEAN,  \* next_player_request, .._on
   sendReq : BOOLEAN, sendOn : BOOLEAN,  \* send_card_request, .._on
   getting : BOOLEAN,                    \* getting_card
   waiting : BOOLEAN, waitHit : [Seated -> BOOLEAN],
   drawn : BOOLEAN]                      \* a round has ended at the sea bottom

Hands ==
  [mode  : {"wait", "get", "throw"},     \* play_mode
   asked : BOOLEAN,                      \* input_mode is CHECK_MODE
   offer : SUBSET (Calls \cup {"added"}), \* check_flag[my_sit]
   extra : BOOLEAN,                      \* a 17th tile is held
   melds : 0 .. MaxMelds, pongs : 0 .. MaxMelds]

Kinds == {"eat", "pong", "kang", "concealed", "added"}  \* 7-9, 2, 3, 11, 12

GuestMessages ==
  [type : {"NEW_ROUND", "CAN_GET", "MAKE"}]
    \cup [type : {"GET_CARD", "CHANGE_CARD"}, card : Tiles \cup GuestDealt \cup {Flower}]
    \cup [type : {"CHECK_CARD"}, offer : SUBSET (Calls \cup {"added"})]
    \cup [type : {"EPK"}, kind : Kinds]

HostMessages ==
  [type : {"REQUEST_CARD", "FLOWER", "WAIT_HIT", "SHOW_EPK", "THROW_CARD"}]
    \cup [type : {"CHECK_RESULT"}, action : Calls \cup {"pass"}]

Stages == <<"waiting", "check", "next", "send">>

NoClaims == [s \in Seated |-> "pass"]
Nobody   == [s \in Seated |-> FALSE]
Empty    == [mode |-> "wait", asked |-> FALSE, offer |-> {}, extra |-> FALSE,
             melds |-> 0, pongs |-> 0]

-----------------------------------------------------------------------------
(* Seats, messages and the stages of an iteration.                          *)

\* The next occupied seat.
NextTurn(s) ==
  LET After(k) == ((s - 1 + k) % 4) + 1
  IN  After(CHOOSE k \in 1 .. 4 : /\ After(k) \in Seated
                                  /\ \A j \in 1 .. k - 1 : After(j) \notin Seated)

\* Queues toGuest with the messages ms[g] added for each guest.
Sent(ms) == [g \in Guests |-> toGuest[g] \o ms[g]]
SentTo(s, ms) == Sent([g \in Guests |-> IF g = s THEN ms ELSE <<>>])
SentAll(m) == Sent([g \in Guests |-> <<m>>])
Reported(g, m) == toHost' = [toHost EXCEPT ![g] = Append(@, m)]

\* A stage runs when its condition holds as the loop reaches it.
Due(h, stage) ==
  CASE stage = "waiting" -> h.waiting /\ \A s \in Seated : h.waitHit[s]
    [] stage = "check"   -> h.checkOn /\ \A s \in Seated : ~h.inCheck[s]
    [] stage = "next"    -> h.nextReq /\ h.nextOn
    [] stage = "send"    -> h.sendReq /\ h.sendOn

SomethingDue(h) == \E i \in 1 .. 4 : Due(h, Stages[i])

\* The loop goes on with the first stage from the n-th that has work.
GoOn(h, n) ==
  LET due == {i \in n .. 4 : Due(h, Stages[i])}
  IN  loop' = [at |-> IF due = {} THEN "listen"
                      ELSE Stages[CHOOSE i \in due : \A j \in due : i <= j],
               heard |-> 0]

\* Keys come first in an iteration.  Iterations with nothing to do leave no
\* trace, so a new one may start whenever no stage has work.
AtKeys == loop.at = "listen" /\ (loop.heard = 0 \/ ~SomethingDue(host))
Typed  == loop' = [loop EXCEPT !.heard = 0]

-----------------------------------------------------------------------------
(* Tiles.                                                                   *)

Offer(t) == t \ Flower

\* Can t be the next tile that the player at s draws?
Drawable(s, t) ==
  /\ t = Flower    => host.flowers > 0 /\ (s = Host => HostFlower)
  /\ "added" \in t => seat[s].pongs > 0
  /\ "kang" \in t  => seat[s].melds < MaxMelds

Spent(t) == IF t = Flower THEN 1 ELSE 0

\* What a discard of the player at s may be good for.  No more than one of the
\* others holds two of its kind, and the next in turn alone can eat it.
Discards(s) ==
  {d \in [Seated -> Claims] :
     /\ d[s] = {}
     /\ \A u \in Seated :
          /\ "eat" \in d[u] => u = NextTurn(host.turn)
          /\ "kang" \in d[u] => "pong" \in d[u]
          /\ d[u] \subseteq {"make"} \/ seat[u].melds < MaxMelds
     /\ \A u, v \in Seated : "pong" \in d[u] \cap d[v] => u = v}

\* Mutant: every claim, a kong too, is followed by a discard.
MeldedThrow(p, kind) ==
  [p EXCEPT !.mode  = "throw",
            !.extra = kind \in {"eat", "pong"},
            !.melds = IF kind = "added" THEN @ ELSE @ + 1,
            !.pongs = CASE kind = "pong"  -> @ + 1
                        [] kind = "added" -> @ - 1
                        [] OTHER          -> @]

\* The hand of a player whose claim of this kind was granted, and the pile.
Melded(p, kind) ==
  [p EXCEPT !.mode  = IF kind \in {"eat", "pong"} THEN "throw" ELSE "get",
            !.extra = kind \in {"eat", "pong"},
            !.melds = IF kind = "added" THEN @ ELSE @ + 1,
            !.pongs = CASE kind = "pong"  -> @ + 1
                        [] kind = "added" -> @ - 1
                        [] OTHER          -> @]

PileAfter(kind) == CASE kind \in {"eat", "pong"} -> pile - 1
                     [] kind = "kang"            -> pile
                     [] OTHER                    -> pile + 1

-----------------------------------------------------------------------------
(* A deal: opening() and open_deal(), and MSG_NEW_ROUND or MSG_INIT_SCREEN  *)
(* before them.  t is the dealer's 17th tile; for a guest, flower says that *)
(* it took the place of a flower that was dealt first.  The flags .._on and *)
(* .._request are left as they are.  When t offers the dealer something the *)
(* host asks the player of its own process, whoever is the dealer.          *)

FirstTurn(h) == IF h.dealer \in Seated THEN h.dealer ELSE NextTurn(h.dealer)

\* Mutant: the wall goes on where the last round left it.
OpenedOldWall(h, t, flower) ==
  [h EXCEPT !.turn = FirstTurn(h), !.owner = FirstTurn(h),
            !.flowers = IF flower THEN Flowers - 1 ELSE Flowers,
            !.card = t, !.checkOn = t # {}, !.getting = t # {},
            !.inCheck = [s \in Seated |-> s = FirstTurn(h) /\ t # {}],
            !.checkFor = NoClaims, !.waitHit = Nobody]

Opened(h, t, flower) ==
  [h EXCEPT !.turn = FirstTurn(h), !.owner = FirstTurn(h),
            !.wall = IF flower THEN Wall - 1 ELSE Wall,
            !.flowers = IF flower THEN Flowers - 1 ELSE Flowers,
            !.card = t, !.checkOn = t # {}, !.getting = t # {},
            !.inCheck = [s \in Seated |-> s = FirstTurn(h) /\ t # {}],
            !.checkFor = NoClaims, !.waitHit = Nobody]

Deal(h, t, flower) ==
  LET first == FirstTurn(h)
      mine  == IF first = Host THEN t ELSE seat[Host].offer
  IN
  /\ t \in IF first = Host THEN HostDealt ELSE GuestDealt
  /\ flower => first # Host /\ DealtFlower /\ Flowers > 0
  /\ host' = Opened(h, t, flower)
  /\ seat' = [seat EXCEPT ![Host] =
       [Empty EXCEPT !.mode  = IF first = Host THEN "throw" ELSE "wait",
                     !.extra = first = Host,
                     !.asked = t # {}, !.offer = mine]]
  /\ toGuest' = Sent([g \in Guests |->
       <<[type |-> "NEW_ROUND"]>> \o
         IF g # first THEN <<>>
         ELSE IF flower THEN <<[type |-> "GET_CARD", card |-> Flower],
                               [type |-> "CHANGE_CARD", card |-> t]>>
         ELSE <<[type |-> "GET_CARD", card |-> t]>>])
  /\ pile' = 0
  /\ UNCHANGED toHost

Deals(h) == \E t \in HostDealt \cup GuestDealt, flower \in BOOLEAN : Deal(h, t, flower)

-----------------------------------------------------------------------------
(* Guests.                                                                  *)

\* handle_serv_message(): guest g takes the next message, of the given type.
Takes(g, type) ==
  /\ toGuest[g] # <<>> /\ Head(toGuest[g]).type = type
  /\ toGuest' = [toGuest EXCEPT ![g] = Tail(@)]

Knows(g, p) == seat' = [seat EXCEPT ![g] = p] /\ UNCHANGED <<host, loop>>

\* MSG_NEW_ROUND, MSG_INIT_SCREEN: opening().
TakeNewRound(g) ==
  /\ Takes(g, "NEW_ROUND")
  /\ Knows(g, Empty) /\ UNCHANGED <<toHost, pile>>

TakeCanGet(g) ==
  /\ Takes(g, "CAN_GET")
  /\ Knows(g, [seat[g] EXCEPT !.mode = "get"]) /\ UNCHANGED <<toHost, pile>>

\* process_new_card(), and check_flower() for a flower: it is laid open and
\* the host is asked for another tile.
TakeCard(g) ==
  /\ Takes(g, "GET_CARD")
  /\ IF Head(toGuest[g]).card = Flower
     THEN /\ Knows(g, [seat[g] EXCEPT !.extra = FALSE])
          /\ pile' = pile + 1
          /\ Reported(g, [type |-> "FLOWER"])
     ELSE /\ Knows(g, [seat[g] EXCEPT !.mode = "throw", !.extra = TRUE])
          /\ UNCHANGED <<toHost, pile>>

\* change_card() of the 17th tile.
TakeChange(g) ==
  /\ Takes(g, "CHANGE_CARD")
  /\ Knows(g, [seat[g] EXCEPT !.extra = TRUE]) /\ UNCHANGED <<toHost, pile>>

\* init_check_mode().
TakeCheck(g) ==
  /\ Takes(g, "CHECK_CARD")
  /\ Knows(g, [seat[g] EXCEPT !.asked = TRUE, !.offer = Head(toGuest[g]).offer])
  /\ UNCHANGED <<toHost, pile>>

\* process_epk().
TakeEpk(g) ==
  /\ Takes(g, "EPK")
  /\ Knows(g, Melded(seat[g], Head(toGuest[g]).kind))
  /\ pile' = PileAfter(Head(toGuest[g]).kind)
  /\ Reported(g, [type |-> "SHOW_EPK"])

\* Mutant: the guest does not say that it has seen the result.
TakeMakeSilently(g) ==
  /\ Takes(g, "MAKE")
  /\ Knows(g, [seat[g] EXCEPT !.mode = "wait"])
  /\ UNCHANGED <<toHost, pile>>

\* process_make(): the player reads the result and presses a key.
TakeMake(g) ==
  /\ Takes(g, "MAKE")
  /\ Knows(g, [seat[g] EXCEPT !.mode = "wait"])
  /\ Reported(g, [type |-> "WAIT_HIT"])
  /\ UNCHANGED pile

GuestReceive(g) ==
  \/ TakeNewRound(g) \/ TakeCanGet(g) \/ TakeCard(g) \/ TakeChange(g)
  \/ TakeCheck(g)    \/ TakeEpk(g)    \/ TakeMake(g)

\* The keys of a guest: write_check(), action_draw_card(), action_throw_card().
CallsOf(s) == {"pass"} \cup {IF c = "added" THEN "kang" ELSE c : c \in seat[s].offer}

GuestAnswer(g) ==
  /\ seat[g].asked
  /\ \E c \in CallsOf(g) : Reported(g, [type |-> "CHECK_RESULT", action |-> c])
  /\ Knows(g, [seat[g] EXCEPT !.asked = FALSE, !.offer = {}])
  /\ UNCHANGED <<toGuest, pile>>

GuestDraw(g) ==
  /\ seat[g].mode = "get" /\ ~seat[g].asked
  /\ Knows(g, [seat[g] EXCEPT !.mode = "wait"])
  /\ Reported(g, [type |-> "REQUEST_CARD"])
  /\ UNCHANGED <<toGuest, pile>>

\* A player that has called kong or win on its own draw is to wait for the
\* verdict; nothing in its process holds it back.
Undecided(s) ==
  \/ host.checkFor[s] # "pass"
  \/ /\ s \in Guests
     /\ \/ \E i \in DOMAIN toHost[s] :
             toHost[s][i].type = "CHECK_RESULT" /\ toHost[s][i].action # "pass"
        \/ \E i \in DOMAIN toGuest[s] : toGuest[s][i].type \in {"EPK", "MAKE"}

GuestThrow(g) ==
  /\ seat[g].mode = "throw" /\ ~seat[g].asked /\ (Undecided(g) => Hasty)
  /\ Knows(g, [seat[g] EXCEPT !.mode = "wait", !.extra = FALSE])
  /\ Reported(g, [type |-> "THROW_CARD"])
  /\ pile' = pile + 1
  /\ UNCHANGED toGuest

-----------------------------------------------------------------------------
(* Keys typed at the host.                                                  *)

\* Mutant: the answer is noted and the question left open.
AnsweredOpen(s, c) == [host EXCEPT !.checkFor[s] = c]

\* The answer c of the player at s is in.
Answered(s, c) == [host EXCEPT !.inCheck[s] = FALSE, !.checkFor[s] = c]

HostAnswer ==
  /\ AtKeys /\ Typed
  /\ seat[Host].asked
  /\ \E c \in CallsOf(Host) : host' = Answered(Host, c)
  /\ seat' = [seat EXCEPT ![Host].asked = FALSE]
  /\ UNCHANGED <<toGuest, toHost, pile>>

\* action_draw_card().  For a flower check_flower() takes a second tile off the
\* wall, puts it nowhere and lets the host draw again.
HostDraw(t) ==
  LET h == [host EXCEPT !.owner = Host, !.card = t, !.getting = TRUE,
                        !.inCheck[Host] = Offer(t) # {},
                        !.checkOn = @ \/ Offer(t) # {},
                        !.flowers = @ - Spent(t)]
  IN
  /\ AtKeys /\ Typed
  /\ seat[Host].mode = "get" /\ ~seat[Host].asked
  /\ Drawable(Host, t)
  /\ IF t = Flower
     THEN /\ host' = [h EXCEPT !.wall = @ - 2]
          /\ seat' = [seat EXCEPT ![Host].offer = {}]
          /\ pile' = pile + 1
     ELSE /\ host' = [h EXCEPT !.wall = @ - 1]
          /\ seat' = [seat EXCEPT ![Host] =
               [@ EXCEPT !.mode = "throw", !.extra = TRUE,
                         !.offer = t, !.asked = t # {}]]
          /\ UNCHANGED pile
  /\ UNCHANGED <<toGuest, toHost>>

\* The questions a discard raises at the seats in S.
Questions(d, S) ==
  Sent([g \in Guests |-> IF g \in S /\ d[g] # {}
                         THEN <<[type |-> "CHECK_CARD", offer |-> d[g]]>>
                         ELSE <<>>])

\* Mutant: getting_card survives the discard.
DiscardedStillGetting(asked) ==
  [host EXCEPT !.card = {}, !.checkOn = TRUE,
               !.sendOn = FALSE, !.nextOn = FALSE, !.inCheck = asked]

\* The host after a discard: the turn stands still until the claims are decided.
Discarded(asked) ==
  [host EXCEPT !.card = {}, !.getting = FALSE, !.checkOn = TRUE,
               !.sendOn = FALSE, !.nextOn = FALSE, !.inCheck = asked]

\* action_throw_card().
HostThrow ==
  /\ AtKeys /\ Typed
  /\ seat[Host].mode = "throw" /\ ~seat[Host].asked
  /\ Undecided(Host) => Hasty
  /\ \E d \in Discards(Host) :
       /\ host' = Discarded([s \in Seated |-> s # Host /\ d[s] # {}])
       /\ toGuest' = Questions(d, Guests)
  /\ seat' = [seat EXCEPT ![Host].mode = "wait", ![Host].extra = FALSE]
  /\ pile' = pile + 1
  /\ UNCHANGED toHost

-----------------------------------------------------------------------------
(* handle_client_message(): the host hears one message of guest g.          *)

Hears(g, type) ==
  /\ loop.at = "listen"
  /\ g > loop.heard \/ ~SomethingDue(host)
  /\ toHost[g] # <<>> /\ Head(toHost[g]).type = type
  /\ toHost' = [toHost EXCEPT ![g] = Tail(@)]
  /\ loop' = [loop EXCEPT !.heard = g]
  /\ UNCHANGED pile

\* Mutant: a laid flower is not followed by another tile.
HearRequestOnly(g) ==
  /\ \/ Hears(g, "REQUEST_CARD") /\ host' = [host EXCEPT !.sendReq = TRUE]
     \/ Hears(g, "FLOWER") /\ UNCHANGED host
  /\ UNCHANGED <<seat, toGuest>>

HearRequest(g) ==
  /\ Hears(g, "REQUEST_CARD") \/ Hears(g, "FLOWER")
  /\ host' = [host EXCEPT !.sendReq = TRUE]
  /\ UNCHANGED <<seat, toGuest>>

\* MSG_THROW_CARD: everybody but the player whose turn it is is asked anew.
HearThrow(g) ==
  /\ Hears(g, "THROW_CARD")
  /\ \E d \in Discards(g) :
       /\ host' = Discarded([s \in Seated |->
                    IF s \in Guests /\ s = host.turn THEN host.inCheck[s]
                    ELSE d[s] # {}])
       /\ seat' = [seat EXCEPT ![Host].offer = d[Host],
                               ![Host].asked = @ \/ d[Host] # {}]
       /\ toGuest' = Questions(d, Guests \ {host.turn})

HearWaitHit(g) ==
  /\ Hears(g, "WAIT_HIT")
  /\ host' = [host EXCEPT !.waitHit[g] = TRUE]
  /\ UNCHANGED <<seat, toGuest>>

HearResult(g) ==
  /\ Hears(g, "CHECK_RESULT")
  /\ host' = Answered(g, Head(toHost[g]).action)
  /\ UNCHANGED <<seat, toGuest>>

HearShowEpk(g) ==
  /\ Hears(g, "SHOW_EPK")
  /\ host' = [host EXCEPT !.turn = g, !.owner = g]
  /\ UNCHANGED <<seat, toGuest>>

Hear(g) == \/ HearRequest(g) \/ HearThrow(g) \/ HearWaitHit(g)
           \/ HearResult(g)  \/ HearShowEpk(g)

\* Every guest had its turn to be heard in this iteration.
EndInput ==
  /\ loop.at = "listen" /\ SomethingDue(host)
  /\ GoOn(host, 1)
  /\ UNCHANGED <<host, seat, toGuest, toHost, pile>>

-----------------------------------------------------------------------------
(* The stages of an iteration.                                              *)

\* Everybody has seen the result of the last round.
NewRound ==
  /\ loop.at = "waiting"
  /\ Deals([host EXCEPT !.waiting = FALSE])
  /\ GoOn(host', 2)

\* Mutant: the claims of one verdict are still there at the next.
ComparedStale == [host EXCEPT !.checkOn = FALSE, !.nextOn = TRUE, !.sendOn = TRUE,
                              !.nextReq = FALSE, !.getting = FALSE]

\* compare_check(): what every verdict leaves behind.
Compared == [host EXCEPT !.checkOn = FALSE, !.nextOn = TRUE, !.sendOn = TRUE,
                         !.nextReq = FALSE, !.checkFor = NoClaims,
                         !.getting = FALSE]

Callers(c) == {s \in Seated : host.checkFor[s] = c}
Lowest(S)  == CHOOSE s \in S : \A u \in S : s <= u

\* The first who calls win, from the player after the owner of the tile.
Winner ==
  LET Turns[k \in 0 .. 4] == IF k = 0 THEN host.owner ELSE NextTurn(Turns[k - 1])
      k == CHOOSE k \in 1 .. 4 : /\ Turns[k] \in Callers("make")
                                 /\ \A j \in 1 .. k - 1 : Turns[j] \notin Callers("make")
  IN  Turns[k]

\* The deal goes round, empty seats included, unless the dealer has won.
NextDealer(winner) == IF winner = host.dealer THEN winner ELSE (host.dealer % 4) + 1

\* process_make() at the host: it waits for everybody.
CheckMake ==
  /\ loop.at = "check" /\ Callers("make") # {}
  /\ host' = [Compared EXCEPT
       !.waiting = TRUE, !.waitHit[Host] = TRUE,
       !.dealer = NextDealer(Winner)]
  /\ seat' = [seat EXCEPT ![Host].mode = "wait"]
  /\ toGuest' = SentAll([type |-> "MAKE"])
  /\ UNCHANGED <<toHost, pile>>
  /\ GoOn(host', 3)

\* The claim c of the player at s is granted.
Grant(s, kind) ==
  /\ host' = [Compared EXCEPT !.owner = s, !.turn = s]
  /\ IF s = Host
     THEN /\ seat' = [seat EXCEPT ![Host] = Melded(@, kind)]
          /\ pile' = PileAfter(kind)
          /\ UNCHANGED toGuest
     ELSE /\ toGuest' = SentTo(s, <<[type |-> "EPK", kind |-> kind]>>)
          /\ UNCHANGED <<seat, pile>>
  /\ UNCHANGED toHost
  /\ GoOn(host', 3)

KangKind(s) == IF "added" \in host.card THEN "added"
               ELSE IF host.turn = s THEN "concealed" ELSE "kang"

CheckKang ==
  /\ loop.at = "check" /\ Callers("make") = {} /\ Callers("kang") # {}
  /\ LET s == Lowest(Callers("kang")) IN Grant(s, KangKind(s))

CheckPong ==
  /\ loop.at = "check" /\ Callers("make") \cup Callers("kang") = {}
  /\ Callers("pong") # {}
  /\ Grant(Lowest(Callers("pong")), "pong")

CheckEat ==
  /\ loop.at = "check" /\ Callers("eat") # {}
  /\ Callers("make") \cup Callers("kang") \cup Callers("pong") = {}
  /\ Grant(Lowest(Callers("eat")), "eat")

\* Mutant: the turn passes whoever the tile was offered to.
PassesOnAlways == TRUE

\* Nobody wants the tile: the turn passes unless it was the player's own draw.
PassesOn == ~host.getting

CheckNone ==
  /\ loop.at = "check" /\ host.checkFor = NoClaims
  /\ host' = [Compared EXCEPT !.nextReq = PassesOn]
  /\ UNCHANGED <<seat, toGuest, toHost, pile>>
  /\ GoOn(host', 3)

\* next_player().
NextPlayer ==
  LET next == NextTurn(host.turn) IN
  /\ loop.at = "next" /\ host.wall > 0
  /\ host' = [host EXCEPT !.turn = next, !.nextReq = FALSE]
  /\ IF next = Host
     THEN seat' = [seat EXCEPT ![Host].mode = "get"] /\ UNCHANGED toGuest
     ELSE toGuest' = SentTo(next, <<[type |-> "CAN_GET"]>>) /\ UNCHANGED seat
  /\ UNCHANGED <<toHost, pile>>
  /\ GoOn(host', 4)

\* The sea bottom: a drawn round, and a new deal by the same dealer.  Without
\* PlayOn the host goes no further.
SeaBottom ==
  /\ loop.at = "next" /\ host.wall <= 0
  /\ Deals([host EXCEPT !.drawn = TRUE])
  /\ IF PlayOn THEN GoOn(host', 4) ELSE loop' = [at |-> "over", heard |-> 0]

\* send_one_card(): the question comes before the tile.
SendCard(t) ==
  LET s == host.turn
      question == IF Offer(t) = {} THEN <<>>
                  ELSE <<[type |-> "CHECK_CARD", offer |-> t]>>
  IN
  /\ loop.at = "send" /\ Drawable(s, t)
  /\ host' = [host EXCEPT
       !.sendReq = FALSE, !.wall = @ - 1, !.flowers = @ - Spent(t),
       !.owner = s, !.card = t, !.inCheck[s] = Offer(t) # {},
       !.checkOn = @ \/ Offer(t) # {}, !.getting = @ \/ Offer(t) # {}]
  /\ toGuest' = SentTo(s, question \o <<[type |-> "GET_CARD", card |-> t]>>)
  /\ UNCHANGED <<seat, toHost, pile>>
  /\ loop' = [at |-> "listen", heard |-> 0]

-----------------------------------------------------------------------------
(* The specification.                                                       *)

Init ==
  /\ host = [turn |-> Host, owner |-> Host, dealer |-> Host, wall |-> Wall,
             flowers |-> Flowers, card |-> {}, checkOn |-> FALSE,
             inCheck |-> Nobody, checkFor |-> NoClaims, nextReq |-> FALSE,
             nextOn |-> FALSE, sendReq |-> FALSE, sendOn |-> FALSE,
             getting |-> FALSE, waiting |-> FALSE, waitHit |-> Nobody,
             drawn |-> FALSE]
  /\ seat = [s \in Seated |-> Empty]
  /\ toGuest = [g \in Guests |-> <<>>] /\ toHost = [g \in Guests |-> <<>>]
  /\ pile = 0
  /\ loop = [at |-> "start", heard |-> 0]

\* The lobby server answers MSG_GAME_START_REQ: the table is complete.
StartGame ==
  /\ loop.at = "start"
  /\ Deals(host)
  /\ loop' = [at |-> "listen", heard |-> 0]

HostKey == \/ HostAnswer
           \/ \E t \in Tiles : HostDraw(t)
           \/ HostThrow

Stage == \/ NewRound \/ CheckMake \/ CheckKang \/ CheckPong \/ CheckEat
         \/ CheckNone \/ NextPlayer \/ SeaBottom
         \/ \E t \in Tiles : SendCard(t)

GuestKey(g) == GuestAnswer(g) \/ GuestDraw(g) \/ GuestThrow(g)

Next ==
  \/ StartGame \/ HostKey \/ EndInput \/ Stage
  \/ \E g \in Guests : GuestReceive(g) \/ GuestKey(g) \/ Hear(g)

\* The loop goes on, and select() reports every guest with a message; TCP
\* delivers; and players do not stop playing.
Fairness ==
  /\ WF_vars(StartGame \/ EndInput \/ Stage)
  /\ SF_vars(HostKey)
  /\ \A g \in Guests : /\ SF_vars(Hear(g))
                       /\ WF_vars(GuestReceive(g))
                       /\ WF_vars(GuestKey(g))

Spec == Init /\ [][Next]_vars /\ Fairness
-----------------------------------------------------------------------------
(* Properties.                                                              *)

TypeOK ==
  /\ host \in Hosts
  /\ seat \in [Seated -> Hands]
  /\ toGuest \in [Guests -> Seq(GuestMessages)]
  /\ toHost \in [Guests -> Seq(HostMessages)]
  /\ pile \in Int
  /\ loop \in [at : {"start", "listen", "over"} \cup {Stages[i] : i \in 1 .. 4},
               heard : {0} \cup Guests]

\* Messages of these types under way to, or from, the player at s.
Coming(s, types) == s \in Guests /\ \E i \in DOMAIN toGuest[s] : toGuest[s][i].type \in types
Going(s, types)  == s \in Guests /\ \E i \in DOMAIN toHost[s] : toHost[s][i].type \in types

\* The player at s has the next move of the round, or is about to.
Moving(s) ==
  \/ seat[s].mode \in {"get", "throw"} /\ ~Coming(s, {"NEW_ROUND", "MAKE"})
  \/ Coming(s, {"CAN_GET", "GET_CARD", "EPK"}) /\ ~Coming(s, {"MAKE"})
  \/ Going(s, {"REQUEST_CARD", "FLOWER", "THROW_CARD"})

\* A discard is on the table and somebody may still claim it.
Claimable == host.checkOn /\ ~host.getting

\* The player at s has a question, the question is on its way to it, or the
\* answer is on its way to the host.
Questioned(s) ==
  seat[s].asked \/ Coming(s, {"CHECK_CARD"}) \/ Going(s, {"CHECK_RESULT"})

(* in_check[] is the host's count of the answers it waits for: it is set for  *)
(* a player exactly while that player has a question or its answer is under   *)
(* way.  A set bit without a question stops the table for good; a question    *)
(* without a bit is a claim that comes too late.                              *)
AskedIffAwaited == \A s \in Seated : host.inCheck[s] <=> Questioned(s)

(* Nobody but the player whose turn it is at the host can draw, discard or    *)
(* have a tile under way, and nobody at all while a discard can be claimed,   *)
(* the turn is passing, or a win is on the screens.  The round that follows a  *)
(* sea bottom starts with a turn still to be passed: see OneTurn.             *)
OneMover ==
  \A s \in Seated : Moving(s) /\ ~host.drawn =>
    s = host.turn /\ ~Claimable /\ ~host.nextReq /\ ~host.waiting /\ ~host.sendReq

(* No two players have the move at once, in any round.                        *)
OneTurn == \A s, u \in Seated : Moving(s) /\ Moving(u) => s = u

(* The round always has a next step: a player to move, a question, a tile     *)
(* asked for, a turn to pass or a result to read.  None of the request and    *)
(* permission flags of the loop is ever lost between two messages.            *)
TurnNotLost ==
  loop.at # "start" =>
    \/ host.waiting \/ host.checkOn \/ host.nextReq \/ host.sendReq
    \/ \E s \in Seated : Moving(s)

(* A player discards from 17 tiles and draws to 16, melds counted as three:   *)
(* claims, kongs, flowers and draws leave no hand a tile long or short.       *)
HandsFit ==
  \A s \in Seated :
    /\ seat[s].mode = "throw" => seat[s].extra
    /\ seat[s].mode = "get" => ~seat[s].extra

(* Every process and connection is well-formed, and no hand is long or short. *)
HandsSound == TypeOK /\ HandsFit

(* A claim is kept no longer than the tile it was made for: outside a check   *)
(* check_for[] is empty and no answer is under way, so that no later tile is  *)
(* given away on an old answer.                                               *)
ClaimsInTime ==
  ~host.checkOn => /\ host.checkFor = NoClaims
                   /\ \A g \in Guests : ~Going(g, {"CHECK_RESULT"})

\* Tiles under way to guest g, and the 17th tile of its hand.
TilesOf(s) ==
  (IF seat[s].extra /\ ~Coming(s, {"NEW_ROUND"}) THEN 1 ELSE 0)
    + IF s = Host THEN 0
      ELSE Cardinality({i \in DOMAIN toGuest[s] : toGuest[s][i].type \in {"GET_CARD", "CHANGE_CARD"}})

\* The same for the seat numbered n, if somebody sits there.
TilesAt(n) == IF n \in Seated THEN TilesOf(n) ELSE 0
TilesHeld  == TilesAt(1) + TilesAt(2) + TilesAt(3) + TilesAt(4)

(* No tile is lost or made: what left the wall is in a hand, on its way to    *)
(* one, or on the table.                                                      *)
TilesConserved == loop.at # "start" => host.wall + pile + TilesHeld = Wall + 1

(* Every round comes to an end: somebody wins and everybody has seen it, or   *)
(* the wall is drawn to the sea bottom.                                       *)
RoundsEnd == []<>(host.waiting \/ host.drawn)

(* After a win everybody is back in a new round.                              *)
WinsAreSeen == host.waiting ~> ~host.waiting
=============================================================================
