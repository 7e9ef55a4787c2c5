---------------------------- MODULE RoundProofs ----------------------------
(***************************************************************************)
(* What TLAPS proves of Round, for any seats, wall, flowers, tiles and     *)
(* claims.  The invariant says of every guest where it is in the round, by *)
(* the flags of the host and by what is under way to and from the guest:   *)
(* Idle, Asked, Served, Mover, Deciding, Decided or Told.  A lemma for     *)
(* each action shows that it leads from these places to these places.  The *)
(* places bound what a queue can hold, and so how many tiles are under way.*)
(***************************************************************************)
EXTENDS Round, FiniteSetTheorems, SequenceTheorems, TLAPS

-----------------------------------------------------------------------------
(* Where a player can be, by what is under way to and from it.              *)

\* What a message says, as far as the turn depends on it.
Word(m) ==
  CASE m.type = "GET_CARD" -> IF m.card = Flower THEN "flower" ELSE "tile"
    [] m.type = "EPK"      -> IF m.kind \in {"concealed", "added"} THEN "own" ELSE "claim"
    [] OTHER               -> m.type

None(q)              == Len(q) = 0
One(q, a)            == Len(q) = 1 /\ Word(q[1]) = a
Two(q, a, b)         == Len(q) = 2 /\ Word(q[1]) = a /\ Word(q[2]) = b
Three(q, a, b, c)    == Len(q) = 3 /\ Word(q[1]) = a /\ Word(q[2]) = b /\ Word(q[3]) = c
Four(q, a, b, c, d)  == /\ Len(q) = 4 /\ Word(q[1]) = a /\ Word(q[2]) = b
                        /\ Word(q[3]) = c /\ Word(q[4]) = d

\* What a player that is offered o can answer, and which answers can be granted.
Answers(o) == {"pass"} \cup {IF c = "added" THEN "kang" ELSE c : c \in o}

MayCall(h, p, c) ==
  \/ c \in {"pass", "make"}
  \/ c = "kang" /\ "added" \in h.card /\ p.pongs > 0
  \/ c = "kang" /\ "added" \notin h.card /\ p.melds < MaxMelds
  \/ c \in {"eat", "pong"} /\ ~h.getting /\ p.melds < MaxMelds

MayOffer(h, p, o) == \A c \in Answers(o) : MayCall(h, p, c)
MayMeld(p, kind)  == IF kind = "added" THEN p.pongs > 0 ELSE p.melds < MaxMelds

\* A 17th tile in the hand of a player that waits is one that was dealt for a flower.
Bare(p) == p.extra => DealtFlower

\* It is not the turn of the player, and it has no question.
Idle(q, r, p) ==
  /\ None(r) /\ p.mode = "wait" /\ ~p.asked
  /\ (None(q) /\ ~p.extra) \/ One(q, "NEW_ROUND")

\* The player is asked about a discard.
Asked(h, q, r, p) ==
  /\ p.mode = "wait"
  /\ \/ /\ None(r) /\ ~p.asked
        /\ \/ One(q, "CHECK_CARD") /\ ~p.extra /\ MayOffer(h, p, q[1].offer)
           \/ Two(q, "NEW_ROUND", "CHECK_CARD") /\ MayOffer(h, p, q[2].offer)
     \/ /\ None(q) /\ ~p.extra
        /\ \/ None(r) /\ p.asked /\ MayOffer(h, p, p.offer)
           \/ One(r, "CHECK_RESULT") /\ ~p.asked /\ MayCall(h, p, r[1].action)

\* The host has the request of the player for a tile.
Served(q, r, p) ==
  /\ None(r) /\ p.mode = "wait" /\ ~p.asked /\ Bare(p)
  /\ None(q) \/ (One(q, "CHANGE_CARD") /\ DealtFlower)

\* The player has the move, or the host's word that it has.
Mover(q, r, p) ==
  /\ ~p.asked
  /\ \/ /\ p.mode = "wait" /\ None(r)
        /\ \/ One(q, "CAN_GET") /\ ~p.extra
           \/ Two(q, "NEW_ROUND", "CAN_GET")
           \/ One(q, "tile") /\ Bare(p)
           \/ Two(q, "NEW_ROUND", "tile")
           \/ Three(q, "NEW_ROUND", "NEW_ROUND", "tile")
           \/ One(q, "flower") /\ Bare(p)
           \/ /\ DealtFlower
              /\ \/ Two(q, "CHANGE_CARD", "tile")
                 \/ Two(q, "CHANGE_CARD", "flower")
                 \/ Two(q, "flower", "CHANGE_CARD")
                 \/ Three(q, "NEW_ROUND", "flower", "CHANGE_CARD")
                 \/ Four(q, "NEW_ROUND", "NEW_ROUND", "flower", "CHANGE_CARD")
           \/ One(q, "claim") /\ ~p.extra /\ p.melds < MaxMelds
           \/ Two(q, "tile", "own") /\ Bare(p) /\ MayMeld(p, q[2].kind)
     \/ /\ p.mode = "get" /\ None(q) /\ ~p.extra
        /\ None(r) \/ One(r, "SHOW_EPK")
     \/ /\ p.mode = "throw" /\ p.extra
        /\ \/ None(q) /\ (None(r) \/ One(r, "SHOW_EPK"))
           \/ One(q, "own") /\ None(r) /\ MayMeld(p, q[1].kind)
     \/ /\ p.mode = "wait" /\ None(q) /\ ~p.extra
        /\ \/ One(r, "REQUEST_CARD") \/ Two(r, "SHOW_EPK", "REQUEST_CARD")
           \/ One(r, "THROW_CARD")   \/ Two(r, "SHOW_EPK", "THROW_CARD")
     \/ /\ p.mode = "wait" /\ One(r, "FLOWER") /\ Bare(p)
        /\ None(q) \/ (One(q, "CHANGE_CARD") /\ DealtFlower)

\* The player has the move and a question about the tile it has drawn.
Deciding(h, q, r, p) ==
  \/ /\ p.mode = "wait" /\ None(r) /\ ~p.asked /\ Bare(p)
     /\ \/ Two(q, "CHECK_CARD", "tile") /\ MayOffer(h, p, q[1].offer)
        \/ /\ Three(q, "CHANGE_CARD", "CHECK_CARD", "tile") /\ DealtFlower
           /\ MayOffer(h, p, q[2].offer)
  \/ /\ \/ p.mode = "wait" /\ One(q, "tile") /\ Bare(p)
        \/ p.mode = "throw" /\ None(q) /\ p.extra
     /\ \/ None(r) /\ p.asked /\ MayOffer(h, p, p.offer)
        \/ One(r, "CHECK_RESULT") /\ ~p.asked /\ MayCall(h, p, r[1].action)
  \/ /\ p.mode = "wait" /\ None(q) /\ ~p.asked /\ ~p.extra
     /\ Two(r, "CHECK_RESULT", "THROW_CARD") /\ r[1].action = "pass"

\* The host has its answer c, and has not acted on it.
Decided(c, q, r, p) ==
  /\ ~p.asked
  /\ \/ p.mode = "wait" /\ One(q, "tile") /\ None(r) /\ Bare(p)
     \/ p.mode = "throw" /\ p.extra /\ None(q) /\ None(r)
     \/ p.mode = "wait" /\ ~p.extra /\ None(q) /\ One(r, "THROW_CARD") /\ c = "pass"

\* A win is on the screens; hit says that the host knows that it was read.
Told(hit, q, r, p) ==
  /\ ~p.asked
  /\ \/ /\ ~hit /\ None(r)
        /\ \/ One(q, "MAKE") /\ p.mode \in {"wait", "throw"}
           \/ Two(q, "NEW_ROUND", "MAKE") /\ p.mode = "wait"
           \/ Two(q, "tile", "MAKE") /\ p.mode = "wait" /\ Bare(p)
     \/ /\ None(q) /\ p.mode = "wait"
        /\ (~hit /\ One(r, "WAIT_HIT")) \/ (hit /\ None(r))

-----------------------------------------------------------------------------
(* What the host waits for.                                                 *)

Open(h)    == h.checkOn /\ ~h.getting   \* a discard is on the table
Passing(h) == h.nextReq /\ ~h.drawn     \* the turn is to be passed
OnMove(h)  == ~h.waiting /\ ~Open(h) /\ ~Passing(h)

Placed(h, g, q, r, p) ==
  /\ h.waiting => Told(h.waitHit[g], q, r, p)
  /\ Open(h) => IF h.inCheck[g] THEN Asked(h, q, r, p)
                ELSE Idle(q, r, p) /\ (h.checkFor[g] # "pass" => None(q))
  /\ Passing(h) => Idle(q, r, p)
  /\ OnMove(h) /\ g # h.turn =>
       \/ Idle(q, r, p)
       \/ /\ h.drawn /\ None(r) /\ p.mode = "wait" /\ ~p.asked
          /\ Two(q, "NEW_ROUND", "NEW_ROUND")
  /\ OnMove(h) /\ g = h.turn =>
       /\ h.sendReq => Served(q, r, p)
       /\ h.checkOn /\ h.inCheck[g] => Deciding(h, q, r, p)
       /\ h.checkOn /\ ~h.inCheck[g] => Decided(h.checkFor[g], q, r, p)
       /\ ~h.checkOn /\ ~h.sendReq => Mover(q, r, p)

HostPlaced(h, at, p) ==
  /\ p.asked <=> h.inCheck[Host]
  /\ p.asked => MayOffer(h, p, p.offer)
  /\ h.waiting => h.waitHit[Host]
  /\ IF OnMove(h) /\ h.turn = Host /\ at # "start"
     THEN \/ p.mode = "get" /\ ~p.extra /\ ~h.checkOn
          \/ p.mode = "throw" /\ p.extra
     ELSE p.mode = "wait" /\ (p.extra => h.waiting)

PhasesApart(h) ==
  /\ h.waiting => ~h.checkOn /\ ~h.nextReq /\ ~h.sendReq
  /\ h.checkOn => ~h.sendReq /\ (h.nextReq => h.drawn)
  /\ h.nextReq => ~h.sendReq
  /\ h.drawn => h.nextReq /\ ~Open(h)
  /\ h.sendReq => h.turn # Host
  /\ h.waiting \/ \A s \in Seated : ~h.waitHit[s]

Checks(h) ==
  /\ Open(h) => h.card = {} /\ h.checkFor[h.turn] = "pass" /\ ~h.inCheck[h.turn]
  /\ h.checkOn /\ h.getting =>
       \A s \in Seated : s # h.turn => h.checkFor[s] = "pass" /\ ~h.inCheck[s]
  /\ ~h.checkOn => \A s \in Seated : h.checkFor[s] = "pass" /\ ~h.inCheck[s]
  /\ \A s \in Seated : h.inCheck[s] => h.checkFor[s] = "pass"

InLoop(h, l) ==
  /\ h.drawn <=> l.at = "over"
  /\ l.at \in {"waiting", "check", "next", "send"} => Due(h, l.at)
  /\ l.at = "start" => OnMove(h) /\ h.turn = Host /\ ~h.checkOn /\ ~h.sendReq
  /\ h.checkOn /\ h.getting /\ ~h.inCheck[h.turn] /\ h.turn # Host =>
       l.at = "check" \/ (l.at = "listen" /\ l.heard = h.turn)

MeldsFit == \A s \in Seated : seat[s].pongs <= seat[s].melds
CallsFit == \A s \in Seated : MayCall(host, seat[s], host.checkFor[s])

IInv ==
  /\ TypeOK /\ HandsFit /\ MeldsFit /\ CallsFit
  /\ PhasesApart(host) /\ Checks(host) /\ InLoop(host, loop)
  /\ \A g \in Guests : Placed(host, g, toGuest[g], toHost[g], seat[g])
  /\ HostPlaced(host, loop.at, seat[Host])
  /\ loop.at = "start" => \A g \in Guests : None(toGuest[g])

-----------------------------------------------------------------------------
(* Words of queues.                                                         *)

LEMMA Words ==
  ASSUME NEW m \in GuestMessages \cup HostMessages
  PROVE  /\ m.type = "GET_CARD" => Word(m) = IF m.card = Flower THEN "flower" ELSE "tile"
         /\ m.type = "EPK" => Word(m) = IF m.kind \in {"concealed", "added"} THEN "own" ELSE "claim"
         /\ m.type \notin {"GET_CARD", "EPK"} => Word(m) = m.type
         /\ m.type \in {"NEW_ROUND", "CAN_GET", "MAKE", "GET_CARD", "CHANGE_CARD", "CHECK_CARD",
                        "EPK", "REQUEST_CARD", "FLOWER", "WAIT_HIT", "SHOW_EPK", "THROW_CARD",
                        "CHECK_RESULT"}
  BY DEF Word, GuestMessages, HostMessages

\* What is left of a queue when its first message is taken.
LEMMA Tails ==
  ASSUME NEW S, NEW q \in Seq(S), q # <<>>
  PROVE  /\ Len(q) \in Nat \ {0} /\ q[1] \in S /\ Head(q) = q[1]
         /\ Tail(q) \in Seq(S) /\ Len(Tail(q)) = Len(q) - 1
         /\ Len(q) >= 2 => Tail(q)[1] = q[2]
         /\ Len(q) >= 3 => Tail(q)[2] = q[3]
         /\ Len(q) >= 4 => Tail(q)[3] = q[4]
  OBVIOUS

\* A message is added.
LEMMA Appends ==
  ASSUME NEW S, NEW q \in Seq(S), NEW m \in S
  PROVE  /\ Append(q, m) \in Seq(S)
         /\ Len(Append(q, m)) = Len(q) + 1 /\ Len(q) \in Nat
         /\ Len(q) = 0 => Append(q, m)[1] = m
         /\ Len(q) = 1 => Append(q, m)[1] = q[1] /\ Append(q, m)[2] = m
<1>1. Append(q, m) \in Seq(S) /\ Len(Append(q, m)) = Len(q) + 1 /\ Len(q) \in Nat
  OBVIOUS
<1>2. \A i \in 1 .. Len(q) + 1 : Append(q, m)[i] = IF i = Len(q) + 1 THEN m ELSE q[i]
  OBVIOUS
<1>. QED
  BY <1>1, <1>2

\* The first message tells where the player is, and so does the first answer.
LEMMA Heads ==
  ASSUME NEW h, NEW c, NEW q \in Seq(GuestMessages), NEW r, NEW p, q # <<>>
  PROVE  /\ Idle(q, r, p) => Word(q[1]) = "NEW_ROUND"
         /\ Asked(h, q, r, p) => Word(q[1]) \in {"CHECK_CARD", "NEW_ROUND"}
         /\ Served(q, r, p) => Word(q[1]) = "CHANGE_CARD"
         /\ Mover(q, r, p) => Word(q[1]) \in {"CAN_GET", "NEW_ROUND", "tile", "flower",
                                              "CHANGE_CARD", "claim", "own"}
         /\ Deciding(h, q, r, p) => Word(q[1]) \in {"CHECK_CARD", "CHANGE_CARD", "tile"}
         /\ Decided(c, q, r, p) => Word(q[1]) = "tile"
         /\ Told(c, q, r, p) => Word(q[1]) \in {"MAKE", "NEW_ROUND", "tile"}
<1>1. Len(q) # 0
  OBVIOUS
<1>. QED
  BY <1>1 DEF Idle, Asked, Served, Mover, Deciding, Decided, Told, None, One, Two, Three, Four

LEMMA Replies ==
  ASSUME NEW h, NEW c, NEW q, NEW r \in Seq(HostMessages), NEW p, r # <<>>
  PROVE  /\ ~Idle(q, r, p) /\ ~Served(q, r, p)
         /\ Asked(h, q, r, p) => Word(r[1]) = "CHECK_RESULT"
         /\ Mover(q, r, p) => Word(r[1]) \in {"SHOW_EPK", "REQUEST_CARD", "THROW_CARD", "FLOWER"}
         /\ Deciding(h, q, r, p) => Word(r[1]) = "CHECK_RESULT"
         /\ Decided(c, q, r, p) => Word(r[1]) = "THROW_CARD"
         /\ Told(c, q, r, p) => Word(r[1]) = "WAIT_HIT"
<1>1. Len(r) # 0
  OBVIOUS
<1>. QED
  BY <1>1 DEF Idle, Asked, Served, Mover, Deciding, Decided, Told, None, One, Two, Three, Four

\* Which answers can be granted depends on the melds only.
LEMMA SameMelds ==
  ASSUME NEW h, NEW p, NEW pp, pp.melds = p.melds, pp.pongs = p.pongs
  PROVE  /\ \A c : MayCall(h, p, c) <=> MayCall(h, pp, c)
         /\ \A o : MayOffer(h, p, o) <=> MayOffer(h, pp, o)
         /\ \A k : MayMeld(p, k) <=> MayMeld(pp, k)
<1>1. ASSUME NEW c PROVE MayCall(h, p, c) <=> MayCall(h, pp, c)
  BY DEF MayCall
<1>2. ASSUME NEW k PROVE MayMeld(p, k) <=> MayMeld(pp, k)
  BY DEF MayMeld
<1>3. ASSUME NEW o PROVE MayOffer(h, p, o) <=> MayOffer(h, pp, o)
  BY <1>1 DEF MayOffer
<1>. QED
  BY <1>1, <1>2, <1>3


-----------------------------------------------------------------------------
(* What a guest does keeps it where the host believes it to be.             *)

\* MSG_NEW_ROUND, with the hand it leaves.
LEMMA NewPlaced ==
  ASSUME NEW h, NEW g, NEW q \in Seq(GuestMessages), NEW r \in Seq(HostMessages),
         NEW p, NEW pp, Placed(h, g, q, r, p), q # <<>>, Word(q[1]) = "NEW_ROUND",
         pp = Empty, Open(h) => h.card = {}, RoundAssumption
  PROVE  Placed(h, g, Tail(q), r, pp)
<1>. DEFINE w == Tail(q)
<1>1. /\ Len(w) = Len(q) - 1 /\ Len(q) \in Nat /\ (Len(q) >= 2 => w[1] = q[2])
      /\ (Len(q) >= 3 => w[2] = q[3]) /\ (Len(q) >= 4 => w[3] = q[4])
  BY Tails
<1>2. /\ pp.mode = "wait" /\ ~pp.asked /\ ~pp.extra /\ pp.melds = 0 /\ pp.pongs = 0
  BY DEF Empty
<1>. HIDE DEF w
<1>3. Idle(q, r, p) => Idle(w, r, pp) /\ None(w)
  BY <1>1, <1>2 DEF Idle, None, One
<1>4. ASSUME Open(h), Asked(h, q, r, p) PROVE Asked(h, w, r, pp)
  <2>1. One(w, "CHECK_CARD") /\ MayOffer(h, p, w[1].offer) /\ None(r)
    BY <1>1, <1>4 DEF Asked, None, One, Two
  <2>2. MayOffer(h, pp, w[1].offer)
    BY <1>2, <1>4, <2>1 DEF MayOffer, MayCall, RoundAssumption, Open
  <2>. QED
    BY <1>2, <2>1, <2>2 DEF Asked
<1>5. Mover(q, r, p) => Mover(w, r, pp)
  BY <1>1, <1>2 DEF Mover, None, One, Two, Three, Four, Bare
<1>6. \A c : Told(c, q, r, p) => Told(c, w, r, pp)
  BY <1>1, <1>2 DEF Told, None, One, Two
<1>7. ~Served(q, r, p) /\ ~Deciding(h, q, r, p) /\ ~Decided(h.checkFor[g], q, r, p)
  BY Heads
<1>8. Two(q, "NEW_ROUND", "NEW_ROUND") => One(w, "NEW_ROUND")
  BY <1>1 DEF One, Two
<1>9. h.drawn /\ None(r) /\ Two(q, "NEW_ROUND", "NEW_ROUND") => Idle(w, r, pp)
  BY <1>8, <1>2 DEF Idle
<1>. QED
  BY <1>3, <1>4, <1>5, <1>6, <1>7, <1>9 DEF Placed, w

\* MSG_CAN_GET.
LEMMA CanGetPlaced ==
  ASSUME NEW h, NEW g, NEW q \in Seq(GuestMessages), NEW r \in Seq(HostMessages),
         NEW p, NEW pp, Placed(h, g, q, r, p), q # <<>>, Word(q[1]) = "CAN_GET",
         pp = [p EXCEPT !.mode = "get"], p \in Hands
  PROVE  Placed(h, g, Tail(q), r, pp)
<1>. DEFINE w == Tail(q)
<1>1. /\ Len(w) = Len(q) - 1 /\ Len(q) \in Nat /\ (Len(q) >= 2 => w[1] = q[2])
      /\ (Len(q) >= 3 => w[2] = q[3]) /\ (Len(q) >= 4 => w[3] = q[4])
  BY Tails
<1>2. pp.mode = "get" /\ pp.asked = p.asked /\ pp.extra = p.extra
  BY DEF Hands
<1>. HIDE DEF w
<1>3. Mover(q, r, p) => Mover(w, r, pp)
  BY <1>1, <1>2 DEF Mover, None, One, Two, Three, Four
<1>4. /\ ~Idle(q, r, p) /\ ~Asked(h, q, r, p) /\ ~Served(q, r, p) /\ ~Deciding(h, q, r, p)
      /\ ~Decided(h.checkFor[g], q, r, p) /\ ~Told(h.waitHit[g], q, r, p)
      /\ ~Two(q, "NEW_ROUND", "NEW_ROUND")
  BY Heads DEF Two
<1>. QED
  BY <1>3, <1>4 DEF Placed, w

\* MSG_GET_CARD, no flower.
LEMMA TilePlaced ==
  ASSUME NEW h, NEW g, NEW q \in Seq(GuestMessages), NEW r \in Seq(HostMessages),
         NEW p, NEW pp, Placed(h, g, q, r, p), q # <<>>, Word(q[1]) = "tile",
         pp = [p EXCEPT !.mode = "throw", !.extra = TRUE], p \in Hands
  PROVE  Placed(h, g, Tail(q), r, pp)
<1>. DEFINE w == Tail(q)
<1>1. /\ Len(w) = Len(q) - 1 /\ Len(q) \in Nat /\ (Len(q) >= 2 => w[1] = q[2])
      /\ (Len(q) >= 3 => w[2] = q[3]) /\ (Len(q) >= 4 => w[3] = q[4])
  BY Tails
<1>2. /\ pp.mode = "throw" /\ pp.asked = p.asked /\ pp.extra /\ pp.melds = p.melds
      /\ pp.pongs = p.pongs /\ pp.offer = p.offer
  BY SMTT(40) DEF Hands
<1>0. /\ \A c : MayCall(h, p, c) <=> MayCall(h, pp, c)
      /\ \A o : MayOffer(h, p, o) <=> MayOffer(h, pp, o)
      /\ \A k : MayMeld(p, k) <=> MayMeld(pp, k)
  BY <1>2, SameMelds, ZenonT(20)
<1>. HIDE DEF w
<1>3. Mover(q, r, p) => Mover(w, r, pp)
  BY <1>1, <1>2, <1>0 DEF Mover, None, One, Two, Three, Four
<1>4. Deciding(h, q, r, p) => Deciding(h, w, r, pp)
  BY <1>1, <1>2, <1>0 DEF Deciding, None, One, Two, Three
<1>5. \A c : Decided(c, q, r, p) => Decided(c, w, r, pp)
  BY <1>1, <1>2, <1>0 DEF Decided, None, One
<1>6. \A c : Told(c, q, r, p) => Told(c, w, r, pp)
  BY <1>1, <1>2, <1>0 DEF Told, None, One, Two
<1>7. ~Idle(q, r, p) /\ ~Asked(h, q, r, p) /\ ~Served(q, r, p) /\ ~Two(q, "NEW_ROUND", "NEW_ROUND")
  BY Heads DEF Two
<1>. QED
  BY <1>3, <1>4, <1>5, <1>6, <1>7 DEF Placed, w

\* change_card().
LEMMA ChangePlaced ==
  ASSUME NEW h, NEW g, NEW q \in Seq(GuestMessages), NEW r \in Seq(HostMessages),
         NEW p, NEW pp, Placed(h, g, q, r, p), q # <<>>, Word(q[1]) = "CHANGE_CARD",
         pp = [p EXCEPT !.extra = TRUE], p \in Hands
  PROVE  Placed(h, g, Tail(q), r, pp)
<1>. DEFINE w == Tail(q)
<1>1. /\ Len(w) = Len(q) - 1 /\ Len(q) \in Nat /\ (Len(q) >= 2 => w[1] = q[2])
      /\ (Len(q) >= 3 => w[2] = q[3]) /\ (Len(q) >= 4 => w[3] = q[4])
  BY Tails
<1>2. /\ pp.mode = p.mode /\ pp.asked = p.asked /\ pp.extra /\ pp.melds = p.melds
      /\ pp.pongs = p.pongs /\ pp.offer = p.offer
  BY DEF Hands
<1>0. /\ \A c : MayCall(h, p, c) <=> MayCall(h, pp, c)
      /\ \A o : MayOffer(h, p, o) <=> MayOffer(h, pp, o)
      /\ \A k : MayMeld(p, k) <=> MayMeld(pp, k)
  BY <1>2, SameMelds, ZenonT(20)
<1>. HIDE DEF w
<1>3. Mover(q, r, p) => Mover(w, r, pp)
  BY <1>1, <1>2, <1>0 DEF Mover, None, One, Two, Three, Four, Bare
<1>4. ASSUME Deciding(h, q, r, p) PROVE Deciding(h, w, r, pp)
  <2>1. /\ p.mode = "wait" /\ None(r) /\ ~p.asked /\ MayOffer(h, p, q[2].offer)
        /\ Three(q, "CHANGE_CARD", "CHECK_CARD", "tile") /\ DealtFlower
    BY <1>4 DEF Deciding, None, One, Two
  <2>2. Two(w, "CHECK_CARD", "tile") /\ MayOffer(h, pp, w[1].offer)
    <3>1. MayOffer(h, pp, q[2].offer)
      BY <1>0, <2>1
    <3>. QED
      BY <1>1, <2>1, <3>1 DEF Two, Three
  <2>. QED
    BY <1>2, <2>1, <2>2 DEF Deciding, Bare
<1>5. Served(q, r, p) => Served(w, r, pp)
  BY <1>1, <1>2, <1>0 DEF Served, None, One, Bare
<1>6. /\ ~Idle(q, r, p) /\ ~Asked(h, q, r, p) /\ ~Two(q, "NEW_ROUND", "NEW_ROUND")
      /\ ~Decided(h.checkFor[g], q, r, p) /\ ~Told(h.waitHit[g], q, r, p)
  BY Heads DEF Two
<1>. QED
  BY <1>3, <1>4, <1>5, <1>6 DEF Placed, w

\* init_check_mode().
LEMMA CheckPlaced ==
  ASSUME NEW h, NEW g, NEW q \in Seq(GuestMessages), NEW r \in Seq(HostMessages),
         NEW p, NEW pp, Placed(h, g, q, r, p), q # <<>>, Word(q[1]) = "CHECK_CARD",
         pp = [p EXCEPT !.asked = TRUE, !.offer = q[1].offer], p \in Hands
  PROVE  Placed(h, g, Tail(q), r, pp)
<1>. DEFINE w == Tail(q)
<1>1. /\ Len(w) = Len(q) - 1 /\ Len(q) \in Nat /\ (Len(q) >= 2 => w[1] = q[2])
      /\ (Len(q) >= 3 => w[2] = q[3]) /\ (Len(q) >= 4 => w[3] = q[4])
  BY Tails
<1>2. /\ pp.mode = p.mode /\ pp.asked /\ pp.extra = p.extra /\ pp.melds = p.melds
      /\ pp.pongs = p.pongs /\ pp.offer = q[1].offer
  BY SMTT(40) DEF Hands
<1>0. /\ \A c : MayCall(h, p, c) <=> MayCall(h, pp, c)
      /\ \A o : MayOffer(h, p, o) <=> MayOffer(h, pp, o)
      /\ \A k : MayMeld(p, k) <=> MayMeld(pp, k)
  BY <1>2, SameMelds, ZenonT(20)
<1>. HIDE DEF w
<1>3. Asked(h, q, r, p) => Asked(h, w, r, pp)
  BY <1>1, <1>2, <1>0 DEF Asked, None, One, Two
<1>4. Deciding(h, q, r, p) => Deciding(h, w, r, pp)
  BY <1>1, <1>2, <1>0 DEF Deciding, None, One, Two, Three, Bare
<1>5. ~Mover(q, r, p)
  BY Heads
<1>6. /\ ~Idle(q, r, p) /\ ~Served(q, r, p) /\ ~Two(q, "NEW_ROUND", "NEW_ROUND")
      /\ ~Decided(h.checkFor[g], q, r, p) /\ ~Told(h.waitHit[g], q, r, p)
  BY Heads DEF Two
<1>. QED
  BY <1>3, <1>4, <1>5, <1>6 DEF Placed, w

\* process_make().
LEMMA MakePlaced ==
  ASSUME NEW h, NEW g, NEW q \in Seq(GuestMessages), NEW r \in Seq(HostMessages),
         NEW p, NEW pp, NEW m \in HostMessages, Placed(h, g, q, r, p), q # <<>>,
         Word(q[1]) = "MAKE", Word(m) = "WAIT_HIT", pp = [p EXCEPT !.mode = "wait"], p \in Hands
  PROVE  Placed(h, g, Tail(q), Append(r, m), pp)
<1>. DEFINE w == Tail(q) v == Append(r, m)
<1>1. Len(w) = Len(q) - 1 /\ Len(q) \in Nat
  BY Tails
<1>2. Len(v) = Len(r) + 1 /\ Len(r) \in Nat /\ (Len(r) = 0 => v[1] = m)
  BY Appends
<1>3. pp.mode = "wait" /\ pp.asked = p.asked
  BY DEF Hands
<1>. HIDE DEF w, v
<1>4. \A c : Told(c, q, r, p) => Told(c, w, v, pp)
  BY <1>1, <1>2, <1>3 DEF Told, None, One, Two
<1>5. /\ ~Idle(q, r, p) /\ ~Asked(h, q, r, p) /\ ~Served(q, r, p) /\ ~Deciding(h, q, r, p)
      /\ ~Decided(h.checkFor[g], q, r, p) /\ ~Mover(q, r, p) /\ ~Two(q, "NEW_ROUND", "NEW_ROUND")
  BY Heads DEF Two
<1>. QED
  BY <1>4, <1>5 DEF Placed, w, v

\* MSG_GET_CARD, a flower: the guest asks for another tile.
LEMMA FlowerPlaced ==
  ASSUME NEW h, NEW g, NEW q \in Seq(GuestMessages), NEW r \in Seq(HostMessages),
         NEW p, NEW pp, NEW m \in HostMessages, Placed(h, g, q, r, p), q # <<>>,
         Word(q[1]) = "flower", Word(m) = "FLOWER", pp = [p EXCEPT !.extra = FALSE], p \in Hands
  PROVE  Placed(h, g, Tail(q), Append(r, m), pp)
<1>. DEFINE w == Tail(q) v == Append(r, m)
<1>1. Len(w) = Len(q) - 1 /\ Len(q) \in Nat /\ (Len(q) >= 2 => w[1] = q[2])
  BY Tails
<1>2. Len(v) = Len(r) + 1 /\ Len(r) \in Nat /\ (Len(r) = 0 => v[1] = m)
  BY Appends
<1>3. pp.mode = p.mode /\ pp.asked = p.asked /\ ~pp.extra
  BY DEF Hands
<1>. HIDE DEF w, v
<1>4. ASSUME Mover(q, r, p) PROVE Mover(w, v, pp)
  <2>1. /\ p.mode = "wait" /\ ~p.asked /\ None(r)
        /\ One(q, "flower") \/ (Two(q, "flower", "CHANGE_CARD") /\ DealtFlower)
    BY <1>4 DEF Mover, None, One, Two, Three, Four
  <2>2. One(v, "FLOWER") /\ (None(w) \/ (One(w, "CHANGE_CARD") /\ DealtFlower))
    BY <1>1, <1>2, <2>1 DEF None, One, Two
  <2>. QED
    BY <1>3, <2>1, <2>2 DEF Mover, Bare
<1>5. /\ ~Idle(q, r, p) /\ ~Asked(h, q, r, p) /\ ~Served(q, r, p) /\ ~Deciding(h, q, r, p)
      /\ ~Decided(h.checkFor[g], q, r, p) /\ ~Told(h.waitHit[g], q, r, p)
      /\ ~Two(q, "NEW_ROUND", "NEW_ROUND")
  BY Heads DEF Two
<1>. QED
  BY <1>4, <1>5 DEF Placed, w, v

\* process_epk().
LEMMA EpkPlaced ==
  ASSUME NEW h, NEW g, NEW q \in Seq(GuestMessages), NEW r \in Seq(HostMessages),
         NEW p \in Hands, NEW pp, NEW m \in HostMessages, Placed(h, g, q, r, p), q # <<>>,
         Word(q[1]) \in {"claim", "own"}, Word(m) = "SHOW_EPK", pp = Melded(p, q[1].kind)
  PROVE  /\ Placed(h, g, Tail(q), Append(r, m), pp)
         /\ Mover(q, r, p) /\ MayMeld(p, q[1].kind)
<1>. DEFINE w == Tail(q) v == Append(r, m)
<1>0. q[1] \in GuestMessages
  BY Tails
<1>1. Len(w) = Len(q) - 1 /\ Len(q) \in Nat /\ (Len(q) >= 2 => w[1] = q[2])
  BY Tails
<1>2. Len(v) = Len(r) + 1 /\ Len(r) \in Nat /\ (Len(r) = 0 => v[1] = m)
  BY Appends
<1>3. /\ (pp.mode = "get" /\ ~pp.extra) \/ (pp.mode = "throw" /\ pp.extra)
      /\ pp.asked = p.asked
  BY DEF Hands, Melded
<1>4. Word(q[1]) = "claim" => q[1].kind # "added"
  BY <1>0, Words
<1>. HIDE DEF w, v
<1>5. ASSUME Mover(q, r, p) PROVE Mover(w, v, pp) /\ MayMeld(p, q[1].kind)
  <2>1. /\ ~p.asked /\ None(r) /\ Len(q) = 1
        /\ (Word(q[1]) = "claim" /\ p.melds < MaxMelds) \/ MayMeld(p, q[1].kind)
    BY <1>5 DEF Mover, None, One, Two, Three, Four
  <2>2. One(v, "SHOW_EPK") /\ None(w)
    BY <1>1, <1>2, <2>1 DEF None, One
  <2>3. Mover(w, v, pp)
    BY <1>3, <2>1, <2>2 DEF Mover
  <2>. QED
    BY <1>4, <2>1, <2>3 DEF MayMeld
<1>6. /\ ~Idle(q, r, p) /\ ~Asked(h, q, r, p) /\ ~Served(q, r, p) /\ ~Deciding(h, q, r, p)
      /\ ~Decided(h.checkFor[g], q, r, p) /\ ~Told(h.waitHit[g], q, r, p)
      /\ ~Two(q, "NEW_ROUND", "NEW_ROUND")
  BY Heads DEF Two
<1>7. Mover(q, r, p)
  BY <1>6 DEF Placed, OnMove
<1>. QED
  BY <1>5, <1>6, <1>7 DEF Placed, w, v

\* write_check().
LEMMA AnswerPlaced ==
  ASSUME NEW h, NEW g, NEW q \in Seq(GuestMessages), NEW r \in Seq(HostMessages),
         NEW p \in Hands, NEW pp, NEW m \in HostMessages, Placed(h, g, q, r, p),
         p.asked, m.type = "CHECK_RESULT", m.action \in Answers(p.offer),
         pp = [p EXCEPT !.asked = FALSE, !.offer = {}]
  PROVE  Placed(h, g, q, Append(r, m), pp)
<1>. DEFINE v == Append(r, m)
<1>1. Len(v) = Len(r) + 1 /\ Len(r) \in Nat /\ (Len(r) = 0 => v[1] = m)
  BY Appends
<1>2. /\ pp.mode = p.mode /\ ~pp.asked /\ pp.extra = p.extra
      /\ pp.melds = p.melds /\ pp.pongs = p.pongs
  BY DEF Hands
<1>3. Word(m) = "CHECK_RESULT"
  BY Words
<1>4. MayOffer(h, p, p.offer) => MayCall(h, pp, m.action)
  BY <1>2, SameMelds DEF MayOffer
<1>. HIDE DEF v
<1>5. Asked(h, q, r, p) => Asked(h, q, v, pp)
  BY <1>1, <1>2, <1>3, <1>4 DEF Asked, None, One
<1>6. Deciding(h, q, r, p) => Deciding(h, q, v, pp)
  BY <1>1, <1>2, <1>3, <1>4 DEF Deciding, None, One, Bare
<1>7. /\ ~Idle(q, r, p) /\ ~Served(q, r, p) /\ ~Mover(q, r, p)
      /\ ~Decided(h.checkFor[g], q, r, p) /\ ~Told(h.waitHit[g], q, r, p)
  BY DEF Idle, Served, Mover, Decided, Told
<1>. QED
  BY <1>5, <1>6, <1>7 DEF Placed, v

\* action_draw_card().
LEMMA DrawPlaced ==
  ASSUME NEW h, NEW g, NEW q \in Seq(GuestMessages), NEW r \in Seq(HostMessages),
         NEW p \in Hands, NEW pp, NEW m \in HostMessages, Placed(h, g, q, r, p),
         p.mode = "get", Word(m) = "REQUEST_CARD", pp = [p EXCEPT !.mode = "wait"]
  PROVE  Placed(h, g, q, Append(r, m), pp)
<1>. DEFINE v == Append(r, m)
<1>1. /\ Len(v) = Len(r) + 1 /\ Len(r) \in Nat /\ (Len(r) = 0 => v[1] = m)
      /\ Len(r) = 1 => v[1] = r[1] /\ v[2] = m
  BY Appends
<1>2. pp.mode = "wait" /\ pp.asked = p.asked /\ pp.extra = p.extra
  BY DEF Hands
<1>. HIDE DEF v
<1>3. ASSUME Mover(q, r, p) PROVE Mover(q, v, pp)
  <2>1. ~p.asked /\ None(q) /\ ~p.extra /\ (None(r) \/ One(r, "SHOW_EPK"))
    BY <1>3 DEF Mover
  <2>2. CASE None(r)
    <3>1. One(v, "REQUEST_CARD")
      BY <1>1, <2>2 DEF None, One
    <3>. QED
      BY <1>2, <2>1, <3>1 DEF Mover
  <2>3. CASE One(r, "SHOW_EPK")
    <3>1. Two(v, "SHOW_EPK", "REQUEST_CARD")
      BY <1>1, <2>3 DEF One, Two
    <3>. QED
      BY <1>2, <2>1, <3>1 DEF Mover
  <2>. QED
    BY <2>1, <2>2, <2>3
<1>4. /\ ~Idle(q, r, p) /\ ~Asked(h, q, r, p) /\ ~Served(q, r, p) /\ ~Deciding(h, q, r, p)
      /\ ~Decided(h.checkFor[g], q, r, p) /\ ~Told(h.waitHit[g], q, r, p)
  BY DEF Idle, Asked, Served, Deciding, Decided, Told
<1>. QED
  BY <1>3, <1>4 DEF Placed, v

\* action_throw_card().  A player that is not hasty waits for the verdict on its call.
LEMMA ThrowPlaced ==
  ASSUME NEW h, NEW g, NEW q \in Seq(GuestMessages), NEW r \in Seq(HostMessages),
         NEW p \in Hands, NEW pp, NEW m \in HostMessages, Placed(h, g, q, r, p),
         p.mode = "throw", ~p.asked, Word(m) = "THROW_CARD", h.checkFor[g] = "pass",
         \A i \in DOMAIN q : q[i].type \notin {"EPK", "MAKE"},
         \A i \in DOMAIN r : r[i].type = "CHECK_RESULT" => r[i].action = "pass",
         pp = [p EXCEPT !.mode = "wait", !.extra = FALSE]
  PROVE  Placed(h, g, q, Append(r, m), pp)
<1>. DEFINE v == Append(r, m)
<1>1. /\ Len(v) = Len(r) + 1 /\ Len(r) \in Nat /\ (Len(r) = 0 => v[1] = m)
      /\ Len(r) = 1 => v[1] = r[1] /\ v[2] = m
  BY Appends
<1>2. pp.mode = "wait" /\ pp.asked = p.asked /\ ~pp.extra
  BY DEF Hands
<1>3. ASSUME Len(q) = 1 PROVE q[1] \in GuestMessages /\ q[1].type \notin {"EPK", "MAKE"}
  <2>1. 1 \in DOMAIN q
    BY <1>3
  <2>. QED
    BY <2>1
<1>4. ~One(q, "own") /\ ~One(q, "MAKE") /\ ~One(q, "claim")
  BY <1>3, Words DEF One
<1>5. One(r, "CHECK_RESULT") => r[1].action = "pass"
  <2>1. Len(r) = 1 => r[1] \in HostMessages /\ (r[1].type = "CHECK_RESULT" => r[1].action = "pass")
    OBVIOUS
  <2>. QED
    BY <2>1, Words DEF One
<1>. HIDE DEF v
<1>6. ASSUME Mover(q, r, p) PROVE Mover(q, v, pp)
  <2>1. ~p.asked /\ None(q) /\ (None(r) \/ One(r, "SHOW_EPK"))
    BY <1>4, <1>6 DEF Mover
  <2>2. One(v, "THROW_CARD") \/ Two(v, "SHOW_EPK", "THROW_CARD")
    BY <1>1, <2>1 DEF None, One, Two
  <2>. QED
    BY <1>2, <2>1, <2>2 DEF Mover
<1>7. ASSUME Deciding(h, q, r, p) PROVE Deciding(h, q, v, pp)
  <2>1. None(q) /\ One(r, "CHECK_RESULT")
    BY <1>7 DEF Deciding
  <2>. QED
    BY <1>1, <1>2, <1>5, <2>1 DEF Deciding, One, Two
<1>8. ASSUME Decided("pass", q, r, p) PROVE Decided("pass", q, v, pp)
  <2>1. None(q) /\ None(r)
    BY <1>8 DEF Decided
  <2>. QED
    BY <1>1, <1>2, <2>1 DEF Decided, None, One
<1>9. /\ ~Idle(q, r, p) /\ ~Asked(h, q, r, p) /\ ~Served(q, r, p)
      /\ ~Told(h.waitHit[g], q, r, p)
  BY <1>4 DEF Idle, Asked, Served, Told
<1>. QED
  BY <1>6, <1>7, <1>8, <1>9 DEF Placed, v

-----------------------------------------------------------------------------
(* The steps of a guest.                                                    *)

\* A step of guest g that keeps its own place keeps the invariant.
LEMMA GuestKeeps ==
  ASSUME IInv, NEW g \in Guests, NEW q \in Seq(GuestMessages), NEW r \in Seq(HostMessages),
         NEW p \in Hands, UNCHANGED <<host, loop>>,
         toGuest' = [toGuest EXCEPT ![g] = q], toHost' = [toHost EXCEPT ![g] = r],
         seat' = [seat EXCEPT ![g] = p], pile' \in Int, loop.at = "start" => None(q),
         Placed(host, g, q, r, p), MayCall(host, p, host.checkFor[g]), p.pongs <= p.melds,
         p.mode = "throw" => p.extra, p.mode = "get" => ~p.extra
  PROVE  IInv'
<1>. USE DEF IInv
<1>0. Guests \subseteq Seated /\ Host \notin Guests
  BY DEF Guests
<1>1. TypeOK'
  BY <1>0 DEF TypeOK
<1>2. /\ \A u \in Guests : u # g => /\ toGuest'[u] = toGuest[u] /\ toHost'[u] = toHost[u]
                                   /\ seat'[u] = seat[u]
      /\ toGuest'[g] = q /\ toHost'[g] = r /\ seat'[g] = p
      /\ \A s \in Seated : s # g => seat'[s] = seat[s]
  BY <1>0 DEF TypeOK
<1>3. HandsFit'
  BY <1>2 DEF HandsFit
<1>4. MeldsFit'
  BY <1>2 DEF MeldsFit
<1>5. CallsFit'
  <2>. SUFFICES ASSUME NEW s \in Seated PROVE MayCall(host, seat'[s], host.checkFor[s])
    BY DEF CallsFit
  <2>1. s # g => MayCall(host, seat[s], host.checkFor[s]) /\ seat'[s] = seat[s]
    BY <1>2 DEF CallsFit
  <2>. QED
    BY <1>2, <2>1
<1>6. \A u \in Guests : Placed(host, u, toGuest'[u], toHost'[u], seat'[u])
  <2>. SUFFICES ASSUME NEW u \in Guests PROVE Placed(host, u, toGuest'[u], toHost'[u], seat'[u])
    OBVIOUS
  <2>1. CASE u = g
    BY <1>2, <2>1
  <2>2. CASE u # g
    <3>1. Placed(host, u, toGuest[u], toHost[u], seat[u])
      OBVIOUS
    <3>. QED
      BY <1>2, <2>2, <3>1
  <2>. QED
    BY <2>1, <2>2
<1>7. HostPlaced(host, loop.at, seat'[Host])
  <2>1. Host \in Seated \/ seat'[Host] = seat[Host]
    BY DEF TypeOK
  <2>2. seat'[Host] = seat[Host]
    BY <1>0, <1>2, <2>1
  <2>. QED
    BY <2>2
<1>8. loop.at = "start" => \A u \in Guests : None(toGuest'[u])
  BY <1>2
<1>. QED
  BY <1>1, <1>3, <1>4, <1>5, <1>6, <1>7, <1>8

\* What the invariant says of guest g.
LEMMA GuestFacts ==
  ASSUME IInv, NEW g \in Guests
  PROVE  /\ g \in Seated /\ g # Host
         /\ toGuest[g] \in Seq(GuestMessages) /\ toHost[g] \in Seq(HostMessages)
         /\ seat[g] \in Hands /\ Placed(host, g, toGuest[g], toHost[g], seat[g])
         /\ MayCall(host, seat[g], host.checkFor[g]) /\ seat[g].pongs <= seat[g].melds
         /\ seat[g].mode = "throw" => seat[g].extra
         /\ seat[g].mode = "get" => ~seat[g].extra
         /\ toGuest = [toGuest EXCEPT ![g] = toGuest[g]]
         /\ toHost = [toHost EXCEPT ![g] = toHost[g]]
         /\ loop.at = "start" => None(toGuest[g])
         /\ pile \in Int
<1>1. g \in Seated /\ g # Host
  BY DEF Guests
<1>2. MayCall(host, seat[g], host.checkFor[g])
  BY <1>1 DEF IInv, CallsFit
<1>. QED
  BY <1>1, <1>2 DEF IInv, TypeOK, HandsFit, MeldsFit

\* What guest g reads when it takes a message.
LEMMA Taking ==
  ASSUME IInv, NEW g \in Guests, NEW type, Takes(g, type)
  PROVE  /\ toGuest[g] # <<>> /\ toGuest[g][1] \in GuestMessages /\ toGuest[g][1].type = type
         /\ Tail(toGuest[g]) \in Seq(GuestMessages)
         /\ toGuest' = [toGuest EXCEPT ![g] = Tail(toGuest[g])]
         /\ loop.at # "start"
<1>1. toGuest[g] \in Seq(GuestMessages) /\ (loop.at = "start" => None(toGuest[g]))
  BY GuestFacts
<1>2. toGuest[g] # <<>> /\ Head(toGuest[g]).type = type
  BY DEF Takes
<1>3. toGuest[g][1] \in GuestMessages /\ Head(toGuest[g]) = toGuest[g][1] /\ Len(toGuest[g]) # 0
  BY <1>1, <1>2, Tails
<1>4. Tail(toGuest[g]) \in Seq(GuestMessages)
  BY <1>1, <1>2, Tails
<1>5. toGuest' = [toGuest EXCEPT ![g] = Tail(toGuest[g])]
  BY DEF Takes
<1>. QED
  BY <1>1, <1>2, <1>3, <1>4, <1>5 DEF None

LEMMA TakeNewRoundKeeps ==
  ASSUME RoundAssumption, IInv, NEW g \in Guests, TakeNewRound(g)
  PROVE  IInv'
<1>. DEFINE q == toGuest[g] r == toHost[g] p == seat[g]
<1>1. Takes(g, "NEW_ROUND") /\ UNCHANGED <<host, loop, toHost, pile>>
  BY DEF TakeNewRound, Knows
<1>2. /\ q # <<>> /\ q[1] \in GuestMessages /\ q[1].type = "NEW_ROUND" /\ Tail(q) \in Seq(GuestMessages)
      /\ toGuest' = [toGuest EXCEPT ![g] = Tail(q)] /\ loop.at # "start"
  BY <1>1, Taking
<1>3. seat' = [seat EXCEPT ![g] = Empty]
  BY DEF TakeNewRound, Knows
<1>4. /\ q \in Seq(GuestMessages) /\ r \in Seq(HostMessages) /\ Placed(host, g, q, r, p)
      /\ toHost = [toHost EXCEPT ![g] = r] /\ pile \in Int
      /\ MayCall(host, p, host.checkFor[g])
  BY GuestFacts
<1>5. Word(q[1]) = "NEW_ROUND"
  BY <1>2, Words
<1>6. Open(host) => host.card = {}
  BY DEF IInv, Checks
<1>. HIDE DEF q, r, p
<1>7. Placed(host, g, Tail(q), r, Empty)
  BY <1>2, <1>4, <1>5, <1>6, NewPlaced
<1>8. Empty \in Hands /\ Empty.mode = "wait" /\ Empty.pongs = 0 /\ Empty.melds = 0
  BY DEF Empty, Hands, RoundAssumption
<1>9. MayCall(host, Empty, host.checkFor[g])
  <2>1. host.checkFor[g] = "pass"
    <3>1. ~None(q)
      BY <1>2, <1>4 DEF None
    <3>2. Word(q[1]) \notin {"MAKE", "tile", "CHANGE_CARD", "CHECK_CARD"}
      BY <1>5
    <3>3. /\ ~Deciding(host, q, r, p) /\ ~Decided(host.checkFor[g], q, r, p)
      BY <1>2, <1>4, <3>2, Heads
    <3>4. g \in Seated
      BY DEF Guests
    <3>. QED
      BY <1>4, <3>1, <3>3, <3>4 DEF Placed, IInv, Checks, PhasesApart, OnMove, Open, Passing
  <2>. QED
    BY <2>1 DEF MayCall
<1>10. /\ toHost' = [toHost EXCEPT ![g] = r] /\ pile' \in Int /\ UNCHANGED <<host, loop>>
       /\ Empty.pongs <= Empty.melds /\ (Empty.mode = "throw" => Empty.extra)
       /\ (Empty.mode = "get" => ~Empty.extra) /\ (loop.at = "start" => None(Tail(q)))
  BY <1>1, <1>2, <1>4, <1>8
<1>. QED
  BY <1>2, <1>3, <1>4, <1>7, <1>8, <1>9, <1>10, GuestKeeps

\* A message that leaves the melds as they are.
LEMMA TakenKeeps ==
  ASSUME IInv, NEW g \in Guests, NEW type, Takes(g, type), UNCHANGED <<host, loop>>,
         NEW r \in Seq(HostMessages), NEW p \in Hands,
         toHost' = [toHost EXCEPT ![g] = r], seat' = [seat EXCEPT ![g] = p], pile' \in Int,
         Placed(host, g, Tail(toGuest[g]), r, p),
         p.melds = seat[g].melds, p.pongs = seat[g].pongs,
         p.mode = "throw" => p.extra, p.mode = "get" => ~p.extra
  PROVE  IInv'
<1>1. /\ Tail(toGuest[g]) \in Seq(GuestMessages) /\ loop.at # "start"
      /\ toGuest' = [toGuest EXCEPT ![g] = Tail(toGuest[g])]
  BY Taking
<1>2. MayCall(host, seat[g], host.checkFor[g]) /\ seat[g].pongs <= seat[g].melds
  BY GuestFacts
<1>3. MayCall(host, p, host.checkFor[g]) /\ p.pongs <= p.melds
  <2>1. MayCall(host, p, host.checkFor[g])
    BY <1>2 DEF MayCall
  <2>. QED
    BY <1>2, <2>1
<1>. QED
  BY <1>1, <1>3, GuestKeeps

LEMMA TakeCanGetKeeps ==
  ASSUME IInv, NEW g \in Guests, TakeCanGet(g)
  PROVE  IInv'
<1>. DEFINE q == toGuest[g] r == toHost[g] p == seat[g] pp == [p EXCEPT !.mode = "get"]
<1>1. Takes(g, "CAN_GET") /\ UNCHANGED <<host, loop, toHost, pile>> /\ seat' = [seat EXCEPT ![g] = pp]
  BY DEF TakeCanGet, Knows
<1>2. q # <<>> /\ q[1] \in GuestMessages /\ q[1].type = "CAN_GET"
  BY <1>1, Taking
<1>3. /\ q \in Seq(GuestMessages) /\ r \in Seq(HostMessages) /\ Placed(host, g, q, r, p)
      /\ toHost' = [toHost EXCEPT ![g] = r] /\ pile' \in Int /\ p \in Hands
  BY <1>1, GuestFacts
<1>4. Word(q[1]) = "CAN_GET"
  BY <1>2, Words
<1>5. Placed(host, g, Tail(q), r, pp)
  BY <1>2, <1>3, <1>4, CanGetPlaced
<1>6. ~p.extra
  <2>1. Mover(q, r, p)
    <3>1. /\ ~Idle(q, r, p) /\ ~Asked(host, q, r, p) /\ ~Served(q, r, p) /\ ~Deciding(host, q, r, p)
          /\ ~Decided(host.checkFor[g], q, r, p) /\ ~Told(host.waitHit[g], q, r, p)
          /\ ~Two(q, "NEW_ROUND", "NEW_ROUND")
      BY <1>2, <1>3, <1>4, Heads DEF Two
    <3>. QED
      BY <1>3, <3>1 DEF Placed, OnMove
  <2>2. Len(q) # 0
    BY <1>2, <1>3, Tails
  <2>. QED
    BY <1>4, <2>1, <2>2 DEF Mover, None, One, Two, Three, Four
<1>7. pp \in Hands /\ pp.melds = p.melds /\ pp.pongs = p.pongs /\ pp.mode = "get" /\ pp.extra = p.extra
  BY <1>3 DEF Hands
<1>. HIDE DEF pp
<1>. QED
  BY <1>1, <1>3, <1>5, <1>6, <1>7, TakenKeeps

LEMMA TakeCardKeeps ==
  ASSUME IInv, NEW g \in Guests, TakeCard(g)
  PROVE  IInv'
<1>. DEFINE q == toGuest[g] r == toHost[g] p == seat[g]
<1>1. Takes(g, "GET_CARD") /\ UNCHANGED <<host, loop>>
  BY DEF TakeCard, Knows
<1>2. q # <<>> /\ q[1] \in GuestMessages /\ q[1].type = "GET_CARD"
  BY <1>1, Taking
<1>3. /\ q \in Seq(GuestMessages) /\ r \in Seq(HostMessages) /\ Placed(host, g, q, r, p)
      /\ toHost = [toHost EXCEPT ![g] = r] /\ pile \in Int /\ p \in Hands
  BY GuestFacts
<1>4. Head(q) = q[1]
  BY <1>2, <1>3, Tails
<1>5. CASE q[1].card = Flower
  <2>. DEFINE pp == [p EXCEPT !.extra = FALSE] m == [type |-> "FLOWER"]
  <2>1. /\ seat' = [seat EXCEPT ![g] = pp] /\ pile' = pile + 1
        /\ toHost' = [toHost EXCEPT ![g] = Append(r, m)]
    BY <1>4, <1>5 DEF TakeCard, Knows, Reported
  <2>2. m \in HostMessages /\ m.type = "FLOWER"
    BY DEF HostMessages
  <2>3. Word(m) = "FLOWER" /\ Word(q[1]) = "flower"
    BY <1>2, <1>5, <2>2, Words
  <2>. HIDE DEF m
  <2>4. Placed(host, g, Tail(q), Append(r, m), pp)
    BY <1>2, <1>3, <2>2, <2>3, FlowerPlaced
  <2>5. Append(r, m) \in Seq(HostMessages)
    BY <1>3, <2>2, Appends
  <2>6. ~(p.mode = "throw")
    <3>1. /\ ~Asked(host, q, r, p) /\ ~Idle(q, r, p) /\ ~Served(q, r, p) /\ ~Deciding(host, q, r, p)
          /\ ~Decided(host.checkFor[g], q, r, p) /\ ~Told(host.waitHit[g], q, r, p)
          /\ ~Two(q, "NEW_ROUND", "NEW_ROUND")
      BY <1>2, <1>3, <2>3, Heads DEF Two
    <3>2. Mover(q, r, p)
      BY <1>3, <3>1 DEF Placed, OnMove
    <3>3. Len(q) # 0
      BY <1>2, <1>3, Tails
    <3>. QED
      BY <2>3, <3>2, <3>3 DEF Mover, None, One
  <2>7. /\ pp \in Hands /\ pp.melds = p.melds /\ pp.pongs = p.pongs /\ pp.mode = p.mode /\ ~pp.extra
    BY <1>3 DEF Hands
  <2>. HIDE DEF pp
  <2>8. pile' \in Int
    BY <1>3, <2>1
  <2>. QED
    BY <1>1, <2>1, <2>4, <2>5, <2>6, <2>7, <2>8, TakenKeeps
<1>6. CASE q[1].card # Flower
  <2>. DEFINE pp == [p EXCEPT !.mode = "throw", !.extra = TRUE]
  <2>1. seat' = [seat EXCEPT ![g] = pp] /\ UNCHANGED <<toHost, pile>>
    BY <1>4, <1>6 DEF TakeCard, Knows
  <2>2. Word(q[1]) = "tile"
    BY <1>2, <1>6, Words
  <2>3. Placed(host, g, Tail(q), r, pp)
    BY <1>2, <1>3, <2>2, TilePlaced
  <2>4. pp \in Hands /\ pp.melds = p.melds /\ pp.pongs = p.pongs /\ pp.mode = "throw" /\ pp.extra
    BY <1>3 DEF Hands
  <2>. HIDE DEF pp
  <2>5. toHost' = [toHost EXCEPT ![g] = r] /\ pile' \in Int
    BY <1>3, <2>1
  <2>. QED
    BY <1>1, <1>3, <2>1, <2>3, <2>4, <2>5, TakenKeeps
<1>. QED
  BY <1>5, <1>6

LEMMA TakeChangeKeeps ==
  ASSUME IInv, NEW g \in Guests, TakeChange(g)
  PROVE  IInv'
<1>. DEFINE q == toGuest[g] r == toHost[g] p == seat[g] pp == [p EXCEPT !.extra = TRUE]
<1>1. Takes(g, "CHANGE_CARD") /\ UNCHANGED <<host, loop, toHost, pile>> /\ seat' = [seat EXCEPT ![g] = pp]
  BY DEF TakeChange, Knows
<1>2. q # <<>> /\ q[1] \in GuestMessages /\ q[1].type = "CHANGE_CARD"
  BY <1>1, Taking
<1>3. /\ q \in Seq(GuestMessages) /\ r \in Seq(HostMessages) /\ Placed(host, g, q, r, p)
      /\ toHost' = [toHost EXCEPT ![g] = r] /\ pile' \in Int /\ p \in Hands
  BY <1>1, GuestFacts
<1>4. Word(q[1]) = "CHANGE_CARD"
  BY <1>2, Words
<1>5. Placed(host, g, Tail(q), r, pp)
  BY <1>2, <1>3, <1>4, ChangePlaced
<1>6. p.mode # "get"
  <2>1. Len(q) # 0
    BY <1>2, <1>3, Tails
  <2>2. ~(p.mode = "get" /\ None(q))
    BY <2>1 DEF None
  <2>3. Idle(q, r, p) \/ Served(q, r, p) \/ Deciding(host, q, r, p) \/ Mover(q, r, p)
           \/ Asked(host, q, r, p) \/ Decided(host.checkFor[g], q, r, p)
           \/ Told(host.waitHit[g], q, r, p) \/ Two(q, "NEW_ROUND", "NEW_ROUND")
    BY <1>3 DEF Placed, OnMove
  <2>. QED
    BY <1>4, <2>2, <2>3 DEF Idle, Served, Deciding, Mover, Asked, Decided, Told, Two
<1>7. pp \in Hands /\ pp.melds = p.melds /\ pp.pongs = p.pongs /\ pp.mode = p.mode /\ pp.extra
  BY <1>3 DEF Hands
<1>. HIDE DEF pp
<1>. QED
  BY <1>1, <1>3, <1>5, <1>6, <1>7, TakenKeeps

LEMMA TakeCheckKeeps ==
  ASSUME IInv, NEW g \in Guests, TakeCheck(g)
  PROVE  IInv'
<1>. DEFINE q == toGuest[g] r == toHost[g] p == seat[g]
            pp == [p EXCEPT !.asked = TRUE, !.offer = q[1].offer]
<1>1. Takes(g, "CHECK_CARD") /\ UNCHANGED <<host, loop, toHost, pile>>
  BY DEF TakeCheck, Knows
<1>2. q # <<>> /\ q[1] \in GuestMessages /\ q[1].type = "CHECK_CARD"
  BY <1>1, Taking
<1>3. /\ q \in Seq(GuestMessages) /\ r \in Seq(HostMessages) /\ Placed(host, g, q, r, p)
      /\ toHost' = [toHost EXCEPT ![g] = r] /\ pile' \in Int /\ p \in Hands
      /\ p.mode = "throw" => p.extra
      /\ p.mode = "get" => ~p.extra
  BY <1>1, GuestFacts
<1>4. Word(q[1]) = "CHECK_CARD"
  BY <1>2, Words
<1>5. Head(q) = q[1]
  BY <1>2, <1>3, Tails
<1>6. seat' = [seat EXCEPT ![g] = pp]
  BY <1>5 DEF TakeCheck, Knows
<1>7. Placed(host, g, Tail(q), r, pp)
  BY <1>2, <1>3, <1>4, CheckPlaced
<1>8. q[1].offer \in SUBSET (Calls \cup {"added"})
  BY <1>2 DEF GuestMessages
<1>9. /\ pp \in Hands /\ pp.melds = p.melds /\ pp.pongs = p.pongs /\ pp.mode = p.mode
      /\ pp.extra = p.extra
  BY <1>3, <1>8 DEF Hands
<1>. HIDE DEF pp
<1>. QED
  BY <1>1, <1>3, <1>6, <1>7, <1>9, TakenKeeps

LEMMA TakeMakeKeeps ==
  ASSUME IInv, NEW g \in Guests, TakeMake(g)
  PROVE  IInv'
<1>. DEFINE q == toGuest[g] r == toHost[g] p == seat[g] pp == [p EXCEPT !.mode = "wait"]
            m == [type |-> "WAIT_HIT"]
<1>1. /\ Takes(g, "MAKE") /\ UNCHANGED <<host, loop, pile>> /\ seat' = [seat EXCEPT ![g] = pp]
      /\ toHost' = [toHost EXCEPT ![g] = Append(r, m)]
  BY DEF TakeMake, Knows, Reported
<1>2. q # <<>> /\ q[1] \in GuestMessages /\ q[1].type = "MAKE"
  BY <1>1, Taking
<1>3. /\ q \in Seq(GuestMessages) /\ r \in Seq(HostMessages) /\ Placed(host, g, q, r, p)
      /\ pile' \in Int /\ p \in Hands
  BY <1>1, GuestFacts
<1>4. m \in HostMessages /\ m.type = "WAIT_HIT"
  BY DEF HostMessages
<1>5. Word(q[1]) = "MAKE" /\ Word(m) = "WAIT_HIT"
  BY <1>2, <1>4, Words
<1>. HIDE DEF m
<1>6. Append(r, m) \in Seq(HostMessages)
  BY <1>3, <1>4, Appends
<1>7. Placed(host, g, Tail(q), Append(r, m), pp)
  BY <1>2, <1>3, <1>4, <1>5, MakePlaced
<1>8. pp \in Hands /\ pp.melds = p.melds /\ pp.pongs = p.pongs /\ pp.mode = "wait"
  BY <1>3 DEF Hands
<1>. HIDE DEF pp
<1>. QED
  BY <1>1, <1>3, <1>6, <1>7, <1>8, TakenKeeps

\* A claim that may be granted leaves a hand.
LEMMA MeldedType ==
  ASSUME RoundAssumption, NEW p \in Hands, NEW kind \in Kinds, MayMeld(p, kind), p.pongs <= p.melds
  PROVE  LET pp == Melded(p, kind) IN
         /\ pp \in Hands /\ pp.pongs <= pp.melds /\ pp.asked = p.asked /\ pp.offer = p.offer
         /\ (pp.mode = "throw" /\ pp.extra) \/ (pp.mode = "get" /\ ~pp.extra)
<1>1. MaxMelds \in Nat /\ p.melds \in 0 .. MaxMelds /\ p.pongs \in 0 .. MaxMelds
  BY DEF RoundAssumption, Hands
<1>. DEFINE md == IF kind \in {"eat", "pong"} THEN "throw" ELSE "get"
            ex == kind \in {"eat", "pong"}
            ml == IF kind = "added" THEN p.melds ELSE p.melds + 1
            pg == CASE kind = "pong"  -> p.pongs + 1
                    [] kind = "added" -> p.pongs - 1
                    [] OTHER          -> p.pongs
<1>2. ml \in 0 .. MaxMelds /\ pg \in 0 .. MaxMelds /\ pg <= ml
  <2>1. CASE kind = "added"
    BY <1>1, <2>1 DEF MayMeld
  <2>2. CASE kind # "added"
    BY <1>1, <2>2 DEF MayMeld
  <2>. QED
    BY <2>1, <2>2
<1>3. Melded(p, kind) = [p EXCEPT !.mode = md, !.extra = ex, !.melds = ml, !.pongs = pg]
  BY DEF Melded
<1>4. md \in {"wait", "get", "throw"} /\ ex \in BOOLEAN /\ (md = "throw" <=> ex) /\ (md = "get" <=> ~ex)
  OBVIOUS
<1>. HIDE DEF md, ex, ml, pg
<1>. DEFINE pp == Melded(p, kind)
<1>5. pp \in Hands
  <2>. DEFINE p1 == [p EXCEPT !.mode = md, !.extra = ex] p2 == [p1 EXCEPT !.melds = ml, !.pongs = pg]
  <2>1. p1 \in Hands
    BY <1>4 DEF Hands
  <2>. HIDE DEF p1
  <2>2. p2 \in Hands
    BY <1>2, <2>1 DEF Hands
  <2>3. pp = p2
    BY <1>3 DEF p1
  <2>. QED
    BY <2>2, <2>3
<1>6. /\ pp.mode = md /\ pp.extra = ex /\ pp.melds = ml /\ pp.pongs = pg
      /\ pp.asked = p.asked /\ pp.offer = p.offer
  BY <1>3 DEF Hands
<1>. HIDE DEF pp
<1>7. (pp.mode = "throw" /\ pp.extra) \/ (pp.mode = "get" /\ ~pp.extra)
  BY <1>4, <1>6
<1>. QED
  BY <1>2, <1>5, <1>6, <1>7 DEF pp

LEMMA TakeEpkKeeps ==
  ASSUME RoundAssumption, IInv, NEW g \in Guests, TakeEpk(g)
  PROVE  IInv'
<1>. DEFINE q == toGuest[g] r == toHost[g] p == seat[g] pp == Melded(p, q[1].kind)
            m == [type |-> "SHOW_EPK"]
<1>1. Takes(g, "EPK") /\ UNCHANGED <<host, loop>>
  BY DEF TakeEpk, Knows
<1>2. /\ q # <<>> /\ q[1] \in GuestMessages /\ q[1].type = "EPK" /\ loop.at # "start"
      /\ Tail(q) \in Seq(GuestMessages) /\ toGuest' = [toGuest EXCEPT ![g] = Tail(q)]
  BY <1>1, Taking
<1>3. /\ q \in Seq(GuestMessages) /\ r \in Seq(HostMessages) /\ Placed(host, g, q, r, p)
      /\ pile \in Int /\ p \in Hands /\ p.pongs <= p.melds
  BY GuestFacts
<1>4. Head(q) = q[1]
  BY <1>2, <1>3, Tails
<1>5. /\ seat' = [seat EXCEPT ![g] = pp] /\ toHost' = [toHost EXCEPT ![g] = Append(r, m)]
      /\ pile' = PileAfter(q[1].kind)
  BY <1>4 DEF TakeEpk, Knows, Reported
<1>6. m \in HostMessages /\ m.type = "SHOW_EPK"
  BY DEF HostMessages
<1>7. Word(q[1]) \in {"claim", "own"} /\ Word(m) = "SHOW_EPK" /\ q[1].kind \in Kinds
  <2>1. q[1].kind \in Kinds
    BY <1>2 DEF GuestMessages
  <2>. QED
    BY <1>2, <1>6, <2>1, Words
<1>. HIDE DEF m
<1>8. Append(r, m) \in Seq(HostMessages)
  BY <1>3, <1>6, Appends
<1>9. Placed(host, g, Tail(q), Append(r, m), pp) /\ Mover(q, r, p) /\ MayMeld(p, q[1].kind)
  <2>1. pp = Melded(p, q[1].kind)
    OBVIOUS
  <2>. HIDE DEF q, r, p, pp
  <2>. QED
    BY <1>2, <1>3, <1>6, <1>7, <2>1, EpkPlaced
<1>10. /\ pp \in Hands /\ pp.pongs <= pp.melds
       /\ pp.mode = "throw" => pp.extra
       /\ pp.mode = "get" => ~pp.extra
  BY <1>3, <1>7, <1>9, MeldedType
<1>11. pile' \in Int
  BY <1>3, <1>5 DEF PileAfter
<1>12. host.checkFor[g] = "pass"
  <2>1. ~Idle(q, r, p) /\ ~Asked(host, q, r, p) /\ ~Told(host.waitHit[g], q, r, p) /\ ~Served(q, r, p)
        /\ ~Deciding(host, q, r, p) /\ ~Decided(host.checkFor[g], q, r, p)
    <3>. HIDE DEF q, r, p
    <3>. QED
      BY <1>2, <1>3, <1>7, Heads
  <2>2. g \in Seated /\ OnMove(host) /\ (g = host.turn => ~host.checkOn)
    BY <1>3, <2>1, GuestFacts DEF Placed, OnMove
  <2>. QED
    BY <2>2 DEF IInv, Checks, OnMove, Open
<1>13. MayCall(host, pp, host.checkFor[g])
  BY <1>12 DEF MayCall
<1>. HIDE DEF pp, q, r, p
<1>14. UNCHANGED <<host, loop>> /\ (loop.at = "start" => None(Tail(q)))
  BY <1>1, <1>2
<1>. QED
  BY <1>2, <1>5, <1>8, <1>9, <1>10, <1>11, <1>13, <1>14, GuestKeeps

\* A key typed by guest g.
LEMMA KeyKeeps ==
  ASSUME IInv, NEW g \in Guests, UNCHANGED <<host, loop, toGuest>>,
         NEW m \in HostMessages, NEW p \in Hands,
         toHost' = [toHost EXCEPT ![g] = Append(toHost[g], m)],
         seat' = [seat EXCEPT ![g] = p], pile' \in Int,
         Placed(host, g, toGuest[g], Append(toHost[g], m), p),
         p.melds = seat[g].melds, p.pongs = seat[g].pongs,
         p.mode = "throw" => p.extra, p.mode = "get" => ~p.extra
  PROVE  IInv'
<1>1. /\ toGuest[g] \in Seq(GuestMessages) /\ (loop.at = "start" => None(toGuest[g]))
      /\ toGuest' = [toGuest EXCEPT ![g] = toGuest[g]] /\ toHost[g] \in Seq(HostMessages)
  BY GuestFacts
<1>2. MayCall(host, seat[g], host.checkFor[g]) /\ seat[g].pongs <= seat[g].melds
  BY GuestFacts
<1>3. MayCall(host, p, host.checkFor[g]) /\ p.pongs <= p.melds
  <2>1. MayCall(host, p, host.checkFor[g])
    BY <1>2 DEF MayCall
  <2>. QED
    BY <1>2, <2>1
<1>4. Append(toHost[g], m) \in Seq(HostMessages)
  BY <1>1, Appends
<1>. QED
  BY <1>1, <1>3, <1>4, GuestKeeps

LEMMA GuestAnswerKeeps ==
  ASSUME IInv, NEW g \in Guests, GuestAnswer(g)
  PROVE  IInv'
<1>. DEFINE p == seat[g] pp == [p EXCEPT !.asked = FALSE, !.offer = {}]
<1>1. /\ p.asked /\ UNCHANGED <<host, loop, toGuest, pile>> /\ seat' = [seat EXCEPT ![g] = pp]
  BY DEF GuestAnswer, Knows
<1>2. PICK c \in CallsOf(g) : Reported(g, [type |-> "CHECK_RESULT", action |-> c])
  BY DEF GuestAnswer
<1>. DEFINE m == [type |-> "CHECK_RESULT", action |-> c]
<1>3. /\ toGuest[g] \in Seq(GuestMessages) /\ toHost[g] \in Seq(HostMessages)
      /\ Placed(host, g, toGuest[g], toHost[g], p) /\ pile' \in Int /\ p \in Hands
      /\ p.mode = "throw" => p.extra
      /\ p.mode = "get" => ~p.extra
  BY <1>1, GuestFacts
<1>4. toHost' = [toHost EXCEPT ![g] = Append(toHost[g], m)]
  BY <1>2 DEF Reported
<1>5. c \in Answers(p.offer) /\ c \in Calls \cup {"pass"}
  BY <1>3 DEF CallsOf, Answers, Hands, Calls
<1>6. m \in HostMessages /\ m.type = "CHECK_RESULT" /\ m.action = c
  BY <1>5 DEF HostMessages
<1>. HIDE DEF m
<1>7. Placed(host, g, toGuest[g], Append(toHost[g], m), pp)
  BY <1>1, <1>3, <1>5, <1>6, AnswerPlaced
<1>8. /\ pp \in Hands /\ pp.melds = p.melds /\ pp.pongs = p.pongs /\ pp.mode = p.mode
      /\ pp.extra = p.extra
  BY <1>3 DEF Hands
<1>. HIDE DEF pp
<1>. QED
  BY <1>1, <1>3, <1>4, <1>6, <1>7, <1>8, KeyKeeps

LEMMA GuestDrawKeeps ==
  ASSUME IInv, NEW g \in Guests, GuestDraw(g)
  PROVE  IInv'
<1>. DEFINE p == seat[g] pp == [p EXCEPT !.mode = "wait"] m == [type |-> "REQUEST_CARD"]
<1>1. /\ p.mode = "get" /\ UNCHANGED <<host, loop, toGuest, pile>> /\ seat' = [seat EXCEPT ![g] = pp]
      /\ toHost' = [toHost EXCEPT ![g] = Append(toHost[g], m)]
  BY DEF GuestDraw, Knows, Reported
<1>2. /\ toGuest[g] \in Seq(GuestMessages) /\ toHost[g] \in Seq(HostMessages)
      /\ Placed(host, g, toGuest[g], toHost[g], p) /\ pile' \in Int /\ p \in Hands
  BY <1>1, GuestFacts
<1>3. m \in HostMessages /\ m.type = "REQUEST_CARD"
  BY DEF HostMessages
<1>4. Word(m) = "REQUEST_CARD"
  BY <1>3, Words
<1>. HIDE DEF m
<1>5. Placed(host, g, toGuest[g], Append(toHost[g], m), pp)
  BY <1>1, <1>2, <1>3, <1>4, DrawPlaced
<1>6. pp \in Hands /\ pp.melds = p.melds /\ pp.pongs = p.pongs /\ pp.mode = "wait"
  BY <1>2 DEF Hands
<1>. HIDE DEF pp
<1>. QED
  BY <1>1, <1>2, <1>3, <1>5, <1>6, KeyKeeps

LEMMA GuestThrowKeeps ==
  ASSUME ~Hasty, IInv, NEW g \in Guests, GuestThrow(g)
  PROVE  IInv'
<1>. DEFINE p == seat[g] pp == [p EXCEPT !.mode = "wait", !.extra = FALSE] m == [type |-> "THROW_CARD"]
<1>1. /\ p.mode = "throw" /\ ~p.asked /\ UNCHANGED <<host, loop, toGuest>> /\ pile' = pile + 1
      /\ seat' = [seat EXCEPT ![g] = pp] /\ toHost' = [toHost EXCEPT ![g] = Append(toHost[g], m)]
  BY DEF GuestThrow, Knows, Reported
<1>2. /\ host.checkFor[g] = "pass"
      /\ \A i \in DOMAIN toGuest[g] : toGuest[g][i].type \notin {"EPK", "MAKE"}
      /\ \A i \in DOMAIN toHost[g] : toHost[g][i].type = "CHECK_RESULT" => toHost[g][i].action = "pass"
  BY DEF GuestThrow, Undecided
<1>3. /\ toGuest[g] \in Seq(GuestMessages) /\ toHost[g] \in Seq(HostMessages)
      /\ Placed(host, g, toGuest[g], toHost[g], p) /\ pile' \in Int /\ p \in Hands
  BY <1>1, GuestFacts
<1>4. m \in HostMessages /\ m.type = "THROW_CARD"
  BY DEF HostMessages
<1>5. Word(m) = "THROW_CARD"
  BY <1>4, Words
<1>. HIDE DEF m
<1>6. Placed(host, g, toGuest[g], Append(toHost[g], m), pp)
  BY <1>1, <1>2, <1>3, <1>4, <1>5, ThrowPlaced
<1>7. pp \in Hands /\ pp.melds = p.melds /\ pp.pongs = p.pongs /\ pp.mode = "wait"
  BY <1>3 DEF Hands
<1>. HIDE DEF pp
<1>. QED
  BY <1>1, <1>3, <1>4, <1>6, <1>7, KeyKeeps

-----------------------------------------------------------------------------
(* The loop of the host.                                                    *)

LEMMA NextTurnType ==
  ASSUME RoundAssumption, NEW s \in 1 .. 4
  PROVE  NextTurn(s) \in Seated
<1>. DEFINE After(k) == ((s - 1 + k) % 4) + 1
            First(k) == After(k) \in Seated /\ \A j \in 1 .. k - 1 : After(j) \notin Seated
<1>1. 1 \in Seated
  BY DEF RoundAssumption, Host
<1>2. After(5 - s) = 1 /\ 5 - s \in 1 .. 4
  OBVIOUS
<1>3. \E k \in 1 .. 4 : First(k)
  <2>1. After(5 - s) \in Seated
    BY <1>1, <1>2
  <2>. HIDE DEF After
  <2>2. CASE After(1) \in Seated
    BY <2>2
  <2>3. CASE After(1) \notin Seated /\ After(2) \in Seated
    BY <2>3
  <2>4. CASE After(1) \notin Seated /\ After(2) \notin Seated /\ After(3) \in Seated
    BY <2>4
  <2>5. CASE After(1) \notin Seated /\ After(2) \notin Seated /\ After(3) \notin Seated
    <3>1. 5 - s = 4
      BY <1>2, <2>1, <2>5
    <3>2. After(4) \in Seated
      BY <2>1, <3>1
    <3>. QED
      BY <2>5, <3>2
  <2>. QED
    BY <2>2, <2>3, <2>4, <2>5
<1>4. NextTurn(s) = After(CHOOSE k \in 1 .. 4 : First(k))
  BY DEF NextTurn
<1>5. First(CHOOSE k \in 1 .. 4 : First(k))
  <2>. HIDE DEF First
  <2>. QED
    BY <1>3
<1>. QED
  BY <1>4, <1>5

\* The stage the loop goes on with has work.
LEMMA GoesOn ==
  ASSUME NEW h, NEW n \in 1 .. 4, GoOn(h, n)
  PROVE  /\ loop'.heard = 0 /\ loop'.at \in {"listen", "waiting", "check", "next", "send"}
         /\ loop' \in [at : {"start", "listen", "over"} \cup {Stages[i] : i \in 1 .. 4}, heard : {0} \cup Guests]
         /\ loop'.at # "listen" => Due(h, loop'.at)
         /\ n <= 2 /\ Due(h, "check") /\ ~h.waiting => loop'.at = "check"
<1>. DEFINE due == {i \in n .. 4 : Due(h, Stages[i])}
            k == CHOOSE i \in due : \A j \in due : i <= j
<1>1. /\ due = {} => loop'.at = "listen"
      /\ due # {} => loop'.at = Stages[k]
      /\ loop' = [at |-> loop'.at, heard |-> 0]
  BY DEF GoOn
<1>2. /\ Stages[1] = "waiting" /\ Stages[2] = "check" /\ Stages[3] = "next" /\ Stages[4] = "send"
  BY DEF Stages
<1>3. due \subseteq 1 .. 4
  OBVIOUS
<1>4. ASSUME due # {} PROVE k \in due /\ \A j \in due : k <= j
  <2>. HIDE DEF due
  <2>1. \E i \in due : \A j \in due : i <= j
    <3>1. CASE 1 \in due
      BY <1>3, <3>1
    <3>2. CASE 1 \notin due /\ 2 \in due
      BY <1>3, <3>2
    <3>3. CASE 1 \notin due /\ 2 \notin due /\ 3 \in due
      BY <1>3, <3>3
    <3>4. CASE 1 \notin due /\ 2 \notin due /\ 3 \notin due
      <4>1. \A i \in due : i = 4
        BY <1>3, <3>4
      <4>. QED
        BY <1>4, <4>1
    <3>. QED
      BY <3>1, <3>2, <3>3, <3>4
  <2>. QED
    BY <2>1
<1>5. loop'.at # "listen" => k \in due /\ k \in 1 .. 4 /\ loop'.at = Stages[k]
  BY <1>1, <1>3, <1>4
<1>6. loop'.at # "listen" => Due(h, loop'.at)
  BY <1>5
<1>7. loop'.at \in {"listen", "waiting", "check", "next", "send"}
  <2>. HIDE DEF k, due
  <2>. QED
    BY <1>2, <1>5
<1>8. ASSUME n <= 2, Due(h, "check"), ~h.waiting PROVE loop'.at = "check"
  <2>1. 2 \in due
    BY <1>2, <1>8
  <2>2. ~Due(h, "waiting")
    BY <1>8 DEF Due
  <2>3. 1 \notin due
    BY <1>2, <2>2
  <2>4. k \in due /\ k <= 2
    BY <1>4, <2>1
  <2>. HIDE DEF k, due
  <2>5. k = 2
    BY <1>3, <2>3, <2>4
  <2>. QED
    BY <1>1, <1>2, <2>1, <2>5
<1>9. loop'.at \in {"start", "listen", "over"} \cup {Stages[i] : i \in 1 .. 4}
  <2>. HIDE DEF k, due
  <2>. QED
    BY <1>5
<1>10. loop'.heard = 0
  BY <1>1
<1>11. loop' \in [at : {"start", "listen", "over"} \cup {Stages[i] : i \in 1 .. 4}, heard : {0} \cup Guests]
  <2>. HIDE DEF k, due
  <2>. QED
    BY <1>1, <1>9
<1>. QED
  BY <1>6, <1>7, <1>8, <1>10, <1>11

\* Nothing is heard, and no key read, while an answered draw is to be decided.
LEMMA Dues ==
  ASSUME NEW h, NEW stage \in {"waiting", "check", "next", "send"}, Due(h, stage)
  PROVE  SomethingDue(h)
<1>1. /\ Stages[1] = "waiting" /\ Stages[2] = "check" /\ Stages[3] = "next" /\ Stages[4] = "send"
  BY DEF Stages
<1>. QED
  BY <1>1 DEF SomethingDue

LEMMA HostFacts ==
  ASSUME RoundAssumption, IInv
  PROVE  /\ host \in Hosts /\ seat \in [Seated -> Hands] /\ Host \in Seated
         /\ toGuest \in [Guests -> Seq(GuestMessages)] /\ toHost \in [Guests -> Seq(HostMessages)]
         /\ Guests \subseteq Seated /\ Host \notin Guests /\ Seated \subseteq 1 .. 4
         /\ pile \in Int /\ host.turn \in Seated
         /\ loop.at \in {"start", "listen", "over", "waiting", "check", "next", "send"}
         /\ loop \in [at : {"start", "listen", "over"} \cup {Stages[i] : i \in 1 .. 4}, heard : {0} \cup Guests]
         /\ \A s \in Seated : s # Host => s \in Guests
<1>1. /\ Stages[1] = "waiting" /\ Stages[2] = "check" /\ Stages[3] = "next" /\ Stages[4] = "send"
  BY DEF Stages
<1>2. TypeOK
  BY DEF IInv
<1>3. loop.at \in {"start", "listen", "over"} \cup {Stages[i] : i \in 1 .. 4}
  BY <1>2 DEF TypeOK
<1>4. loop.at \in {"start", "listen", "over", "waiting", "check", "next", "send"}
  BY <1>1, <1>3
<1>5. host.turn \in Seated
  BY <1>2 DEF TypeOK, Hosts
<1>. QED
  BY <1>2, <1>4, <1>5 DEF TypeOK, Guests, RoundAssumption

\* Whether an answer can be granted depends on what was drawn and for whom.
LEMMA SameTile ==
  ASSUME NEW h, NEW k, NEW p, k.card = h.card, k.getting = h.getting
  PROVE  /\ \A c : MayCall(h, p, c) <=> MayCall(k, p, c)
         /\ \A o : MayOffer(h, p, o) <=> MayOffer(k, p, o)
<1>1. ASSUME NEW c PROVE MayCall(h, p, c) <=> MayCall(k, p, c)
  BY DEF MayCall
<1>2. ASSUME NEW o PROVE MayOffer(h, p, o) <=> MayOffer(k, p, o)
  BY <1>1 DEF MayOffer
<1>. QED
  BY <1>1, <1>2

\* A step of the host that leaves the hands as they are.
LEMMA SeatsKept ==
  ASSUME IInv, UNCHANGED seat
  PROVE  HandsFit' /\ MeldsFit' /\ seat' \in [Seated -> Hands]
  BY DEF IInv, HandsFit, MeldsFit, TypeOK

\* A step of the host that changes its own hand to p.
LEMMA HostSeat ==
  ASSUME RoundAssumption, IInv, NEW p \in Hands, seat' = [seat EXCEPT ![Host] = p],
         p.pongs <= p.melds, p.mode = "throw" => p.extra, p.mode = "get" => ~p.extra
  PROVE  /\ HandsFit' /\ MeldsFit' /\ seat' \in [Seated -> Hands]
         /\ seat'[Host] = p
         /\ \A s \in Seated : s # Host => seat'[s] = seat[s]
         /\ \A g \in Guests : seat'[g] = seat[g]
<1>1. seat \in [Seated -> Hands] /\ Host \in Seated /\ Guests \subseteq Seated /\ Host \notin Guests
  BY HostFacts
<1>2. /\ seat'[Host] = p
      /\ \A s \in Seated : s # Host => seat'[s] = seat[s]
      /\ \A g \in Guests : seat'[g] = seat[g]
  BY <1>1
<1>3. seat' \in [Seated -> Hands]
  BY <1>1
<1>. QED
  BY <1>2, <1>3 DEF IInv, HandsFit, MeldsFit

LEMMA EndInputKeeps ==
  ASSUME RoundAssumption, IInv, EndInput
  PROVE  IInv'
<1>1. loop.at = "listen" /\ SomethingDue(host) /\ GoOn(host, 1)
      /\ UNCHANGED <<host, seat, toGuest, toHost, pile>>
  BY DEF EndInput
<1>2. 1 \in 1 .. 4
  OBVIOUS
<1>3. /\ loop'.heard = 0 /\ loop'.at \in {"listen", "waiting", "check", "next", "send"}
      /\ loop' \in [at : {"start", "listen", "over"} \cup {Stages[i] : i \in 1 .. 4}, heard : {0} \cup Guests]
      /\ loop'.at # "listen" => Due(host, loop'.at)
      /\ Due(host, "check") /\ ~host.waiting => loop'.at = "check"
  BY <1>1, <1>2, GoesOn
<1>4. PhasesApart(host) /\ Checks(host) /\ InLoop(host, loop) /\ HostPlaced(host, loop.at, seat[Host])
  BY DEF IInv
<1>5. InLoop(host, loop')
  <2>1. host.checkOn /\ host.getting /\ ~host.inCheck[host.turn] => Due(host, "check")
    BY <1>4 DEF Checks, Due
  <2>2. host.checkOn => ~host.waiting
    BY <1>4 DEF PhasesApart
  <2>. QED
    BY <1>1, <1>3, <1>4, <2>1, <2>2 DEF InLoop
<1>6. HostPlaced(host, loop'.at, seat[Host])
  BY <1>1, <1>3, <1>4 DEF HostPlaced
<1>7. TypeOK'
  BY <1>1, <1>3 DEF IInv, TypeOK
<1>. QED
  BY <1>1, <1>3, <1>5, <1>6, <1>7 DEF IInv, HandsFit, MeldsFit, CallsFit

\* Where the guest is that the host hears.
LEMMA Hearing ==
  ASSUME RoundAssumption, IInv, NEW g \in Guests, NEW type, Hears(g, type)
  PROVE  LET q == toGuest[g]
             r == toHost[g]
             p == seat[g]
         IN /\ loop.at = "listen" /\ loop'.at = "listen" /\ loop'.heard = g /\ UNCHANGED pile
            /\ loop' \in [at : {"start", "listen", "over"} \cup {Stages[i] : i \in 1 .. 4}, heard : {0} \cup Guests]
            /\ r # <<>> /\ r \in Seq(HostMessages) /\ r[1] \in HostMessages /\ r[1].type = type /\ Head(r) = r[1]
            /\ Tail(r) \in Seq(HostMessages) /\ toHost' \in [Guests -> Seq(HostMessages)]
            /\ toHost'[g] = Tail(r)
            /\ \A u \in Guests : u # g => toHost'[u] = toHost[u]
            /\ \/ host.waiting /\ Told(host.waitHit[g], q, r, p)
               \/ Open(host) /\ host.inCheck[g] /\ Asked(host, q, r, p)
               \/ /\ OnMove(host) /\ g = host.turn
                  /\ \/ host.checkOn /\ host.getting /\ host.inCheck[g] /\ Deciding(host, q, r, p)
                     \/ ~host.checkOn /\ ~host.sendReq /\ Mover(q, r, p)
<1>. DEFINE q == toGuest[g]
            r == toHost[g]
            p == seat[g]
<1>1. /\ loop.at = "listen" /\ (g > loop.heard \/ ~SomethingDue(host))
      /\ r # <<>> /\ Head(r).type = type /\ toHost' = [toHost EXCEPT ![g] = Tail(@)]
      /\ loop' = [loop EXCEPT !.heard = g] /\ UNCHANGED pile
  BY DEF Hears
<1>2. /\ r \in Seq(HostMessages) /\ q \in Seq(GuestMessages) /\ Placed(host, g, q, r, p) /\ g \in Seated
  BY GuestFacts
<1>3. r[1] \in HostMessages /\ Head(r) = r[1] /\ Tail(r) \in Seq(HostMessages)
  BY <1>1, <1>2, Tails
<1>4. toHost \in [Guests -> Seq(HostMessages)]
  BY HostFacts
<1>5. /\ toHost' \in [Guests -> Seq(HostMessages)] /\ toHost'[g] = Tail(r)
      /\ \A u \in Guests : u # g => toHost'[u] = toHost[u]
  BY <1>1, <1>3, <1>4
<1>6. loop \in [at : {"start", "listen", "over"} \cup {Stages[i] : i \in 1 .. 4}, heard : {0} \cup Guests]
  BY HostFacts
<1>7. /\ loop'.at = "listen" /\ loop'.heard = g
      /\ loop' \in [at : {"start", "listen", "over"} \cup {Stages[i] : i \in 1 .. 4}, heard : {0} \cup Guests]
  BY <1>1, <1>6
<1>8. ~Idle(q, r, p) /\ ~Served(q, r, p) /\ ~None(r)
  <2>1. Len(r) # 0
    BY <1>1, <1>2, Tails
  <2>. QED
    BY <2>1 DEF None, Idle, Served
<1>9. PhasesApart(host) /\ Checks(host) /\ InLoop(host, loop)
  BY DEF IInv
<1>10. ~(host.checkOn /\ host.getting /\ g = host.turn /\ ~host.inCheck[g])
  <2>. SUFFICES ASSUME host.checkOn /\ host.getting /\ g = host.turn /\ ~host.inCheck[g] PROVE FALSE
    OBVIOUS
  <2>1. Due(host, "check")
    BY <1>9 DEF Checks, Due
  <2>2. SomethingDue(host)
    BY <2>1, Dues
  <2>3. g # Host
    BY DEF Guests
  <2>4. loop.heard = g
    BY <1>1, <1>9, <2>3 DEF InLoop
  <2>5. g \in Int
    <3>1. Seated \subseteq 1 .. 4
      BY DEF RoundAssumption
    <3>2. g \in 1 .. 4
      BY <1>2, <3>1
    <3>. QED
      BY <3>2
  <2>. QED
    BY <1>1, <2>2, <2>4, <2>5
<1>. HIDE DEF q, r, p
<1>11. \/ host.waiting /\ Told(host.waitHit[g], q, r, p)
       \/ Open(host) /\ host.inCheck[g] /\ Asked(host, q, r, p)
       \/ /\ OnMove(host) /\ g = host.turn
          /\ \/ host.checkOn /\ host.getting /\ host.inCheck[g] /\ Deciding(host, q, r, p)
             \/ ~host.checkOn /\ ~host.sendReq /\ Mover(q, r, p)
  BY <1>2, <1>8, <1>9, <1>10 DEF Placed, OnMove, PhasesApart, Open
<1>. QED
  BY <1>1, <1>2, <1>3, <1>5, <1>7, <1>11 DEF q, r, p

\* What is left to show of a message that is heard and answered to nobody.
LEMMA HeardKeeps ==
  ASSUME RoundAssumption, IInv, NEW g \in Guests, NEW type, Hears(g, type),
         UNCHANGED <<seat, toGuest>>, host' \in Hosts, host'.drawn = host.drawn,
         PhasesApart(host'), Checks(host'), CallsFit',
         host'.checkOn /\ host'.getting /\ ~host'.inCheck[host'.turn] => host'.turn \in {Host, g},
         \A u \in Guests : Placed(host', u, toGuest[u], toHost'[u], seat[u]),
         HostPlaced(host', "listen", seat[Host])
  PROVE  IInv'
<1>1. /\ loop.at = "listen" /\ loop'.at = "listen" /\ loop'.heard = g /\ UNCHANGED pile
      /\ loop' \in [at : {"start", "listen", "over"} \cup {Stages[i] : i \in 1 .. 4}, heard : {0} \cup Guests]
      /\ toHost' \in [Guests -> Seq(HostMessages)]
  BY Hearing
<1>2. HandsFit' /\ MeldsFit' /\ seat' \in [Seated -> Hands]
  BY SeatsKept
<1>3. TypeOK'
  BY <1>1, <1>2 DEF TypeOK, IInv
<1>4. InLoop(host', loop')
  BY <1>1 DEF InLoop, IInv
<1>5. HostPlaced(host', loop'.at, seat'[Host])
  BY <1>1
<1>6. \A u \in Guests : Placed(host', u, toGuest'[u], toHost'[u], seat'[u])
  OBVIOUS
<1>. QED
  BY <1>1, <1>2, <1>3, <1>4, <1>5, <1>6 DEF IInv

LEMMA SameChecks ==
  ASSUME NEW h, NEW k, k.checkOn = h.checkOn, k.getting = h.getting, k.card = h.card,
         k.checkFor = h.checkFor, k.turn = h.turn, k.inCheck = h.inCheck
  PROVE  Checks(h) => Checks(k)
  BY DEF Checks, Open

LEMMA HearRequestKeeps ==
  ASSUME RoundAssumption, IInv, NEW g \in Guests, HearRequest(g)
  PROVE  IInv'
<1>. DEFINE q == toGuest[g] r == toHost[g] p == seat[g]
<1>1. PICK type \in {"REQUEST_CARD", "FLOWER"} : Hears(g, type)
  BY DEF HearRequest
<1>2. /\ host' = [host EXCEPT !.sendReq = TRUE] /\ UNCHANGED <<seat, toGuest>> /\ host \in Hosts
  BY HostFacts DEF HearRequest
<1>3. /\ loop.at = "listen" /\ r # <<>> /\ r \in Seq(HostMessages) /\ r[1] \in HostMessages /\ r[1].type = type
      /\ toHost'[g] = Tail(r) /\ (\A u \in Guests : u # g => toHost'[u] = toHost[u])
      /\ \/ host.waiting /\ Told(host.waitHit[g], q, r, p)
         \/ Open(host) /\ host.inCheck[g] /\ Asked(host, q, r, p)
         \/ /\ OnMove(host) /\ g = host.turn
            /\ \/ host.checkOn /\ host.getting /\ host.inCheck[g] /\ Deciding(host, q, r, p)
               \/ ~host.checkOn /\ ~host.sendReq /\ Mover(q, r, p)
  BY <1>1, Hearing
<1>4. Word(r[1]) = type
  BY <1>1, <1>3, Words
<1>5. OnMove(host) /\ g = host.turn /\ ~host.checkOn /\ ~host.sendReq /\ Mover(q, r, p)
  <2>1. Word(r[1]) \notin {"WAIT_HIT", "CHECK_RESULT"}
    BY <1>4
  <2>2. ~Told(host.waitHit[g], q, r, p) /\ ~Asked(host, q, r, p) /\ ~Deciding(host, q, r, p)
    BY <1>3, <2>1, Replies
  <2>. QED
    BY <1>3, <2>2
<1>6. Served(q, Tail(r), p)
  <2>1. Len(Tail(r)) = Len(r) - 1 /\ Len(r) \in Nat \ {0}
    BY <1>3, Tails
  <2>. QED
    BY <1>1, <1>4, <1>5, <2>1 DEF Mover, Served, None, One, Two, Bare
<1>7. /\ host' \in Hosts /\ host'.sendReq
      /\ host'.drawn = host.drawn /\ host'.turn = host.turn /\ host'.checkOn = host.checkOn
      /\ host'.inCheck = host.inCheck /\ host'.checkFor = host.checkFor /\ host'.nextReq = host.nextReq
      /\ host'.getting = host.getting /\ host'.waiting = host.waiting /\ host'.waitHit = host.waitHit
      /\ host'.card = host.card
  BY <1>2 DEF Hosts
<1>8. /\ PhasesApart(host) /\ Checks(host) /\ InLoop(host, loop) /\ CallsFit
      /\ HostPlaced(host, loop.at, seat[Host]) /\ g # Host
  BY DEF IInv, Guests
<1>. DEFINE h == host'
<1>. HIDE DEF h
<1>9. OnMove(h) /\ ~Open(h) /\ ~h.waiting /\ ~Passing(h)
  BY <1>5, <1>7 DEF h, OnMove, Open, Passing
<1>10. PhasesApart(h)
  BY <1>3, <1>5, <1>7, <1>8 DEF h, PhasesApart, InLoop, OnMove, Passing, Open
<1>11. Checks(h)
  BY <1>7, <1>8, SameChecks DEF h
<1>12. CallsFit'
  <2>1. \A s \in Seated : host'.checkFor[s] = "pass"
    BY <1>5, <1>7, <1>8 DEF Checks
  <2>. QED
    BY <2>1 DEF CallsFit, MayCall
<1>13. ASSUME NEW u \in Guests PROVE Placed(h, u, toGuest[u], toHost'[u], seat[u])
  <2>1. CASE u = g
    BY <1>3, <1>5, <1>6, <1>7, <1>9, <2>1 DEF h, Placed
  <2>2. CASE u # g
    <3>1. Placed(host, u, toGuest[u], toHost[u], seat[u])
      BY DEF IInv
    <3>. QED
      BY <1>3, <1>5, <1>7, <1>9, <2>2, <3>1 DEF h, Placed
  <2>. QED
    BY <2>1, <2>2
<1>14. HostPlaced(h, "listen", seat[Host])
  <2>1. ~host.inCheck[Host] /\ ~seat[Host].asked
    BY <1>5, <1>8, HostFacts DEF Checks, HostPlaced
  <2>. QED
    BY <1>3, <1>5, <1>7, <1>8, <1>9, <2>1 DEF h, HostPlaced
<1>. QED
  BY <1>1, <1>2, <1>5, <1>7, <1>10, <1>11, <1>12, <1>13, <1>14, HeardKeeps DEF h

LEMMA HearWaitHitKeeps ==
  ASSUME RoundAssumption, IInv, NEW g \in Guests, HearWaitHit(g)
  PROVE  IInv'
<1>. DEFINE q == toGuest[g] r == toHost[g] p == seat[g] h == host'
<1>1. Hears(g, "WAIT_HIT") /\ host' = [host EXCEPT !.waitHit[g] = TRUE] /\ UNCHANGED <<seat, toGuest>>
  BY DEF HearWaitHit
<1>2. host \in Hosts /\ Host \in Seated /\ Guests \subseteq Seated /\ Host \notin Guests
  BY HostFacts
<1>3. /\ loop.at = "listen" /\ r # <<>> /\ r \in Seq(HostMessages) /\ r[1] \in HostMessages /\ r[1].type = "WAIT_HIT"
      /\ toHost'[g] = Tail(r) /\ (\A u \in Guests : u # g => toHost'[u] = toHost[u]) /\ Head(r) = r[1]
      /\ \/ host.waiting /\ Told(host.waitHit[g], q, r, p)
         \/ Open(host) /\ host.inCheck[g] /\ Asked(host, q, r, p)
         \/ /\ OnMove(host) /\ g = host.turn
            /\ \/ host.checkOn /\ host.getting /\ host.inCheck[g] /\ Deciding(host, q, r, p)
               \/ ~host.checkOn /\ ~host.sendReq /\ Mover(q, r, p)
  BY <1>1, Hearing
<1>4. Word(r[1]) = "WAIT_HIT"
  BY <1>3, Words
<1>5. Len(Tail(r)) = Len(r) - 1 /\ Len(r) \in Nat \ {0} /\ (Len(r) >= 2 => Tail(r)[1] = r[2])
  BY <1>3, Tails
<1>6. /\ PhasesApart(host) /\ Checks(host) /\ InLoop(host, loop) /\ CallsFit
      /\ HostPlaced(host, loop.at, seat[Host]) /\ (\A u \in Guests : Placed(host, u, toGuest[u], toHost[u], seat[u]))
  BY DEF IInv
<1>7. host.waiting /\ Told(host.waitHit[g], q, r, p)
  <2>1. Word(r[1]) \notin {"SHOW_EPK", "REQUEST_CARD", "THROW_CARD", "FLOWER", "CHECK_RESULT"}
    BY <1>4
  <2>2. /\ ~Mover(q, r, p) /\ ~Asked(host, q, r, p) /\ ~Deciding(host, q, r, p)
        /\ ~Decided(host.checkFor[g], q, r, p)
    <3>. HIDE DEF q, r, p
    <3>. QED
      BY <1>3, <2>1, Replies
  <2>. QED
    BY <1>3, <2>2
<1>8. Told(TRUE, q, Tail(r), p)
  <2>. DEFINE v == Tail(r)
  <2>1. Len(v) = Len(r) - 1 /\ Len(r) \in Nat \ {0}
    BY <1>5
  <2>. HIDE DEF q, r, p, v
  <2>2. ~p.asked /\ None(q) /\ p.mode = "wait" /\ One(r, "WAIT_HIT")
    BY <1>7, <2>1 DEF Told, None
  <2>3. None(v)
    BY <2>1, <2>2 DEF None, One
  <2>4. Told(TRUE, q, v, p)
    BY <2>2, <2>3 DEF Told
  <2>. QED
    BY <2>4 DEF v
<1>9. /\ h \in Hosts /\ h.waitHit[g] /\ (\A s \in Seated : s # g => h.waitHit[s] = host.waitHit[s])
      /\ h.waitHit[g] = TRUE
      /\ h.drawn = host.drawn /\ h.turn = host.turn /\ h.checkOn = host.checkOn /\ h.sendReq = host.sendReq
      /\ h.inCheck = host.inCheck /\ h.checkFor = host.checkFor /\ h.nextReq = host.nextReq
      /\ h.getting = host.getting /\ h.waiting = host.waiting /\ h.card = host.card
  <2>1. h = [host EXCEPT !.waitHit[g] = TRUE] /\ host \in Hosts /\ g \in Seated
    BY <1>1, <1>2
  <2>. HIDE DEF h
  <2>. DEFINE wh == [host.waitHit EXCEPT ![g] = TRUE]
  <2>5. /\ wh \in [Seated -> BOOLEAN] /\ wh[g] = TRUE
        /\ \A s \in Seated : s # g => wh[s] = host.waitHit[s]
    BY <2>1 DEF Hosts
  <2>6. h = [host EXCEPT !.waitHit = wh]
    BY <2>1
  <2>. HIDE DEF wh
  <2>7. [host EXCEPT !.waitHit = wh] \in Hosts
    BY <2>1, <2>5 DEF Hosts
  <2>8. h.waitHit = wh
    BY <2>1, <2>6 DEF Hosts
  <2>2. h \in Hosts /\ h.waitHit[g] /\ (\A s \in Seated : s # g => h.waitHit[s] = host.waitHit[s])
        /\ h.waitHit[g] = TRUE
    BY <2>5, <2>6, <2>7, <2>8
  <2>3. /\ h.drawn = host.drawn /\ h.turn = host.turn /\ h.checkOn = host.checkOn
        /\ h.sendReq = host.sendReq /\ h.waiting = host.waiting /\ h.card = host.card
    BY <2>1, SMTT(40) DEF Hosts
  <2>4. /\ h.inCheck = host.inCheck /\ h.checkFor = host.checkFor /\ h.nextReq = host.nextReq
        /\ h.getting = host.getting
    BY <2>1, SMTT(40) DEF Hosts
  <2>. QED
    BY <2>2, <2>3, <2>4
<1>. HIDE DEF h, q, r, p
<1>10. ~host.checkOn /\ ~OnMove(h) /\ ~Open(h) /\ ~Passing(h) /\ h.waiting /\ ~OnMove(host)
  BY <1>6, <1>7, <1>9 DEF PhasesApart, OnMove, Open, Passing
<1>11. PhasesApart(h)
  BY <1>6, <1>9, <1>10 DEF PhasesApart, Open
<1>12. Checks(h)
  BY <1>6, <1>9, SameChecks
<1>13. CallsFit'
  <2>1. \A s \in Seated : h.checkFor[s] = "pass"
    BY <1>6, <1>9, <1>10 DEF Checks
  <2>. QED
    BY <2>1 DEF CallsFit, MayCall, h
<1>14. ASSUME NEW u \in Guests PROVE Placed(h, u, toGuest[u], toHost'[u], seat[u])
  <2>1. CASE u = g
    BY <1>3, <1>8, <1>9, <1>10, <2>1 DEF Placed, q, r, p
  <2>2. CASE u # g
    <3>1. Placed(host, u, toGuest[u], toHost[u], seat[u]) /\ h.waitHit[u] = host.waitHit[u]
      BY <1>2, <1>6, <1>9, <2>2
    <3>. QED
      BY <1>3, <1>7, <1>9, <1>10, <2>2, <3>1 DEF Placed
  <2>. QED
    BY <2>1, <2>2
<1>15. HostPlaced(h, "listen", seat[Host])
  <2>1. ~host.inCheck[Host] /\ ~seat[Host].asked /\ h.waitHit[Host]
    BY <1>2, <1>6, <1>7, <1>9, <1>10 DEF Checks, HostPlaced
  <2>. QED
    BY <1>3, <1>6, <1>9, <1>10, <2>1 DEF HostPlaced
<1>. QED
  BY <1>1, <1>9, <1>10, <1>11, <1>12, <1>13, <1>14, <1>15, HeardKeeps DEF h

LEMMA HearShowEpkKeeps ==
  ASSUME RoundAssumption, IInv, NEW g \in Guests, HearShowEpk(g)
  PROVE  IInv'
<1>. DEFINE q == toGuest[g] r == toHost[g] p == seat[g] h == host'
<1>1. Hears(g, "SHOW_EPK") /\ host' = [host EXCEPT !.turn = g, !.owner = g] /\ UNCHANGED <<seat, toGuest>>
  BY DEF HearShowEpk
<1>2. host \in Hosts /\ Host \in Seated /\ Guests \subseteq Seated /\ Host \notin Guests
  BY HostFacts
<1>3. /\ loop.at = "listen" /\ r # <<>> /\ r \in Seq(HostMessages) /\ r[1] \in HostMessages /\ r[1].type = "SHOW_EPK"
      /\ toHost'[g] = Tail(r) /\ (\A u \in Guests : u # g => toHost'[u] = toHost[u]) /\ Head(r) = r[1]
      /\ \/ host.waiting /\ Told(host.waitHit[g], q, r, p)
         \/ Open(host) /\ host.inCheck[g] /\ Asked(host, q, r, p)
         \/ /\ OnMove(host) /\ g = host.turn
            /\ \/ host.checkOn /\ host.getting /\ host.inCheck[g] /\ Deciding(host, q, r, p)
               \/ ~host.checkOn /\ ~host.sendReq /\ Mover(q, r, p)
  BY <1>1, Hearing
<1>4. Word(r[1]) = "SHOW_EPK"
  BY <1>3, Words
<1>5. Len(Tail(r)) = Len(r) - 1 /\ Len(r) \in Nat \ {0} /\ (Len(r) >= 2 => Tail(r)[1] = r[2])
  BY <1>3, Tails
<1>6. /\ PhasesApart(host) /\ Checks(host) /\ InLoop(host, loop) /\ CallsFit
      /\ HostPlaced(host, loop.at, seat[Host]) /\ (\A u \in Guests : Placed(host, u, toGuest[u], toHost[u], seat[u]))
  BY DEF IInv
<1>7. OnMove(host) /\ g = host.turn /\ ~host.checkOn /\ ~host.sendReq /\ Mover(q, r, p)
  <2>1. Word(r[1]) \notin {"WAIT_HIT", "CHECK_RESULT"}
    BY <1>4
  <2>2. ~Told(host.waitHit[g], q, r, p) /\ ~Asked(host, q, r, p) /\ ~Deciding(host, q, r, p)
    BY <1>3, <2>1, Replies
  <2>. QED
    BY <1>3, <2>2
<1>8. Mover(q, Tail(r), p)
  <2>1. /\ ~p.asked /\ None(q)
        /\ \/ One(r, "SHOW_EPK") /\ ((p.mode = "get" /\ ~p.extra) \/ (p.mode = "throw" /\ p.extra))
           \/ /\ p.mode = "wait" /\ ~p.extra
              /\ Two(r, "SHOW_EPK", "REQUEST_CARD") \/ Two(r, "SHOW_EPK", "THROW_CARD")
    BY <1>4, <1>5, <1>7 DEF Mover, None, One, Two
  <2>2. /\ One(r, "SHOW_EPK") => None(Tail(r))
        /\ Two(r, "SHOW_EPK", "REQUEST_CARD") => One(Tail(r), "REQUEST_CARD")
        /\ Two(r, "SHOW_EPK", "THROW_CARD") => One(Tail(r), "THROW_CARD")
    BY <1>5 DEF None, One, Two
  <2>. QED
    BY <2>1, <2>2 DEF Mover
<1>9. /\ h \in Hosts /\ h.waitHit = host.waitHit
      /\ h.drawn = host.drawn /\ h.turn = host.turn /\ h.checkOn = host.checkOn /\ h.sendReq = host.sendReq
      /\ h.inCheck = host.inCheck /\ h.checkFor = host.checkFor /\ h.nextReq = host.nextReq
      /\ h.getting = host.getting /\ h.waiting = host.waiting /\ h.card = host.card
  BY <1>1, <1>2, <1>7 DEF Hosts
<1>. HIDE DEF h, q, r, p
<1>10. /\ OnMove(h) <=> OnMove(host)
       /\ Open(h) <=> Open(host)
       /\ Passing(h) <=> Passing(host)
  BY <1>9 DEF OnMove, Open, Passing
<1>11. PhasesApart(h)
  BY <1>6, <1>9 DEF PhasesApart, Open
<1>12. Checks(h)
  BY <1>6, <1>9, SameChecks
<1>13. CallsFit'
  <2>1. \A s \in Seated : h.checkFor[s] = "pass"
    BY <1>6, <1>7, <1>9 DEF Checks
  <2>. QED
    BY <2>1 DEF CallsFit, MayCall, h
<1>14. ASSUME NEW u \in Guests PROVE Placed(h, u, toGuest[u], toHost'[u], seat[u])
  <2>1. CASE u = g
    BY <1>3, <1>7, <1>8, <1>9, <1>10, <2>1 DEF Placed, q, r, p, OnMove
  <2>2. CASE u # g
    <3>1. Placed(host, u, toGuest[u], toHost[u], seat[u])
      BY <1>6
    <3>. QED
      BY <1>3, <1>7, <1>9, <1>10, <2>2, <3>1 DEF Placed, OnMove
  <2>. QED
    BY <2>1, <2>2
<1>15. HostPlaced(h, "listen", seat[Host])
  <2>1. ~host.inCheck[Host] /\ ~seat[Host].asked
    BY <1>2, <1>6, <1>7 DEF Checks, HostPlaced
  <2>. QED
    BY <1>3, <1>6, <1>9, <1>10, <2>1 DEF HostPlaced
<1>. QED
  BY <1>1, <1>7, <1>9, <1>10, <1>11, <1>12, <1>13, <1>14, <1>15, HeardKeeps DEF h

LEMMA HearResultKeeps ==
  ASSUME RoundAssumption, IInv, NEW g \in Guests, HearResult(g)
  PROVE  IInv'
<1>. DEFINE q == toGuest[g] r == toHost[g] p == seat[g] h == host' c == toHost[g][1].action
<1>1. Hears(g, "CHECK_RESULT") /\ host' = Answered(g, Head(r).action) /\ UNCHANGED <<seat, toGuest>>
  BY DEF HearResult
<1>2. host \in Hosts /\ Host \in Seated /\ Guests \subseteq Seated /\ Host \notin Guests
  BY HostFacts
<1>3. /\ loop.at = "listen" /\ r # <<>> /\ r \in Seq(HostMessages) /\ r[1] \in HostMessages /\ r[1].type = "CHECK_RESULT"
      /\ toHost'[g] = Tail(r) /\ (\A u \in Guests : u # g => toHost'[u] = toHost[u]) /\ Head(r) = r[1]
      /\ \/ host.waiting /\ Told(host.waitHit[g], q, r, p)
         \/ Open(host) /\ host.inCheck[g] /\ Asked(host, q, r, p)
         \/ /\ OnMove(host) /\ g = host.turn
            /\ \/ host.checkOn /\ host.getting /\ host.inCheck[g] /\ Deciding(host, q, r, p)
               \/ ~host.checkOn /\ ~host.sendReq /\ Mover(q, r, p)
  BY <1>1, Hearing
<1>4. Word(r[1]) = "CHECK_RESULT"
  BY <1>3, Words
<1>5. Len(Tail(r)) = Len(r) - 1 /\ Len(r) \in Nat \ {0} /\ (Len(r) >= 2 => Tail(r)[1] = r[2])
  BY <1>3, Tails
<1>6. /\ PhasesApart(host) /\ Checks(host) /\ InLoop(host, loop) /\ CallsFit
      /\ HostPlaced(host, loop.at, seat[Host]) /\ (\A u \in Guests : Placed(host, u, toGuest[u], toHost[u], seat[u]))
  BY DEF IInv
<1>7. \/ Open(host) /\ host.inCheck[g] /\ Asked(host, q, r, p)
      \/ /\ OnMove(host) /\ g = host.turn
         /\ host.checkOn /\ host.getting /\ host.inCheck[g] /\ Deciding(host, q, r, p)
  <2>1. Word(r[1]) \notin {"WAIT_HIT", "SHOW_EPK", "REQUEST_CARD", "THROW_CARD", "FLOWER"}
    BY <1>4
  <2>2. ~Told(host.waitHit[g], q, r, p) /\ ~Mover(q, r, p)
    BY <1>3, <2>1, Replies
  <2>. QED
    BY <1>3, <2>2
<1>8. /\ MayCall(host, p, c)
      /\ Asked(host, q, r, p) => Idle(q, Tail(r), p) /\ None(q)
      /\ Deciding(host, q, r, p) => Decided(c, q, Tail(r), p)
  <2>1. ASSUME Asked(host, q, r, p) PROVE MayCall(host, p, c) /\ Idle(q, Tail(r), p) /\ None(q)
    BY <1>5, <2>1 DEF Asked, Idle, None, One
  <2>2. ASSUME Deciding(host, q, r, p) PROVE MayCall(host, p, c) /\ Decided(c, q, Tail(r), p)
    <3>1. \/ /\ One(r, "CHECK_RESULT") /\ ~p.asked /\ MayCall(host, p, c)
             /\ \/ p.mode = "wait" /\ One(q, "tile") /\ Bare(p)
                \/ p.mode = "throw" /\ None(q) /\ p.extra
          \/ /\ p.mode = "wait" /\ None(q) /\ ~p.asked /\ ~p.extra
             /\ Two(r, "CHECK_RESULT", "THROW_CARD") /\ c = "pass"
      BY <1>5, <2>2 DEF Deciding, None
    <3>2. /\ One(r, "CHECK_RESULT") => None(Tail(r))
          /\ Two(r, "CHECK_RESULT", "THROW_CARD") => One(Tail(r), "THROW_CARD")
      BY <1>5 DEF None, One, Two
    <3>. QED
      BY <3>1, <3>2 DEF Decided, MayCall
  <2>. QED
    BY <1>7, <2>1, <2>2
<1>9. /\ h \in Hosts /\ h.waitHit = host.waitHit
      /\ h.drawn = host.drawn /\ h.turn = host.turn /\ h.checkOn = host.checkOn /\ h.sendReq = host.sendReq
      /\ h.inCheck = [host.inCheck EXCEPT ![g] = FALSE] /\ h.checkFor = [host.checkFor EXCEPT ![g] = c]
      /\ h.nextReq = host.nextReq
      /\ h.getting = host.getting /\ h.waiting = host.waiting /\ h.card = host.card
  <2>1. c \in Calls \cup {"pass"}
    BY <1>3 DEF HostMessages
  <2>2. host' = [host EXCEPT !.inCheck[g] = FALSE, !.checkFor[g] = c]
    BY <1>1, <1>3 DEF Answered
  <2>. HIDE DEF c
  <2>. QED
    BY <1>2, <2>1, <2>2 DEF Hosts
<1>10. /\ ~h.inCheck[g] /\ h.checkFor[g] = c
       /\ \A s \in Seated : s # g => h.inCheck[s] = host.inCheck[s] /\ h.checkFor[s] = host.checkFor[s]
  BY <1>2, <1>9 DEF Hosts
<1>. HIDE DEF h, q, r, p, c
<1>11. /\ OnMove(h) <=> OnMove(host)
       /\ Open(h) <=> Open(host)
       /\ Passing(h) <=> Passing(host)
       /\ ~h.waiting /\ h.checkOn /\ g \in Seated
  BY <1>2, <1>6, <1>7, <1>9 DEF OnMove, Open, Passing, PhasesApart
<1>12. PhasesApart(h)
  BY <1>6, <1>9 DEF PhasesApart, Open
<1>13. Checks(h)
  <2>1. Open(h) => h.card = {} /\ h.checkFor[h.turn] = "pass" /\ ~h.inCheck[h.turn]
    <3>1. Open(host) => g # host.turn /\ host.turn \in Seated
      BY <1>2, <1>6, <1>7 DEF Checks, Hosts, Open, OnMove
    <3>. QED
      BY <1>6, <1>9, <1>10, <1>11, <3>1 DEF Checks
  <2>2. h.checkOn /\ h.getting => \A s \in Seated : s # h.turn => h.checkFor[s] = "pass" /\ ~h.inCheck[s]
    BY <1>6, <1>7, <1>9, <1>10, <1>11 DEF Checks, Open
  <2>3. \A s \in Seated : h.inCheck[s] => h.checkFor[s] = "pass"
    BY <1>6, <1>10 DEF Checks
  <2>. QED
    BY <1>11, <2>1, <2>2, <2>3 DEF Checks
<1>14. CallsFit'
  <2>. SUFFICES ASSUME NEW s \in Seated PROVE MayCall(h, seat[s], h.checkFor[s])
    BY <1>1 DEF CallsFit, h
  <2>1. CASE s = g
    BY <1>8, <1>9, <1>10, <2>1, SameTile DEF p
  <2>2. CASE s # g
    <3>1. MayCall(host, seat[s], host.checkFor[s])
      BY <1>6 DEF CallsFit
    <3>. QED
      BY <1>9, <1>10, <2>2, <3>1, SameTile
  <2>. QED
    BY <2>1, <2>2
<1>15. ASSUME NEW u \in Guests PROVE Placed(h, u, toGuest[u], toHost'[u], seat[u])
  <2>1. CASE u = g
    <3>1. CASE Open(host)
      <4>1. Open(h) /\ ~h.waiting /\ ~OnMove(h) /\ ~Passing(h)
        BY <1>11, <1>12, <3>1 DEF OnMove, Passing, PhasesApart
      <4>2. Asked(host, q, r, p)
        BY <1>7, <3>1 DEF OnMove
      <4>3. Idle(q, Tail(r), p) /\ None(q)
        BY <1>8, <4>2
      <4>. QED
        BY <1>3, <1>10, <2>1, <4>1, <4>3 DEF Placed, q, r, p
    <3>2. CASE ~Open(host)
      <4>1. OnMove(host) /\ g = host.turn /\ Deciding(host, q, r, p)
        BY <1>7, <3>2
      <4>2. /\ OnMove(h) /\ ~Open(h) /\ ~Passing(h) /\ ~h.waiting /\ h.turn = g
            /\ h.checkOn /\ ~h.sendReq /\ ~h.inCheck[g]
        BY <1>9, <1>10, <1>11, <1>12, <4>1 DEF OnMove, PhasesApart
      <4>3. Decided(h.checkFor[g], q, Tail(r), p)
        BY <1>8, <1>10, <4>1
      <4>. QED
        BY <1>3, <2>1, <4>2, <4>3 DEF Placed, q, r, p
    <3>. QED
      BY <3>1, <3>2
  <2>2. CASE u # g
    <3>1. /\ Placed(host, u, toGuest[u], toHost[u], seat[u]) /\ toHost'[u] = toHost[u]
          /\ h.inCheck[u] = host.inCheck[u] /\ h.checkFor[u] = host.checkFor[u]
      BY <1>2, <1>3, <1>6, <1>10, <2>2
    <3>2. Asked(host, toGuest[u], toHost[u], seat[u]) => Asked(h, toGuest[u], toHost[u], seat[u])
      BY <1>9, SameTile DEF Asked
    <3>3. CASE Open(host)
      <4>1. Open(h) /\ ~h.waiting /\ ~OnMove(h) /\ ~Passing(h)
        BY <1>11, <1>12, <3>3 DEF OnMove, Passing, PhasesApart
      <4>2. IF host.inCheck[u] THEN Asked(h, toGuest[u], toHost[u], seat[u])
            ELSE Idle(toGuest[u], toHost[u], seat[u]) /\ (host.checkFor[u] # "pass" => None(toGuest[u]))
        BY <3>1, <3>2, <3>3 DEF Placed
      <4>. QED
        BY <3>1, <4>1, <4>2 DEF Placed
    <3>4. CASE ~Open(host)
      <4>1. OnMove(host) /\ host.turn = g
        BY <1>7, <3>4
      <4>2. \/ Idle(toGuest[u], toHost[u], seat[u])
            \/ /\ host.drawn /\ None(toHost[u]) /\ seat[u].mode = "wait" /\ ~seat[u].asked
               /\ Two(toGuest[u], "NEW_ROUND", "NEW_ROUND")
        BY <2>2, <3>1, <4>1 DEF Placed
      <4>3. OnMove(h) /\ ~Open(h) /\ ~Passing(h) /\ ~h.waiting /\ h.turn = g
        BY <1>9, <1>11, <4>1 DEF OnMove
      <4>. QED
        BY <1>9, <2>2, <3>1, <4>2, <4>3 DEF Placed
    <3>. QED
      BY <3>3, <3>4
  <2>. QED
    BY <2>1, <2>2
<1>16. HostPlaced(h, "listen", seat[Host])
  <2>1. h.inCheck[Host] = host.inCheck[Host]
    BY <1>2, <1>10
  <2>2. seat[Host].asked => MayOffer(h, seat[Host], seat[Host].offer)
    BY <1>6, <1>9, SameTile DEF HostPlaced
  <2>. QED
    BY <1>3, <1>6, <1>9, <1>11, <2>1, <2>2 DEF HostPlaced
<1>. QED
  BY <1>1, <1>7, <1>9, <1>10, <1>11, <1>12, <1>13, <1>14, <1>15, <1>16, HeardKeeps DEF h, Open

-----------------------------------------------------------------------------
(* Where a guest may be in each phase of a round.                           *)

LEMMA PlacedTold ==
  ASSUME NEW h, NEW g, NEW q, NEW r, NEW p, PhasesApart(h),
         h.waiting, Told(h.waitHit[g], q, r, p)
  PROVE  Placed(h, g, q, r, p)
  BY DEF Placed, Open, Passing, OnMove, PhasesApart

LEMMA PlacedOpen ==
  ASSUME NEW h, NEW g, NEW q, NEW r, NEW p, PhasesApart(h), Open(h),
         IF h.inCheck[g] THEN Asked(h, q, r, p)
         ELSE Idle(q, r, p) /\ (h.checkFor[g] # "pass" => None(q))
  PROVE  Placed(h, g, q, r, p)
<1>1. ~h.waiting /\ ~OnMove(h) /\ ~Passing(h)
  BY DEF PhasesApart, Open, OnMove, Passing
<1>. QED
  BY <1>1 DEF Placed

LEMMA PlacedPassing ==
  ASSUME NEW h, NEW g, NEW q, NEW r, NEW p, PhasesApart(h), Passing(h), Idle(q, r, p)
  PROVE  Placed(h, g, q, r, p)
<1>1. ~h.waiting /\ ~OnMove(h) /\ ~Open(h)
  BY DEF PhasesApart, Open, OnMove, Passing
<1>. QED
  BY <1>1 DEF Placed

LEMMA PlacedAside ==
  ASSUME NEW h, NEW g, NEW q, NEW r, NEW p, OnMove(h), g # h.turn,
         \/ Idle(q, r, p)
         \/ /\ h.drawn /\ None(r) /\ p.mode = "wait" /\ ~p.asked
            /\ Two(q, "NEW_ROUND", "NEW_ROUND")
  PROVE  Placed(h, g, q, r, p)
<1>1. ~h.waiting /\ ~Passing(h) /\ ~Open(h)
  BY DEF OnMove
<1>. QED
  BY <1>1 DEF Placed

LEMMA PlacedMover ==
  ASSUME NEW h, NEW g, NEW q, NEW r, NEW p, OnMove(h), g = h.turn, ~h.sendReq,
         h.checkOn => h.inCheck[g] /\ Deciding(h, q, r, p),
         ~h.checkOn => Mover(q, r, p)
  PROVE  Placed(h, g, q, r, p)
<1>1. ~h.waiting /\ ~Passing(h) /\ ~Open(h)
  BY DEF OnMove
<1>. QED
  BY <1>1 DEF Placed

\* The same read the other way.
LEMMA PlacedThere ==
  ASSUME NEW h, NEW g, NEW q, NEW r, NEW p, Placed(h, g, q, r, p)
  PROVE  /\ h.waiting => Told(h.waitHit[g], q, r, p)
         /\ Open(h) /\ ~h.inCheck[g] => Idle(q, r, p) /\ (h.checkFor[g] # "pass" => None(q))
         /\ Passing(h) => Idle(q, r, p)
         /\ OnMove(h) /\ g # h.turn /\ ~h.drawn => Idle(q, r, p)
         /\ OnMove(h) /\ g = h.turn /\ h.sendReq => Served(q, r, p)
         /\ OnMove(h) /\ g = h.turn /\ h.checkOn /\ ~h.inCheck[g] => Decided(h.checkFor[g], q, r, p)
         /\ OnMove(h) /\ g = h.turn /\ ~h.checkOn /\ ~h.sendReq => Mover(q, r, p)
  BY DEF Placed

\* What is left to show of a step of the host.
LEMMA HostStep ==
  ASSUME host' \in Hosts, seat' \in [Seated -> Hands],
         toGuest' \in [Guests -> Seq(GuestMessages)], toHost' \in [Guests -> Seq(HostMessages)],
         pile' \in Int,
         loop' \in [at : {"start", "listen", "over"} \cup {Stages[i] : i \in 1 .. 4}, heard : {0} \cup Guests],
         HandsFit', MeldsFit', CallsFit',
         PhasesApart(host'), Checks(host'), InLoop(host', loop'), loop'.at # "start",
         \A g \in Guests : Placed(host', g, toGuest'[g], toHost'[g], seat'[g]),
         HostPlaced(host', loop'.at, seat'[Host])
  PROVE  IInv'
  BY DEF IInv, TypeOK

-----------------------------------------------------------------------------
(* What the host sends.                                                     *)

LEMMA Concats ==
  ASSUME NEW q \in Seq(GuestMessages), NEW m \in Seq(GuestMessages)
  PROVE  /\ q \o m \in Seq(GuestMessages) /\ Len(q \o m) = Len(q) + Len(m) /\ Len(q) \in Nat /\ Len(m) \in Nat
         /\ Len(m) = 0 => q \o m = q
         /\ Len(q) = 1 /\ Len(m) = 1 => Len(q \o m) = 2
         /\ Len(q) = 1 /\ Len(m) = 2 => Len(q \o m) = 3
         /\ Len(q) = 1 /\ Len(m) = 3 => Len(q \o m) = 4
         /\ Len(q) >= 1 => (q \o m)[1] = q[1]
         /\ Len(q) = 0 /\ Len(m) >= 1 => (q \o m)[1] = m[1]
         /\ Len(q) = 0 /\ Len(m) >= 2 => (q \o m)[2] = m[2]
         /\ Len(q) = 0 /\ Len(m) >= 3 => (q \o m)[3] = m[3]
         /\ Len(q) = 1 /\ Len(m) >= 1 => (q \o m)[2] = m[1]
         /\ Len(q) = 1 /\ Len(m) >= 2 => (q \o m)[3] = m[2]
         /\ Len(q) = 1 /\ Len(m) >= 3 => (q \o m)[4] = m[3]
<1>. DEFINE w == q \o m
<1>1. w \in Seq(GuestMessages) /\ Len(w) = Len(q) + Len(m) /\ Len(q) \in Nat /\ Len(m) \in Nat
  OBVIOUS
<1>2. /\ \A i \in 1 .. Len(q) : w[i] = q[i]
      /\ \A i \in 1 .. Len(m) : w[Len(q) + i] = m[i]
  OBVIOUS
<1>3. Len(m) = 0 => w = q
  OBVIOUS
<1>. HIDE DEF w
<1>4. /\ Len(q) = 1 /\ Len(m) = 1 => Len(w) = 2
      /\ Len(q) = 1 /\ Len(m) = 2 => Len(w) = 3
      /\ Len(q) = 1 /\ Len(m) = 3 => Len(w) = 4
  <2>1. Len(w) = Len(q) + Len(m) /\ Len(q) \in Nat /\ Len(m) \in Nat
    BY <1>1
  <2>2. Len(q) = 1 /\ Len(m) = 1 => Len(w) = 2
    BY <2>1
  <2>3. Len(q) = 1 /\ Len(m) = 2 => Len(w) = 3
    BY <2>1
  <2>4. Len(q) = 1 /\ Len(m) = 3 => Len(w) = 4
    BY <2>1
  <2>. QED
    BY <2>2, <2>3, <2>4
<1>5. Len(q) >= 1 => w[1] = q[1]
  BY <1>1, <1>2
<1>6. /\ Len(q) = 0 /\ Len(m) >= 1 => w[1] = m[1]
      /\ Len(q) = 0 /\ Len(m) >= 2 => w[2] = m[2]
      /\ Len(q) = 0 /\ Len(m) >= 3 => w[3] = m[3]
  <2>1. Len(q) = 0 => \A i \in 1 .. Len(m) : w[i] = m[i]
    BY <1>2
  <2>. QED
    BY <1>1, <2>1
<1>7. /\ Len(q) = 1 /\ Len(m) >= 1 => w[2] = m[1]
      /\ Len(q) = 1 /\ Len(m) >= 2 => w[3] = m[2]
      /\ Len(q) = 1 /\ Len(m) >= 3 => w[4] = m[3]
  <2>1. Len(q) = 1 => \A i \in 1 .. Len(m) : w[1 + i] = m[i]
    BY <1>2
  <2>2. /\ Len(m) >= 1 => 1 \in 1 .. Len(m)
        /\ Len(m) >= 2 => 2 \in 1 .. Len(m)
        /\ Len(m) >= 3 => 3 \in 1 .. Len(m)
    BY <1>1
  <2>. QED
    BY <2>1, <2>2
<1>8. /\ w \in Seq(GuestMessages) /\ Len(w) = Len(q) + Len(m) /\ Len(q) \in Nat /\ Len(m) \in Nat
      /\ Len(m) = 0 => w = q
      /\ Len(q) = 1 /\ Len(m) = 1 => Len(w) = 2
      /\ Len(q) = 1 /\ Len(m) = 2 => Len(w) = 3
      /\ Len(q) = 1 /\ Len(m) = 3 => Len(w) = 4
      /\ Len(q) >= 1 => w[1] = q[1]
      /\ Len(q) = 0 /\ Len(m) >= 1 => w[1] = m[1]
      /\ Len(q) = 0 /\ Len(m) >= 2 => w[2] = m[2]
      /\ Len(q) = 0 /\ Len(m) >= 3 => w[3] = m[3]
      /\ Len(q) = 1 /\ Len(m) >= 1 => w[2] = m[1]
      /\ Len(q) = 1 /\ Len(m) >= 2 => w[3] = m[2]
      /\ Len(q) = 1 /\ Len(m) >= 3 => w[4] = m[3]
  BY <1>1, <1>3, <1>4, <1>5, <1>6, <1>7
<1>. QED
  BY <1>8, Zenon DEF w

LEMMA Single ==
  ASSUME NEW S, NEW m \in S
  PROVE  <<m>> \in Seq(S) /\ Len(<<m>>) = 1 /\ <<m>>[1] = m
  OBVIOUS

\* A queue that had at most one message and gets another.
LEMMA Joined ==
  ASSUME NEW q \in Seq(GuestMessages), NEW m \in GuestMessages, NEW a, Word(m) = a
  PROVE  LET w == q \o <<m>> IN
         /\ None(q) => One(w, a) /\ w[1] = m
         /\ \A b : One(q, b) => Two(w, b, a) /\ w[1] = q[1] /\ w[2] = m
<1>1. <<m>> \in Seq(GuestMessages) /\ Len(<<m>>) = 1 /\ <<m>>[1] = m
  BY Single
<1>. DEFINE e == <<m>> w == q \o e
<1>2. /\ Len(w) = Len(q) + 1 /\ (Len(q) = 0 => w[1] = m) /\ (Len(q) = 1 => w[1] = q[1] /\ w[2] = m)
  <2>. HIDE DEF e
  <2>. QED
    BY <1>1, Concats DEF e
<1>. HIDE DEF w
<1>. QED
  BY <1>2 DEF None, One, Two, w

\* The same for two messages, and for three.
LEMMA JoinedOne ==
  ASSUME NEW q \in Seq(GuestMessages), NEW m \in GuestMessages, NEW w, w = q \o <<m>>
  PROVE  /\ None(q) => One(w, Word(m)) /\ w[1] = m
         /\ \A b : One(q, b) => Two(w, b, Word(m)) /\ w[1] = q[1] /\ w[2] = m
BY Joined

LEMMA JoinedTwo ==
  ASSUME NEW q \in Seq(GuestMessages), NEW e \in Seq(GuestMessages), Len(e) = 2,
         NEW w, w = q \o e
  PROVE  /\ None(q) => Two(w, Word(e[1]), Word(e[2])) /\ w[1] = e[1]
         /\ \A b : One(q, b) => Three(w, b, Word(e[1]), Word(e[2])) /\ w[2] = e[1]
<1>. DEFINE v == q \o e
<1>1. /\ Len(v) = Len(q) + Len(e) /\ Len(q) \in Nat
      /\ Len(q) = 1 => Len(v) = 3 /\ v[1] = q[1] /\ v[2] = e[1] /\ v[3] = e[2]
      /\ Len(q) = 0 => v[1] = e[1] /\ v[2] = e[2]
  <2>1. /\ Len(v) = Len(q) + Len(e) /\ Len(q) \in Nat
        /\ Len(q) = 1 /\ Len(e) = 2 => Len(v) = 3
        /\ Len(q) >= 1 => v[1] = q[1]
        /\ Len(q) = 0 /\ Len(e) >= 1 => v[1] = e[1]
        /\ Len(q) = 0 /\ Len(e) >= 2 => v[2] = e[2]
        /\ Len(q) = 1 /\ Len(e) >= 1 => v[2] = e[1]
        /\ Len(q) = 1 /\ Len(e) >= 2 => v[3] = e[2]
    BY Concats
  <2>. HIDE DEF v
  <2>. QED
    BY <2>1
<1>2. w = v
  OBVIOUS
<1>. HIDE DEF v
<1>3. Len(q) = 0 => Len(v) = 2
  BY <1>1
<1>. QED
  BY <1>1, <1>2, <1>3 DEF None, One, Two, Three

LEMMA JoinedThree ==
  ASSUME NEW q \in Seq(GuestMessages), NEW e \in Seq(GuestMessages), Len(e) = 3,
         NEW w, w = q \o e
  PROVE  /\ None(q) => Three(w, Word(e[1]), Word(e[2]), Word(e[3]))
         /\ \A b : One(q, b) => Four(w, b, Word(e[1]), Word(e[2]), Word(e[3]))
<1>. DEFINE v == q \o e
<1>1. /\ Len(v) = Len(q) + Len(e) /\ Len(q) \in Nat
      /\ Len(q) = 1 => Len(v) = 4 /\ v[1] = q[1] /\ v[2] = e[1] /\ v[3] = e[2] /\ v[4] = e[3]
      /\ Len(q) = 0 => v[1] = e[1] /\ v[2] = e[2] /\ v[3] = e[3]
  <2>1. /\ Len(v) = Len(q) + Len(e) /\ Len(q) \in Nat
        /\ Len(q) = 1 /\ Len(e) = 3 => Len(v) = 4
        /\ Len(q) >= 1 => v[1] = q[1]
        /\ Len(q) = 0 /\ Len(e) >= 1 => v[1] = e[1]
        /\ Len(q) = 0 /\ Len(e) >= 2 => v[2] = e[2]
        /\ Len(q) = 0 /\ Len(e) >= 3 => v[3] = e[3]
        /\ Len(q) = 1 /\ Len(e) >= 1 => v[2] = e[1]
        /\ Len(q) = 1 /\ Len(e) >= 2 => v[3] = e[2]
        /\ Len(q) = 1 /\ Len(e) >= 3 => v[4] = e[3]
    BY Concats
  <2>. HIDE DEF v
  <2>. QED
    BY <2>1
<1>2. w = v
  OBVIOUS
<1>. HIDE DEF v
<1>3. Len(q) = 0 => Len(v) = 3
  BY <1>1
<1>. QED
  BY <1>1, <1>2, <1>3 DEF None, One, Three, Four

LEMMA Sends ==
  ASSUME NEW ms, toGuest \in [Guests -> Seq(GuestMessages)],
         \A g \in Guests : ms[g] \in Seq(GuestMessages), toGuest' = Sent(ms)
  PROVE  /\ toGuest' \in [Guests -> Seq(GuestMessages)]
         /\ \A g \in Guests : toGuest'[g] = toGuest[g] \o ms[g]
<1>1. \A g \in Guests : toGuest'[g] = toGuest[g] \o ms[g]
  BY DEF Sent
<1>2. \A g \in Guests : toGuest[g] \o ms[g] \in Seq(GuestMessages)
  BY Concats
<1>3. toGuest' = [g \in Guests |-> toGuest[g] \o ms[g]]
  BY DEF Sent
<1>. QED
  BY <1>1, <1>2, <1>3

\* A message for one guest.
LEMMA SendsTo ==
  ASSUME NEW s \in Guests, NEW ms \in Seq(GuestMessages),
         toGuest \in [Guests -> Seq(GuestMessages)], toGuest' = SentTo(s, ms)
  PROVE  /\ toGuest' \in [Guests -> Seq(GuestMessages)]
         /\ toGuest'[s] = toGuest[s] \o ms
         /\ \A g \in Guests : g # s => toGuest'[g] = toGuest[g]
<1>. DEFINE mm == [g \in Guests |-> IF g = s THEN ms ELSE <<>>]
<1>1. \A g \in Guests : mm[g] \in Seq(GuestMessages) /\ mm[g] = IF g = s THEN ms ELSE <<>>
  OBVIOUS
<1>2. toGuest' = Sent(mm)
  BY DEF SentTo
<1>. HIDE DEF mm
<1>3. /\ toGuest' \in [Guests -> Seq(GuestMessages)]
      /\ \A g \in Guests : toGuest'[g] = toGuest[g] \o mm[g]
  BY <1>1, <1>2, Sends
<1>4. ASSUME NEW g \in Guests, g # s PROVE toGuest'[g] = toGuest[g]
  <2>1. toGuest'[g] = toGuest[g] \o <<>> /\ toGuest[g] \in Seq(GuestMessages)
    BY <1>1, <1>3, <1>4
  <2>. QED
    BY <2>1
<1>. QED
  BY <1>1, <1>3, <1>4

\* The same message for every guest.
LEMMA SendsAll ==
  ASSUME NEW m \in GuestMessages, toGuest \in [Guests -> Seq(GuestMessages)], toGuest' = SentAll(m)
  PROVE  /\ toGuest' \in [Guests -> Seq(GuestMessages)]
         /\ \A g \in Guests : toGuest'[g] = toGuest[g] \o <<m>>
<1>. DEFINE mm == [g \in Guests |-> <<m>>]
<1>1. \A g \in Guests : mm[g] \in Seq(GuestMessages) /\ mm[g] = <<m>>
  OBVIOUS
<1>2. toGuest' = Sent(mm)
  BY DEF SentAll
<1>. HIDE DEF mm
<1>3. /\ toGuest' \in [Guests -> Seq(GuestMessages)]
      /\ \A g \in Guests : toGuest'[g] = toGuest[g] \o mm[g]
  BY <1>1, <1>2, Sends
<1>. QED
  BY <1>1, <1>3

-----------------------------------------------------------------------------
(* Verdicts.                                                                *)

\* Where everybody is when the last answer is in.
LEMMA Verdict ==
  ASSUME RoundAssumption, IInv, loop.at = "check"
  PROVE  /\ host.checkOn /\ ~host.waiting /\ ~host.drawn /\ ~host.sendReq /\ ~host.nextReq
         /\ \A s \in Seated : ~host.inCheck[s]
         /\ \A s \in Seated : ~host.waitHit[s]
         /\ ~seat[Host].asked
         /\ host.turn # Host \/ Open(host) => seat[Host].mode = "wait" /\ ~seat[Host].extra
         /\ host.turn = Host /\ ~Open(host) => seat[Host].mode = "throw" /\ seat[Host].extra
         /\ Open(host) => /\ host.card = {} /\ host.checkFor[host.turn] = "pass"
                          /\ \A g \in Guests :
                               /\ Idle(toGuest[g], toHost[g], seat[g])
                               /\ host.checkFor[g] # "pass" => None(toGuest[g])
         /\ ~Open(host) => /\ OnMove(host) /\ host.getting
                           /\ \A s \in Seated : s # host.turn => host.checkFor[s] = "pass"
                           /\ \A g \in Guests : g # host.turn => Idle(toGuest[g], toHost[g], seat[g])
                           /\ host.turn \in Guests =>
                                LET g == host.turn
                                IN  Decided(host.checkFor[g], toGuest[g], toHost[g], seat[g])
<1>1. /\ PhasesApart(host) /\ Checks(host) /\ InLoop(host, loop)
      /\ HostPlaced(host, loop.at, seat[Host])
      /\ (\A g \in Guests : Placed(host, g, toGuest[g], toHost[g], seat[g]))
  BY DEF IInv
<1>2. Due(host, "check")
  BY <1>1 DEF InLoop
<1>3. host.checkOn /\ \A s \in Seated : ~host.inCheck[s]
  BY <1>2 DEF Due
<1>4. ~host.waiting /\ ~host.drawn /\ ~host.sendReq /\ ~host.nextReq
  BY <1>1, <1>3 DEF PhasesApart, InLoop
<1>5. \A s \in Seated : ~host.waitHit[s]
  BY <1>1, <1>4 DEF PhasesApart
<1>6. Host \in Seated /\ Guests \subseteq Seated
  BY HostFacts
<1>7. ~seat[Host].asked
  BY <1>1, <1>3, <1>6 DEF HostPlaced
<1>8. OnMove(host) <=> ~Open(host)
  BY <1>4 DEF OnMove, Passing
<1>9. /\ host.turn # Host \/ Open(host) => seat[Host].mode = "wait" /\ ~seat[Host].extra
      /\ host.turn = Host /\ ~Open(host) => seat[Host].mode = "throw" /\ seat[Host].extra
  BY <1>1, <1>3, <1>4, <1>8 DEF HostPlaced
<1>10. Open(host) => host.card = {} /\ host.checkFor[host.turn] = "pass"
  BY <1>1 DEF Checks
<1>11. ASSUME Open(host), NEW g \in Guests
       PROVE  /\ Idle(toGuest[g], toHost[g], seat[g])
              /\ host.checkFor[g] # "pass" => None(toGuest[g])
  BY <1>1, <1>3, <1>6, <1>11, PlacedThere
<1>12. ASSUME ~Open(host)
       PROVE  /\ OnMove(host) /\ host.getting
              /\ \A s \in Seated : s # host.turn => host.checkFor[s] = "pass"
  BY <1>1, <1>3, <1>8, <1>12 DEF Open, Checks
<1>13. ASSUME ~Open(host), NEW g \in Guests
       PROVE  /\ g # host.turn => Idle(toGuest[g], toHost[g], seat[g])
              /\ g = host.turn => Decided(host.checkFor[g], toGuest[g], toHost[g], seat[g])
  <2>1. Placed(host, g, toGuest[g], toHost[g], seat[g]) /\ ~host.inCheck[g]
    BY <1>1, <1>3, <1>6
  <2>. QED
    BY <1>3, <1>4, <1>8, <1>13, <2>1, PlacedThere
<1>. QED
  BY <1>3, <1>4, <1>5, <1>7, <1>9, <1>10, <1>11, <1>12, <1>13

LEMMA ComparedFacts ==
  ASSUME host \in Hosts
  PROVE  /\ Compared \in Hosts
         /\ ~Compared.checkOn /\ Compared.nextOn /\ Compared.sendOn /\ ~Compared.nextReq
         /\ Compared.checkFor = NoClaims /\ ~Compared.getting
         /\ Compared.turn = host.turn /\ Compared.owner = host.owner /\ Compared.dealer = host.dealer
         /\ Compared.inCheck = host.inCheck /\ Compared.waitHit = host.waitHit
         /\ Compared.waiting = host.waiting /\ Compared.sendReq = host.sendReq
         /\ Compared.drawn = host.drawn /\ Compared.card = host.card
         /\ Compared.wall = host.wall /\ Compared.flowers = host.flowers
  BY DEF Compared, Hosts, NoClaims, Calls

\* Outside a check nobody's answer matters.
LEMMA NoAnswers ==
  ASSUME ~host'.checkOn, host'.checkFor = NoClaims, \A s \in Seated : ~host'.inCheck[s]
  PROVE  Checks(host') /\ CallsFit'
<1>1. \A s \in Seated : host'.checkFor[s] = "pass"
  BY DEF NoClaims
<1>. QED
  BY <1>1 DEF Checks, CallsFit, MayCall, Open

\* The stage the loop is left at, when no check is under way.
LEMMA LoopAfter ==
  ASSUME NEW n \in 1 .. 4, GoOn(host', n), ~host'.drawn, ~host'.checkOn
  PROVE  /\ loop' \in [at : {"start", "listen", "over"} \cup {Stages[i] : i \in 1 .. 4}, heard : {0} \cup Guests]
         /\ loop'.at # "start" /\ InLoop(host', loop')
<1>1. /\ loop'.heard = 0 /\ loop'.at \in {"listen", "waiting", "check", "next", "send"}
      /\ loop' \in [at : {"start", "listen", "over"} \cup {Stages[i] : i \in 1 .. 4}, heard : {0} \cup Guests]
      /\ loop'.at # "listen" => Due(host', loop'.at)
  BY GoesOn
<1>. QED
  BY <1>1 DEF InLoop

LEMMA CheckNoneKeeps ==
  ASSUME RoundAssumption, IInv, CheckNone
  PROVE  IInv'
<1>. DEFINE h == host'
<1>1. /\ loop.at = "check" /\ host.checkFor = NoClaims /\ h = [Compared EXCEPT !.nextReq = PassesOn]
      /\ UNCHANGED <<seat, toGuest, toHost, pile>> /\ GoOn(h, 3)
  BY DEF CheckNone
<1>2. /\ host \in Hosts /\ seat \in [Seated -> Hands] /\ Host \in Seated
      /\ toGuest \in [Guests -> Seq(GuestMessages)] /\ toHost \in [Guests -> Seq(HostMessages)]
      /\ Guests \subseteq Seated /\ Host \notin Guests /\ pile \in Int
      /\ \A s \in Seated : s # Host => s \in Guests
  BY HostFacts
<1>3. PassesOn = ~host.getting /\ PassesOn \in BOOLEAN
  BY <1>2 DEF PassesOn, Hosts
<1>4. /\ h \in Hosts /\ ~h.checkOn /\ h.checkFor = NoClaims /\ h.turn = host.turn
      /\ h.inCheck = host.inCheck /\ h.waitHit = host.waitHit /\ h.waiting = host.waiting
      /\ h.sendReq = host.sendReq /\ h.drawn = host.drawn /\ h.nextReq = ~host.getting
  BY <1>1, <1>2, <1>3, ComparedFacts DEF Hosts
<1>5. /\ host.checkOn /\ ~host.waiting /\ ~host.drawn /\ ~host.sendReq /\ ~host.nextReq
      /\ (\A s \in Seated : ~host.inCheck[s]) /\ (\A s \in Seated : ~host.waitHit[s])
      /\ ~seat[Host].asked
      /\ host.turn # Host \/ Open(host) => seat[Host].mode = "wait" /\ ~seat[Host].extra
      /\ host.turn = Host /\ ~Open(host) => seat[Host].mode = "throw" /\ seat[Host].extra
      /\ Open(host) => \A g \in Guests : Idle(toGuest[g], toHost[g], seat[g])
      /\ ~Open(host) =>
           /\ \A g \in Guests : g # host.turn => Idle(toGuest[g], toHost[g], seat[g])
           /\ host.turn \in Guests =>
                LET g == host.turn
                IN  Decided(host.checkFor[g], toGuest[g], toHost[g], seat[g])
  BY <1>1, Verdict
<1>. HIDE DEF h
<1>6. /\ Open(host) <=> Passing(h)
      /\ OnMove(h) <=> ~Open(host)
      /\ ~Open(h)
  BY <1>4, <1>5 DEF Open, Passing, OnMove
<1>7. PhasesApart(h)
  BY <1>4, <1>5 DEF PhasesApart, Open
<1>8. Checks(h) /\ CallsFit'
  BY <1>4, <1>5, NoAnswers DEF h
<1>9. /\ loop' \in [at : {"start", "listen", "over"} \cup {Stages[i] : i \in 1 .. 4}, heard : {0} \cup Guests]
      /\ loop'.at # "start" /\ InLoop(h, loop')
  BY <1>1, <1>4, <1>5, LoopAfter DEF h
<1>10. ASSUME NEW g \in Guests PROVE Placed(h, g, toGuest[g], toHost[g], seat[g])
  <2>1. CASE Open(host)
    BY <1>5, <1>6, <1>7, <2>1, PlacedPassing
  <2>2. CASE ~Open(host) /\ g # host.turn
    BY <1>4, <1>5, <1>6, <2>2, PlacedAside
  <2>3. CASE ~Open(host) /\ g = host.turn
    <3>1. Decided(host.checkFor[g], toGuest[g], toHost[g], seat[g])
      BY <1>5, <2>3
    <3>2. Mover(toGuest[g], toHost[g], seat[g])
      BY <3>1 DEF Decided, Mover, Bare
    <3>. QED
      BY <1>4, <1>5, <1>6, <2>3, <3>2, PlacedMover
  <2>. QED
    BY <2>1, <2>2, <2>3
<1>11. HostPlaced(h, loop'.at, seat[Host])
  BY <1>2, <1>4, <1>5, <1>6, <1>9 DEF HostPlaced
<1>12. HandsFit' /\ MeldsFit' /\ seat' \in [Seated -> Hands]
  BY <1>1, SeatsKept
<1>. QED
  BY <1>1, <1>2, <1>4, <1>7, <1>8, <1>9, <1>10, <1>11, <1>12, HostStep DEF h

LEMMA CheckMakeKeeps ==
  ASSUME RoundAssumption, IInv, CheckMake
  PROVE  IInv'
<1>. DEFINE h == host' dealer == NextDealer(Winner) m == [type |-> "MAKE"]
            p == [seat[Host] EXCEPT !.mode = "wait"]
<1>1. /\ loop.at = "check" /\ Callers("make") # {}
      /\ h = [Compared EXCEPT !.waiting = TRUE, !.waitHit[Host] = TRUE, !.dealer = dealer]
      /\ seat' = [seat EXCEPT ![Host] = p] /\ toGuest' = SentAll(m)
      /\ UNCHANGED <<toHost, pile>> /\ GoOn(h, 3)
  BY DEF CheckMake
<1>2. /\ host \in Hosts /\ seat \in [Seated -> Hands] /\ Host \in Seated
      /\ toGuest \in [Guests -> Seq(GuestMessages)] /\ toHost \in [Guests -> Seq(HostMessages)]
      /\ Guests \subseteq Seated /\ Host \notin Guests /\ pile \in Int
      /\ \A s \in Seated : s # Host => s \in Guests
  BY HostFacts
<1>3. dealer \in 1 .. 4
  BY <1>2 DEF NextDealer, Hosts
<1>. HIDE DEF dealer
<1>4. /\ h \in Hosts /\ ~h.checkOn /\ h.checkFor = NoClaims /\ h.turn = host.turn
      /\ h.inCheck = host.inCheck /\ h.waiting /\ h.waitHit[Host]
      /\ \A s \in Seated : s # Host => h.waitHit[s] = host.waitHit[s]
      /\ h.sendReq = host.sendReq /\ h.drawn = host.drawn /\ ~h.nextReq
  <2>. DEFINE c == Compared
  <2>1. /\ c \in Hosts /\ ~c.checkOn /\ c.checkFor = NoClaims /\ c.turn = host.turn
        /\ c.inCheck = host.inCheck /\ c.waitHit = host.waitHit
        /\ c.sendReq = host.sendReq /\ c.drawn = host.drawn /\ ~c.nextReq
    BY <1>2, ComparedFacts
  <2>. HIDE DEF c
  <2>. DEFINE hit == [c.waitHit EXCEPT ![Host] = TRUE]
  <2>2. h = [c EXCEPT !.waiting = TRUE, !.waitHit[Host] = TRUE, !.dealer = dealer]
    BY <1>1 DEF c
  <2>3. /\ hit \in [Seated -> BOOLEAN] /\ hit[Host]
        /\ \A s \in Seated : s # Host => hit[s] = host.waitHit[s]
    BY <1>2, <2>1 DEF Hosts
  <2>4. h = [c EXCEPT !.waiting = TRUE, !.waitHit = hit, !.dealer = dealer]
    BY <2>2
  <2>. HIDE DEF h, hit
  <2>5. /\ h \in Hosts /\ h.checkOn = c.checkOn /\ h.checkFor = c.checkFor /\ h.turn = c.turn
        /\ h.inCheck = c.inCheck /\ h.waiting /\ h.waitHit = hit
        /\ h.sendReq = c.sendReq /\ h.drawn = c.drawn /\ h.nextReq = c.nextReq
    BY <1>3, <2>1, <2>3, <2>4 DEF Hosts
  <2>. QED
    BY <2>1, <2>3, <2>5
<1>5. /\ host.checkOn /\ ~host.waiting /\ ~host.drawn /\ ~host.sendReq /\ ~host.nextReq
      /\ (\A s \in Seated : ~host.inCheck[s]) /\ (\A s \in Seated : ~host.waitHit[s])
      /\ ~seat[Host].asked
      /\ Open(host) => \A g \in Guests : Idle(toGuest[g], toHost[g], seat[g])
      /\ ~Open(host) =>
           /\ \A s \in Seated : s # host.turn => host.checkFor[s] = "pass"
           /\ \A g \in Guests : g # host.turn => Idle(toGuest[g], toHost[g], seat[g])
           /\ host.turn \in Guests =>
                LET g == host.turn
                IN  Decided(host.checkFor[g], toGuest[g], toHost[g], seat[g])
  BY <1>1, Verdict
<1>6. PICK s \in Seated : host.checkFor[s] = "make"
  BY <1>1 DEF Callers
<1>7. m \in GuestMessages /\ m.type = "MAKE"
  BY DEF GuestMessages
<1>8. Word(m) = "MAKE"
  BY <1>7, Words
<1>. HIDE DEF h, m
<1>9. /\ toGuest' \in [Guests -> Seq(GuestMessages)]
      /\ \A g \in Guests : toGuest'[g] = toGuest[g] \o <<m>>
  BY <1>1, <1>2, <1>7, SendsAll
<1>10. PhasesApart(h)
  BY <1>4, <1>5 DEF PhasesApart, Open
<1>11. Checks(h) /\ CallsFit'
  BY <1>4, <1>5, NoAnswers DEF h
<1>12. /\ loop' \in [at : {"start", "listen", "over"} \cup {Stages[i] : i \in 1 .. 4}, heard : {0} \cup Guests]
       /\ loop'.at # "start" /\ InLoop(h, loop')
  BY <1>1, <1>4, <1>5, LoopAfter DEF h
<1>13. /\ p \in Hands /\ p.mode = "wait" /\ p.asked = seat[Host].asked
       /\ p.melds = seat[Host].melds /\ p.pongs = seat[Host].pongs
       /\ seat[Host].pongs <= seat[Host].melds
  <2>1. seat[Host] \in Hands /\ seat[Host].pongs <= seat[Host].melds
    BY <1>2 DEF IInv, MeldsFit
  <2>. QED
    BY <2>1 DEF Hands
<1>. HIDE DEF p
<1>14. /\ HandsFit' /\ MeldsFit' /\ seat' \in [Seated -> Hands] /\ seat'[Host] = p
       /\ \A g \in Guests : seat'[g] = seat[g]
  BY <1>1, <1>13, HostSeat
<1>15. ASSUME NEW g \in Guests PROVE Told(FALSE, toGuest'[g], toHost[g], seat[g])
  <2>. DEFINE q == toGuest[g] w == toGuest'[g] r == toHost[g] pg == seat[g]
  <2>1. q \in Seq(GuestMessages) /\ w = q \o <<m>>
    BY <1>2, <1>9
  <2>2. /\ None(q) => One(w, "MAKE")
        /\ One(q, "NEW_ROUND") => Two(w, "NEW_ROUND", "MAKE")
        /\ One(q, "tile") => Two(w, "tile", "MAKE")
    <3>. HIDE DEF q, w
    <3>. QED
      BY <1>7, <1>8, <2>1, Joined
  <2>. HIDE DEF q, w, r, pg
  <2>3. ASSUME Idle(q, r, pg) PROVE Told(FALSE, w, r, pg)
    BY <2>2, <2>3 DEF Idle, Told
  <2>4. ASSUME Decided("make", q, r, pg) PROVE Told(FALSE, w, r, pg)
    BY <2>2, <2>4 DEF Decided, Told
  <2>5. Idle(q, r, pg) \/ Decided("make", q, r, pg)
    <3>1. CASE Open(host) \/ g # host.turn
      BY <1>5, <3>1 DEF q, r, pg
    <3>2. CASE ~Open(host) /\ g = host.turn
      <4>1. s = g
        BY <1>5, <1>6, <3>2
      <4>. QED
        BY <1>5, <1>6, <3>2, <4>1 DEF q, r, pg
    <3>. QED
      BY <3>1, <3>2
  <2>. QED
    BY <2>3, <2>4, <2>5 DEF q, w, r, pg
<1>16. ASSUME NEW g \in Guests PROVE Placed(h, g, toGuest'[g], toHost'[g], seat'[g])
  <2>1. h.waitHit[g] = host.waitHit[g] /\ ~host.waitHit[g]
    BY <1>2, <1>4, <1>5
  <2>2. h.waitHit \in [Seated -> BOOLEAN]
    BY <1>4 DEF Hosts
  <2>3. h.waitHit[g] = FALSE
    BY <1>2, <2>1, <2>2
  <2>4. Told(h.waitHit[g], toGuest'[g], toHost'[g], seat'[g])
    <3>1. toHost'[g] = toHost[g] /\ seat'[g] = seat[g]
      BY <1>1, <1>14
    <3>. HIDE DEF h
    <3>. QED
      BY <1>15, <2>3, <3>1
  <2>. QED
    BY <1>4, <1>10, <2>4, PlacedTold
<1>17. HostPlaced(h, loop'.at, seat'[Host])
  <2>1. ~OnMove(h) /\ ~h.inCheck[Host]
    BY <1>2, <1>4, <1>5 DEF OnMove
  <2>. QED
    BY <1>4, <1>5, <1>13, <1>14, <2>1 DEF HostPlaced
<1>. QED
  BY <1>1, <1>2, <1>4, <1>9, <1>10, <1>11, <1>12, <1>14, <1>16, <1>17, HostStep DEF h

\* The turn goes to the player at s.
Handed(v, s) == [v EXCEPT !.owner = s, !.turn = s]

LEMMA TurnTaken ==
  ASSUME NEW v \in Hosts, NEW s \in Seated, NEW h, h = Handed(v, s)
  PROVE  /\ h \in Hosts /\ h.turn = s /\ h.checkOn = v.checkOn /\ h.checkFor = v.checkFor
         /\ h.inCheck = v.inCheck /\ h.waitHit = v.waitHit /\ h.waiting = v.waiting
         /\ h.sendReq = v.sendReq /\ h.drawn = v.drawn /\ h.nextReq = v.nextReq
<1>1. [v EXCEPT !.owner = s, !.turn = s] \in Hosts
  BY ZenonT(40) DEF Hosts
<1>. USE DEF Handed
<1>2. /\ h.turn = s /\ h.checkOn = v.checkOn /\ h.checkFor = v.checkFor
      /\ h.inCheck = v.inCheck /\ h.waitHit = v.waitHit
  BY SMTT(40) DEF Hosts
<1>3. /\ h.sendReq = v.sendReq /\ h.drawn = v.drawn /\ h.nextReq = v.nextReq /\ h.waiting = v.waiting
  BY SMTT(40) DEF Hosts
<1>. QED
  BY <1>1, <1>2, <1>3

LEMMA GrantKeeps ==
  ASSUME RoundAssumption, IInv, loop.at = "check", NEW s \in Seated,
         NEW c \in {"eat", "pong", "kang"}, host.checkFor[s] = c,
         NEW kind, kind = (IF c = "kang" THEN KangKind(s) ELSE c), Grant(s, kind)
  PROVE  IInv'
<1>. DEFINE h == host' m == [type |-> "EPK", kind |-> kind] p == Melded(seat[Host], kind)
<1>1. /\ h = [Compared EXCEPT !.owner = s, !.turn = s] /\ UNCHANGED toHost /\ GoOn(h, 3)
      /\ s = Host => /\ seat' = [seat EXCEPT ![Host] = p]
                     /\ pile' = PileAfter(kind) /\ UNCHANGED toGuest
      /\ s # Host => toGuest' = SentTo(s, <<m>>) /\ UNCHANGED <<seat, pile>>
  BY DEF Grant
<1>2. /\ host \in Hosts /\ seat \in [Seated -> Hands] /\ Host \in Seated
      /\ toGuest \in [Guests -> Seq(GuestMessages)] /\ toHost \in [Guests -> Seq(HostMessages)]
      /\ Guests \subseteq Seated /\ Host \notin Guests /\ pile \in Int /\ host.turn \in Seated
      /\ \A u \in Seated : u # Host => u \in Guests
  BY HostFacts
<1>3. /\ h \in Hosts /\ ~h.checkOn /\ h.checkFor = NoClaims /\ h.turn = s
      /\ h.inCheck = host.inCheck /\ h.waitHit = host.waitHit /\ h.waiting = host.waiting
      /\ h.sendReq = host.sendReq /\ h.drawn = host.drawn /\ ~h.nextReq
  <2>. DEFINE v == Compared
  <2>1. /\ v \in Hosts /\ ~v.checkOn /\ v.checkFor = NoClaims /\ v.inCheck = host.inCheck
        /\ v.waitHit = host.waitHit /\ v.waiting = host.waiting
        /\ v.sendReq = host.sendReq /\ v.drawn = host.drawn /\ ~v.nextReq
    BY <1>2, ComparedFacts
  <2>. HIDE DEF v
  <2>2. h = Handed(v, s)
    BY <1>1 DEF v, Handed
  <2>. HIDE DEF h
  <2>. QED
    <3>1. v \in Hosts /\ s \in Seated
      BY <2>1
    <3>2. /\ h \in Hosts /\ h.turn = s /\ h.checkOn = v.checkOn /\ h.checkFor = v.checkFor
          /\ h.inCheck = v.inCheck /\ h.waitHit = v.waitHit /\ h.waiting = v.waiting
          /\ h.sendReq = v.sendReq /\ h.drawn = v.drawn /\ h.nextReq = v.nextReq
      BY <2>2, <3>1, TurnTaken
    <3>. QED
      BY <2>1, <3>2
<1>4. /\ host.checkOn /\ ~host.waiting /\ ~host.drawn /\ ~host.sendReq /\ ~host.nextReq
      /\ (\A u \in Seated : ~host.inCheck[u]) /\ (\A u \in Seated : ~host.waitHit[u])
      /\ ~seat[Host].asked
      /\ host.turn # Host \/ Open(host) => seat[Host].mode = "wait" /\ ~seat[Host].extra
      /\ Open(host) => /\ host.card = {} /\ host.checkFor[host.turn] = "pass"
                       /\ \A g \in Guests :
                            /\ Idle(toGuest[g], toHost[g], seat[g])
                            /\ host.checkFor[g] # "pass" => None(toGuest[g])
      /\ ~Open(host) =>
           /\ host.getting
           /\ \A u \in Seated : u # host.turn => host.checkFor[u] = "pass"
           /\ \A g \in Guests : g # host.turn => Idle(toGuest[g], toHost[g], seat[g])
           /\ host.turn \in Guests =>
                LET g == host.turn
                IN  Decided(host.checkFor[g], toGuest[g], toHost[g], seat[g])
  BY Verdict
<1>5. MayCall(host, seat[s], c)
  BY DEF IInv, CallsFit
<1>6. /\ Open(host) => s # host.turn /\ kind = c
      /\ ~Open(host) => s = host.turn /\ kind \in {"concealed", "added"}
      /\ MayMeld(seat[s], kind) /\ kind \in Kinds
  <2>1. CASE Open(host)
    <3>1. "added" \notin host.card /\ s # host.turn
      BY <1>4, <2>1
    <3>2. kind = c
      BY <3>1 DEF KangKind
    <3>. QED
      BY <1>5, <2>1, <3>1, <3>2 DEF MayCall, MayMeld, Kinds
  <2>2. CASE ~Open(host)
    <3>1. s = host.turn /\ c = "kang"
      BY <1>4, <1>5, <2>2 DEF MayCall
    <3>. QED
      BY <1>5, <2>2, <3>1 DEF MayCall, MayMeld, Kinds, KangKind
  <2>. QED
    BY <2>1, <2>2
<1>7. /\ loop' \in [at : {"start", "listen", "over"} \cup {Stages[i] : i \in 1 .. 4}, heard : {0} \cup Guests]
      /\ loop'.at # "start" /\ InLoop(h, loop')
  BY <1>1, <1>3, <1>4, LoopAfter
<1>8. Checks(h) /\ CallsFit'
  BY <1>3, <1>4, NoAnswers
<1>9. m \in GuestMessages /\ m.type = "EPK" /\ m.kind = kind
  BY <1>6 DEF GuestMessages
<1>10. Word(m) = IF Open(host) THEN "claim" ELSE "own"
  BY <1>6, <1>9, Words
<1>. HIDE DEF h, m, p
<1>11. PhasesApart(h)
  BY <1>3, <1>4 DEF PhasesApart, Open
<1>12. OnMove(h) /\ ~h.sendReq /\ ~h.drawn
  BY <1>3, <1>4 DEF OnMove, Open, Passing
<1>13. PileAfter(kind) \in Int
  BY <1>2 DEF PileAfter
<1>14. ASSUME NEW g \in Guests, g # s PROVE Idle(toGuest[g], toHost[g], seat[g])
  BY <1>4, <1>6, <1>14
<1>15. CASE s = Host
  <2>1. /\ p \in Hands /\ p.pongs <= p.melds /\ p.asked = seat[Host].asked
        /\ (p.mode = "throw" /\ p.extra) \/ (p.mode = "get" /\ ~p.extra)
    <3>1. seat[Host] \in Hands /\ seat[Host].pongs <= seat[Host].melds
      BY <1>2 DEF IInv, MeldsFit
    <3>. QED
      BY <1>6, <1>15, <3>1, MeldedType DEF p
  <2>2. /\ HandsFit' /\ MeldsFit' /\ seat' \in [Seated -> Hands] /\ seat'[Host] = p
        /\ \A g \in Guests : seat'[g] = seat[g]
    BY <1>1, <1>15, <2>1, HostSeat
  <2>3. ASSUME NEW g \in Guests PROVE Placed(h, g, toGuest'[g], toHost'[g], seat'[g])
    <3>1. g # s /\ g # h.turn
      BY <1>2, <1>3, <1>15
    <3>2. Idle(toGuest'[g], toHost'[g], seat'[g])
      BY <1>1, <1>14, <1>15, <2>2, <3>1
    <3>. QED
      BY <1>12, <3>1, <3>2, PlacedAside
  <2>4. HostPlaced(h, loop'.at, seat'[Host])
    BY <1>2, <1>3, <1>4, <1>7, <1>12, <1>15, <2>1, <2>2 DEF HostPlaced
  <2>. QED
    BY <1>1, <1>2, <1>3, <1>7, <1>8, <1>11, <1>13, <1>15, <2>2, <2>3, <2>4, HostStep DEF h
<1>16. CASE s # Host
  <2>. DEFINE q == toGuest[s] w == toGuest'[s] r == toHost[s] ps == seat[s]
  <2>1. s \in Guests /\ <<m>> \in Seq(GuestMessages)
    BY <1>2, <1>9, <1>16, Single
  <2>2. /\ toGuest' \in [Guests -> Seq(GuestMessages)] /\ w = q \o <<m>>
        /\ \A g \in Guests : g # s => toGuest'[g] = toGuest[g]
    BY <1>1, <1>2, <1>16, <2>1, SendsTo
  <2>3. Mover(w, r, ps)
    <3>1. q \in Seq(GuestMessages)
      BY <1>2, <2>1
    <3>2. CASE Open(host)
      <4>1. Idle(q, r, ps) /\ None(q) /\ Word(m) = "claim"
        BY <1>4, <1>10, <2>1, <3>2
      <4>2. One(w, "claim") /\ w[1] = m
        <5>. HIDE DEF q, w
        <5>. QED
          BY <1>9, <2>2, <3>1, <4>1, Joined
      <4>3. ps.melds < MaxMelds
        BY <1>6, <3>2 DEF MayMeld
      <4>4. ~ps.extra
        BY <4>1 DEF Idle, None, One
      <4>. HIDE DEF q, w, r, ps
      <4>. QED
        BY <4>1, <4>2, <4>3, <4>4 DEF Idle, Mover
    <3>3. CASE ~Open(host)
      <4>1. Decided(c, q, r, ps) /\ Word(m) = "own"
        BY <1>4, <1>6, <1>10, <2>1, <3>3
      <4>2. /\ None(q) => One(w, "own") /\ w[1] = m
            /\ One(q, "tile") => Two(w, "tile", "own") /\ w[2] = m
        <5>. HIDE DEF q, w
        <5>. QED
          BY <1>9, <2>2, <3>1, <4>1, Joined
      <4>3. MayMeld(ps, m.kind)
        BY <1>6, <1>9
      <4>. HIDE DEF q, w, r, ps
      <4>. QED
        BY <4>1, <4>2, <4>3 DEF Decided, Mover
    <3>. QED
      BY <3>2, <3>3
  <2>4. HandsFit' /\ MeldsFit' /\ seat' \in [Seated -> Hands]
    BY <1>1, <1>16, SeatsKept
  <2>5. ASSUME NEW g \in Guests PROVE Placed(h, g, toGuest'[g], toHost'[g], seat'[g])
    <3>1. CASE g = s
      <4>1. OnMove(h) /\ g = h.turn /\ ~h.sendReq /\ ~h.checkOn
        BY <1>3, <1>12, <3>1
      <4>2. Mover(toGuest'[g], toHost'[g], seat'[g])
        BY <1>1, <1>16, <2>3, <3>1
      <4>. HIDE DEF h
      <4>. QED
        BY <4>1, <4>2, PlacedMover
    <3>2. CASE g # s
      <4>1. Idle(toGuest'[g], toHost'[g], seat'[g])
        BY <1>1, <1>14, <1>16, <2>2, <3>2
      <4>. QED
        BY <1>3, <1>12, <3>2, <4>1, PlacedAside
    <3>. QED
      BY <3>1, <3>2
  <2>6. seat[Host].mode = "wait" /\ ~seat[Host].extra
    BY <1>4, <1>6, <1>16
  <2>7. HostPlaced(h, loop'.at, seat'[Host])
    BY <1>1, <1>2, <1>3, <1>4, <1>16, <2>6, SMTT(40) DEF HostPlaced
  <2>8. /\ toGuest' \in [Guests -> Seq(GuestMessages)]
        /\ toHost' \in [Guests -> Seq(HostMessages)] /\ pile' \in Int
    BY <1>1, <1>2, <1>16, <2>2
  <2>9. /\ host' \in Hosts /\ PhasesApart(host') /\ Checks(host') /\ InLoop(host', loop')
        /\ \A g \in Guests : Placed(host', g, toGuest'[g], toHost'[g], seat'[g])
        /\ HostPlaced(host', loop'.at, seat'[Host])
    BY <1>3, <1>7, <1>8, <1>11, <2>5, <2>7 DEF h
  <2>. HIDE DEF q, w, r, ps
  <2>. QED
    BY <1>7, <1>8, <2>4, <2>8, <2>9, HostStep
<1>. QED
  BY <1>15, <1>16

\* The first of those who have called.
LEMMA FirstCaller ==
  ASSUME RoundAssumption, NEW S, S \subseteq Seated, S # {}
  PROVE  Lowest(S) \in S
<1>1. S \subseteq 1 .. 4
  BY DEF RoundAssumption
<1>2. \E s \in S : \A u \in S : s <= u
  <2>1. CASE 1 \in S
    BY <1>1, <2>1
  <2>2. CASE 1 \notin S /\ 2 \in S
    BY <1>1, <2>2
  <2>3. CASE 1 \notin S /\ 2 \notin S /\ 3 \in S
    BY <1>1, <2>3
  <2>4. CASE 1 \notin S /\ 2 \notin S /\ 3 \notin S
    <3>1. \A s \in S : s = 4
      BY <1>1, <2>4
    <3>2. PICK s \in S : TRUE
      OBVIOUS
    <3>3. s \in S /\ \A u \in S : s <= u
      BY <3>1, <3>2
    <3>. QED
      BY <3>3
  <2>. QED
    BY <2>1, <2>2, <2>3, <2>4
<1>. QED
  BY <1>2 DEF Lowest

LEMMA ClaimsKeep ==
  ASSUME RoundAssumption, IInv, CheckKang \/ CheckPong \/ CheckEat
  PROVE  IInv'
<1>1. ASSUME NEW c \in Calls, Callers(c) # {}
      PROVE  Lowest(Callers(c)) \in Seated /\ host.checkFor[Lowest(Callers(c))] = c
  <2>1. Callers(c) \subseteq Seated
    BY DEF Callers
  <2>2. Lowest(Callers(c)) \in Callers(c)
    BY <1>1, <2>1, FirstCaller
  <2>. QED
    BY <2>2 DEF Callers
<1>2. CASE CheckKang
  <2>. DEFINE s == Lowest(Callers("kang"))
  <2>1. loop.at = "check" /\ Callers("kang") # {} /\ Grant(s, KangKind(s)) /\ "kang" \in Calls
    BY <1>2 DEF CheckKang, Calls
  <2>2. s \in Seated /\ host.checkFor[s] = "kang"
    BY <1>1, <2>1
  <2>. HIDE DEF s
  <2>. QED
    BY <2>1, <2>2, GrantKeeps
<1>3. CASE CheckPong
  <2>. DEFINE s == Lowest(Callers("pong"))
  <2>1. loop.at = "check" /\ Callers("pong") # {} /\ Grant(s, "pong") /\ "pong" \in Calls
    BY <1>3 DEF CheckPong, Calls
  <2>2. s \in Seated /\ host.checkFor[s] = "pong"
    BY <1>1, <2>1
  <2>. HIDE DEF s
  <2>. QED
    BY <2>1, <2>2, GrantKeeps
<1>4. CASE CheckEat
  <2>. DEFINE s == Lowest(Callers("eat"))
  <2>1. loop.at = "check" /\ Callers("eat") # {} /\ Grant(s, "eat") /\ "eat" \in Calls
    BY <1>4 DEF CheckEat, Calls
  <2>2. s \in Seated /\ host.checkFor[s] = "eat"
    BY <1>1, <2>1
  <2>. HIDE DEF s
  <2>. QED
    BY <2>1, <2>2, GrantKeeps
<1>. QED
  BY <1>2, <1>3, <1>4

-----------------------------------------------------------------------------
(* The turn goes on, and tiles leave the wall.                              *)

LEMMA NextPlayerKeeps ==
  ASSUME RoundAssumption, IInv, NextPlayer
  PROVE  IInv'
<1>. DEFINE h == host' next == NextTurn(host.turn) m == [type |-> "CAN_GET"]
            p == [seat[Host] EXCEPT !.mode = "get"]
<1>1. /\ loop.at = "next" /\ h = [host EXCEPT !.turn = next, !.nextReq = FALSE]
      /\ UNCHANGED <<toHost, pile>> /\ GoOn(h, 4)
      /\ next = Host => seat' = [seat EXCEPT ![Host] = p] /\ UNCHANGED toGuest
      /\ next # Host => toGuest' = SentTo(next, <<m>>) /\ UNCHANGED seat
  BY DEF NextPlayer
<1>2. /\ host \in Hosts /\ seat \in [Seated -> Hands] /\ Host \in Seated
      /\ toGuest \in [Guests -> Seq(GuestMessages)] /\ toHost \in [Guests -> Seq(HostMessages)]
      /\ Guests \subseteq Seated /\ Host \notin Guests /\ pile \in Int /\ host.turn \in Seated
      /\ Seated \subseteq 1 .. 4
      /\ \A u \in Seated : u # Host => u \in Guests
  BY HostFacts
<1>3. next \in Seated
  BY <1>2, NextTurnType
<1>. HIDE DEF next
<1>4. /\ h \in Hosts /\ h.checkOn = host.checkOn /\ h.checkFor = host.checkFor /\ h.turn = next
      /\ h.inCheck = host.inCheck /\ h.waitHit = host.waitHit /\ h.waiting = host.waiting
      /\ h.sendReq = host.sendReq /\ h.drawn = host.drawn /\ ~h.nextReq
  <2>1. h = [host EXCEPT !.turn = next, !.nextReq = FALSE]
    BY <1>1
  <2>. HIDE DEF h
  <2>. QED
    BY <1>2, <1>3, <2>1 DEF Hosts
<1>5. /\ PhasesApart(host) /\ Checks(host) /\ InLoop(host, loop)
      /\ HostPlaced(host, loop.at, seat[Host])
      /\ (\A g \in Guests : Placed(host, g, toGuest[g], toHost[g], seat[g]))
      /\ (\A s \in Seated : seat[s].pongs <= seat[s].melds)
  BY DEF IInv, MeldsFit
<1>6. host.nextReq /\ ~host.drawn /\ ~host.checkOn /\ ~host.waiting /\ ~host.sendReq
  BY <1>1, <1>5 DEF InLoop, Due, PhasesApart
<1>7. /\ ~OnMove(host) /\ ~seat[Host].asked /\ seat[Host].mode = "wait" /\ ~seat[Host].extra
      /\ \A s \in Seated : ~host.inCheck[s] /\ ~host.waitHit[s] /\ host.checkFor[s] = "pass"
      /\ \A g \in Guests : Idle(toGuest[g], toHost[g], seat[g])
  <2>1. Passing(host) /\ ~OnMove(host)
    BY <1>6 DEF Passing, OnMove
  <2>2. \A s \in Seated : ~host.inCheck[s] /\ ~host.waitHit[s] /\ host.checkFor[s] = "pass"
    BY <1>5, <1>6 DEF Checks, PhasesApart
  <2>3. \A g \in Guests : Idle(toGuest[g], toHost[g], seat[g])
    BY <1>5, <2>1, PlacedThere
  <2>4. ~seat[Host].asked /\ seat[Host].mode = "wait" /\ ~seat[Host].extra
    BY <1>2, <1>5, <1>6, <2>1, <2>2 DEF HostPlaced
  <2>. QED
    BY <2>1, <2>2, <2>3, <2>4
<1>8. m \in GuestMessages /\ m.type = "CAN_GET"
  BY DEF GuestMessages
<1>9. Word(m) = "CAN_GET"
  BY <1>8, Words
<1>. HIDE DEF h, m
<1>10. PhasesApart(h) /\ OnMove(h)
  BY <1>4, <1>6, <1>7 DEF PhasesApart, OnMove, Open, Passing
<1>11. /\ loop' \in [at : {"start", "listen", "over"} \cup {Stages[i] : i \in 1 .. 4}, heard : {0} \cup Guests]
       /\ loop'.at # "start" /\ InLoop(h, loop')
  BY <1>1, <1>4, <1>6, LoopAfter DEF h
<1>12. Checks(h) /\ CallsFit'
  BY <1>4, <1>6, <1>7 DEF Checks, CallsFit, MayCall, Open, h
<1>13. CASE next = Host
  <2>1. /\ p \in Hands /\ p.mode = "get" /\ ~p.extra /\ ~p.asked /\ p.pongs <= p.melds
    <3>1. seat[Host] \in Hands /\ seat[Host].pongs <= seat[Host].melds
      BY <1>2, <1>5
    <3>. QED
      BY <1>7, <3>1 DEF Hands
  <2>. HIDE DEF p
  <2>2. /\ HandsFit' /\ MeldsFit' /\ seat' \in [Seated -> Hands] /\ seat'[Host] = p
        /\ \A g \in Guests : seat'[g] = seat[g]
    BY <1>1, <1>13, <2>1, HostSeat
  <2>3. ASSUME NEW g \in Guests PROVE Placed(h, g, toGuest'[g], toHost'[g], seat'[g])
    <3>1. g # h.turn
      BY <1>2, <1>4, <1>13
    <3>2. Idle(toGuest'[g], toHost'[g], seat'[g])
      BY <1>1, <1>7, <1>13, <2>2
    <3>. QED
      BY <1>10, <3>1, <3>2, PlacedAside
  <2>4. HostPlaced(h, loop'.at, seat'[Host])
    BY <1>2, <1>4, <1>6, <1>7, <1>10, <1>11, <1>13, <2>1, <2>2 DEF HostPlaced
  <2>. QED
    BY <1>1, <1>2, <1>4, <1>10, <1>11, <1>12, <1>13, <2>2, <2>3, <2>4, HostStep DEF h
<1>14. CASE next # Host
  <2>. DEFINE q == toGuest[next] w == toGuest'[next] r == toHost[next] ps == seat[next]
  <2>1. next \in Guests /\ <<m>> \in Seq(GuestMessages)
    BY <1>2, <1>3, <1>8, <1>14, Single
  <2>2. /\ toGuest' \in [Guests -> Seq(GuestMessages)] /\ w = q \o <<m>>
        /\ \A g \in Guests : g # next => toGuest'[g] = toGuest[g]
    BY <1>1, <1>2, <1>14, <2>1, SendsTo
  <2>3. Mover(w, r, ps)
    <3>1. q \in Seq(GuestMessages) /\ Idle(q, r, ps)
      BY <1>2, <1>7, <2>1
    <3>2. /\ None(q) => One(w, "CAN_GET")
          /\ One(q, "NEW_ROUND") => Two(w, "NEW_ROUND", "CAN_GET")
      <4>. HIDE DEF q, w
      <4>. QED
        BY <1>8, <1>9, <2>2, <3>1, Joined
    <3>. HIDE DEF q, w, r, ps
    <3>. QED
      BY <3>1, <3>2 DEF Idle, Mover
  <2>4. HandsFit' /\ MeldsFit' /\ seat' \in [Seated -> Hands]
    BY <1>1, <1>14, SeatsKept
  <2>5. ASSUME NEW g \in Guests PROVE Placed(h, g, toGuest'[g], toHost'[g], seat'[g])
    <3>1. CASE g = next
      BY <1>1, <1>4, <1>6, <1>10, <1>14, <2>3, <3>1, PlacedMover
    <3>2. CASE g # next
      <4>1. Idle(toGuest'[g], toHost'[g], seat'[g])
        BY <1>1, <1>7, <1>14, <2>2, <3>2
      <4>. QED
        BY <1>4, <1>10, <3>2, <4>1, PlacedAside
    <3>. QED
      BY <3>1, <3>2
  <2>6. HostPlaced(h, loop'.at, seat'[Host])
    BY <1>1, <1>2, <1>4, <1>6, <1>7, <1>14 DEF HostPlaced
  <2>. QED
    BY <1>1, <1>2, <1>4, <1>10, <1>11, <1>12, <1>14, <2>2, <2>4, <2>5, <2>6, HostStep DEF h
<1>. QED
  BY <1>13, <1>14

\* What can be drawn can be called.
LEMMA DrawnOffer ==
  ASSUME RoundAssumption, NEW t \in Tiles, NEW s \in Seated, Drawable(s, t), t # Flower,
         NEW h, h.card = t
  PROVE  /\ Offer(t) = t /\ t \in SUBSET (Calls \cup {"added"}) /\ MayOffer(h, seat[s], t)
<1>1. t \subseteq {"kang", "added", "make"}
  <2>1. t \in (SUBSET {"kang", "added", "make"}) \cup {Flower}
    BY DEF RoundAssumption
  <2>. QED
    BY <2>1
<1>2. Offer(t) = t /\ t \in SUBSET (Calls \cup {"added"})
  BY <1>1 DEF Offer, Flower, Calls
<1>3. /\ "added" \in t => seat[s].pongs > 0
      /\ "kang" \in t => seat[s].melds < MaxMelds
  BY DEF Drawable
<1>4. ASSUME NEW c \in Answers(t) PROVE MayCall(h, seat[s], c)
  BY <1>1, <1>3 DEF Answers, MayCall
<1>. QED
  BY <1>2, <1>4 DEF MayOffer

\* The host's globals after a tile was sent to the player at s.
Drawn(v, s, t, wl, fl, ic, ch, gt) ==
  [v EXCEPT !.sendReq = FALSE, !.wall = wl, !.flowers = fl, !.owner = s, !.card = t,
            !.inCheck = ic, !.checkOn = ch, !.getting = gt]

DealtTo(h, v, t, ic, ch, gt) ==
  /\ h \in Hosts /\ h.checkFor = v.checkFor /\ h.turn = v.turn
  /\ h.checkOn = ch /\ h.getting = gt /\ h.inCheck = ic
  /\ h.waitHit = v.waitHit /\ h.waiting = v.waiting /\ h.card = t
  /\ ~h.sendReq /\ h.drawn = v.drawn /\ h.nextReq = v.nextReq

LEMMA TileServed ==
  ASSUME NEW v \in Hosts, NEW s \in Seated, NEW t \in Tiles, NEW wl \in Int, NEW fl \in 0 .. Flowers,
         NEW ic \in [Seated -> BOOLEAN], NEW ch \in BOOLEAN, NEW gt \in BOOLEAN, NEW h,
         h = Drawn(v, s, t, wl, fl, ic, ch, gt)
  PROVE  DealtTo(h, v, t, ic, ch, gt)
<1>1. [v EXCEPT !.sendReq = FALSE, !.wall = wl, !.flowers = fl, !.owner = s, !.card = t,
                !.inCheck = ic, !.checkOn = ch, !.getting = gt] \in Hosts
  BY t \in Tiles \cup HostDealt \cup GuestDealt, FALSE \in BOOLEAN, ZenonT(40) DEF Hosts
<1>2. h.checkFor = v.checkFor /\ h.turn = v.turn /\ h.waitHit = v.waitHit /\ h.waiting = v.waiting
  BY SMTT(40) DEF Hosts, Drawn
<1>3. h.drawn = v.drawn /\ h.nextReq = v.nextReq /\ ~h.sendReq /\ h.card = t
  BY SMTT(40) DEF Hosts, Drawn
<1>4. h.checkOn = ch /\ h.getting = gt /\ h.inCheck = ic
  BY SMTT(40) DEF Hosts, Drawn
<1>5. h \in Hosts
  BY <1>1 DEF Drawn
<1>. QED
  BY <1>2, <1>3, <1>4, <1>5 DEF DealtTo

LEMMA SendCardKeeps ==
  ASSUME RoundAssumption, IInv, NEW t \in Tiles, SendCard(t)
  PROVE  IInv'
<1>. DEFINE h == host' s == host.turn
            m == [type |-> "CHECK_CARD", offer |-> t] n == [type |-> "GET_CARD", card |-> t]
            question == IF Offer(t) = {} THEN <<>> ELSE <<m>>
            q == toGuest[s] w == toGuest'[s] r == toHost[s] ps == seat[s]
<1>1. /\ loop.at = "send" /\ Drawable(s, t)
      /\ h = [host EXCEPT
                !.sendReq = FALSE, !.wall = @ - 1, !.flowers = @ - Spent(t),
                !.owner = s, !.card = t, !.inCheck[s] = Offer(t) # {},
                !.checkOn = @ \/ Offer(t) # {}, !.getting = @ \/ Offer(t) # {}]
      /\ toGuest' = SentTo(s, question \o <<n>>)
      /\ UNCHANGED <<seat, toHost, pile>> /\ loop' = [at |-> "listen", heard |-> 0]
  BY DEF SendCard
<1>2. /\ host \in Hosts /\ seat \in [Seated -> Hands] /\ Host \in Seated
      /\ toGuest \in [Guests -> Seq(GuestMessages)] /\ toHost \in [Guests -> Seq(HostMessages)]
      /\ Guests \subseteq Seated /\ Host \notin Guests /\ pile \in Int /\ s \in Seated
      /\ \A u \in Seated : u # Host => u \in Guests
  BY HostFacts
<1>3. /\ PhasesApart(host) /\ Checks(host) /\ InLoop(host, loop)
      /\ HostPlaced(host, loop.at, seat[Host])
      /\ (\A g \in Guests : Placed(host, g, toGuest[g], toHost[g], seat[g]))
      /\ (\A u \in Seated : seat[u].pongs <= seat[u].melds)
  BY DEF IInv, MeldsFit
<1>4. host.sendReq /\ ~host.drawn /\ ~host.checkOn /\ ~host.waiting /\ ~host.nextReq /\ s # Host
  BY <1>1, <1>3 DEF InLoop, Due, PhasesApart
<1>5. s \in Guests
  BY <1>2, <1>4
<1>6. t = Flower => host.flowers > 0 /\ Offer(t) = {} /\ t # {}
  BY <1>1 DEF Drawable, Offer, Flower
<1>7. t # Flower => Offer(t) = t /\ t \in SUBSET (Calls \cup {"added"}) /\ MayOffer(h, ps, t)
  <2>1. h.card = t
    BY <1>1, <1>2 DEF Hosts
  <2>. SUFFICES ASSUME t # Flower
                PROVE  Offer(t) = t /\ t \in SUBSET (Calls \cup {"added"}) /\ MayOffer(h, ps, t)
    OBVIOUS
  <2>2. Drawable(s, t) /\ s \in Seated
    BY <1>1, <1>2
  <2>. HIDE DEF h, s
  <2>. QED
    BY <2>1, <2>2, DrawnOffer
<1>8. /\ h \in Hosts /\ h.checkFor = host.checkFor /\ h.turn = s
      /\ h.checkOn = (Offer(t) # {}) /\ (Offer(t) # {} => h.getting) /\ h.inCheck[s] = (Offer(t) # {})
      /\ \A u \in Seated : u # s => h.inCheck[u] = host.inCheck[u]
      /\ h.waitHit = host.waitHit /\ h.waiting = host.waiting /\ h.card = t
      /\ ~h.sendReq /\ h.drawn = host.drawn /\ h.nextReq = host.nextReq
  <2>. DEFINE fl == host.flowers - Spent(t) ic == [host.inCheck EXCEPT ![s] = Offer(t) # {}]
              wl == host.wall - 1 ch == Offer(t) # {} gt == host.getting \/ Offer(t) # {}
  <2>1. fl \in 0 .. Flowers
    <3>1. Flowers \in Nat /\ host.flowers \in 0 .. Flowers
      BY <1>2 DEF RoundAssumption, Hosts
    <3>. QED
      BY <1>6, <3>1 DEF Spent
  <2>2. /\ ic \in [Seated -> BOOLEAN] /\ ic[s] = ch
        /\ \A u \in Seated : u # s => ic[u] = host.inCheck[u]
    BY <1>2 DEF Hosts
  <2>3. wl \in Int /\ ch \in BOOLEAN /\ gt \in BOOLEAN /\ (ch => gt)
    BY <1>2 DEF Hosts
  <2>4. (host.checkOn \/ Offer(t) # {}) = ch
    BY <1>4
  <2>5. h = Drawn(host, s, t, wl, fl, ic, ch, gt)
    <3>. HIDE DEF h
    <3>. QED
      BY <1>1, <1>2, <2>4 DEF Hosts, Drawn
  <2>. HIDE DEF h, s, fl, ic, wl, ch, gt
  <2>6. /\ h \in Hosts /\ h.checkFor = host.checkFor /\ h.turn = host.turn
        /\ h.checkOn = ch /\ h.getting = gt /\ h.inCheck = ic
        /\ h.waitHit = host.waitHit /\ h.waiting = host.waiting /\ h.card = t
        /\ ~h.sendReq /\ h.drawn = host.drawn /\ h.nextReq = host.nextReq
    <3>1. host \in Hosts /\ s \in Seated /\ t \in Tiles
      BY <1>2 DEF s
    <3>2. wl \in Int /\ fl \in 0 .. Flowers /\ ic \in [Seated -> BOOLEAN] /\ ch \in BOOLEAN /\ gt \in BOOLEAN
      BY <2>1, <2>2, <2>3
    <3>3. DealtTo(h, host, t, ic, ch, gt)
      BY <2>5, <3>1, <3>2, TileServed
    <3>. QED
      BY <3>3 DEF DealtTo
  <2>. QED
    BY <2>2, <2>3, <2>6 DEF s, ch
<1>9. OnMove(host) /\ Served(q, r, ps) /\ ~seat[Host].asked /\ seat[Host].mode = "wait"
      /\ ~seat[Host].extra
      /\ (\A u \in Seated : ~host.inCheck[u] /\ ~host.waitHit[u] /\ host.checkFor[u] = "pass")
      /\ (\A g \in Guests : g # s => Idle(toGuest[g], toHost[g], seat[g]))
  <2>1. OnMove(host)
    BY <1>4 DEF OnMove, Open, Passing
  <2>2. \A u \in Seated : ~host.inCheck[u] /\ ~host.waitHit[u] /\ host.checkFor[u] = "pass"
    BY <1>3, <1>4 DEF Checks, PhasesApart
  <2>3. Served(q, r, ps)
    BY <1>3, <1>4, <1>5, <2>1, PlacedThere
  <2>4. \A g \in Guests : g # s => Idle(toGuest[g], toHost[g], seat[g])
    BY <1>3, <1>4, <2>1, PlacedThere
  <2>5. ~seat[Host].asked /\ seat[Host].mode = "wait" /\ ~seat[Host].extra
    BY <1>2, <1>3, <1>4, <2>2 DEF HostPlaced
  <2>. QED
    BY <2>1, <2>2, <2>3, <2>4, <2>5
<1>10. n \in GuestMessages /\ n.type = "GET_CARD" /\ n.card = t
  BY DEF GuestMessages
<1>11. Word(n) = IF t = Flower THEN "flower" ELSE "tile"
  BY <1>10, Words
<1>12. t # Flower => m \in GuestMessages /\ Word(m) = "CHECK_CARD" /\ m.offer = t
  <2>1. t # Flower => m \in GuestMessages /\ m.type = "CHECK_CARD" /\ m.offer = t
    BY <1>7 DEF GuestMessages
  <2>. QED
    BY <2>1, Words
<1>. HIDE DEF m, n, h, s
<1>13. <<n>> \in Seq(GuestMessages) /\ Len(<<n>>) = 1 /\ <<n>>[1] = n /\ <<n>> = <<>> \o <<n>>
  BY <1>10, Single
<1>14. OnMove(h) /\ PhasesApart(h)
  BY <1>4, <1>8, <1>9 DEF OnMove, Open, Passing, PhasesApart, s
<1>15. Checks(h) /\ CallsFit'
  <2>1. \A u \in Seated : h.checkFor[u] = "pass"
    BY <1>8, <1>9
  <2>2. \A u \in Seated : u # s => ~h.inCheck[u]
    BY <1>8, <1>9
  <2>. QED
    BY <1>8, <1>14, <2>1, <2>2 DEF Checks, CallsFit, MayCall, OnMove, h
<1>16. ASSUME Offer(t) = {}
       PROVE  toGuest' \in [Guests -> Seq(GuestMessages)] /\ Mover(w, r, ps)
              /\ \A g \in Guests : g # s => toGuest'[g] = toGuest[g]
  <2>1. toGuest' = SentTo(s, <<n>>)
    BY <1>1, <1>13, <1>16
  <2>2. /\ toGuest' \in [Guests -> Seq(GuestMessages)] /\ w = q \o <<n>>
        /\ \A g \in Guests : g # s => toGuest'[g] = toGuest[g]
    BY <1>2, <1>5, <1>13, <2>1, SendsTo
  <2>3. q \in Seq(GuestMessages)
    BY <1>2, <1>5
  <2>. HIDE DEF q, w, r, ps
  <2>4. \A a : Word(n) = a => /\ None(q) => One(w, a)
                              /\ One(q, "CHANGE_CARD") => Two(w, "CHANGE_CARD", a)
    BY <1>10, <2>2, <2>3, Joined
  <2>5. Mover(w, r, ps)
    <3>1. CASE t = Flower
      <4>1. /\ None(q) => One(w, "flower")
            /\ One(q, "CHANGE_CARD") => Two(w, "CHANGE_CARD", "flower")
        BY <1>11, <2>4, <3>1
      <4>. QED
        BY <1>9, <4>1 DEF Served, Mover
    <3>2. CASE t # Flower
      <4>1. /\ None(q) => One(w, "tile")
            /\ One(q, "CHANGE_CARD") => Two(w, "CHANGE_CARD", "tile")
        BY <1>11, <2>4, <3>2
      <4>. QED
        BY <1>9, <4>1 DEF Served, Mover
    <3>. QED
      BY <3>1, <3>2
  <2>. QED
    BY <2>2, <2>5
<1>17. ASSUME Offer(t) # {}
       PROVE  toGuest' \in [Guests -> Seq(GuestMessages)] /\ Deciding(h, w, r, ps)
              /\ \A g \in Guests : g # s => toGuest'[g] = toGuest[g]
  <2>1. t # Flower /\ m \in GuestMessages /\ Word(m) = "CHECK_CARD" /\ Word(n) = "tile" /\ m.offer = t
    BY <1>6, <1>11, <1>12, <1>17
  <2>. DEFINE e == <<m>> \o <<n>>
  <2>2. toGuest' = SentTo(s, e)
    BY <1>1, <1>17
  <2>3. e \in Seq(GuestMessages) /\ Len(e) = 2 /\ e[1] = m /\ e[2] = n
    <3>1. <<m>> \in Seq(GuestMessages) /\ Len(<<m>>) = 1 /\ <<m>>[1] = m
      BY <2>1, Single
    <3>. QED
      BY <1>13, <3>1, Concats
  <2>. HIDE DEF e
  <2>4. /\ toGuest' \in [Guests -> Seq(GuestMessages)] /\ w = q \o e
        /\ \A g \in Guests : g # s => toGuest'[g] = toGuest[g]
    BY <1>2, <1>5, <2>2, <2>3, SendsTo
  <2>5. q \in Seq(GuestMessages) /\ MayOffer(h, ps, t)
    BY <1>2, <1>5, <1>7, <2>1
  <2>. HIDE DEF q, w, r, ps
  <2>6. /\ None(q) => Two(w, "CHECK_CARD", "tile") /\ w[1] = m
        /\ One(q, "CHANGE_CARD") => Three(w, "CHANGE_CARD", "CHECK_CARD", "tile") /\ w[2] = m
    <3>1. /\ None(q) => Two(w, Word(e[1]), Word(e[2])) /\ w[1] = e[1]
          /\ \A b : One(q, b) => Three(w, b, Word(e[1]), Word(e[2])) /\ w[2] = e[1]
      <4>1. q \in Seq(GuestMessages) /\ e \in Seq(GuestMessages) /\ w = q \o e /\ Len(e) = 2
        BY <2>3, <2>4, <2>5
      <4>. QED
        BY <4>1, JoinedTwo, ZenonT(40)
    <3>. QED
      BY <2>1, <2>3, <3>1
  <2>7. Deciding(h, w, r, ps)
    BY <1>9, <2>1, <2>5, <2>6 DEF Served, Deciding
  <2>. QED
    BY <2>4, <2>7
<1>18. toGuest' \in [Guests -> Seq(GuestMessages)] /\ \A g \in Guests : g # s => toGuest'[g] = toGuest[g]
  BY <1>16, <1>17
<1>19. ASSUME NEW g \in Guests PROVE Placed(h, g, toGuest'[g], toHost'[g], seat'[g])
  <2>1. CASE g = s
    <3>1. /\ h.checkOn => h.inCheck[g] /\ Deciding(h, toGuest'[g], toHost'[g], seat'[g])
          /\ ~h.checkOn => Mover(toGuest'[g], toHost'[g], seat'[g])
      BY <1>1, <1>8, <1>16, <1>17, <2>1
    <3>. QED
      BY <1>8, <1>14, <2>1, <3>1, PlacedMover
  <2>2. CASE g # s
    <3>1. Idle(toGuest'[g], toHost'[g], seat'[g])
      BY <1>1, <1>9, <1>18, <2>2
    <3>. QED
      BY <1>8, <1>14, <2>2, <3>1, PlacedAside
  <2>. QED
    BY <2>1, <2>2
<1>20. HostPlaced(h, loop'.at, seat'[Host])
  <2>1. ~h.inCheck[Host]
    BY <1>2, <1>4, <1>8, <1>9 DEF s
  <2>. QED
    BY <1>1, <1>4, <1>8, <1>9, <2>1 DEF HostPlaced, s
<1>21. /\ loop' \in [at : {"start", "listen", "over"} \cup {Stages[i] : i \in 1 .. 4}, heard : {0} \cup Guests]
       /\ loop'.at # "start" /\ InLoop(h, loop')
  <2>1. h.checkOn => h.inCheck[h.turn]
    BY <1>8
  <2>. QED
    BY <1>1, <1>4, <1>8, <2>1 DEF InLoop
<1>22. HandsFit' /\ MeldsFit' /\ seat' \in [Seated -> Hands]
  BY <1>1, SeatsKept
<1>. QED
  BY <1>1, <1>2, <1>8, <1>14, <1>15, <1>18, <1>19, <1>20, <1>21, <1>22, HostStep DEF h

-----------------------------------------------------------------------------
(* A discard: everybody else is asked.                                      *)

\* What a discard is offered for can be granted.
LEMMA DiscardOffer ==
  ASSUME NEW t \in Seated, NEW d \in Discards(t), NEW u \in Seated,
         NEW h, h.card = {}, ~h.getting
  PROVE  d[u] \in SUBSET Calls /\ MayOffer(h, seat[u], d[u]) /\ d[t] = {}
<1>1. d[u] \in SUBSET Calls /\ d[t] = {} /\ (d[u] \subseteq {"make"} \/ seat[u].melds < MaxMelds)
  BY RoundAssumption DEF Discards
<1>2. ASSUME NEW c \in Answers(d[u]) PROVE MayCall(h, seat[u], c)
  BY <1>1 DEF Answers, MayCall, Calls
<1>. QED
  BY <1>1, <1>2 DEF MayOffer

\* The queues after the questions.
LEMMA Asks ==
  ASSUME NEW t \in Seated, NEW d \in Discards(t),
         toGuest \in [Guests -> Seq(GuestMessages)], toGuest' = Questions(d, Guests \ {t})
  PROVE  /\ toGuest' \in [Guests -> Seq(GuestMessages)]
         /\ \A g \in Guests :
              /\ g # t /\ d[g] # {} =>
                   toGuest'[g] = toGuest[g] \o <<[type |-> "CHECK_CARD", offer |-> d[g]]>>
              /\ ~(g # t /\ d[g] # {}) => toGuest'[g] = toGuest[g]
<1>. DEFINE mm == [g \in Guests |-> IF g # t /\ d[g] # {}
                                    THEN <<[type |-> "CHECK_CARD", offer |-> d[g]]>> ELSE <<>>]
<1>1. toGuest' = Sent(mm)
  <2>1. \A g \in Guests : g \in Guests \ {t} <=> g # t
    OBVIOUS
  <2>. QED
    BY <2>1 DEF Questions
<1>2. ASSUME NEW g \in Guests
      PROVE  /\ mm[g] \in Seq(GuestMessages)
             /\ g # t /\ d[g] # {} => mm[g] = <<[type |-> "CHECK_CARD", offer |-> d[g]]>>
             /\ ~(g # t /\ d[g] # {}) => mm[g] = <<>>
  <2>1. d[g] \in SUBSET (Calls \cup {"added"})
    BY RoundAssumption DEF Discards, Guests
  <2>. DEFINE m == [type |-> "CHECK_CARD", offer |-> d[g]]
  <2>2. m \in GuestMessages
    BY <2>1 DEF GuestMessages
  <2>. HIDE DEF m
  <2>3. <<m>> \in Seq(GuestMessages) /\ <<>> \in Seq(GuestMessages)
    BY <2>2
  <2>4. mm[g] = IF g # t /\ d[g] # {} THEN <<m>> ELSE <<>>
    BY DEF m
  <2>. HIDE DEF mm
  <2>. QED
    BY <2>3, <2>4 DEF m
<1>. HIDE DEF mm
<1>3. /\ toGuest' \in [Guests -> Seq(GuestMessages)]
      /\ \A g \in Guests : toGuest'[g] = toGuest[g] \o mm[g]
  BY <1>1, <1>2, Sends
<1>4. ASSUME NEW g \in Guests, ~(g # t /\ d[g] # {}) PROVE toGuest'[g] = toGuest[g]
  <2>1. toGuest'[g] = toGuest[g] \o <<>> /\ toGuest[g] \in Seq(GuestMessages)
    BY <1>2, <1>3, <1>4
  <2>. QED
    BY <2>1
<1>5. ASSUME NEW g \in Guests, g # t /\ d[g] # {}
      PROVE  toGuest'[g] = toGuest[g] \o <<[type |-> "CHECK_CARD", offer |-> d[g]]>>
  BY <1>2, <1>3, <1>5
<1>. QED
  BY <1>3, <1>4, <1>5

LEMMA DiscardFacts ==
  ASSUME host \in Hosts, NEW asked \in [Seated -> BOOLEAN]
  PROVE  LET h == Discarded(asked) IN
         /\ h \in Hosts /\ h.card = {} /\ ~h.getting /\ h.checkOn /\ h.inCheck = asked
         /\ h.checkFor = host.checkFor /\ h.turn = host.turn /\ h.nextReq = host.nextReq
         /\ h.sendReq = host.sendReq /\ h.waiting = host.waiting /\ h.waitHit = host.waitHit
         /\ h.drawn = host.drawn
<1>. DEFINE h == Discarded(asked)
<1>1. h = [host EXCEPT !.card = {}, !.getting = FALSE, !.checkOn = TRUE,
                       !.sendOn = FALSE, !.nextOn = FALSE, !.inCheck = asked]
  BY DEF Discarded
<1>2. {} \in Tiles
  BY RoundAssumption
<1>. HIDE DEF h
<1>3. [host EXCEPT !.card = {}, !.getting = FALSE, !.checkOn = TRUE,
                   !.sendOn = FALSE, !.nextOn = FALSE, !.inCheck = asked] \in Hosts
  BY <1>2 DEF Hosts
<1>4. h \in Hosts
  BY <1>1, <1>3
<1>5. /\ h.card = {} /\ ~h.getting /\ h.checkOn /\ h.inCheck = asked
      /\ h.checkFor = host.checkFor /\ h.turn = host.turn /\ h.nextReq = host.nextReq
  BY <1>1, <1>2 DEF Hosts
<1>6. /\ h.sendReq = host.sendReq /\ h.waiting = host.waiting /\ h.waitHit = host.waitHit
      /\ h.drawn = host.drawn
  BY <1>1, <1>2 DEF Hosts
<1>. QED
  BY <1>4, <1>5, <1>6 DEF h

\* A question is put to a guest that has none.
LEMMA AskedPlaced ==
  ASSUME NEW h, NEW g, NEW q \in Seq(GuestMessages), NEW r, NEW p, NEW o \in SUBSET Calls,
         NEW m \in GuestMessages, m.type = "CHECK_CARD", m.offer = o, NEW w, w = q \o <<m>>,
         Idle(q, r, p), MayOffer(h, p, o), PhasesApart(h), Open(h), h.inCheck[g]
  PROVE  Placed(h, g, w, r, p)
<1>2. Word(m) = "CHECK_CARD"
  BY Words
<1>3. /\ None(q) => One(w, "CHECK_CARD") /\ w[1] = m
      /\ One(q, "NEW_ROUND") => Two(w, "NEW_ROUND", "CHECK_CARD") /\ w[2] = m
  <2>1. /\ None(q) => One(w, Word(m)) /\ w[1] = m
        /\ \A b : One(q, b) => Two(w, b, Word(m)) /\ w[1] = q[1] /\ w[2] = m
    BY JoinedOne, ZenonT(40)
  <2>. QED
    BY <1>2, <2>1, Zenon
<1>4. Asked(h, w, r, p)
  BY <1>3 DEF Idle, Asked
<1>. QED
  BY <1>4, PlacedOpen

\* A discard leaves every guest with its question or without one.
LEMMA GuestsAsked ==
  ASSUME NEW t \in Seated, NEW d \in Discards(t), NEW h,
         PhasesApart(h), Open(h), h.card = {},
         NEW g \in Guests, h.checkFor[g] = "pass", h.inCheck[g] <=> (g # t /\ d[g] # {}),
         toGuest \in [Guests -> Seq(GuestMessages)], toGuest' = Questions(d, Guests \ {t}),
         NEW r, Idle(toGuest[g], r, seat[g])
  PROVE  Placed(h, g, toGuest'[g], r, seat[g])
<1>1. /\ g # t /\ d[g] # {} => toGuest'[g] = toGuest[g] \o <<[type |-> "CHECK_CARD", offer |-> d[g]]>>
      /\ ~(g # t /\ d[g] # {}) => toGuest'[g] = toGuest[g]
  <2>1. /\ toGuest' \in [Guests -> Seq(GuestMessages)]
        /\ \A u \in Guests :
             /\ u # t /\ d[u] # {} =>
                  toGuest'[u] = toGuest[u] \o <<[type |-> "CHECK_CARD", offer |-> d[u]]>>
             /\ ~(u # t /\ d[u] # {}) => toGuest'[u] = toGuest[u]
    BY Asks, Zenon
  <2>. QED
    BY <2>1, Zenon
<1>2. CASE ~h.inCheck[g]
  <2>1. toGuest'[g] = toGuest[g]
    BY <1>1, <1>2
  <2>2. Idle(toGuest'[g], r, seat[g])
    BY <2>1
  <2>. QED
    BY <1>2, <2>2, PlacedOpen
<1>3. CASE h.inCheck[g]
  <2>. DEFINE q == toGuest[g] w == toGuest'[g] p == seat[g] o == d[g]
              m == [type |-> "CHECK_CARD", offer |-> o]
  <2>1. w = q \o <<m>> /\ q \in Seq(GuestMessages) /\ Idle(q, r, p)
    BY <1>1, <1>3
  <2>2. g \in Seated /\ ~h.getting
    BY DEF Guests, Open
  <2>3. o \in SUBSET Calls /\ MayOffer(h, p, o)
    BY <2>2, DiscardOffer
  <2>4. m \in GuestMessages /\ m.type = "CHECK_CARD" /\ m.offer = o
    BY <2>3 DEF GuestMessages
  <2>. HIDE DEF q, w, p, o, m
  <2>5. Placed(h, g, w, r, p)
    BY <1>3, <2>1, <2>3, <2>4, AskedPlaced
  <2>. QED
    BY <2>5 DEF w, p
<1>. QED
  BY <1>2, <1>3

\* The player at t discards, and is Idle from then on.
LEMMA Discarding ==
  ASSUME IInv, OnMove(host), ~host.drawn, ~host.sendReq,
         \A s \in Seated : host.checkFor[s] = "pass",
         NEW d \in Discards(host.turn),
         NEW asked \in [Seated -> BOOLEAN], host' = Discarded(asked),
         \A s \in Seated : asked[s] <=> s # host.turn /\ d[s] # {},
         toGuest' = Questions(d, Guests \ {host.turn}), toHost' \in [Guests -> Seq(HostMessages)],
         \A g \in Guests : Idle(toGuest[g], toHost'[g], seat[g]),
         HandsFit', MeldsFit', pile' \in Int, seat' \in [Seated -> Hands],
         \A g \in Guests : seat'[g] = seat[g],
         seat'[Host].melds = seat[Host].melds, seat'[Host].pongs = seat[Host].pongs,
         seat'[Host].mode = "wait", ~seat'[Host].extra, seat'[Host].asked <=> asked[Host],
         seat'[Host].asked => seat'[Host].offer = d[Host],
         loop' \in [at : {"start", "listen", "over"} \cup {Stages[i] : i \in 1 .. 4}, heard : {0} \cup Guests],
         loop'.at = "listen"
  PROVE  IInv'
<1>. DEFINE h == host' t == host.turn ph == seat'[Host]
<1>1. /\ host \in Hosts /\ seat \in [Seated -> Hands] /\ Host \in Seated
      /\ toGuest \in [Guests -> Seq(GuestMessages)]
      /\ Guests \subseteq Seated /\ Host \notin Guests
  BY RoundAssumption, HostFacts
<1>0. t \in Seated
  BY <1>1 DEF Hosts
<1>a. ~asked[t]
  BY <1>0
<1>b. t = host.turn
  OBVIOUS
<1>. HIDE DEF ph, t
<1>2. /\ h \in Hosts /\ h.card = {} /\ ~h.getting /\ h.checkOn /\ h.inCheck = asked
      /\ h.checkFor = host.checkFor /\ h.turn = host.turn /\ h.nextReq = host.nextReq
      /\ h.sendReq = host.sendReq /\ h.waiting = host.waiting /\ h.waitHit = host.waitHit
      /\ h.drawn = host.drawn
  BY <1>1, DiscardFacts
<1>. HIDE DEF h
<1>4. /\ toGuest' \in [Guests -> Seq(GuestMessages)]
  BY <1>0, <1>1, <1>b, Asks
<1>5. ~host.waiting /\ ~host.nextReq /\ ~host.drawn /\ \A s \in Seated : ~host.waitHit[s]
  <2>1. PhasesApart(host) /\ ~host.waiting /\ ~Passing(host)
    BY DEF IInv, OnMove
  <2>. QED
    BY <2>1 DEF Passing, PhasesApart
<1>6. PhasesApart(h) /\ Open(h) /\ ~OnMove(h)
  BY <1>2, <1>5 DEF PhasesApart, Open, OnMove
<1>7. ~asked[t] /\ \A s \in Seated : h.checkFor[s] = "pass"
  <2>1. ~asked[t]
    BY <1>a
  <2>2. ASSUME NEW s \in Seated PROVE h.checkFor[s] = "pass"
    <3>1. host.checkFor[s] = "pass"
      OBVIOUS
    <3>. QED
      BY <1>2, <3>1
  <2>. QED
    BY <2>1, <2>2
<1>8. Checks(h)
  <2>1. ~h.inCheck[h.turn] /\ h.turn \in Seated
    BY <1>0, <1>2, <1>7, <1>b
  <2>2. \A s \in Seated : h.checkFor[s] = "pass"
    BY <1>7
  <2>. QED
    BY <1>2, <2>1, <2>2 DEF Checks
<1>9. CallsFit'
  BY <1>7 DEF CallsFit, MayCall, h
<1>10. InLoop(h, loop')
  BY <1>2, <1>5 DEF InLoop
<1>11. ASSUME NEW g \in Guests PROVE Placed(h, g, toGuest'[g], toHost'[g], seat'[g])
  <2>. DEFINE r == toHost'[g]
  <2>1. g \in Seated /\ h.checkFor[g] = "pass" /\ (h.inCheck[g] <=> (g # t /\ d[g] # {}))
    BY <1>1, <1>2, <1>7, <1>b
  <2>2. Idle(toGuest[g], r, seat[g])
    OBVIOUS
  <2>. HIDE DEF r
  <2>3. Placed(h, g, toGuest'[g], r, seat[g])
    BY <1>1, <1>0, <1>1, <1>2, <1>6, <1>b, <2>1, <2>2, GuestsAsked
  <2>4. seat'[g] = seat[g]
    OBVIOUS
  <2>. QED
    BY <2>3, <2>4 DEF r
<1>12. HostPlaced(h, loop'.at, ph)
  <2>1. MayOffer(h, seat[Host], d[Host])
    BY <1>0, <1>1, <1>2, <1>b, DiscardOffer
  <2>2. MayOffer(h, ph, d[Host])
    BY <2>1, SameMelds DEF ph
  <2>3. ph.asked <=> h.inCheck[Host]
    BY <1>1, <1>2, <1>b DEF ph
  <2>. QED
    BY <1>2, <1>5, <1>6, <2>2, <2>3 DEF HostPlaced, ph
<1>. QED
  BY <1>2, <1>4, <1>6, <1>8, <1>9, <1>10, <1>11, <1>12, HostStep DEF h, ph

LEMMA HearThrowKeeps ==
  ASSUME IInv, NEW g \in Guests, HearThrow(g)
  PROVE  IInv'
<1>. DEFINE q == toGuest[g] r == toHost[g] p == seat[g]
<1>1. Hears(g, "THROW_CARD")
  BY DEF HearThrow
<1>2. /\ host \in Hosts /\ seat \in [Seated -> Hands] /\ Host \in Seated
      /\ Guests \subseteq Seated /\ Host \notin Guests /\ pile \in Int
  BY RoundAssumption, HostFacts
<1>3. /\ loop.at = "listen" /\ loop'.at = "listen" /\ UNCHANGED pile
      /\ loop' \in [at : {"start", "listen", "over"} \cup {Stages[i] : i \in 1 .. 4}, heard : {0} \cup Guests]
      /\ r # <<>> /\ r \in Seq(HostMessages) /\ r[1] \in HostMessages /\ r[1].type = "THROW_CARD"
      /\ toHost' \in [Guests -> Seq(HostMessages)]
      /\ toHost'[g] = Tail(r) /\ (\A u \in Guests : u # g => toHost'[u] = toHost[u])
      /\ \/ host.waiting /\ Told(host.waitHit[g], q, r, p)
         \/ Open(host) /\ host.inCheck[g] /\ Asked(host, q, r, p)
         \/ /\ OnMove(host) /\ g = host.turn
            /\ \/ host.checkOn /\ host.getting /\ host.inCheck[g] /\ Deciding(host, q, r, p)
               \/ ~host.checkOn /\ ~host.sendReq /\ Mover(q, r, p)
  BY <1>1, RoundAssumption, Hearing
<1>4. Word(r[1]) = "THROW_CARD"
  BY <1>3, Words
<1>5. Len(Tail(r)) = Len(r) - 1 /\ Len(r) \in Nat \ {0}
  BY <1>3, Tails
<1>6. /\ PhasesApart(host) /\ Checks(host) /\ InLoop(host, loop)
      /\ HostPlaced(host, loop.at, seat[Host]) /\ seat[Host].pongs <= seat[Host].melds
  BY <1>2 DEF IInv, MeldsFit
<1>. HIDE DEF q, r, p
<1>7. OnMove(host) /\ g = host.turn /\ ~host.checkOn /\ ~host.sendReq /\ Mover(q, r, p)
  <2>1. Word(r[1]) \notin {"WAIT_HIT", "CHECK_RESULT"}
    BY <1>4
  <2>2. ~Told(host.waitHit[g], q, r, p) /\ ~Asked(host, q, r, p) /\ ~Deciding(host, q, r, p)
    BY <1>3, <2>1, Replies
  <2>. QED
    BY <1>3, <2>2
<1>8. Idle(q, Tail(r), p)
  BY <1>4, <1>5, <1>7 DEF Mover, Idle, None, One, Two
<1>9. /\ ~host.drawn /\ ~host.waiting
      /\ \A s \in Seated : host.checkFor[s] = "pass" /\ ~host.inCheck[s]
  BY <1>3, <1>6, <1>7 DEF InLoop, OnMove, Checks
<1>10. ~seat[Host].asked /\ seat[Host].mode = "wait" /\ ~seat[Host].extra
  BY <1>2, <1>6, <1>7, <1>9 DEF HostPlaced
<1>11. PICK d \in Discards(g) :
         /\ host' = Discarded([s \in Seated |->
                      IF s \in Guests /\ s = host.turn THEN host.inCheck[s] ELSE d[s] # {}])
         /\ seat' = [seat EXCEPT ![Host].offer = d[Host], ![Host].asked = @ \/ d[Host] # {}]
         /\ toGuest' = Questions(d, Guests \ {host.turn})
  BY DEF HearThrow
<1>. DEFINE asked == [s \in Seated |->
                        IF s \in Guests /\ s = host.turn THEN host.inCheck[s] ELSE d[s] # {}]
            ph == [seat[Host] EXCEPT !.offer = d[Host], !.asked = d[Host] # {}]
<1>12. asked \in [Seated -> BOOLEAN] /\ (\A s \in Seated : asked[s] <=> s # g /\ d[s] # {})
  BY <1>2, <1>7, <1>9 DEF Hosts
<1>13. seat' = [seat EXCEPT ![Host] = ph]
  BY <1>2, <1>10, <1>11 DEF Hands
<1>14. d[Host] \in SUBSET (Calls \cup {"added"})
  BY <1>2, RoundAssumption DEF Discards
<1>15. /\ ph \in Hands /\ ph.mode = "wait" /\ ~ph.extra /\ (ph.asked <=> d[Host] # {})
       /\ ph.offer = d[Host] /\ ph.melds = seat[Host].melds /\ ph.pongs = seat[Host].pongs
  <2>1. seat[Host] \in Hands
    BY <1>2
  <2>. QED
    BY <1>10, <1>14, <2>1 DEF Hands
<1>16. host' = Discarded(asked)
  BY <1>11
<1>. HIDE DEF asked, ph
<1>17. HandsFit' /\ MeldsFit' /\ pile' \in Int
  BY <1>2, <1>3, <1>6, <1>13, <1>15, RoundAssumption, HostSeat
<1>18. toGuest' = Questions(d, Guests \ {g})
  BY <1>7, <1>11
<1>19. ASSUME NEW u \in Guests PROVE Idle(toGuest[u], toHost'[u], seat[u])
  <2>1. CASE u = g
    BY <1>3, <1>8, <2>1 DEF q, p
  <2>2. CASE u # g
    <3>. DEFINE qu == toGuest[u] ru == toHost[u] pu == seat[u]
    <3>1. Placed(host, u, qu, ru, pu)
      BY DEF IInv
    <3>2. toHost'[u] = ru
      BY <1>3, <2>2
    <3>. HIDE DEF qu, ru, pu
    <3>3. Idle(qu, ru, pu)
      BY <1>7, <1>9, <2>2, <3>1, PlacedThere
    <3>. QED
      BY <3>2, <3>3 DEF qu, pu
  <2>. QED
    BY <2>1, <2>2
<1>20. g \in Seated /\ g # Host /\ (ph.asked <=> d[Host] # {} /\ g # Host)
  BY <1>2, <1>15
<1>21. \A s \in Seated : host.checkFor[s] = "pass"
  BY <1>9
<1>22. d \in Discards(g)
  BY <1>11
<1>. HIDE DEF r
<1>30. /\ OnMove(host) /\ ~host.drawn /\ ~host.sendReq
       /\ \A s \in Seated : host.checkFor[s] = "pass"
  BY <1>7, <1>9, <1>20, <1>21
<1>31. /\ d \in Discards(host.turn) /\ asked \in [Seated -> BOOLEAN] /\ host' = Discarded(asked)
       /\ \A s \in Seated : asked[s] <=> s # host.turn /\ d[s] # {}
  BY <1>7, <1>12, <1>16, <1>22
<1>32. /\ toGuest' = Questions(d, Guests \ {host.turn}) /\ toHost' \in [Guests -> Seq(HostMessages)]
       /\ \A u \in Guests : Idle(toGuest[u], toHost'[u], seat[u])
       /\ HandsFit' /\ MeldsFit' /\ pile' \in Int
  BY <1>3, <1>7, <1>17, <1>18, <1>19
<1>33. /\ seat' \in [Seated -> Hands] /\ (\A u \in Guests : seat'[u] = seat[u])
       /\ seat'[Host].melds = seat[Host].melds /\ seat'[Host].pongs = seat[Host].pongs
       /\ seat'[Host].mode = "wait" /\ ~seat'[Host].extra /\ (seat'[Host].asked <=> asked[Host])
       /\ seat'[Host].asked => seat'[Host].offer = d[Host]
  BY <1>2, <1>12, <1>13, <1>15, <1>20
<1>34. /\ loop' \in [at : {"start", "listen", "over"} \cup {Stages[i] : i \in 1 .. 4}, heard : {0} \cup Guests]
       /\ loop'.at = "listen"
  BY <1>3
<1>. QED
  BY <1>30, <1>31, <1>32, <1>33, <1>34, Discarding

LEMMA HostThrowKeeps ==
  ASSUME ~Hasty, IInv, HostThrow
  PROVE  IInv'
<1>. DEFINE ph == [seat[Host] EXCEPT !.mode = "wait", !.extra = FALSE]
<1>1. /\ AtKeys /\ Typed /\ seat[Host].mode = "throw" /\ ~seat[Host].asked
      /\ host.checkFor[Host] = "pass" /\ pile' = pile + 1 /\ UNCHANGED toHost
      /\ seat' = [seat EXCEPT ![Host].mode = "wait", ![Host].extra = FALSE]
  BY DEF HostThrow, Undecided
<1>2. /\ host \in Hosts /\ seat \in [Seated -> Hands] /\ Host \in Seated
      /\ Guests \subseteq Seated /\ Host \notin Guests /\ pile \in Int
      /\ toHost \in [Guests -> Seq(HostMessages)]
      /\ loop \in [at : {"start", "listen", "over"} \cup {Stages[i] : i \in 1 .. 4}, heard : {0} \cup Guests]
  BY RoundAssumption, HostFacts
<1>3. /\ PhasesApart(host) /\ Checks(host) /\ InLoop(host, loop)
      /\ HostPlaced(host, loop.at, seat[Host]) /\ seat[Host].pongs <= seat[Host].melds
  BY <1>2 DEF IInv, MeldsFit
<1>4. /\ loop.at = "listen" /\ loop'.at = "listen"
      /\ loop' \in [at : {"start", "listen", "over"} \cup {Stages[i] : i \in 1 .. 4}, heard : {0} \cup Guests]
  BY <1>1, <1>2 DEF AtKeys, Typed
<1>5. OnMove(host) /\ host.turn = Host
  BY <1>1, <1>3 DEF HostPlaced
<1>6. ~host.drawn /\ ~host.sendReq /\ (\A s \in Seated : host.checkFor[s] = "pass")
  <2>1. ~host.drawn /\ ~host.sendReq
    BY <1>3, <1>4, <1>5 DEF InLoop, PhasesApart
  <2>2. host.checkOn => host.getting
    BY <1>5 DEF OnMove, Open
  <2>. QED
    BY <1>1, <1>3, <1>5, <2>1, <2>2 DEF Checks
<1>7. PICK d \in Discards(Host) :
        /\ host' = Discarded([s \in Seated |-> s # Host /\ d[s] # {}])
        /\ toGuest' = Questions(d, Guests)
  BY DEF HostThrow
<1>. DEFINE asked == [s \in Seated |-> s # Host /\ d[s] # {}]
<1>8. asked \in [Seated -> BOOLEAN] /\ (\A s \in Seated : asked[s] <=> s # Host /\ d[s] # {})
  OBVIOUS
<1>9. seat' = [seat EXCEPT ![Host] = ph]
  BY <1>1, <1>2 DEF Hands
<1>10. /\ ph \in Hands /\ ph.mode = "wait" /\ ~ph.extra /\ ~ph.asked
       /\ ph.melds = seat[Host].melds /\ ph.pongs = seat[Host].pongs
  <2>1. seat[Host] \in Hands
    BY <1>2
  <2>. QED
    BY <1>1, <2>1 DEF Hands
<1>11. host' = Discarded(asked) /\ Guests \ {Host} = Guests
  BY <1>2, <1>7
<1>. HIDE DEF asked, ph
<1>12. HandsFit' /\ MeldsFit' /\ pile' \in Int
  <2>1. HandsFit' /\ MeldsFit'
    BY <1>3, <1>9, <1>10, RoundAssumption, HostSeat
  <2>. QED
    BY <1>1, <1>2, <2>1
<1>13. toGuest' = Questions(d, Guests \ {Host}) /\ toHost' = toHost
  BY <1>1, <1>7, <1>11
<1>14. ASSUME NEW u \in Guests PROVE Idle(toGuest[u], toHost'[u], seat[u])
  <2>. DEFINE qu == toGuest[u] ru == toHost[u] pu == seat[u]
  <2>1. Placed(host, u, qu, ru, pu) /\ u # host.turn
    BY <1>2, <1>5 DEF IInv
  <2>2. toHost'[u] = ru
    BY <1>13
  <2>. HIDE DEF qu, ru, pu
  <2>3. Idle(qu, ru, pu)
    BY <1>5, <1>6, <2>1, PlacedThere
  <2>. QED
    BY <2>2, <2>3 DEF qu, pu
<1>15. ph.asked <=> d[Host] # {} /\ Host # Host
  BY <1>10
<1>16. toHost' \in [Guests -> Seq(HostMessages)]
  BY <1>2, <1>13
<1>17. d \in Discards(Host)
  BY <1>7
<1>30. /\ OnMove(host) /\ ~host.drawn /\ ~host.sendReq
       /\ \A s \in Seated : host.checkFor[s] = "pass"
  BY <1>2, <1>5, <1>6
<1>31. /\ d \in Discards(host.turn) /\ asked \in [Seated -> BOOLEAN] /\ host' = Discarded(asked)
       /\ \A s \in Seated : asked[s] <=> s # host.turn /\ d[s] # {}
  BY <1>5, <1>8, <1>11, <1>17
<1>32. /\ toGuest' = Questions(d, Guests \ {host.turn}) /\ toHost' \in [Guests -> Seq(HostMessages)]
       /\ \A u \in Guests : Idle(toGuest[u], toHost'[u], seat[u])
       /\ HandsFit' /\ MeldsFit' /\ pile' \in Int
  BY <1>5, <1>12, <1>13, <1>14, <1>16
<1>33. /\ seat' \in [Seated -> Hands] /\ (\A u \in Guests : seat'[u] = seat[u])
       /\ seat'[Host].melds = seat[Host].melds /\ seat'[Host].pongs = seat[Host].pongs
       /\ seat'[Host].mode = "wait" /\ ~seat'[Host].extra /\ (seat'[Host].asked <=> asked[Host])
       /\ seat'[Host].asked => seat'[Host].offer = d[Host]
  BY <1>2, <1>8, <1>9, <1>10, <1>15
<1>34. /\ loop' \in [at : {"start", "listen", "over"} \cup {Stages[i] : i \in 1 .. 4}, heard : {0} \cup Guests]
       /\ loop'.at = "listen"
  BY <1>4
<1>. QED
  BY <1>30, <1>31, <1>32, <1>33, <1>34, Discarding

-----------------------------------------------------------------------------
(* Keys typed at the host.                                                  *)

\* Where a guest is depends on a few fields of the host only.
LEMMA PlacedSame ==
  ASSUME NEW h, NEW k, NEW g, NEW q, NEW r, NEW p, Placed(h, g, q, r, p),
         k.waiting = h.waiting, k.waitHit = h.waitHit, k.checkOn = h.checkOn,
         k.getting = h.getting, k.nextReq = h.nextReq, k.drawn = h.drawn, k.turn = h.turn,
         k.sendReq = h.sendReq, k.card = h.card,
         k.inCheck[g] = h.inCheck[g], k.checkFor[g] = h.checkFor[g]
  PROVE  Placed(k, g, q, r, p)
<1>1. (Open(k) <=> Open(h)) /\ (Passing(k) <=> Passing(h)) /\ (OnMove(k) <=> OnMove(h))
  BY DEF Open, Passing, OnMove
<1>2. Asked(h, q, r, p) => Asked(k, q, r, p)
  BY SameTile DEF Asked
<1>3. Deciding(h, q, r, p) => Deciding(k, q, r, p)
  BY SameTile DEF Deciding
<1>. QED
  BY <1>1, <1>2, <1>3 DEF Placed

\* At the keys the loop is between two iterations.
LEMMA Keys ==
  ASSUME IInv, AtKeys, Typed
  PROVE  /\ loop.at = "listen" /\ loop'.at = "listen" /\ loop'.heard = 0
         /\ loop' \in [at : {"start", "listen", "over"} \cup {Stages[i] : i \in 1 .. 4}, heard : {0} \cup Guests]
<1>1. loop \in [at : {"start", "listen", "over"} \cup {Stages[i] : i \in 1 .. 4}, heard : {0} \cup Guests]
  BY RoundAssumption, HostFacts
<1>. QED
  BY <1>1 DEF AtKeys, Typed

LEMMA HostAnswerKeeps ==
  ASSUME IInv, HostAnswer
  PROVE  IInv'
<1>. DEFINE h == host' p == seat[Host] pp == [seat[Host] EXCEPT !.asked = FALSE]
<1>1. /\ AtKeys /\ Typed /\ p.asked /\ UNCHANGED <<toGuest, toHost, pile>>
      /\ seat' = [seat EXCEPT ![Host].asked = FALSE]
  BY DEF HostAnswer
<1>2. PICK c \in CallsOf(Host) : host' = Answered(Host, c)
  BY DEF HostAnswer
<1>3. /\ host \in Hosts /\ seat \in [Seated -> Hands] /\ Host \in Seated
      /\ toGuest \in [Guests -> Seq(GuestMessages)] /\ toHost \in [Guests -> Seq(HostMessages)]
      /\ Guests \subseteq Seated /\ Host \notin Guests /\ pile \in Int
  BY RoundAssumption, HostFacts
<1>4. /\ loop.at = "listen" /\ loop'.at = "listen" /\ loop'.heard = 0
      /\ loop' \in [at : {"start", "listen", "over"} \cup {Stages[i] : i \in 1 .. 4}, heard : {0} \cup Guests]
  BY <1>1, Keys
<1>5. /\ PhasesApart(host) /\ Checks(host) /\ InLoop(host, loop) /\ CallsFit
      /\ HostPlaced(host, loop.at, p) /\ p.pongs <= p.melds /\ HandsFit
      /\ (\A u \in Guests : Placed(host, u, toGuest[u], toHost[u], seat[u]))
  BY <1>3 DEF IInv, MeldsFit
<1>6. p \in Hands /\ c \in Calls \cup {"pass"} /\ c \in Answers(p.offer)
  BY <1>2, <1>3 DEF CallsOf, Answers, Hands, Calls
<1>7. /\ h \in Hosts /\ h.waitHit = host.waitHit
      /\ h.drawn = host.drawn /\ h.turn = host.turn /\ h.checkOn = host.checkOn /\ h.sendReq = host.sendReq
      /\ h.inCheck = [host.inCheck EXCEPT ![Host] = FALSE] /\ h.checkFor = [host.checkFor EXCEPT ![Host] = c]
      /\ h.nextReq = host.nextReq
      /\ h.getting = host.getting /\ h.waiting = host.waiting /\ h.card = host.card
  <2>1. host' = [host EXCEPT !.inCheck[Host] = FALSE, !.checkFor[Host] = c]
    BY <1>2 DEF Answered
  <2>. QED
    BY <1>3, <1>6, <2>1 DEF Hosts
<1>8. /\ ~h.inCheck[Host] /\ h.checkFor[Host] = c
      /\ \A s \in Seated : s # Host => h.inCheck[s] = host.inCheck[s] /\ h.checkFor[s] = host.checkFor[s]
  BY <1>3, <1>7 DEF Hosts
<1>9. /\ pp \in Hands /\ ~pp.asked /\ pp.mode = p.mode /\ pp.extra = p.extra
      /\ pp.melds = p.melds /\ pp.pongs = p.pongs
  BY <1>6 DEF Hands
<1>10. seat' = [seat EXCEPT ![Host] = pp]
  BY <1>1, <1>3
<1>. HIDE DEF h, p, pp
<1>11. host.inCheck[Host] /\ MayCall(host, p, c) /\ host.checkFor[Host] = "pass" /\ host.checkOn
  <2>1. host.inCheck[Host] /\ MayOffer(host, p, p.offer)
    BY <1>1, <1>5 DEF HostPlaced
  <2>. QED
    BY <1>3, <1>5, <1>6, <2>1 DEF MayOffer, Checks
<1>12. (Open(h) <=> Open(host)) /\ (OnMove(h) <=> OnMove(host)) /\ PhasesApart(h)
  <2>1. (Open(h) <=> Open(host)) /\ (OnMove(h) <=> OnMove(host))
    BY <1>7 DEF Open, OnMove, Passing
  <2>. QED
    BY <1>5, <1>7, <2>1 DEF PhasesApart
<1>13. Checks(h)
  <2>1. host.turn \in Seated
    BY <1>3 DEF Hosts
  <2>2. Open(h) => h.card = {} /\ h.checkFor[h.turn] = "pass" /\ ~h.inCheck[h.turn]
    <3>1. Open(host) => host.turn # Host
      BY <1>5, <1>11 DEF Checks
    <3>. QED
      BY <1>5, <1>7, <1>8, <1>12, <2>1, <3>1 DEF Checks
  <2>3. h.checkOn /\ h.getting => \A s \in Seated : s # h.turn => h.checkFor[s] = "pass" /\ ~h.inCheck[s]
    BY <1>3, <1>5, <1>7, <1>8, <1>11 DEF Checks
  <2>4. \A s \in Seated : h.inCheck[s] => h.checkFor[s] = "pass"
    BY <1>5, <1>8 DEF Checks
  <2>. QED
    BY <1>7, <1>11, <2>2, <2>3, <2>4 DEF Checks
<1>14. CallsFit'
  <2>. SUFFICES ASSUME NEW s \in Seated PROVE MayCall(h, seat'[s], h.checkFor[s])
    BY DEF CallsFit, h
  <2>1. CASE s = Host
    <3>1. MayCall(h, p, c)
      BY <1>7, <1>11, SameTile
    <3>2. MayCall(h, pp, c)
      BY <1>9, <3>1, SameMelds
    <3>. QED
      BY <1>3, <1>8, <1>10, <2>1, <3>2
  <2>2. CASE s # Host
    <3>1. MayCall(host, seat[s], host.checkFor[s])
      BY <1>5 DEF CallsFit
    <3>. QED
      BY <1>3, <1>7, <1>8, <1>10, <2>2, <3>1, SameTile
  <2>. QED
    BY <2>1, <2>2
<1>15. /\ HandsFit' /\ MeldsFit' /\ seat' \in [Seated -> Hands] /\ seat'[Host] = pp
       /\ \A g \in Guests : seat'[g] = seat[g]
  <2>1. (p.mode = "throw" => p.extra) /\ (p.mode = "get" => ~p.extra)
    BY <1>3, <1>5 DEF HandsFit, p
  <2>. QED
    BY RoundAssumption, <1>5, <1>9, <1>10, <2>1, HostSeat
<1>16. ASSUME NEW g \in Guests PROVE Placed(h, g, toGuest'[g], toHost'[g], seat'[g])
  <2>. DEFINE q == toGuest[g] r == toHost[g] pg == seat[g]
  <2>1. Placed(host, g, q, r, pg) /\ toGuest'[g] = q /\ toHost'[g] = r /\ seat'[g] = pg
    BY <1>1, <1>5, <1>15
  <2>2. h.inCheck[g] = host.inCheck[g] /\ h.checkFor[g] = host.checkFor[g]
    BY <1>3, <1>8
  <2>. HIDE DEF q, r, pg
  <2>3. Placed(h, g, q, r, pg)
    BY <1>7, <2>1, <2>2, PlacedSame
  <2>. QED
    BY <2>1, <2>3
<1>17. HostPlaced(h, loop'.at, pp)
  BY <1>4, <1>5, <1>7, <1>8, <1>9, <1>12 DEF HostPlaced
<1>18. InLoop(h, loop')
  <2>1. h.checkOn /\ h.getting => h.turn = Host
    BY <1>3, <1>5, <1>7, <1>11 DEF Checks
  <2>. QED
    BY <1>4, <1>5, <1>7, <2>1 DEF InLoop
<1>19. toGuest' = toGuest /\ toHost' = toHost /\ pile' = pile
  BY <1>1
<1>. QED
  BY <1>3, <1>4, <1>7, <1>12, <1>13, <1>14, <1>15, <1>16, <1>17, <1>18, <1>19, HostStep DEF h

LEMMA HostDrawKeeps ==
  ASSUME IInv, NEW t \in Tiles, HostDraw(t)
  PROVE  IInv'
<1>. DEFINE h == host' p == seat[Host] pp == seat'[Host] ch == Offer(t) # {}
            qq == IF t = Flower THEN [p EXCEPT !.offer = {}]
                  ELSE [p EXCEPT !.mode = "throw", !.extra = TRUE, !.offer = t, !.asked = t # {}]
            ic == [host.inCheck EXCEPT ![Host] = ch]
            fl == host.flowers - Spent(t)
            wl == IF t = Flower THEN host.wall - 2 ELSE host.wall - 1
            hh == [host EXCEPT !.owner = Host, !.card = t, !.getting = TRUE,
                               !.inCheck[Host] = Offer(t) # {}, !.checkOn = @ \/ Offer(t) # {},
                               !.flowers = @ - Spent(t)]
<1>1. /\ AtKeys /\ Typed /\ p.mode = "get" /\ ~p.asked /\ Drawable(Host, t)
      /\ UNCHANGED <<toGuest, toHost>>
  BY DEF HostDraw
<1>2. /\ host \in Hosts /\ seat \in [Seated -> Hands] /\ Host \in Seated
      /\ toGuest \in [Guests -> Seq(GuestMessages)] /\ toHost \in [Guests -> Seq(HostMessages)]
      /\ Guests \subseteq Seated /\ Host \notin Guests /\ pile \in Int
  BY RoundAssumption, HostFacts
<1>3. \/ /\ t = Flower /\ host' = [hh EXCEPT !.wall = @ - 2] /\ pile' = pile + 1
         /\ seat' = [seat EXCEPT ![Host].offer = {}]
      \/ /\ t # Flower /\ host' = [hh EXCEPT !.wall = @ - 1] /\ pile' = pile
         /\ seat' = [seat EXCEPT ![Host] =
               [@ EXCEPT !.mode = "throw", !.extra = TRUE, !.offer = t, !.asked = t # {}]]
  BY DEF HostDraw
<1>4. host' = [host EXCEPT !.owner = Host, !.card = t, !.getting = TRUE, !.inCheck = ic,
                           !.checkOn = (host.checkOn \/ ch), !.flowers = fl, !.wall = wl]
  BY <1>2, <1>3 DEF Hosts
<1>5. seat' = [seat EXCEPT ![Host] = qq] /\ pile' \in Int
  BY <1>2, <1>3
<1>. HIDE DEF hh
<1>6. /\ loop.at = "listen" /\ loop'.at = "listen" /\ loop'.heard = 0
      /\ loop' \in [at : {"start", "listen", "over"} \cup {Stages[i] : i \in 1 .. 4}, heard : {0} \cup Guests]
  BY <1>1, Keys
<1>7. /\ PhasesApart(host) /\ Checks(host) /\ InLoop(host, loop)
      /\ HostPlaced(host, loop.at, p) /\ p.pongs <= p.melds /\ p \in Hands
      /\ (\A u \in Guests : Placed(host, u, toGuest[u], toHost[u], seat[u]))
      /\ (\A u \in Seated : seat[u].pongs <= seat[u].melds)
  BY <1>2 DEF IInv, MeldsFit
<1>8. /\ OnMove(host) /\ host.turn = Host /\ ~p.extra /\ ~host.checkOn
      /\ ~host.drawn /\ ~host.sendReq /\ ~host.nextReq /\ ~host.waiting
  <2>1. OnMove(host) /\ host.turn = Host /\ ~p.extra /\ ~host.checkOn
    BY <1>1, <1>7 DEF HostPlaced
  <2>2. ~host.drawn /\ ~host.sendReq
    BY <1>6, <1>7, <2>1 DEF InLoop, PhasesApart
  <2>. QED
    BY <2>1, <2>2 DEF OnMove, Passing
<1>9. \A u \in Seated : ~host.inCheck[u] /\ ~host.waitHit[u] /\ host.checkFor[u] = "pass"
  BY <1>7, <1>8 DEF Checks, PhasesApart
<1>10. (t = Flower => host.flowers > 0) /\ (t = Flower => ~ch)
  BY <1>1 DEF Drawable, Offer, Flower
<1>11. fl \in 0 .. Flowers /\ wl \in Int
  <2>1. Flowers \in Nat /\ host.flowers \in 0 .. Flowers /\ host.wall \in Int
    BY <1>2, RoundAssumption DEF Hosts
  <2>. QED
    BY <1>10, <2>1 DEF Spent
<1>12. ic \in [Seated -> BOOLEAN] /\ (ic[Host] <=> ch) /\ \A u \in Seated : u # Host => ~ic[u]
  BY <1>2, <1>9 DEF Hosts
<1>13. (host.checkOn \/ ch) = ch
  BY <1>8
<1>. HIDE DEF fl, wl, ic, ch, h
<1>14. /\ h \in Hosts /\ h.card = t /\ h.getting = TRUE /\ h.inCheck = ic /\ h.checkOn = ch
       /\ h.turn = host.turn /\ h.waiting = host.waiting /\ h.waitHit = host.waitHit
       /\ h.nextReq = host.nextReq /\ h.drawn = host.drawn /\ h.sendReq = host.sendReq
       /\ h.checkFor = host.checkFor
  <2>1. h = [host EXCEPT !.owner = Host, !.card = t, !.getting = TRUE, !.inCheck = ic,
                         !.checkOn = ch, !.flowers = fl, !.wall = wl]
    BY <1>4, <1>13 DEF h
  <2>2. ch \in BOOLEAN
    BY DEF ch
  <2>. QED
    BY <1>2, <1>11, <1>12, <2>1, <2>2 DEF Hosts
<1>15. OnMove(h) /\ ~Open(h) /\ PhasesApart(h)
  BY <1>8, <1>9, <1>14 DEF OnMove, Open, Passing, PhasesApart
<1>16. Checks(h)
  BY <1>8, <1>9, <1>12, <1>14, <1>15 DEF Checks
<1>17. CallsFit'
  <2>1. \A u \in Seated : h.checkFor[u] = "pass"
    BY <1>9, <1>14
  <2>. QED
    BY <2>1 DEF CallsFit, MayCall, h
<1>18. InLoop(h, loop')
  BY <1>6, <1>8, <1>14 DEF InLoop
<1>19. t # Flower => t \in SUBSET (Calls \cup {"added"}) /\ MayOffer(h, p, t) /\ (ch <=> t # {})
  <2>. SUFFICES ASSUME t # Flower
                PROVE  t \in SUBSET (Calls \cup {"added"}) /\ MayOffer(h, p, t) /\ (ch <=> t # {})
    OBVIOUS
  <2>1. Offer(t) = t /\ t \in SUBSET (Calls \cup {"added"}) /\ MayOffer(h, p, t)
    BY RoundAssumption, <1>1, <1>2, <1>14, DrawnOffer
  <2>. QED
    BY <2>1 DEF ch
<1>20. /\ qq \in Hands /\ qq.melds = p.melds /\ qq.pongs = p.pongs
       /\ \/ t = Flower /\ qq.mode = "get" /\ ~qq.extra /\ ~qq.asked
          \/ /\ t # Flower /\ qq.mode = "throw" /\ qq.extra /\ (qq.asked <=> t # {})
             /\ qq.offer = t
  BY <1>1, <1>7, <1>8, <1>19 DEF Hands
<1>. HIDE DEF p, qq
<1>21. /\ HandsFit' /\ MeldsFit' /\ seat' \in [Seated -> Hands] /\ pp = qq
       /\ \A g \in Guests : seat'[g] = seat[g]
  BY RoundAssumption, <1>5, <1>7, <1>20, HostSeat
<1>22. ASSUME NEW g \in Guests PROVE Placed(h, g, toGuest'[g], toHost'[g], seat'[g])
  <2>. DEFINE q == toGuest[g] r == toHost[g] pg == seat[g]
  <2>1. Placed(host, g, q, r, pg) /\ toGuest'[g] = q /\ toHost'[g] = r /\ seat'[g] = pg
    BY <1>1, <1>7, <1>21
  <2>2. g # host.turn
    BY <1>2, <1>8
  <2>. HIDE DEF q, r, pg
  <2>3. Idle(q, r, pg)
    BY <1>8, <2>1, <2>2, PlacedThere
  <2>4. Placed(h, g, q, r, pg)
    BY <1>14, <1>15, <2>2, <2>3, PlacedAside
  <2>. QED
    BY <2>1, <2>4
<1>23. HostPlaced(h, loop'.at, qq)
  <2>1. CASE t = Flower
    BY <1>6, <1>8, <1>10, <1>12, <1>14, <1>15, <1>20, <2>1 DEF HostPlaced
  <2>2. CASE t # Flower
    <3>1. MayOffer(h, qq, t)
      BY <1>19, <1>20, <2>2, SameMelds
    <3>. QED
      BY <1>6, <1>8, <1>12, <1>14, <1>15, <1>19, <1>20, <2>2, <3>1 DEF HostPlaced
  <2>. QED
    BY <2>1, <2>2
<1>24. toGuest' = toGuest /\ toHost' = toHost
  BY <1>1
<1>. QED
  BY <1>2, <1>5, <1>6, <1>14, <1>15, <1>16, <1>17, <1>18, <1>21, <1>22, <1>23, <1>24, HostStep DEF h, pp

-----------------------------------------------------------------------------
(* Deals.                                                                   *)

\* What a deal sends to guest g when the first turn is first's.
Dealt(g, first, t, flower) ==
  <<[type |-> "NEW_ROUND"]>> \o
    IF g # first THEN <<>>
    ELSE IF flower THEN <<[type |-> "GET_CARD", card |-> Flower],
                          [type |-> "CHANGE_CARD", card |-> t]>>
    ELSE <<[type |-> "GET_CARD", card |-> t]>>

LEMMA Pair ==
  ASSUME NEW S, NEW a \in S, NEW b \in S
  PROVE  <<a, b>> \in Seq(S) /\ Len(<<a, b>>) = 2 /\ <<a, b>>[1] = a /\ <<a, b>>[2] = b
  OBVIOUS

\* A queue with a deal added to it, for guest g when the first turn is first's.
Begins(q, w, g, first, flower) ==
  /\ g # first => /\ None(q) => One(w, "NEW_ROUND")
                  /\ One(q, "NEW_ROUND") => Two(w, "NEW_ROUND", "NEW_ROUND")
  /\ g = first /\ ~flower =>
       /\ None(q) => Two(w, "NEW_ROUND", "tile")
       /\ One(q, "NEW_ROUND") => Three(w, "NEW_ROUND", "NEW_ROUND", "tile")
  /\ g = first /\ flower =>
       /\ None(q) => Three(w, "NEW_ROUND", "flower", "CHANGE_CARD")
       /\ One(q, "NEW_ROUND") => Four(w, "NEW_ROUND", "NEW_ROUND", "flower", "CHANGE_CARD")

\* The queues of a deal, for an empty table and for one where the news of the last
\* deal is still under way.
LEMMA DealtWords ==
  ASSUME NEW g, NEW first, NEW t, NEW flower \in BOOLEAN,
         g = first => t \in GuestDealt /\ t # Flower,
         NEW q \in Seq(GuestMessages), NEW e, e = Dealt(g, first, t, flower), NEW w, w = q \o e
  PROVE  /\ e \in Seq(GuestMessages)
         /\ Begins(q, w, g, first, flower)
<1>. DEFINE n == [type |-> "NEW_ROUND"] f == [type |-> "GET_CARD", card |-> Flower]
            c == [type |-> "CHANGE_CARD", card |-> t] x == [type |-> "GET_CARD", card |-> t]
<1>1. /\ n \in GuestMessages /\ n.type = "NEW_ROUND"
      /\ f \in GuestMessages /\ f.type = "GET_CARD" /\ f.card = Flower
      /\ g = first => /\ c \in GuestMessages /\ c.type = "CHANGE_CARD"
                      /\ x \in GuestMessages /\ x.type = "GET_CARD" /\ x.card = t /\ t # Flower
  BY DEF GuestMessages
<1>2. e = <<n>> \o IF g # first THEN <<>> ELSE IF flower THEN <<f, c>> ELSE <<x>>
  BY DEF Dealt
<1>. HIDE DEF n, f, c, x
<1>3. /\ Word(n) = "NEW_ROUND" /\ Word(f) = "flower"
      /\ g = first => Word(c) = "CHANGE_CARD" /\ Word(x) = "tile"
  BY <1>1, Words
<1>4. /\ <<n>> \in Seq(GuestMessages) /\ Len(<<n>>) = 1 /\ <<n>>[1] = n
      /\ g = first => <<x>> \in Seq(GuestMessages) /\ Len(<<x>>) = 1 /\ <<x>>[1] = x
  BY <1>1, Single
<1>5. g = first => /\ <<f, c>> \in Seq(GuestMessages) /\ Len(<<f, c>>) = 2
                   /\ <<f, c>>[1] = f /\ <<f, c>>[2] = c
  BY <1>1, Pair
<1>6. CASE g # first
  <2>1. e = <<n>>
    BY <1>2, <1>6, <1>4
  <2>2. /\ None(q) => One(w, Word(n)) /\ w[1] = n
        /\ \A b : One(q, b) => Two(w, b, Word(n)) /\ w[1] = q[1] /\ w[2] = n
    <3>1. w = q \o <<n>> /\ n \in GuestMessages
      BY <1>1, <2>1
    <3>. QED
      BY <3>1, JoinedOne, ZenonT(40)
  <2>. QED
    BY <1>3, <1>4, <1>6, <2>1, <2>2 DEF Begins
<1>7. CASE g = first /\ ~flower
  <2>. DEFINE u == <<n>> v == <<x>>
  <2>1. e = u \o v /\ u \in Seq(GuestMessages) /\ v \in Seq(GuestMessages) /\ Len(u) = 1
        /\ Len(v) = 1 /\ u[1] = n /\ v[1] = x
    BY <1>2, <1>4, <1>7
  <2>. HIDE DEF u, v
  <2>2. e \in Seq(GuestMessages) /\ Len(e) = 2 /\ e[1] = n /\ e[2] = x
    <3>. DEFINE z == u \o v
    <3>1. /\ z \in Seq(GuestMessages) /\ (Len(u) = 1 /\ Len(v) = 1 => Len(z) = 2)
          /\ (Len(u) >= 1 => z[1] = u[1]) /\ (Len(u) = 1 /\ Len(v) >= 1 => z[2] = v[1])
      BY <2>1, Concats
    <3>. HIDE DEF z
    <3>2. z \in Seq(GuestMessages) /\ Len(z) = 2 /\ z[1] = n /\ z[2] = x
      BY <2>1, <3>1
    <3>. QED
      BY <2>1, <3>2 DEF z
  <2>3. /\ None(q) => Two(w, Word(e[1]), Word(e[2])) /\ w[1] = e[1]
        /\ \A b : One(q, b) => Three(w, b, Word(e[1]), Word(e[2])) /\ w[2] = e[1]
    <3>1. e \in Seq(GuestMessages) /\ Len(e) = 2 /\ w = q \o e
      BY <2>2
    <3>. QED
      BY <3>1, JoinedTwo, ZenonT(40)
  <2>. QED
    BY <1>3, <1>7, <2>2, <2>3 DEF Begins
<1>8. CASE g = first /\ flower
  <2>. DEFINE u == <<n>> v == <<f, c>>
  <2>1. e = u \o v /\ u \in Seq(GuestMessages) /\ v \in Seq(GuestMessages) /\ Len(u) = 1
        /\ Len(v) = 2 /\ u[1] = n /\ v[1] = f /\ v[2] = c
    BY <1>2, <1>4, <1>5, <1>8
  <2>. HIDE DEF u, v
  <2>2. e \in Seq(GuestMessages) /\ Len(e) = 3 /\ e[1] = n /\ e[2] = f /\ e[3] = c
    BY <2>1, Concats
  <2>3. /\ None(q) => Three(w, Word(e[1]), Word(e[2]), Word(e[3]))
        /\ \A b : One(q, b) => Four(w, b, Word(e[1]), Word(e[2]), Word(e[3]))
    BY <2>2, JoinedThree, ZenonT(40)
  <2>. QED
    BY <1>3, <1>8, <2>2, <2>3 DEF Begins
<1>. QED
  BY <1>6, <1>7, <1>8

\* The host of a deal.
LEMMA OpenedFacts ==
  ASSUME NEW v \in Hosts, NEW t \in HostDealt \cup GuestDealt, NEW flower \in BOOLEAN,
         flower => Flowers > 0, NEW h, h = Opened(v, t, flower)
  PROVE  /\ FirstTurn(v) \in Seated
         /\ h \in Hosts /\ h.turn = FirstTurn(v) /\ h.card = t /\ h.checkOn = (t # {}) /\ h.getting = (t # {})
         /\ h.checkFor = NoClaims /\ h.waitHit = Nobody
         /\ h.inCheck = [s \in Seated |-> s = FirstTurn(v) /\ t # {}]
         /\ h.nextReq = v.nextReq /\ h.sendReq = v.sendReq /\ h.waiting = v.waiting
         /\ h.drawn = v.drawn
<1>. DEFINE first == FirstTurn(v)
            wl == IF flower THEN Wall - 1 ELSE Wall
            fl == IF flower THEN Flowers - 1 ELSE Flowers
            ic == [s \in Seated |-> s = first /\ t # {}]
            ch == t # {}
<1>1. first \in Seated
  <2>1. v.dealer \in 1 .. 4
    BY DEF Hosts
  <2>. QED
    BY <2>1, RoundAssumption, NextTurnType DEF FirstTurn
<1>2. wl \in Int /\ fl \in 0 .. Flowers
  BY RoundAssumption
<1>3. ic \in [Seated -> BOOLEAN] /\ NoClaims \in [Seated -> Calls \cup {"pass"}]
      /\ Nobody \in [Seated -> BOOLEAN] /\ ch \in BOOLEAN
  BY DEF NoClaims, Nobody
<1>4. t \in Tiles \cup HostDealt \cup GuestDealt
  OBVIOUS
<1>5. h = [v EXCEPT !.turn = first, !.owner = first, !.wall = wl, !.flowers = fl,
                    !.card = t, !.checkOn = ch, !.getting = ch, !.inCheck = ic,
                    !.checkFor = NoClaims, !.waitHit = Nobody]
  BY DEF Opened
<1>. HIDE DEF first, wl, fl, ic, ch
<1>6. /\ h \in Hosts /\ h.turn = first /\ h.card = t /\ h.checkOn = ch /\ h.getting = ch
      /\ h.checkFor = NoClaims /\ h.waitHit = Nobody /\ h.inCheck = ic
      /\ h.nextReq = v.nextReq /\ h.sendReq = v.sendReq /\ h.waiting = v.waiting
      /\ h.drawn = v.drawn
  <2>1. [v EXCEPT !.turn = first, !.owner = first, !.wall = wl, !.flowers = fl,
                  !.card = t, !.checkOn = ch, !.getting = ch, !.inCheck = ic,
                  !.checkFor = NoClaims, !.waitHit = Nobody] \in Hosts
    BY <1>1, <1>2, <1>3, <1>4 DEF Hosts
  <2>2. /\ h.turn = first /\ h.card = t /\ h.checkOn = ch /\ h.getting = ch
        /\ h.checkFor = NoClaims /\ h.waitHit = Nobody /\ h.inCheck = ic
    BY <1>5 DEF Hosts
  <2>3. /\ h.nextReq = v.nextReq /\ h.sendReq = v.sendReq /\ h.waiting = v.waiting
        /\ h.drawn = v.drawn
    BY <1>5 DEF Hosts
  <2>. QED
    BY <1>5, <2>1, <2>2, <2>3
<1>. QED
  BY <1>1, <1>6 DEF first, ic, ch

\* After a deal the first player has the move, and nobody else.
LEMMA Dealing ==
  ASSUME IInv, GuestDealt = {{}}, NEW v \in Hosts, ~v.waiting, ~v.sendReq, v.nextReq <=> v.drawn,
         Deals(v),
         \A g \in Guests : /\ None(toHost[g]) /\ seat[g].mode = "wait" /\ ~seat[g].asked
                           /\ None(toGuest[g]) \/ (v.drawn /\ One(toGuest[g], "NEW_ROUND"))
  PROVE  /\ host' \in Hosts /\ PhasesApart(host') /\ Checks(host') /\ CallsFit' /\ HandsFit' /\ MeldsFit'
         /\ seat' \in [Seated -> Hands] /\ toGuest' \in [Guests -> Seq(GuestMessages)]
         /\ toHost' \in [Guests -> Seq(HostMessages)] /\ pile' \in Int
         /\ \A g \in Guests : Placed(host', g, toGuest'[g], toHost'[g], seat'[g])
         /\ \A at : at # "start" => HostPlaced(host', at, seat'[Host])
         /\ host'.drawn = v.drawn /\ (host'.checkOn => host'.turn = Host)
         /\ host'.nextReq = v.nextReq /\ ~host'.sendReq /\ ~host'.waiting
         /\ host'.checkOn => host'.inCheck[Host]
<1>. DEFINE h == host' first == FirstTurn(v)
<1>1. PICK t \in HostDealt \cup GuestDealt, flower \in BOOLEAN : Deal(v, t, flower)
  BY DEF Deals
<1>. DEFINE ph == [Empty EXCEPT !.mode  = IF first = Host THEN "throw" ELSE "wait",
                                !.extra = first = Host, !.asked = t # {},
                                !.offer = IF first = Host THEN t ELSE seat[Host].offer]
<1>2. /\ t \in IF first = Host THEN HostDealt ELSE GuestDealt
      /\ flower => first # Host /\ DealtFlower /\ Flowers > 0
      /\ host' = Opened(v, t, flower) /\ seat' = [seat EXCEPT ![Host] = ph]
      /\ pile' = 0 /\ toHost' = toHost
      /\ toGuest' = Sent([g \in Guests |-> Dealt(g, first, t, flower)])
  BY <1>1 DEF Deal, Dealt
<1>3. /\ host \in Hosts /\ seat \in [Seated -> Hands] /\ Host \in Seated
      /\ toGuest \in [Guests -> Seq(GuestMessages)] /\ toHost \in [Guests -> Seq(HostMessages)]
      /\ Guests \subseteq Seated /\ Host \notin Guests
  BY RoundAssumption, HostFacts
<1>4. /\ first \in Seated
      /\ h \in Hosts /\ h.turn = first /\ h.card = t /\ h.checkOn = (t # {}) /\ h.getting = (t # {})
      /\ h.checkFor = NoClaims /\ h.waitHit = Nobody
      /\ h.inCheck = [s \in Seated |-> s = first /\ t # {}]
      /\ h.nextReq = v.nextReq /\ h.sendReq = v.sendReq /\ h.waiting = v.waiting
      /\ h.drawn = v.drawn
  <2>1. h = Opened(v, t, flower) /\ (flower => Flowers > 0)
    BY <1>2
  <2>. HIDE DEF h
  <2>. QED
    <3>1. /\ FirstTurn(v) \in Seated
          /\ h \in Hosts /\ h.turn = FirstTurn(v) /\ h.card = t /\ h.checkOn = (t # {})
          /\ h.getting = (t # {})
          /\ h.checkFor = NoClaims /\ h.waitHit = Nobody
          /\ h.inCheck = [s \in Seated |-> s = FirstTurn(v) /\ t # {}]
          /\ h.nextReq = v.nextReq /\ h.sendReq = v.sendReq /\ h.waiting = v.waiting
          /\ h.drawn = v.drawn
      <4>1. t \in HostDealt \cup GuestDealt /\ flower \in BOOLEAN
        BY <1>1
      <4>. QED
        BY <2>1, <4>1, OpenedFacts
    <3>. QED
      BY <3>1
<1>5. (first # Host => t = {}) /\ t \in SUBSET {"kang", "make"} /\ MaxMelds >= 1 /\ MaxMelds \in Nat
  BY <1>2, RoundAssumption
<1>6. seat[Host] \in Hands
  BY <1>3
<1>7. /\ ph \in Hands /\ ph.melds = 0 /\ ph.pongs = 0 /\ (ph.extra <=> first = Host)
      /\ ph.mode = IF first = Host THEN "throw" ELSE "wait"
      /\ (ph.asked <=> t # {}) /\ (first = Host => ph.offer = t)
  <2>1. t \in SUBSET (Calls \cup {"added"}) /\ seat[Host].offer \in SUBSET (Calls \cup {"added"})
    BY <1>5, <1>6 DEF Hands, Calls
  <2>2. Empty \in Hands
    BY <1>5 DEF Empty, Hands
  <2>. QED
    BY <2>1, <2>2 DEF Empty, Hands
<1>. HIDE DEF ph, h, first
<1>8. \A s \in Seated : h.checkFor[s] = "pass" /\ ~h.waitHit[s] /\ (h.inCheck[s] <=> s = first /\ t # {})
  BY <1>4 DEF NoClaims, Nobody
<1>9. PhasesApart(h) /\ OnMove(h)
  BY <1>4, <1>8 DEF PhasesApart, OnMove, Open, Passing
<1>10. Checks(h)
  BY <1>4, <1>8 DEF Checks, Open
<1>11. CallsFit'
  BY <1>8 DEF CallsFit, MayCall, h
<1>12. /\ HandsFit' /\ MeldsFit' /\ seat' \in [Seated -> Hands] /\ seat'[Host] = ph
       /\ \A g \in Guests : seat'[g] = seat[g]
  <2>1. ph.pongs <= ph.melds /\ (ph.mode = "throw" => ph.extra) /\ (ph.mode = "get" => ~ph.extra)
    BY <1>7
  <2>. QED
    BY RoundAssumption, <1>2, <1>7, <2>1, HostSeat
<1>13. ASSUME NEW g \in Guests
       PROVE  /\ Dealt(g, first, t, flower) \in Seq(GuestMessages)
              /\ \A w : w = toGuest[g] \o Dealt(g, first, t, flower) => Placed(h, g, w, toHost[g], seat[g])
  <2>. DEFINE q == toGuest[g] e == Dealt(g, first, t, flower) w == q \o e r == toHost[g] p == seat[g]
  <2>1. q \in Seq(GuestMessages) /\ g # Host
    BY <1>3
  <2>2. g = first => t \in GuestDealt /\ t # Flower
    BY <1>2, <1>5, <2>1 DEF Flower
  <2>3. e = Dealt(g, first, t, flower) /\ w = q \o e
    OBVIOUS
  <2>4. /\ None(r) /\ p.mode = "wait" /\ ~p.asked
        /\ None(q) \/ (h.drawn /\ One(q, "NEW_ROUND"))
    BY <1>4
  <2>. HIDE DEF q, e, w, r, p
  <2>5. /\ e \in Seq(GuestMessages)
        /\ Begins(q, w, g, first, flower)
    <3>1. flower \in BOOLEAN /\ q \in Seq(GuestMessages)
      BY <1>1, <2>1
    <3>. QED
      BY <3>1, <2>2, <2>3, DealtWords
  <2>6. Placed(h, g, w, r, p)
    <3>1. CASE g # first
      <4>1. \/ Idle(w, r, p)
            \/ /\ h.drawn /\ None(r) /\ p.mode = "wait" /\ ~p.asked
               /\ Two(w, "NEW_ROUND", "NEW_ROUND")
        BY <2>4, <2>5, <3>1 DEF Idle, Begins
      <4>. QED
        BY <1>4, <1>9, <3>1, <4>1, PlacedAside
    <3>2. CASE g = first
      <4>1. Mover(w, r, p)
        BY <1>2, <2>4, <2>5, <3>2 DEF Mover, Begins
      <4>2. ~h.checkOn /\ ~h.sendReq
        BY <1>4, <1>5, <2>1, <3>2
      <4>. QED
        BY <1>4, <1>9, <3>2, <4>1, <4>2, PlacedMover
    <3>. QED
      BY <3>1, <3>2
  <2>. QED
    BY <2>5, <2>6 DEF w, q, e, r, p
<1>14. /\ toGuest' \in [Guests -> Seq(GuestMessages)]
       /\ \A g \in Guests : toGuest'[g] = toGuest[g] \o Dealt(g, first, t, flower)
  <2>. DEFINE ms == [g \in Guests |-> Dealt(g, first, t, flower)]
  <2>1. (\A g \in Guests : ms[g] \in Seq(GuestMessages)) /\ toGuest' = Sent(ms)
    BY <1>2, <1>13
  <2>2. \A g \in Guests : ms[g] = Dealt(g, first, t, flower)
    OBVIOUS
  <2>. HIDE DEF ms
  <2>3. /\ toGuest' \in [Guests -> Seq(GuestMessages)]
        /\ \A g \in Guests : toGuest'[g] = toGuest[g] \o ms[g]
    BY <1>3, <2>1, Sends
  <2>. QED
    BY <2>2, <2>3
<1>15. ASSUME NEW g \in Guests PROVE Placed(h, g, toGuest'[g], toHost'[g], seat'[g])
  <2>1. Placed(h, g, toGuest'[g], toHost[g], seat[g])
    BY <1>13, <1>14
  <2>. QED
    BY <1>2, <1>12, <2>1
<1>16. ASSUME NEW at, at # "start" PROVE HostPlaced(h, at, ph)
  <2>1. first = Host => MayOffer(h, ph, t)
    BY <1>4, <1>5, <1>7 DEF MayOffer, MayCall, Answers
  <2>2. ph.asked => MayOffer(h, ph, ph.offer)
    BY <1>5, <1>7, <2>1
  <2>3. h.inCheck[Host] <=> ph.asked
    BY <1>3, <1>5, <1>7, <1>8
  <2>. QED
    BY <1>4, <1>7, <1>9, <1>16, <2>2, <2>3 DEF HostPlaced
<1>17. (h.checkOn => h.turn = Host /\ h.inCheck[Host]) /\ ~h.sendReq /\ ~h.waiting
  BY <1>3, <1>4, <1>5, <1>8
<1>18. toHost' \in [Guests -> Seq(HostMessages)] /\ pile' \in Int
  BY <1>2, <1>3
<1>. QED
  BY <1>4, <1>9, <1>10, <1>11, <1>12, <1>14, <1>15, <1>16, <1>17, <1>18 DEF h

LEMMA StartGameKeeps ==
  ASSUME IInv, GuestDealt = {{}}, StartGame
  PROVE  IInv'
<1>. DEFINE h == host'
<1>1. loop.at = "start" /\ Deals(host) /\ loop' = [at |-> "listen", heard |-> 0]
  BY DEF StartGame
<1>2. /\ host \in Hosts /\ Host \in Seated /\ Guests \subseteq Seated /\ Host \notin Guests
  BY RoundAssumption, HostFacts
<1>3. /\ PhasesApart(host) /\ Checks(host) /\ InLoop(host, loop)
      /\ (\A g \in Guests : Placed(host, g, toGuest[g], toHost[g], seat[g]))
      /\ (\A g \in Guests : None(toGuest[g]))
  BY <1>1 DEF IInv
<1>4. /\ OnMove(host) /\ host.turn = Host /\ ~host.checkOn /\ ~host.sendReq
      /\ ~host.drawn /\ ~host.waiting /\ ~host.nextReq
  <2>1. OnMove(host) /\ host.turn = Host /\ ~host.checkOn /\ ~host.sendReq /\ ~host.drawn
    BY <1>1, <1>3 DEF InLoop
  <2>. QED
    BY <2>1 DEF OnMove, Passing
<1>5. ASSUME NEW g \in Guests
      PROVE  /\ None(toHost[g]) /\ seat[g].mode = "wait" /\ ~seat[g].asked
             /\ None(toGuest[g]) \/ (host.drawn /\ One(toGuest[g], "NEW_ROUND"))
  <2>1. Idle(toGuest[g], toHost[g], seat[g])
    BY <1>2, <1>3, <1>4, PlacedThere
  <2>. QED
    BY <1>3, <2>1 DEF Idle
<1>6. /\ h \in Hosts /\ PhasesApart(h) /\ Checks(h) /\ CallsFit' /\ HandsFit' /\ MeldsFit'
      /\ seat' \in [Seated -> Hands] /\ toGuest' \in [Guests -> Seq(GuestMessages)]
      /\ toHost' \in [Guests -> Seq(HostMessages)] /\ pile' \in Int
      /\ \A g \in Guests : Placed(h, g, toGuest'[g], toHost'[g], seat'[g])
      /\ \A at : at # "start" => HostPlaced(h, at, seat'[Host])
      /\ h.drawn = host.drawn /\ (h.checkOn => h.turn = Host)
      /\ h.nextReq = host.nextReq /\ ~h.sendReq /\ ~h.waiting
      /\ h.checkOn => h.inCheck[Host]
  BY <1>1, <1>2, <1>4, <1>5, Dealing
<1>. HIDE DEF h
<1>7. /\ loop' \in [at : {"start", "listen", "over"} \cup {Stages[i] : i \in 1 .. 4}, heard : {0} \cup Guests]
      /\ loop'.at # "start" /\ InLoop(h, loop')
  BY <1>1, <1>4, <1>6 DEF InLoop
<1>. QED
  BY <1>6, <1>7, HostStep DEF h

LEMMA NewRoundKeeps ==
  ASSUME IInv, GuestDealt = {{}}, NewRound
  PROVE  IInv'
<1>. DEFINE h == host' v == [host EXCEPT !.waiting = FALSE]
<1>1. loop.at = "waiting" /\ Deals(v) /\ GoOn(h, 2)
  BY DEF NewRound
<1>2. /\ host \in Hosts /\ Host \in Seated /\ Guests \subseteq Seated /\ Host \notin Guests
  BY RoundAssumption, HostFacts
<1>3. /\ PhasesApart(host) /\ Checks(host) /\ InLoop(host, loop)
      /\ (\A g \in Guests : Placed(host, g, toGuest[g], toHost[g], seat[g]))
  BY DEF IInv
<1>4. /\ host.waiting /\ (\A s \in Seated : host.waitHit[s])
      /\ ~host.drawn /\ ~host.nextReq /\ ~host.sendReq
  <2>1. host.waiting /\ (\A s \in Seated : host.waitHit[s]) /\ ~host.drawn
    BY <1>1, <1>3 DEF InLoop, Due
  <2>. QED
    BY <1>3, <2>1 DEF PhasesApart
<1>5. /\ v \in Hosts /\ v.waiting = FALSE /\ v.drawn = host.drawn /\ v.nextReq = host.nextReq
      /\ v.sendReq = host.sendReq
  BY <1>2 DEF Hosts
<1>. HIDE DEF v
<1>6. ASSUME NEW g \in Guests
      PROVE  /\ None(toHost[g]) /\ seat[g].mode = "wait" /\ ~seat[g].asked
             /\ None(toGuest[g]) \/ (v.drawn /\ One(toGuest[g], "NEW_ROUND"))
  <2>1. Told(TRUE, toGuest[g], toHost[g], seat[g])
    <3>1. host.waitHit[g] = TRUE
      BY <1>2, <1>4 DEF Hosts
    <3>2. Told(host.waitHit[g], toGuest[g], toHost[g], seat[g])
      BY <1>3, <1>4, PlacedThere
    <3>. QED
      BY <3>1, <3>2
  <2>. QED
    BY <2>1 DEF Told
<1>7. /\ h \in Hosts /\ PhasesApart(h) /\ Checks(h) /\ CallsFit' /\ HandsFit' /\ MeldsFit'
      /\ seat' \in [Seated -> Hands] /\ toGuest' \in [Guests -> Seq(GuestMessages)]
      /\ toHost' \in [Guests -> Seq(HostMessages)] /\ pile' \in Int
      /\ \A g \in Guests : Placed(h, g, toGuest'[g], toHost'[g], seat'[g])
      /\ \A at : at # "start" => HostPlaced(h, at, seat'[Host])
      /\ h.drawn = v.drawn /\ (h.checkOn => h.turn = Host)
      /\ h.nextReq = v.nextReq /\ ~h.sendReq /\ ~h.waiting
      /\ h.checkOn => h.inCheck[Host]
  BY <1>1, <1>4, <1>5, <1>6, Dealing
<1>. HIDE DEF h
<1>8. /\ loop' \in [at : {"start", "listen", "over"} \cup {Stages[i] : i \in 1 .. 4}, heard : {0} \cup Guests]
      /\ loop'.at # "start" /\ InLoop(h, loop')
  <2>1. /\ loop'.heard = 0 /\ loop'.at \in {"listen", "waiting", "check", "next", "send"}
        /\ loop' \in [at : {"start", "listen", "over"} \cup {Stages[i] : i \in 1 .. 4}, heard : {0} \cup Guests]
        /\ loop'.at # "listen" => Due(h, loop'.at)
    BY <1>1, GoesOn
  <2>. QED
    BY <1>4, <1>5, <1>7, <2>1 DEF InLoop
<1>. QED
  BY <1>7, <1>8, HostStep DEF h

LEMMA SeaBottomKeeps ==
  ASSUME ~PlayOn, IInv, GuestDealt = {{}}, SeaBottom
  PROVE  IInv'
<1>. DEFINE h == host' v == [host EXCEPT !.drawn = TRUE]
<1>1. loop.at = "next" /\ Deals(v) /\ loop' = [at |-> "over", heard |-> 0]
  BY DEF SeaBottom
<1>2. /\ host \in Hosts /\ Host \in Seated /\ Guests \subseteq Seated /\ Host \notin Guests
  BY RoundAssumption, HostFacts
<1>3. /\ PhasesApart(host) /\ Checks(host) /\ InLoop(host, loop)
      /\ (\A g \in Guests : Placed(host, g, toGuest[g], toHost[g], seat[g]))
  BY DEF IInv
<1>4. host.nextReq /\ ~host.drawn /\ ~host.waiting /\ ~host.sendReq /\ Passing(host)
  <2>1. host.nextReq /\ ~host.drawn
    BY <1>1, <1>3 DEF InLoop, Due
  <2>. QED
    BY <1>3, <2>1 DEF PhasesApart, Passing
<1>5. /\ v \in Hosts /\ v.drawn = TRUE /\ v.nextReq = host.nextReq
      /\ v.sendReq = host.sendReq /\ v.waiting = host.waiting
  BY <1>2 DEF Hosts
<1>. HIDE DEF v
<1>6. ASSUME NEW g \in Guests
      PROVE  /\ None(toHost[g]) /\ seat[g].mode = "wait" /\ ~seat[g].asked
             /\ None(toGuest[g]) \/ (v.drawn /\ One(toGuest[g], "NEW_ROUND"))
  <2>1. Idle(toGuest[g], toHost[g], seat[g])
    BY <1>3, <1>4, PlacedThere
  <2>. QED
    BY <1>5, <2>1 DEF Idle
<1>7. /\ h \in Hosts /\ PhasesApart(h) /\ Checks(h) /\ CallsFit' /\ HandsFit' /\ MeldsFit'
      /\ seat' \in [Seated -> Hands] /\ toGuest' \in [Guests -> Seq(GuestMessages)]
      /\ toHost' \in [Guests -> Seq(HostMessages)] /\ pile' \in Int
      /\ \A g \in Guests : Placed(h, g, toGuest'[g], toHost'[g], seat'[g])
      /\ \A at : at # "start" => HostPlaced(h, at, seat'[Host])
      /\ h.drawn = v.drawn /\ (h.checkOn => h.turn = Host)
      /\ h.nextReq = v.nextReq /\ ~h.sendReq /\ ~h.waiting
      /\ h.checkOn => h.inCheck[Host]
  BY <1>1, <1>4, <1>5, <1>6, Dealing
<1>. HIDE DEF h
<1>8. /\ loop' \in [at : {"start", "listen", "over"} \cup {Stages[i] : i \in 1 .. 4}, heard : {0} \cup Guests]
      /\ loop'.at # "start" /\ InLoop(h, loop')
  BY <1>1, <1>5, <1>7 DEF InLoop
<1>. QED
  BY <1>7, <1>8, HostStep DEF h

-----------------------------------------------------------------------------
(* The invariant.                                                           *)

LEMMA InitInv ==
  ASSUME Init
  PROVE  IInv
<1>1. /\ host = [turn |-> Host, owner |-> Host, dealer |-> Host, wall |-> Wall,
             flowers |-> Flowers, card |-> {}, checkOn |-> FALSE,
             inCheck |-> Nobody, checkFor |-> NoClaims, nextReq |-> FALSE,
             nextOn |-> FALSE, sendReq |-> FALSE, sendOn |-> FALSE,
             getting |-> FALSE, waiting |-> FALSE, waitHit |-> Nobody,
             drawn |-> FALSE]
      /\ seat = [s \in Seated |-> Empty] /\ pile = 0
      /\ toGuest = [g \in Guests |-> <<>>] /\ toHost = [g \in Guests |-> <<>>]
      /\ loop = [at |-> "start", heard |-> 0]
  BY DEF Init
<1>2. Host \in Seated /\ Host \in 1 .. 4 /\ Guests \subseteq Seated /\ Host \notin Guests
  BY RoundAssumption DEF Host, Guests
<1>3. host \in Hosts
  <2>1. Nobody \in [Seated -> BOOLEAN] /\ NoClaims \in [Seated -> Calls \cup {"pass"}]
    BY DEF Nobody, NoClaims
  <2>2. Wall \in Int /\ Flowers \in 0 .. Flowers /\ {} \in Tiles
    BY RoundAssumption
  <2>. QED
    BY <1>1, <1>2, <2>1, <2>2 DEF Hosts
<1>4. Empty \in Hands /\ Empty.mode = "wait" /\ ~Empty.asked /\ ~Empty.extra
      /\ Empty.melds = 0 /\ Empty.pongs = 0
  BY RoundAssumption DEF Empty, Hands
<1>5. /\ ~host.checkOn /\ ~host.nextReq /\ ~host.sendReq /\ ~host.getting /\ ~host.waiting
      /\ ~host.drawn /\ host.turn = Host
      /\ \A s \in Seated : ~host.inCheck[s] /\ host.checkFor[s] = "pass" /\ ~host.waitHit[s]
  BY <1>1 DEF Nobody, NoClaims
<1>6. \A s \in Seated : seat[s] = Empty
  BY <1>1
<1>7. TypeOK
  <2>1. seat \in [Seated -> Hands]
    BY <1>1, <1>4
  <2>2. toGuest \in [Guests -> Seq(GuestMessages)] /\ toHost \in [Guests -> Seq(HostMessages)]
    BY <1>1
  <2>3. loop \in [at : {"start", "listen", "over"} \cup {Stages[i] : i \in 1 .. 4}, heard : {0} \cup Guests]
    BY <1>1
  <2>4. pile \in Int
    BY <1>1
  <2>. QED
    BY <1>3, <2>1, <2>2, <2>3, <2>4 DEF TypeOK
<1>8. HandsFit /\ MeldsFit
  BY <1>4, <1>6 DEF HandsFit, MeldsFit
<1>9. CallsFit
  BY <1>5 DEF CallsFit, MayCall
<1>. HIDE DEF Host
<1>10. PhasesApart(host) /\ Checks(host) /\ OnMove(host)
  BY <1>5 DEF PhasesApart, Checks, OnMove, Open, Passing
<1>11. InLoop(host, loop)
  BY <1>1, <1>5, <1>10 DEF InLoop
<1>12. ASSUME NEW g \in Guests
       PROVE  Placed(host, g, toGuest[g], toHost[g], seat[g]) /\ None(toGuest[g])
  <2>1. toGuest[g] = <<>> /\ toHost[g] = <<>> /\ seat[g] = Empty
    BY <1>1, <1>2, <1>6
  <2>2. None(toGuest[g]) /\ None(toHost[g])
    BY <2>1 DEF None
  <2>3. Idle(toGuest[g], toHost[g], seat[g])
    BY <1>4, <2>1, <2>2 DEF Idle
  <2>4. g # host.turn
    BY <1>2, <1>5
  <2>. QED
    BY <1>10, <2>2, <2>3, <2>4, PlacedAside
<1>13. HostPlaced(host, loop.at, seat[Host])
  BY <1>1, <1>2, <1>4, <1>5, <1>6 DEF HostPlaced
<1>. QED
  BY <1>7, <1>8, <1>9, <1>10, <1>11, <1>12, <1>13 DEF IInv

\* Which rounds the theorems are about: nobody discards before a verdict it waits for,
\* the 17th tile of a guest that is dealer completes nothing, and the round after a sea
\* bottom is not played.
Plain == ~Hasty /\ ~PlayOn /\ GuestDealt = {{}}

LEMMA StepInv ==
  ASSUME Plain, IInv, [Next]_vars
  PROVE  IInv'
<1>1. CASE UNCHANGED vars
  BY <1>1 DEF vars, IInv, TypeOK, HandsFit, MeldsFit, CallsFit
<1>2. CASE StartGame
  BY <1>2, StartGameKeeps DEF Plain
<1>3. CASE HostAnswer
  BY <1>3, HostAnswerKeeps
<1>4. ASSUME NEW t \in Tiles, HostDraw(t) PROVE IInv'
  BY <1>4, HostDrawKeeps
<1>5. CASE HostThrow
  BY <1>5, HostThrowKeeps DEF Plain
<1>6. CASE EndInput
  BY <1>6, RoundAssumption, EndInputKeeps
<1>7. CASE NewRound
  BY <1>7, NewRoundKeeps DEF Plain
<1>8. CASE CheckMake
  BY <1>8, RoundAssumption, CheckMakeKeeps
<1>9. CASE CheckKang \/ CheckPong \/ CheckEat
  BY <1>9, RoundAssumption, ClaimsKeep
<1>10. CASE CheckNone
  BY <1>10, RoundAssumption, CheckNoneKeeps
<1>11. CASE NextPlayer
  BY <1>11, RoundAssumption, NextPlayerKeeps
<1>12. CASE SeaBottom
  BY <1>12, SeaBottomKeeps DEF Plain
<1>13. ASSUME NEW t \in Tiles, SendCard(t) PROVE IInv'
  BY <1>13, RoundAssumption, SendCardKeeps
<1>14. ASSUME NEW g \in Guests, GuestReceive(g) PROVE IInv'
  BY <1>14, RoundAssumption, TakeNewRoundKeeps, TakeCanGetKeeps, TakeCardKeeps,
     TakeChangeKeeps, TakeCheckKeeps, TakeEpkKeeps, TakeMakeKeeps DEF GuestReceive
<1>15. ASSUME NEW g \in Guests, GuestKey(g) PROVE IInv'
  BY <1>15, GuestAnswerKeeps, GuestDrawKeeps, GuestThrowKeeps DEF GuestKey, Plain
<1>16. ASSUME NEW g \in Guests, Hear(g) PROVE IInv'
  BY <1>16, RoundAssumption, HearRequestKeeps, HearThrowKeeps, HearWaitHitKeeps,
     HearResultKeeps, HearShowEpkKeeps DEF Hear
<1>. QED
  BY <1>1, <1>2, <1>3, <1>4, <1>5, <1>6, <1>7, <1>8, <1>9, <1>10, <1>11, <1>12, <1>13,
     <1>14, <1>15, <1>16 DEF Next, HostKey, Stage

-----------------------------------------------------------------------------
(* What the invariant says of the players' moves and questions.             *)

Holds(q, types) == \E i \in DOMAIN q : q[i].type \in types

\* The type of a message by its word.
Said(a) == CASE a \in {"tile", "flower"} -> "GET_CARD"
             [] a \in {"own", "claim"}   -> "EPK"
             [] OTHER                    -> a

LEMMA Types ==
  ASSUME NEW m \in GuestMessages \cup HostMessages
  PROVE  m.type = Said(Word(m))
<1>1. CASE m.type = "GET_CARD"
  BY <1>1 DEF Said, Word
<1>2. CASE m.type = "EPK"
  BY <1>2 DEF Said, Word
<1>3. CASE m.type \notin {"GET_CARD", "EPK"}
  <2>1. Word(m) = m.type
    BY <1>3, Words
  <2>2. m.type \notin {"tile", "flower", "own", "claim"}
    BY DEF GuestMessages, HostMessages
  <2>. QED
    BY <2>1, <2>2 DEF Said
<1>. QED
  BY <1>1, <1>2, <1>3

\* What a queue of one of the forms holds.
LEMMA Held ==
  ASSUME NEW M, M \subseteq GuestMessages \cup HostMessages, NEW q \in Seq(M), NEW T
  PROVE  /\ None(q) => ~Holds(q, T)
         /\ \A a : One(q, a) => (Holds(q, T) <=> Said(a) \in T)
         /\ \A a, b : Two(q, a, b) => (Holds(q, T) <=> (Said(a) \in T \/ Said(b) \in T))
         /\ \A a, b, c : Three(q, a, b, c) =>
              (Holds(q, T) <=> (Said(a) \in T \/ Said(b) \in T \/ Said(c) \in T))
         /\ \A a, b, c, d : Four(q, a, b, c, d) =>
              (Holds(q, T) <=> (Said(a) \in T \/ Said(b) \in T \/ Said(c) \in T \/ Said(d) \in T))
<1>1. DOMAIN q = 1 .. Len(q) /\ Len(q) \in Nat
  OBVIOUS
<1>2. \A i \in 1 .. Len(q) : q[i].type = Said(Word(q[i]))
  <2>1. \A i \in 1 .. Len(q) : q[i] \in GuestMessages \cup HostMessages
    OBVIOUS
  <2>. QED
    BY <2>1, Types
<1>3. None(q) => ~Holds(q, T)
  BY <1>1 DEF None, Holds
<1>4. ASSUME NEW a, One(q, a) PROVE Holds(q, T) <=> Said(a) \in T
  <2>1. DOMAIN q = {1} /\ q[1].type = Said(a)
    BY <1>1, <1>2, <1>4 DEF One
  <2>. QED
    BY <2>1 DEF Holds
<1>5. ASSUME NEW a, NEW b, Two(q, a, b)
      PROVE  Holds(q, T) <=> (Said(a) \in T \/ Said(b) \in T)
  <2>1. DOMAIN q = {1, 2} /\ q[1].type = Said(a) /\ q[2].type = Said(b)
    BY <1>1, <1>2, <1>5 DEF Two
  <2>. QED
    BY <2>1 DEF Holds
<1>6. ASSUME NEW a, NEW b, NEW c, Three(q, a, b, c)
      PROVE  Holds(q, T) <=> (Said(a) \in T \/ Said(b) \in T \/ Said(c) \in T)
  <2>1. DOMAIN q = {1, 2, 3} /\ q[1].type = Said(a) /\ q[2].type = Said(b) /\ q[3].type = Said(c)
    BY <1>1, <1>2, <1>6 DEF Three
  <2>. QED
    BY <2>1 DEF Holds
<1>7. ASSUME NEW a, NEW b, NEW c, NEW d, Four(q, a, b, c, d)
      PROVE  Holds(q, T) <=> (Said(a) \in T \/ Said(b) \in T \/ Said(c) \in T \/ Said(d) \in T)
  <2>1. /\ DOMAIN q = {1, 2, 3, 4} /\ q[1].type = Said(a) /\ q[2].type = Said(b)
        /\ q[3].type = Said(c) /\ q[4].type = Said(d)
    BY <1>1, <1>2, <1>7 DEF Four
  <2>. QED
    BY <2>1 DEF Holds
<1>. QED
  BY <1>3, <1>4, <1>5, <1>6, <1>7

\* Moving and Questioned of a guest, by its queues and its hand.
Ends  == {"NEW_ROUND", "MAKE"}
Turns == {"CAN_GET", "GET_CARD", "EPK"}
Deeds == {"REQUEST_CARD", "FLOWER", "THROW_CARD"}

Acts(q, r, p) ==
  \/ p.mode \in {"get", "throw"} /\ ~Holds(q, Ends)
  \/ Holds(q, Turns) /\ ~Holds(q, {"MAKE"})
  \/ Holds(r, Deeds)

Ponders(q, r, p) == p.asked \/ Holds(q, {"CHECK_CARD"}) \/ Holds(r, {"CHECK_RESULT"})

LEMMA Says ==
  /\ \A a \in {"NEW_ROUND", "CAN_GET", "MAKE", "CHANGE_CARD", "CHECK_CARD", "REQUEST_CARD",
               "FLOWER", "WAIT_HIT", "SHOW_EPK", "THROW_CARD", "CHECK_RESULT"} : Said(a) = a
  /\ Said("tile") = "GET_CARD" /\ Said("flower") = "GET_CARD"
  /\ Said("own") = "EPK" /\ Said("claim") = "EPK"
  BY DEF Said

\* What is in a queue of the host, by its form.
LEMMA SentHolds ==
  ASSUME NEW q \in Seq(GuestMessages)
  PROVE  /\ None(q) => ~Holds(q, Ends) /\ ~Holds(q, Turns) /\ ~Holds(q, {"MAKE"}) /\ ~Holds(q, {"CHECK_CARD"})
         /\ One(q, "CHECK_CARD") =>
              ~Holds(q, Ends) /\ ~Holds(q, Turns) /\ ~Holds(q, {"MAKE"}) /\ Holds(q, {"CHECK_CARD"})
         /\ One(q, "NEW_ROUND") =>
              Holds(q, Ends) /\ ~Holds(q, Turns) /\ ~Holds(q, {"MAKE"}) /\ ~Holds(q, {"CHECK_CARD"})
         /\ One(q, "CHANGE_CARD") =>
              ~Holds(q, Ends) /\ ~Holds(q, Turns) /\ ~Holds(q, {"MAKE"}) /\ ~Holds(q, {"CHECK_CARD"})
         /\ One(q, "CAN_GET") =>
              ~Holds(q, Ends) /\ Holds(q, Turns) /\ ~Holds(q, {"MAKE"}) /\ ~Holds(q, {"CHECK_CARD"})
         /\ One(q, "tile") =>
              ~Holds(q, Ends) /\ Holds(q, Turns) /\ ~Holds(q, {"MAKE"}) /\ ~Holds(q, {"CHECK_CARD"})
         /\ One(q, "flower") =>
              ~Holds(q, Ends) /\ Holds(q, Turns) /\ ~Holds(q, {"MAKE"}) /\ ~Holds(q, {"CHECK_CARD"})
         /\ One(q, "claim") =>
              ~Holds(q, Ends) /\ Holds(q, Turns) /\ ~Holds(q, {"MAKE"}) /\ ~Holds(q, {"CHECK_CARD"})
         /\ One(q, "own") =>
              ~Holds(q, Ends) /\ Holds(q, Turns) /\ ~Holds(q, {"MAKE"}) /\ ~Holds(q, {"CHECK_CARD"})
         /\ One(q, "MAKE") =>
              Holds(q, Ends) /\ ~Holds(q, Turns) /\ Holds(q, {"MAKE"}) /\ ~Holds(q, {"CHECK_CARD"})
         /\ Two(q, "NEW_ROUND", "CHECK_CARD") =>
              Holds(q, Ends) /\ ~Holds(q, Turns) /\ ~Holds(q, {"MAKE"}) /\ Holds(q, {"CHECK_CARD"})
         /\ Two(q, "NEW_ROUND", "NEW_ROUND") =>
              Holds(q, Ends) /\ ~Holds(q, Turns) /\ ~Holds(q, {"MAKE"}) /\ ~Holds(q, {"CHECK_CARD"})
         /\ Two(q, "NEW_ROUND", "CAN_GET") =>
              Holds(q, Ends) /\ Holds(q, Turns) /\ ~Holds(q, {"MAKE"}) /\ ~Holds(q, {"CHECK_CARD"})
         /\ Two(q, "NEW_ROUND", "tile") =>
              Holds(q, Ends) /\ Holds(q, Turns) /\ ~Holds(q, {"MAKE"}) /\ ~Holds(q, {"CHECK_CARD"})
         /\ Two(q, "NEW_ROUND", "MAKE") =>
              Holds(q, Ends) /\ ~Holds(q, Turns) /\ Holds(q, {"MAKE"}) /\ ~Holds(q, {"CHECK_CARD"})
         /\ Two(q, "tile", "MAKE") =>
              Holds(q, Ends) /\ Holds(q, Turns) /\ Holds(q, {"MAKE"}) /\ ~Holds(q, {"CHECK_CARD"})
         /\ Two(q, "CHANGE_CARD", "tile") =>
              ~Holds(q, Ends) /\ Holds(q, Turns) /\ ~Holds(q, {"MAKE"}) /\ ~Holds(q, {"CHECK_CARD"})
         /\ Two(q, "CHANGE_CARD", "flower") =>
              ~Holds(q, Ends) /\ Holds(q, Turns) /\ ~Holds(q, {"MAKE"}) /\ ~Holds(q, {"CHECK_CARD"})
         /\ Two(q, "flower", "CHANGE_CARD") =>
              ~Holds(q, Ends) /\ Holds(q, Turns) /\ ~Holds(q, {"MAKE"}) /\ ~Holds(q, {"CHECK_CARD"})
         /\ Two(q, "tile", "own") =>
              ~Holds(q, Ends) /\ Holds(q, Turns) /\ ~Holds(q, {"MAKE"}) /\ ~Holds(q, {"CHECK_CARD"})
         /\ Two(q, "CHECK_CARD", "tile") =>
              ~Holds(q, Ends) /\ Holds(q, Turns) /\ ~Holds(q, {"MAKE"}) /\ Holds(q, {"CHECK_CARD"})
         /\ Three(q, "NEW_ROUND", "NEW_ROUND", "tile") =>
              Holds(q, Ends) /\ Holds(q, Turns) /\ ~Holds(q, {"MAKE"}) /\ ~Holds(q, {"CHECK_CARD"})
         /\ Three(q, "NEW_ROUND", "flower", "CHANGE_CARD") =>
              Holds(q, Ends) /\ Holds(q, Turns) /\ ~Holds(q, {"MAKE"}) /\ ~Holds(q, {"CHECK_CARD"})
         /\ Three(q, "CHANGE_CARD", "CHECK_CARD", "tile") =>
              ~Holds(q, Ends) /\ Holds(q, Turns) /\ ~Holds(q, {"MAKE"}) /\ Holds(q, {"CHECK_CARD"})
         /\ Four(q, "NEW_ROUND", "NEW_ROUND", "flower", "CHANGE_CARD") =>
              Holds(q, Ends) /\ Holds(q, Turns) /\ ~Holds(q, {"MAKE"}) /\ ~Holds(q, {"CHECK_CARD"})
<1>1. GuestMessages \subseteq GuestMessages \cup HostMessages
      /\ HostMessages \subseteq GuestMessages \cup HostMessages
  OBVIOUS
<1>2. None(q) => ~Holds(q, Ends) /\ ~Holds(q, Turns) /\ ~Holds(q, {"MAKE"}) /\ ~Holds(q, {"CHECK_CARD"})
  BY <1>1, Held
<1>3. ASSUME One(q, "CHECK_CARD")
      PROVE  ~Holds(q, Ends) /\ ~Holds(q, Turns) /\ ~Holds(q, {"MAKE"}) /\ Holds(q, {"CHECK_CARD"})
  <2>1. \A T : Holds(q, T) <=> (Said("CHECK_CARD") \in T)
    BY <1>1, <1>3, Held
  <2>. QED
    BY <2>1, Says DEF Ends, Turns
<1>4. ASSUME One(q, "NEW_ROUND")
      PROVE  Holds(q, Ends) /\ ~Holds(q, Turns) /\ ~Holds(q, {"MAKE"}) /\ ~Holds(q, {"CHECK_CARD"})
  <2>1. \A T : Holds(q, T) <=> (Said("NEW_ROUND") \in T)
    BY <1>1, <1>4, Held
  <2>. QED
    BY <2>1, Says DEF Ends, Turns
<1>5. ASSUME One(q, "CHANGE_CARD")
      PROVE  ~Holds(q, Ends) /\ ~Holds(q, Turns) /\ ~Holds(q, {"MAKE"}) /\ ~Holds(q, {"CHECK_CARD"})
  <2>1. \A T : Holds(q, T) <=> (Said("CHANGE_CARD") \in T)
    BY <1>1, <1>5, Held
  <2>. QED
    BY <2>1, Says DEF Ends, Turns
<1>6. ASSUME One(q, "CAN_GET")
      PROVE  ~Holds(q, Ends) /\ Holds(q, Turns) /\ ~Holds(q, {"MAKE"}) /\ ~Holds(q, {"CHECK_CARD"})
  <2>1. \A T : Holds(q, T) <=> (Said("CAN_GET") \in T)
    BY <1>1, <1>6, Held
  <2>. QED
    BY <2>1, Says DEF Ends, Turns
<1>7. ASSUME One(q, "tile")
      PROVE  ~Holds(q, Ends) /\ Holds(q, Turns) /\ ~Holds(q, {"MAKE"}) /\ ~Holds(q, {"CHECK_CARD"})
  <2>1. \A T : Holds(q, T) <=> (Said("tile") \in T)
    BY <1>1, <1>7, Held
  <2>. QED
    BY <2>1, Says DEF Ends, Turns
<1>8. ASSUME One(q, "flower")
      PROVE  ~Holds(q, Ends) /\ Holds(q, Turns) /\ ~Holds(q, {"MAKE"}) /\ ~Holds(q, {"CHECK_CARD"})
  <2>1. \A T : Holds(q, T) <=> (Said("flower") \in T)
    BY <1>1, <1>8, Held
  <2>. QED
    BY <2>1, Says DEF Ends, Turns
<1>9. ASSUME One(q, "claim")
      PROVE  ~Holds(q, Ends) /\ Holds(q, Turns) /\ ~Holds(q, {"MAKE"}) /\ ~Holds(q, {"CHECK_CARD"})
  <2>1. \A T : Holds(q, T) <=> (Said("claim") \in T)
    BY <1>1, <1>9, Held
  <2>. QED
    BY <2>1, Says DEF Ends, Turns
<1>10. ASSUME One(q, "own")
      PROVE  ~Holds(q, Ends) /\ Holds(q, Turns) /\ ~Holds(q, {"MAKE"}) /\ ~Holds(q, {"CHECK_CARD"})
  <2>1. \A T : Holds(q, T) <=> (Said("own") \in T)
    BY <1>1, <1>10, Held
  <2>. QED
    BY <2>1, Says DEF Ends, Turns
<1>11. ASSUME One(q, "MAKE")
      PROVE  Holds(q, Ends) /\ ~Holds(q, Turns) /\ Holds(q, {"MAKE"}) /\ ~Holds(q, {"CHECK_CARD"})
  <2>1. \A T : Holds(q, T) <=> (Said("MAKE") \in T)
    BY <1>1, <1>11, Held
  <2>. QED
    BY <2>1, Says DEF Ends, Turns
<1>12. ASSUME Two(q, "NEW_ROUND", "CHECK_CARD")
      PROVE  Holds(q, Ends) /\ ~Holds(q, Turns) /\ ~Holds(q, {"MAKE"}) /\ Holds(q, {"CHECK_CARD"})
  <2>1. \A T : Holds(q, T) <=> (Said("NEW_ROUND") \in T \/ Said("CHECK_CARD") \in T)
    BY <1>1, <1>12, Held
  <2>. QED
    BY <2>1, Says DEF Ends, Turns
<1>13. ASSUME Two(q, "NEW_ROUND", "NEW_ROUND")
      PROVE  Holds(q, Ends) /\ ~Holds(q, Turns) /\ ~Holds(q, {"MAKE"}) /\ ~Holds(q, {"CHECK_CARD"})
  <2>1. \A T : Holds(q, T) <=> (Said("NEW_ROUND") \in T \/ Said("NEW_ROUND") \in T)
    BY <1>1, <1>13, Held
  <2>. QED
    BY <2>1, Says DEF Ends, Turns
<1>14. ASSUME Two(q, "NEW_ROUND", "CAN_GET")
      PROVE  Holds(q, Ends) /\ Holds(q, Turns) /\ ~Holds(q, {"MAKE"}) /\ ~Holds(q, {"CHECK_CARD"})
  <2>1. \A T : Holds(q, T) <=> (Said("NEW_ROUND") \in T \/ Said("CAN_GET") \in T)
    BY <1>1, <1>14, Held
  <2>. QED
    BY <2>1, Says DEF Ends, Turns
<1>15. ASSUME Two(q, "NEW_ROUND", "tile")
      PROVE  Holds(q, Ends) /\ Holds(q, Turns) /\ ~Holds(q, {"MAKE"}) /\ ~Holds(q, {"CHECK_CARD"})
  <2>1. \A T : Holds(q, T) <=> (Said("NEW_ROUND") \in T \/ Said("tile") \in T)
    BY <1>1, <1>15, Held
  <2>. QED
    BY <2>1, Says DEF Ends, Turns
<1>16. ASSUME Two(q, "NEW_ROUND", "MAKE")
      PROVE  Holds(q, Ends) /\ ~Holds(q, Turns) /\ Holds(q, {"MAKE"}) /\ ~Holds(q, {"CHECK_CARD"})
  <2>1. \A T : Holds(q, T) <=> (Said("NEW_ROUND") \in T \/ Said("MAKE") \in T)
    BY <1>1, <1>16, Held
  <2>. QED
    BY <2>1, Says DEF Ends, Turns
<1>17. ASSUME Two(q, "tile", "MAKE")
      PROVE  Holds(q, Ends) /\ Holds(q, Turns) /\ Holds(q, {"MAKE"}) /\ ~Holds(q, {"CHECK_CARD"})
  <2>1. \A T : Holds(q, T) <=> (Said("tile") \in T \/ Said("MAKE") \in T)
    BY <1>1, <1>17, Held
  <2>. QED
    BY <2>1, Says DEF Ends, Turns
<1>18. ASSUME Two(q, "CHANGE_CARD", "tile")
      PROVE  ~Holds(q, Ends) /\ Holds(q, Turns) /\ ~Holds(q, {"MAKE"}) /\ ~Holds(q, {"CHECK_CARD"})
  <2>1. \A T : Holds(q, T) <=> (Said("CHANGE_CARD") \in T \/ Said("tile") \in T)
    BY <1>1, <1>18, Held
  <2>. QED
    BY <2>1, Says DEF Ends, Turns
<1>19. ASSUME Two(q, "CHANGE_CARD", "flower")
      PROVE  ~Holds(q, Ends) /\ Holds(q, Turns) /\ ~Holds(q, {"MAKE"}) /\ ~Holds(q, {"CHECK_CARD"})
  <2>1. \A T : Holds(q, T) <=> (Said("CHANGE_CARD") \in T \/ Said("flower") \in T)
    BY <1>1, <1>19, Held
  <2>. QED
    BY <2>1, Says DEF Ends, Turns
<1>20. ASSUME Two(q, "flower", "CHANGE_CARD")
      PROVE  ~Holds(q, Ends) /\ Holds(q, Turns) /\ ~Holds(q, {"MAKE"}) /\ ~Holds(q, {"CHECK_CARD"})
  <2>1. \A T : Holds(q, T) <=> (Said("flower") \in T \/ Said("CHANGE_CARD") \in T)
    BY <1>1, <1>20, Held
  <2>. QED
    BY <2>1, Says DEF Ends, Turns
<1>21. ASSUME Two(q, "tile", "own")
      PROVE  ~Holds(q, Ends) /\ Holds(q, Turns) /\ ~Holds(q, {"MAKE"}) /\ ~Holds(q, {"CHECK_CARD"})
  <2>1. \A T : Holds(q, T) <=> (Said("tile") \in T \/ Said("own") \in T)
    BY <1>1, <1>21, Held
  <2>. QED
    BY <2>1, Says DEF Ends, Turns
<1>22. ASSUME Two(q, "CHECK_CARD", "tile")
      PROVE  ~Holds(q, Ends) /\ Holds(q, Turns) /\ ~Holds(q, {"MAKE"}) /\ Holds(q, {"CHECK_CARD"})
  <2>1. \A T : Holds(q, T) <=> (Said("CHECK_CARD") \in T \/ Said("tile") \in T)
    BY <1>1, <1>22, Held
  <2>. QED
    BY <2>1, Says DEF Ends, Turns
<1>23. ASSUME Three(q, "NEW_ROUND", "NEW_ROUND", "tile")
      PROVE  Holds(q, Ends) /\ Holds(q, Turns) /\ ~Holds(q, {"MAKE"}) /\ ~Holds(q, {"CHECK_CARD"})
  <2>1. \A T : Holds(q, T) <=> (Said("NEW_ROUND") \in T \/ Said("NEW_ROUND") \in T \/ Said("tile") \in T)
    BY <1>1, <1>23, Held
  <2>. QED
    BY <2>1, Says DEF Ends, Turns
<1>24. ASSUME Three(q, "NEW_ROUND", "flower", "CHANGE_CARD")
      PROVE  Holds(q, Ends) /\ Holds(q, Turns) /\ ~Holds(q, {"MAKE"}) /\ ~Holds(q, {"CHECK_CARD"})
  <2>1. \A T : Holds(q, T) <=> (Said("NEW_ROUND") \in T \/ Said("flower") \in T \/ Said("CHANGE_CARD") \in T)
    BY <1>1, <1>24, Held
  <2>. QED
    BY <2>1, Says DEF Ends, Turns
<1>25. ASSUME Three(q, "CHANGE_CARD", "CHECK_CARD", "tile")
      PROVE  ~Holds(q, Ends) /\ Holds(q, Turns) /\ ~Holds(q, {"MAKE"}) /\ Holds(q, {"CHECK_CARD"})
  <2>1. \A T : Holds(q, T) <=> (Said("CHANGE_CARD") \in T \/ Said("CHECK_CARD") \in T \/ Said("tile") \in T)
    BY <1>1, <1>25, Held
  <2>. QED
    BY <2>1, Says DEF Ends, Turns
<1>26. ASSUME Four(q, "NEW_ROUND", "NEW_ROUND", "flower", "CHANGE_CARD")
      PROVE  Holds(q, Ends) /\ Holds(q, Turns) /\ ~Holds(q, {"MAKE"}) /\ ~Holds(q, {"CHECK_CARD"})
  <2>1. \A T : Holds(q, T) <=> (Said("NEW_ROUND") \in T \/ Said("NEW_ROUND") \in T \/ Said("flower") \in T \/ Said("CHANGE_CARD") \in T)
    BY <1>1, <1>26, Held
  <2>. QED
    BY <2>1, Says DEF Ends, Turns
<1>. QED
  BY <1>2, <1>3, <1>4, <1>5, <1>6, <1>7, <1>8, <1>9, <1>10, <1>11, <1>12, <1>13, <1>14, <1>15, <1>16, <1>17, <1>18, <1>19, <1>20, <1>21, <1>22, <1>23, <1>24, <1>25, <1>26

\* The same for what a guest has sent.
LEMMA HeardHolds ==
  ASSUME NEW r \in Seq(HostMessages)
  PROVE  /\ None(r) => ~Holds(r, Deeds) /\ ~Holds(r, {"CHECK_RESULT"})
         /\ One(r, "CHECK_RESULT") =>
              ~Holds(r, Deeds) /\ Holds(r, {"CHECK_RESULT"})
         /\ One(r, "SHOW_EPK") =>
              ~Holds(r, Deeds) /\ ~Holds(r, {"CHECK_RESULT"})
         /\ One(r, "REQUEST_CARD") =>
              Holds(r, Deeds) /\ ~Holds(r, {"CHECK_RESULT"})
         /\ One(r, "THROW_CARD") =>
              Holds(r, Deeds) /\ ~Holds(r, {"CHECK_RESULT"})
         /\ One(r, "FLOWER") =>
              Holds(r, Deeds) /\ ~Holds(r, {"CHECK_RESULT"})
         /\ One(r, "WAIT_HIT") =>
              ~Holds(r, Deeds) /\ ~Holds(r, {"CHECK_RESULT"})
         /\ Two(r, "SHOW_EPK", "REQUEST_CARD") =>
              Holds(r, Deeds) /\ ~Holds(r, {"CHECK_RESULT"})
         /\ Two(r, "SHOW_EPK", "THROW_CARD") =>
              Holds(r, Deeds) /\ ~Holds(r, {"CHECK_RESULT"})
         /\ Two(r, "CHECK_RESULT", "THROW_CARD") =>
              Holds(r, Deeds) /\ Holds(r, {"CHECK_RESULT"})
<1>1. GuestMessages \subseteq GuestMessages \cup HostMessages
      /\ HostMessages \subseteq GuestMessages \cup HostMessages
  OBVIOUS
<1>2. None(r) => ~Holds(r, Deeds) /\ ~Holds(r, {"CHECK_RESULT"})
  BY <1>1, Held
<1>3. ASSUME One(r, "CHECK_RESULT")
      PROVE  ~Holds(r, Deeds) /\ Holds(r, {"CHECK_RESULT"})
  <2>1. \A T : Holds(r, T) <=> (Said("CHECK_RESULT") \in T)
    BY <1>1, <1>3, Held
  <2>. QED
    BY <2>1, Says DEF Deeds
<1>4. ASSUME One(r, "SHOW_EPK")
      PROVE  ~Holds(r, Deeds) /\ ~Holds(r, {"CHECK_RESULT"})
  <2>1. \A T : Holds(r, T) <=> (Said("SHOW_EPK") \in T)
    BY <1>1, <1>4, Held
  <2>. QED
    BY <2>1, Says DEF Deeds
<1>5. ASSUME One(r, "REQUEST_CARD")
      PROVE  Holds(r, Deeds) /\ ~Holds(r, {"CHECK_RESULT"})
  <2>1. \A T : Holds(r, T) <=> (Said("REQUEST_CARD") \in T)
    BY <1>1, <1>5, Held
  <2>. QED
    BY <2>1, Says DEF Deeds
<1>6. ASSUME One(r, "THROW_CARD")
      PROVE  Holds(r, Deeds) /\ ~Holds(r, {"CHECK_RESULT"})
  <2>1. \A T : Holds(r, T) <=> (Said("THROW_CARD") \in T)
    BY <1>1, <1>6, Held
  <2>. QED
    BY <2>1, Says DEF Deeds
<1>7. ASSUME One(r, "FLOWER")
      PROVE  Holds(r, Deeds) /\ ~Holds(r, {"CHECK_RESULT"})
  <2>1. \A T : Holds(r, T) <=> (Said("FLOWER") \in T)
    BY <1>1, <1>7, Held
  <2>. QED
    BY <2>1, Says DEF Deeds
<1>8. ASSUME One(r, "WAIT_HIT")
      PROVE  ~Holds(r, Deeds) /\ ~Holds(r, {"CHECK_RESULT"})
  <2>1. \A T : Holds(r, T) <=> (Said("WAIT_HIT") \in T)
    BY <1>1, <1>8, Held
  <2>. QED
    BY <2>1, Says DEF Deeds
<1>9. ASSUME Two(r, "SHOW_EPK", "REQUEST_CARD")
      PROVE  Holds(r, Deeds) /\ ~Holds(r, {"CHECK_RESULT"})
  <2>1. \A T : Holds(r, T) <=> (Said("SHOW_EPK") \in T \/ Said("REQUEST_CARD") \in T)
    BY <1>1, <1>9, Held
  <2>. QED
    BY <2>1, Says DEF Deeds
<1>10. ASSUME Two(r, "SHOW_EPK", "THROW_CARD")
      PROVE  Holds(r, Deeds) /\ ~Holds(r, {"CHECK_RESULT"})
  <2>1. \A T : Holds(r, T) <=> (Said("SHOW_EPK") \in T \/ Said("THROW_CARD") \in T)
    BY <1>1, <1>10, Held
  <2>. QED
    BY <2>1, Says DEF Deeds
<1>11. ASSUME Two(r, "CHECK_RESULT", "THROW_CARD")
      PROVE  Holds(r, Deeds) /\ Holds(r, {"CHECK_RESULT"})
  <2>1. \A T : Holds(r, T) <=> (Said("CHECK_RESULT") \in T \/ Said("THROW_CARD") \in T)
    BY <1>1, <1>11, Held
  <2>. QED
    BY <2>1, Says DEF Deeds
<1>. QED
  BY <1>2, <1>3, <1>4, <1>5, <1>6, <1>7, <1>8, <1>9, <1>10, <1>11

LEMMA FormsTell ==
  ASSUME NEW h, NEW c, NEW q \in Seq(GuestMessages), NEW r \in Seq(HostMessages), NEW p
  PROVE  /\ Idle(q, r, p)        => ~Acts(q, r, p) /\ ~Ponders(q, r, p)
         /\ Asked(h, q, r, p)    => ~Acts(q, r, p) /\ Ponders(q, r, p)
         /\ Served(q, r, p)      => ~Acts(q, r, p) /\ ~Ponders(q, r, p)
         /\ Mover(q, r, p)       => Acts(q, r, p) /\ ~Ponders(q, r, p)
         /\ Deciding(h, q, r, p) => Ponders(q, r, p)
         /\ Decided(c, q, r, p)  => ~Ponders(q, r, p)
         /\ Told(c, q, r, p)     => ~Acts(q, r, p) /\ ~Ponders(q, r, p)
         /\ None(r) /\ p.mode = "wait" /\ ~p.asked /\ Two(q, "NEW_ROUND", "NEW_ROUND")
              => ~Acts(q, r, p) /\ ~Ponders(q, r, p)
<1>1. Idle(q, r, p) => ~Acts(q, r, p) /\ ~Ponders(q, r, p)
  BY SentHolds, HeardHolds DEF Idle, Acts, Ponders
<1>2. Asked(h, q, r, p) => ~Acts(q, r, p) /\ Ponders(q, r, p)
  BY SentHolds, HeardHolds DEF Asked, Acts, Ponders
<1>3. Served(q, r, p) => ~Acts(q, r, p) /\ ~Ponders(q, r, p)
  BY SentHolds, HeardHolds DEF Served, Acts, Ponders
<1>4. Mover(q, r, p) => Acts(q, r, p)
  BY SentHolds, HeardHolds DEF Mover, Acts
<1>5. Mover(q, r, p) => ~Ponders(q, r, p)
  BY SentHolds, HeardHolds DEF Mover, Ponders
<1>6. Deciding(h, q, r, p) => Ponders(q, r, p)
  BY SentHolds, HeardHolds DEF Deciding, Ponders
<1>7. Decided(c, q, r, p) => ~Ponders(q, r, p)
  BY SentHolds, HeardHolds DEF Decided, Ponders
<1>8. Told(c, q, r, p) => ~Acts(q, r, p) /\ ~Ponders(q, r, p)
  BY SentHolds, HeardHolds DEF Told, Acts, Ponders
<1>9. None(r) /\ p.mode = "wait" /\ ~p.asked /\ Two(q, "NEW_ROUND", "NEW_ROUND")
        => ~Acts(q, r, p) /\ ~Ponders(q, r, p)
  BY SentHolds, HeardHolds DEF Acts, Ponders
<1>. QED
  BY <1>1, <1>2, <1>3, <1>4, <1>5, <1>6, <1>7, <1>8, <1>9

\* Moving and Questioned by the form of the seat.
LEMMA GuestsTell ==
  ASSUME TypeOK, NEW g \in Guests
  PROVE  /\ g \in Seated /\ g # Host
         /\ toGuest[g] \in Seq(GuestMessages) /\ toHost[g] \in Seq(HostMessages)
         /\ Moving(g) <=> Acts(toGuest[g], toHost[g], seat[g])
         /\ Questioned(g) <=> Ponders(toGuest[g], toHost[g], seat[g])
         /\ Going(g, {"CHECK_RESULT"}) => Questioned(g)
<1>1. g \in Seated /\ g # Host
  BY DEF Guests
<1>2. toGuest[g] \in Seq(GuestMessages) /\ toHost[g] \in Seq(HostMessages)
  BY DEF TypeOK
<1>3. \A types : /\ Coming(g, types) <=> Holds(toGuest[g], types)
                 /\ Going(g, types) <=> Holds(toHost[g], types)
  BY DEF Coming, Going, Holds
<1>4. Moving(g) <=> Acts(toGuest[g], toHost[g], seat[g])
  BY <1>3 DEF Moving, Acts, Ends, Turns, Deeds
<1>5. Questioned(g) <=> Ponders(toGuest[g], toHost[g], seat[g])
  BY <1>3 DEF Questioned, Ponders
<1>6. Going(g, {"CHECK_RESULT"}) => Questioned(g)
  BY DEF Questioned
<1>. QED
  BY <1>1, <1>2, <1>4, <1>5, <1>6

LEMMA HostTells ==
  /\ Moving(Host) <=> seat[Host].mode \in {"get", "throw"}
  /\ Questioned(Host) <=> seat[Host].asked
<1>1. \A types : ~Coming(Host, types) /\ ~Going(Host, types)
  BY DEF Coming, Going, Guests
<1>. QED
  BY <1>1 DEF Moving, Questioned

\* Who moves and who is asked, at a seat that is placed.
LEMMA PlacedTells ==
  ASSUME IInv, NEW g \in Guests
  PROVE  /\ host.inCheck[g] <=> Questioned(g)
         /\ Moving(g) => OnMove(host) /\ g = host.turn /\ ~host.sendReq
         /\ OnMove(host) /\ g = host.turn /\ ~host.checkOn /\ ~host.sendReq => Moving(g)
<1>. DEFINE q == toGuest[g]
            r == toHost[g]
            p == seat[g]
<1>1. TypeOK /\ PhasesApart(host) /\ Checks(host) /\ Placed(host, g, q, r, p)
  BY DEF IInv
<1>2. /\ g \in Seated /\ q \in Seq(GuestMessages) /\ r \in Seq(HostMessages)
      /\ Moving(g) <=> Acts(q, r, p)
      /\ Questioned(g) <=> Ponders(q, r, p)
  BY <1>1, GuestsTell
<1>3. host.turn \in Seated
  BY <1>1 DEF TypeOK, Hosts
<1>. HIDE DEF q, r, p
<1>4. CASE host.waiting
  <2>1. Told(host.waitHit[g], q, r, p)
    BY <1>1, <1>4 DEF Placed
  <2>2. ~Acts(q, r, p) /\ ~Ponders(q, r, p)
    BY <1>2, <2>1, FormsTell
  <2>3. ~host.inCheck[g] /\ ~OnMove(host)
    BY <1>1, <1>2, <1>4 DEF PhasesApart, Checks, OnMove
  <2>. QED
    BY <1>2, <2>2, <2>3
<1>5. CASE Open(host)
  <2>1. IF host.inCheck[g] THEN Asked(host, q, r, p) ELSE Idle(q, r, p)
    BY <1>1, <1>5 DEF Placed
  <2>2. ~Acts(q, r, p) /\ (Ponders(q, r, p) <=> host.inCheck[g])
    BY <1>2, <2>1, FormsTell
  <2>3. ~OnMove(host)
    BY <1>5 DEF OnMove
  <2>. QED
    BY <1>2, <2>2, <2>3
<1>6. CASE Passing(host)
  <2>1. Idle(q, r, p)
    BY <1>1, <1>6 DEF Placed
  <2>2. ~Acts(q, r, p) /\ ~Ponders(q, r, p)
    BY <1>2, <2>1, FormsTell
  <2>3. ~host.inCheck[g] /\ ~OnMove(host)
    BY <1>1, <1>2, <1>6 DEF PhasesApart, Checks, OnMove, Passing
  <2>. QED
    BY <1>2, <2>2, <2>3
<1>7. CASE OnMove(host) /\ g # host.turn
  <2>1. \/ Idle(q, r, p)
        \/ None(r) /\ p.mode = "wait" /\ ~p.asked /\ Two(q, "NEW_ROUND", "NEW_ROUND")
    BY <1>1, <1>7 DEF Placed
  <2>2. ~Acts(q, r, p) /\ ~Ponders(q, r, p)
    BY <1>2, <2>1, FormsTell
  <2>3. ~host.inCheck[g]
    BY <1>1, <1>2, <1>7 DEF Checks, OnMove, Open
  <2>. QED
    BY <1>2, <1>7, <2>2, <2>3
<1>8. CASE OnMove(host) /\ g = host.turn
  <2>1. CASE host.sendReq
    <3>1. Served(q, r, p)
      BY <1>1, <1>8, <2>1 DEF Placed
    <3>2. ~Acts(q, r, p) /\ ~Ponders(q, r, p)
      BY <1>2, <3>1, FormsTell
    <3>3. ~host.inCheck[g]
      BY <1>1, <1>2, <2>1 DEF PhasesApart, Checks
    <3>. QED
      BY <1>2, <2>1, <3>2, <3>3
  <2>2. CASE host.checkOn /\ host.inCheck[g]
    <3>1. Deciding(host, q, r, p)
      BY <1>1, <1>8, <2>2 DEF Placed
    <3>2. Ponders(q, r, p)
      BY <1>2, <3>1, FormsTell
    <3>3. ~host.sendReq
      BY <1>1, <2>2 DEF PhasesApart
    <3>. QED
      BY <1>2, <1>8, <2>2, <3>2, <3>3
  <2>3. CASE host.checkOn /\ ~host.inCheck[g]
    <3>1. Decided(host.checkFor[g], q, r, p)
      BY <1>1, <1>8, <2>3 DEF Placed
    <3>2. ~Ponders(q, r, p)
      BY <1>2, <3>1, FormsTell
    <3>3. ~host.sendReq
      BY <1>1, <2>3 DEF PhasesApart
    <3>. QED
      BY <1>2, <1>8, <2>3, <3>2, <3>3
  <2>4. CASE ~host.checkOn /\ ~host.sendReq
    <3>1. Mover(q, r, p)
      BY <1>1, <1>8, <2>4 DEF Placed
    <3>2. Acts(q, r, p) /\ ~Ponders(q, r, p)
      BY <1>2, <3>1, FormsTell
    <3>3. ~host.inCheck[g]
      BY <1>1, <1>2, <2>4 DEF Checks
    <3>. QED
      BY <1>2, <1>8, <2>4, <3>2, <3>3
  <2>. QED
    BY <2>1, <2>2, <2>3, <2>4
<1>. QED
  BY <1>4, <1>5, <1>6, <1>7, <1>8 DEF OnMove

LEMMA SeatTells ==
  ASSUME IInv, NEW s \in Seated
  PROVE  /\ host.inCheck[s] <=> Questioned(s)
         /\ Moving(s) => OnMove(host) /\ s = host.turn /\ ~host.sendReq
         /\ OnMove(host) /\ s = host.turn /\ ~host.checkOn /\ ~host.sendReq
              /\ loop.at # "start" => Moving(s)
<1>1. CASE s = Host
  <2>1. HostPlaced(host, loop.at, seat[Host]) /\ PhasesApart(host)
    BY DEF IInv
  <2>2. seat[Host].asked <=> host.inCheck[Host]
    BY <2>1 DEF HostPlaced
  <2>3. seat[Host].mode \in {"get", "throw"} => OnMove(host) /\ host.turn = Host
    BY <2>1 DEF HostPlaced
  <2>4. OnMove(host) /\ host.turn = Host /\ loop.at # "start"
          => seat[Host].mode \in {"get", "throw"}
    BY <2>1 DEF HostPlaced
  <2>5. host.turn = Host => ~host.sendReq
    BY <2>1 DEF PhasesApart
  <2>. QED
    BY <1>1, <2>2, <2>3, <2>4, <2>5, HostTells
<1>2. CASE s # Host
  <2>1. s \in Guests
    BY <1>2 DEF Guests
  <2>. QED
    BY <2>1, PlacedTells
<1>. QED
  BY <1>1, <1>2

\* The invariants of the runs follow.
LEMMA InvTells ==
  ASSUME IInv
  PROVE  HandsSound /\ AskedIffAwaited /\ OneMover /\ OneTurn /\ TurnNotLost /\ ClaimsInTime
<1>1. TypeOK /\ HandsFit /\ PhasesApart(host) /\ Checks(host)
  BY DEF IInv
<1>2. HandsSound
  BY <1>1 DEF HandsSound
<1>3. AskedIffAwaited
  BY SeatTells DEF AskedIffAwaited
<1>4. OneTurn
  BY SeatTells DEF OneTurn
<1>5. OneMover
  <2>1. SUFFICES ASSUME NEW s \in Seated, Moving(s), ~host.drawn
                 PROVE  s = host.turn /\ ~Claimable /\ ~host.nextReq /\ ~host.waiting /\ ~host.sendReq
    BY DEF OneMover
  <2>2. OnMove(host) /\ s = host.turn /\ ~host.sendReq
    BY <2>1, SeatTells
  <2>. QED
    BY <2>1, <2>2 DEF OnMove, Open, Passing, Claimable
<1>6. TurnNotLost
  <2>1. SUFFICES ASSUME loop.at # "start", ~host.waiting, ~host.checkOn, ~host.nextReq, ~host.sendReq
                 PROVE  \E s \in Seated : Moving(s)
    BY DEF TurnNotLost
  <2>2. host.turn \in Seated
    BY <1>1 DEF TypeOK, Hosts
  <2>3. OnMove(host)
    BY <2>1 DEF OnMove, Open, Passing
  <2>4. Moving(host.turn)
    BY <2>1, <2>2, <2>3, SeatTells
  <2>. QED
    BY <2>2, <2>4
<1>7. ClaimsInTime
  <2>1. SUFFICES ASSUME ~host.checkOn
                 PROVE  /\ host.checkFor = NoClaims
                        /\ \A g \in Guests : ~Going(g, {"CHECK_RESULT"})
    BY DEF ClaimsInTime
  <2>2. \A s \in Seated : host.checkFor[s] = "pass" /\ ~host.inCheck[s]
    BY <1>1, <2>1 DEF Checks
  <2>3. host.checkFor \in [Seated -> Calls \cup {"pass"}]
    BY <1>1 DEF TypeOK, Hosts
  <2>4. host.checkFor = NoClaims
    BY <2>2, <2>3 DEF NoClaims
  <2>5. ASSUME NEW g \in Guests PROVE ~Going(g, {"CHECK_RESULT"})
    BY <1>1, <2>2, GuestsTell, PlacedTells
  <2>. QED
    BY <2>4, <2>5
<1>. QED
  BY <1>2, <1>3, <1>4, <1>5, <1>6, <1>7

-----------------------------------------------------------------------------
(* Theorems.                                                                *)

(* Where every player is, by the host's flags and by what is under way to    *)
(* and from it, is kept by every step of the host's loop, of the guests'     *)
(* handlers and of the keys.                                                 *)
THEOREM Invariance ==
  ASSUME Plain
  PROVE  Spec => []IInv
<1>1. Init => IInv
  BY InitInv
<1>2. IInv /\ [Next]_vars => IInv'
  BY StepInv
<1>. QED
  BY <1>1, <1>2, PTL DEF Spec

(* The processes and the connections are well-formed, and no hand is a tile  *)
(* long or short when its player is to draw or to discard.                   *)
THEOREM HandsSoundHolds ==
  ASSUME Plain
  PROVE  Spec => []HandsSound
<1>1. IInv => HandsSound
  BY InvTells
<1>. QED
  BY <1>1, Invariance, PTL

(* The host waits for an answer in in_check[] of exactly the players that    *)
(* have a question or whose answer is under way.                             *)
THEOREM AskedIffAwaitedHolds ==
  ASSUME Plain
  PROVE  Spec => []AskedIffAwaited
<1>1. IInv => AskedIffAwaited
  BY InvTells
<1>. QED
  BY <1>1, Invariance, PTL

(* Nobody but the player whose turn it is moves, and nobody while a discard  *)
(* can be claimed, the turn is passing or a win is on the screens.           *)
THEOREM OneMoverHolds ==
  ASSUME Plain
  PROVE  Spec => []OneMover
<1>1. IInv => OneMover
  BY InvTells
<1>. QED
  BY <1>1, Invariance, PTL

(* No two players have the move at once.                                     *)
THEOREM OneTurnHolds ==
  ASSUME Plain
  PROVE  Spec => []OneTurn
<1>1. IInv => OneTurn
  BY InvTells
<1>. QED
  BY <1>1, Invariance, PTL

(* The request and permission flags of the host's loop are never lost        *)
(* between two messages: the round always has a next step.                   *)
THEOREM TurnNotLostHolds ==
  ASSUME Plain
  PROVE  Spec => []TurnNotLost
<1>1. IInv => TurnNotLost
  BY InvTells
<1>. QED
  BY <1>1, Invariance, PTL

(* Outside a check check_for[] is empty and no answer is under way, so that  *)
(* no claim outlives the tile it was made for.                               *)
THEOREM ClaimsInTimeHolds ==
  ASSUME Plain
  PROVE  Spec => []ClaimsInTime
<1>1. IInv => ClaimsInTime
  BY InvTells
<1>. QED
  BY <1>1, Invariance, PTL

-----------------------------------------------------------------------------
(* Tiles in queues and hands.                                               *)

\* One for the i-th message of a queue if it brings a tile, and their sum, for the
\* queues there can be.
TileBearing  == {"GET_CARD", "CHANGE_CARD"}
Brings(q, i) == IF i <= Len(q) /\ q[i].type \in TileBearing THEN 1 ELSE 0
Load(q)      == Brings(q, 1) + Brings(q, 2) + Brings(q, 3) + Brings(q, 4)

\* One for the 17th tile of a hand, unless a new round is under way to it.
Kept(q, p) == IF p.extra /\ ~Holds(q, {"NEW_ROUND"}) THEN 1 ELSE 0

\* TilesAt(n) and TilesHeld, by queues tg and hands st.
Weight(tg, st, n) ==
  IF n \notin Seated THEN 0
  ELSE IF n = Host THEN IF st[n].extra THEN 1 ELSE 0
  ELSE Kept(tg[n], st[n]) + Load(tg[n])

AllWeights(tg, st) == Weight(tg, st, 1) + Weight(tg, st, 2) + Weight(tg, st, 3) + Weight(tg, st, 4)

LEMMA BringsOne ==
  ASSUME NEW q, NEW i
  PROVE  Brings(q, i) \in {0, 1}
  BY DEF Brings

LEMMA LoadInt ==
  ASSUME NEW q
  PROVE  Load(q) \in Int
  BY BringsOne DEF Load

\* The tiles in a queue that is no longer than four messages are its load.
LEMMA Counted ==
  ASSUME NEW q \in Seq(GuestMessages), Len(q) <= 4
  PROVE  Cardinality({i \in DOMAIN q : q[i].type \in TileBearing}) = Load(q)
<1>. DEFINE Upto(k) == {i \in DOMAIN q : i <= k /\ q[i].type \in TileBearing}
<1>1. DOMAIN q = 1 .. Len(q) /\ Len(q) \in Nat
  OBVIOUS
<1>2. IsFiniteSet(Upto(0)) /\ Cardinality(Upto(0)) = 0
  <2>1. Upto(0) = {}
    BY <1>1
  <2>. QED
    BY <2>1, FS_EmptySet
<1>3. ASSUME NEW k \in 0 .. 3, IsFiniteSet(Upto(k))
      PROVE  IsFiniteSet(Upto(k + 1)) /\ Cardinality(Upto(k + 1)) = Cardinality(Upto(k)) + Brings(q, k + 1)
  <2>1. CASE k + 1 <= Len(q) /\ q[k + 1].type \in TileBearing
    <3>1. Upto(k + 1) = Upto(k) \cup {k + 1} /\ k + 1 \notin Upto(k)
      BY <1>1, <2>1
    <3>2. Brings(q, k + 1) = 1
      BY <2>1 DEF Brings
    <3>. HIDE DEF Upto
    <3>. QED
      BY <1>3, <3>1, <3>2, FS_AddElement
  <2>2. CASE ~(k + 1 <= Len(q) /\ q[k + 1].type \in TileBearing)
    <3>1. Upto(k + 1) = Upto(k)
      BY <1>1, <2>2
    <3>2. Brings(q, k + 1) = 0
      BY <2>2 DEF Brings
    <3>3. Cardinality(Upto(k)) \in Nat
      BY <1>3, FS_CardinalityType
    <3>. HIDE DEF Upto
    <3>. QED
      BY <1>3, <3>1, <3>2, <3>3
  <2>. QED
    BY <2>1, <2>2
<1>4. {i \in DOMAIN q : q[i].type \in TileBearing} = Upto(4)
  BY <1>1
<1>. HIDE DEF Upto
<1>5. IsFiniteSet(Upto(1)) /\ Cardinality(Upto(1)) = Brings(q, 1)
  <2>1. IsFiniteSet(Upto(0 + 1)) /\ Cardinality(Upto(0 + 1)) = Cardinality(Upto(0)) + Brings(q, 0 + 1)
    BY <1>2, <1>3
  <2>. QED
    BY <1>2, <2>1, BringsOne
<1>6. IsFiniteSet(Upto(2)) /\ Cardinality(Upto(2)) = Brings(q, 1) + Brings(q, 2)
  <2>1. IsFiniteSet(Upto(1 + 1)) /\ Cardinality(Upto(1 + 1)) = Cardinality(Upto(1)) + Brings(q, 1 + 1)
    BY <1>3, <1>5
  <2>. QED
    BY <1>5, <2>1, BringsOne
<1>7. IsFiniteSet(Upto(3)) /\ Cardinality(Upto(3)) = Brings(q, 1) + Brings(q, 2) + Brings(q, 3)
  <2>1. IsFiniteSet(Upto(2 + 1)) /\ Cardinality(Upto(2 + 1)) = Cardinality(Upto(2)) + Brings(q, 2 + 1)
    BY <1>3, <1>6
  <2>. QED
    BY <1>6, <2>1, BringsOne
<1>8. Cardinality(Upto(4)) = Brings(q, 1) + Brings(q, 2) + Brings(q, 3) + Brings(q, 4)
  <2>1. IsFiniteSet(Upto(3 + 1)) /\ Cardinality(Upto(3 + 1)) = Cardinality(Upto(3)) + Brings(q, 3 + 1)
    BY <1>3, <1>7
  <2>. QED
    BY <1>7, <2>1, BringsOne
<1>. QED
  BY <1>4, <1>8 DEF Load

\* What is left when the first message is taken.
LEMMA TailLoad ==
  ASSUME NEW q \in Seq(GuestMessages), q # <<>>, Len(q) <= 4
  PROVE  /\ Load(Tail(q)) = Load(q) - Brings(q, 1)
         /\ q[1].type # "NEW_ROUND" => (Holds(Tail(q), {"NEW_ROUND"}) <=> Holds(q, {"NEW_ROUND"}))
<1>. DEFINE w == Tail(q)
<1>1. /\ Len(q) \in Nat \ {0} /\ Len(w) = Len(q) - 1
      /\ \A i \in 1 .. Len(w) : w[i] = q[i + 1]
      /\ DOMAIN w = 1 .. Len(w) /\ DOMAIN q = 1 .. Len(q)
  OBVIOUS
<1>. HIDE DEF w
<1>2. /\ Brings(w, 1) = Brings(q, 2) /\ Brings(w, 2) = Brings(q, 3)
      /\ Brings(w, 3) = Brings(q, 4) /\ Brings(w, 4) = 0
  BY <1>1 DEF Brings
<1>3. Load(w) = Load(q) - Brings(q, 1)
  BY <1>2, BringsOne DEF Load
<1>4. ASSUME q[1].type # "NEW_ROUND"
      PROVE  Holds(w, {"NEW_ROUND"}) <=> Holds(q, {"NEW_ROUND"})
  <2>1. ASSUME Holds(w, {"NEW_ROUND"}) PROVE Holds(q, {"NEW_ROUND"})
    <3>1. PICK i \in DOMAIN w : w[i].type = "NEW_ROUND"
      BY <2>1 DEF Holds
    <3>2. i + 1 \in DOMAIN q /\ q[i + 1].type = "NEW_ROUND"
      BY <1>1, <3>1
    <3>. QED
      BY <3>2 DEF Holds
  <2>2. ASSUME Holds(q, {"NEW_ROUND"}) PROVE Holds(w, {"NEW_ROUND"})
    <3>1. PICK i \in DOMAIN q : q[i].type = "NEW_ROUND"
      BY <2>2 DEF Holds
    <3>2. i # 1 /\ i - 1 \in DOMAIN w /\ w[i - 1] = q[(i - 1) + 1] /\ (i - 1) + 1 = i
      BY <1>1, <1>4, <3>1
    <3>. QED
      BY <3>1, <3>2 DEF Holds
  <2>. QED
    BY <2>1, <2>2
<1>. QED
  BY <1>3, <1>4 DEF w

\* What is there when messages are added.
LEMMA JoinLoad ==
  ASSUME NEW q \in Seq(GuestMessages), NEW e \in Seq(GuestMessages), Len(q) + Len(e) <= 4,
         NEW w, w = q \o e
  PROVE  /\ Load(w) = Load(q) + Load(e)
         /\ \A T : Holds(w, T) <=> Holds(q, T) \/ Holds(e, T)
<1>1. /\ Len(q) \in Nat /\ Len(e) \in Nat /\ Len(w) = Len(q) + Len(e)
      /\ \A i \in 1 .. Len(q) : w[i] = q[i]
      /\ \A i \in 1 .. Len(e) : w[Len(q) + i] = e[i]
      /\ DOMAIN w = 1 .. Len(w) /\ DOMAIN q = 1 .. Len(q) /\ DOMAIN e = 1 .. Len(e)
  OBVIOUS
<1>2. Load(w) = Load(q) + Load(e)
  <2>1. \A i \in 1 .. 4 : i <= Len(q) => Brings(w, i) = Brings(q, i)
    BY <1>1 DEF Brings
  <2>2. \A i \in 1 .. 4 : i > Len(q) => Brings(q, i) = 0
    BY <1>1 DEF Brings
  <2>3. \A i \in 1 .. 4 : i > Len(e) => Brings(e, i) = 0
    BY <1>1 DEF Brings
  <2>4. \A i \in 1 .. 4 : i > Len(w) => Brings(w, i) = 0
    BY <1>1 DEF Brings
  <2>5. \A i \in 1 .. Len(e) : Brings(w, Len(q) + i) = Brings(e, i)
    BY <1>1 DEF Brings
  <2>6. \A i \in 1 .. 4 : /\ Brings(q, i) \in {0, 1} /\ Brings(e, i) \in {0, 1} /\ Brings(w, i) \in {0, 1}
    BY BringsOne
  <2>7. CASE Len(q) = 0
    <3>1. \A i \in 1 .. Len(e) : Brings(w, i) = Brings(e, i)
      BY <1>1, <2>5, <2>7
    <3>2. \A i \in 1 .. 4 : Brings(w, i) = Brings(e, i)
      BY <1>1, <2>3, <2>4, <2>7, <3>1
    <3>. QED
      BY <2>2, <2>6, <2>7, <3>2 DEF Load
  <2>8. CASE Len(q) = 1
    <3>1. \A i \in 1 .. 3 : Brings(w, 1 + i) = Brings(e, i)
      BY <1>1, <2>3, <2>4, <2>5, <2>8
    <3>2. /\ Brings(w, 2) = Brings(e, 1) /\ Brings(w, 3) = Brings(e, 2) /\ Brings(w, 4) = Brings(e, 3)
          /\ Brings(e, 4) = 0 /\ Brings(w, 1) = Brings(q, 1)
      BY <1>1, <2>1, <2>3, <2>8, <3>1
    <3>. QED
      BY <2>2, <2>6, <2>8, <3>2 DEF Load
  <2>9. CASE Len(q) = 2
    <3>1. \A i \in 1 .. 2 : Brings(w, 2 + i) = Brings(e, i)
      BY <1>1, <2>3, <2>4, <2>5, <2>9
    <3>2. /\ Brings(w, 3) = Brings(e, 1) /\ Brings(w, 4) = Brings(e, 2)
          /\ Brings(e, 4) = 0 /\ Brings(e, 3) = 0
          /\ Brings(w, 1) = Brings(q, 1) /\ Brings(w, 2) = Brings(q, 2)
      BY <1>1, <2>1, <2>3, <2>9, <3>1
    <3>. QED
      BY <2>2, <2>6, <2>9, <3>2 DEF Load
  <2>10. CASE Len(q) = 3
    <3>1. /\ Brings(w, 3 + 1) = Brings(e, 1)
          /\ Brings(e, 4) = 0 /\ Brings(e, 3) = 0 /\ Brings(e, 2) = 0
          /\ Brings(w, 1) = Brings(q, 1) /\ Brings(w, 2) = Brings(q, 2) /\ Brings(w, 3) = Brings(q, 3)
      <4>1. Brings(w, 3 + 1) = Brings(e, 1)
        BY <1>1, <2>3, <2>4, <2>5, <2>10
      <4>. QED
        BY <1>1, <2>1, <2>3, <2>10, <4>1
    <3>. QED
      BY <2>2, <2>6, <2>10, <3>1 DEF Load
  <2>11. CASE Len(q) = 4
    <3>1. Len(e) = 0 /\ \A i \in 1 .. 4 : Brings(w, i) = Brings(q, i) /\ Brings(e, i) = 0
      BY <1>1, <2>1, <2>3, <2>11
    <3>. QED
      BY <2>6, <3>1 DEF Load
  <2>12. \A a, b \in Nat : a + b <= 4 => a = 0 \/ a = 1 \/ a = 2 \/ a = 3 \/ a = 4
    OBVIOUS
  <2>13. Len(q) \in Nat /\ Len(e) \in Nat /\ Len(q) + Len(e) <= 4
    BY <1>1
  <2>. QED
    BY <2>7, <2>8, <2>9, <2>10, <2>11, <2>12, <2>13
<1>3. ASSUME NEW T PROVE Holds(w, T) <=> Holds(q, T) \/ Holds(e, T)
  <2>1. ASSUME Holds(w, T) PROVE Holds(q, T) \/ Holds(e, T)
    <3>1. PICK i \in DOMAIN w : w[i].type \in T
      BY <2>1 DEF Holds
    <3>2. CASE i <= Len(q)
      BY <1>1, <3>1, <3>2 DEF Holds
    <3>3. CASE i > Len(q)
      <4>1. i - Len(q) \in 1 .. Len(e) /\ Len(q) + (i - Len(q)) = i
        BY <1>1, <3>1, <3>3
      <4>2. e[i - Len(q)] = w[i]
        BY <1>1, <4>1
      <4>. QED
        BY <1>1, <3>1, <4>1, <4>2 DEF Holds
    <3>. QED
      BY <1>1, <3>1, <3>2, <3>3
  <2>2. ASSUME Holds(q, T) PROVE Holds(w, T)
    <3>1. PICK i \in DOMAIN q : q[i].type \in T
      BY <2>2 DEF Holds
    <3>2. i \in DOMAIN w /\ w[i] = q[i]
      BY <1>1, <3>1
    <3>. QED
      BY <3>1, <3>2 DEF Holds
  <2>3. ASSUME Holds(e, T) PROVE Holds(w, T)
    <3>1. PICK i \in DOMAIN e : e[i].type \in T
      BY <2>3 DEF Holds
    <3>2. Len(q) + i \in DOMAIN w /\ w[Len(q) + i] = e[i]
      BY <1>1, <3>1
    <3>. QED
      BY <3>1, <3>2 DEF Holds
  <2>. QED
    BY <2>1, <2>2, <2>3
<1>. QED
  BY <1>2, <1>3

LEMMA NewIn ==
  ASSUME NEW q \in Seq(GuestMessages)
  PROVE  /\ None(q) => ~Holds(q, {"NEW_ROUND"})
         /\ \A a : One(q, a) => (Holds(q, {"NEW_ROUND"}) <=> a = "NEW_ROUND")
         /\ \A a, b : Two(q, a, b) => (Holds(q, {"NEW_ROUND"}) <=> "NEW_ROUND" \in {a, b})
         /\ \A a, b, c : Three(q, a, b, c) => (Holds(q, {"NEW_ROUND"}) <=> "NEW_ROUND" \in {a, b, c})
         /\ \A a, b, c, d : Four(q, a, b, c, d) =>
              (Holds(q, {"NEW_ROUND"}) <=> "NEW_ROUND" \in {a, b, c, d})
<1>1. \A a : Said(a) \in {"NEW_ROUND"} <=> a = "NEW_ROUND"
  BY DEF Said
<1>2. GuestMessages \subseteq GuestMessages \cup HostMessages
  OBVIOUS
<1>3. /\ None(q) => ~Holds(q, {"NEW_ROUND"})
      /\ \A a : One(q, a) => (Holds(q, {"NEW_ROUND"}) <=> Said(a) \in {"NEW_ROUND"})
      /\ \A a, b : Two(q, a, b) =>
           (Holds(q, {"NEW_ROUND"}) <=> (Said(a) \in {"NEW_ROUND"} \/ Said(b) \in {"NEW_ROUND"}))
      /\ \A a, b, c : Three(q, a, b, c) =>
           (Holds(q, {"NEW_ROUND"}) <=> (Said(a) \in {"NEW_ROUND"} \/ Said(b) \in {"NEW_ROUND"} \/ Said(c) \in {"NEW_ROUND"}))
      /\ \A a, b, c, d : Four(q, a, b, c, d) =>
           (Holds(q, {"NEW_ROUND"}) <=> (Said(a) \in {"NEW_ROUND"} \/ Said(b) \in {"NEW_ROUND"} \/ Said(c) \in {"NEW_ROUND"}
                                           \/ Said(d) \in {"NEW_ROUND"}))
  BY <1>2, Held
<1>4. \A a : One(q, a) => (Holds(q, {"NEW_ROUND"}) <=> a = "NEW_ROUND")
  BY <1>1, <1>3
<1>5. \A a, b : Two(q, a, b) => (Holds(q, {"NEW_ROUND"}) <=> "NEW_ROUND" \in {a, b})
  BY <1>1, <1>3
<1>6. \A a, b, c : Three(q, a, b, c) => (Holds(q, {"NEW_ROUND"}) <=> "NEW_ROUND" \in {a, b, c})
  BY <1>1, <1>3
<1>7. \A a, b, c, d : Four(q, a, b, c, d) => (Holds(q, {"NEW_ROUND"}) <=> "NEW_ROUND" \in {a, b, c, d})
  BY <1>1, <1>3
<1>. QED
  BY <1>3, <1>4, <1>5, <1>6, <1>7

\* Where dealers are dealt no flowers, a hand has its 17th tile when the message that
\* takes one comes, and has none when the one that brings one comes.
Fits(q, p) ==
  /\ Len(q) <= 4
  /\ p.mode = "throw" => ~Holds(q, {"NEW_ROUND"})
  /\ q # <<>> =>
       /\ Word(q[1]) # "CHANGE_CARD"
       /\ Word(q[1]) \in {"tile", "flower", "claim"} => ~p.extra /\ ~Holds(q, {"NEW_ROUND"})
       /\ Word(q[1]) = "own" => p.extra /\ ~Holds(q, {"NEW_ROUND"})

LEMMA PlacedFits ==
  ASSUME NEW h, NEW g, NEW q \in Seq(GuestMessages), NEW r \in Seq(HostMessages), NEW p,
         Placed(h, g, q, r, p), ~DealtFlower
  PROVE  Fits(q, p)
<1>1. /\ None(q) => q = <<>> /\ Len(q) <= 4 /\ ~Holds(q, {"NEW_ROUND"})
      /\ \A a : One(q, a) => /\ Word(q[1]) = a /\ Len(q) <= 4
                             /\ Holds(q, {"NEW_ROUND"}) <=> a = "NEW_ROUND"
      /\ \A a, b : Two(q, a, b) => /\ Word(q[1]) = a /\ Len(q) <= 4
                                   /\ Holds(q, {"NEW_ROUND"}) <=> "NEW_ROUND" \in {a, b}
      /\ \A a, b, c : Three(q, a, b, c) => /\ Word(q[1]) = a /\ Len(q) <= 4
                                           /\ Holds(q, {"NEW_ROUND"}) <=> "NEW_ROUND" \in {a, b, c}
  <2>1. None(q) => q = <<>> /\ Len(q) <= 4
    BY DEF None
  <2>2. \A a : One(q, a) => Word(q[1]) = a /\ Len(q) <= 4
    BY DEF One
  <2>3. \A a, b : Two(q, a, b) => Word(q[1]) = a /\ Len(q) <= 4
    BY DEF Two
  <2>4. \A a, b, c : Three(q, a, b, c) => Word(q[1]) = a /\ Len(q) <= 4
    BY DEF Three
  <2>. QED
    BY <2>1, <2>2, <2>3, <2>4, NewIn
<1>2. Idle(q, r, p) => Fits(q, p)
  BY <1>1 DEF Idle, Fits
<1>3. Asked(h, q, r, p) => Fits(q, p)
  BY <1>1 DEF Asked, Fits
<1>4. Served(q, r, p) => Fits(q, p)
  BY <1>1 DEF Served, Fits
<1>5. Mover(q, r, p) => Fits(q, p)
  BY <1>1 DEF Mover, Fits, Bare
<1>6. Deciding(h, q, r, p) => Fits(q, p)
  BY <1>1 DEF Deciding, Fits, Bare
<1>7. ASSUME NEW c, Decided(c, q, r, p) PROVE Fits(q, p)
  BY <1>1, <1>7 DEF Decided, Fits, Bare
<1>8. ASSUME NEW c, Told(c, q, r, p) PROVE Fits(q, p)
  BY <1>1, <1>8 DEF Told, Fits, Bare
<1>9. p.mode = "wait" /\ Two(q, "NEW_ROUND", "NEW_ROUND") => Fits(q, p)
  BY <1>1 DEF Fits
<1>. QED
  BY <1>2, <1>3, <1>4, <1>5, <1>6, <1>7, <1>8, <1>9 DEF Placed, OnMove

\* The sum of TilesConserved is the sum of the weights.
LEMMA Weighs ==
  ASSUME RoundAssumption, IInv, ~DealtFlower
  PROVE  TilesHeld = AllWeights(toGuest, seat)
<1>1. ASSUME NEW n \in 1 .. 4 PROVE TilesAt(n) = Weight(toGuest, seat, n)
  <2>1. CASE n \notin Seated
    BY <2>1 DEF TilesAt, Weight
  <2>2. CASE n = Host
    BY <2>2 DEF TilesAt, Weight, TilesOf, Coming, Guests
  <2>3. CASE n \in Seated /\ n # Host
    <3>1. n \in Guests
      BY <2>3 DEF Guests
    <3>2. toGuest[n] \in Seq(GuestMessages) /\ Fits(toGuest[n], seat[n])
      BY <3>1, GuestFacts, PlacedFits
    <3>3. Cardinality({i \in DOMAIN toGuest[n] : toGuest[n][i].type \in TileBearing}) = Load(toGuest[n])
      BY <3>2, Counted DEF Fits
    <3>4. Coming(n, {"NEW_ROUND"}) <=> Holds(toGuest[n], {"NEW_ROUND"})
      BY <3>1 DEF Coming, Holds
    <3>. QED
      BY <2>3, <3>3, <3>4 DEF TilesAt, TilesOf, Weight, Kept, TileBearing
  <2>. QED
    BY <2>1, <2>2, <2>3
<1>. QED
  BY <1>1 DEF TilesHeld, AllWeights

\* The sum changes as the seats do: not at all, or as one of them.
LEMMA SameWeights ==
  ASSUME NEW tg, NEW st, NEW tg2, NEW st2,
         \A u \in Seated : Weight(tg2, st2, u) = Weight(tg, st, u)
  PROVE  AllWeights(tg2, st2) = AllWeights(tg, st)
<1>1. ASSUME NEW n PROVE Weight(tg2, st2, n) = Weight(tg, st, n)
  <2>1. n \notin Seated => Weight(tg2, st2, n) = Weight(tg, st, n)
    BY DEF Weight
  <2>. QED
    BY <2>1
<1>. QED
  BY <1>1 DEF AllWeights

LEMMA WeightInt ==
  ASSUME NEW tg, NEW st, NEW n
  PROVE  Weight(tg, st, n) \in Int
  BY LoadInt DEF Weight, Kept

OnlyAt(s, tg, st, tg2, st2, d) ==
  /\ \A u \in Seated : u # s => Weight(tg2, st2, u) = Weight(tg, st, u)
  /\ Weight(tg2, st2, s) = Weight(tg, st, s) + d

LEMMA OneWeight ==
  ASSUME RoundAssumption, NEW tg, NEW st, NEW tg2, NEW st2, NEW s \in Seated, NEW d \in Int,
         OnlyAt(s, tg, st, tg2, st2, d)
  PROVE  AllWeights(tg2, st2) = AllWeights(tg, st) + d
<1>. USE DEF OnlyAt
<1>1. ASSUME NEW n, n # s PROVE Weight(tg2, st2, n) = Weight(tg, st, n)
  <2>1. n \notin Seated => Weight(tg2, st2, n) = Weight(tg, st, n)
    BY DEF Weight
  <2>. QED
    BY <1>1, <2>1
<1>2. \A n : Weight(tg, st, n) \in Int /\ Weight(tg2, st2, n) \in Int
  BY WeightInt
<1>3. s \in 1 .. 4
  BY DEF RoundAssumption
<1>4. CASE s = 1
  BY <1>1, <1>2, <1>4 DEF AllWeights
<1>5. CASE s = 2
  BY <1>1, <1>2, <1>5 DEF AllWeights
<1>6. CASE s = 3
  BY <1>1, <1>2, <1>6 DEF AllWeights
<1>7. CASE s = 4
  BY <1>1, <1>2, <1>7 DEF AllWeights
<1>. QED
  BY <1>3, <1>4, <1>5, <1>6, <1>7

\* What TilesConserved says is Wall + 1.
Total(h, pl, tg, st) == h.wall + pl + AllWeights(tg, st)
Balanced == Total(host', pile', toGuest', seat') = Total(host, pile, toGuest, seat)

LEMMA TotalChange ==
  ASSUME NEW h, NEW hh, h.wall \in Int, hh.wall \in Int, NEW pl \in Int, NEW pp \in Int,
         NEW tg, NEW st, NEW tg2, NEW st2, NEW d \in Int,
         AllWeights(tg2, st2) = AllWeights(tg, st) + d, hh.wall + pp + d = h.wall + pl
  PROVE  Total(hh, pp, tg2, st2) = Total(h, pl, tg, st)
<1>1. AllWeights(tg, st) \in Int
  BY WeightInt DEF AllWeights
<1>. QED
  BY <1>1 DEF Total

\* A step of guest g, after which d more tiles are on the way to it and in its hand.
GuestStep(g, q, p, d) ==
  /\ toGuest' = [toGuest EXCEPT ![g] = q] /\ seat' = [seat EXCEPT ![g] = p]
  /\ host'.wall = host.wall /\ pile' = pile - d
  /\ Kept(q, p) + Load(q) = Kept(toGuest[g], seat[g]) + Load(toGuest[g]) + d

LEMMA GuestWeighs ==
  ASSUME RoundAssumption, IInv, NEW g \in Guests, NEW q, NEW p, NEW d \in Int, GuestStep(g, q, p, d)
  PROVE  Balanced
<1>. USE DEF GuestStep
<1>1. /\ seat \in [Seated -> Hands] /\ toGuest \in [Guests -> Seq(GuestMessages)]
      /\ g \in Seated /\ g # Host /\ pile \in Int /\ host \in Hosts
  BY HostFacts DEF Guests
<1>2. host.wall \in Int
  BY <1>1 DEF Hosts
<1>3. Weight(toGuest', seat', g) = Weight(toGuest, seat, g) + d
  BY <1>1 DEF Weight
<1>4. ASSUME NEW u \in Seated, u # g PROVE Weight(toGuest', seat', u) = Weight(toGuest, seat, u)
  BY <1>1, <1>4 DEF Weight, Guests
<1>5. AllWeights(toGuest', seat') = AllWeights(toGuest, seat) + d
  <2>1. OnlyAt(g, toGuest, seat, toGuest', seat', d)
    BY <1>3, <1>4 DEF OnlyAt
  <2>. QED
    BY <1>1, <2>1, OneWeight
<1>6. pile' \in Int /\ host'.wall + pile' + d = host.wall + pile
  BY <1>1, <1>2
<1>. QED
  BY <1>1, <1>2, <1>5, <1>6, TotalChange DEF Balanced

\* What the invariant says of the message that guest g takes.
LEMMA Taken ==
  ASSUME RoundAssumption, IInv, ~DealtFlower, NEW g \in Guests, NEW type, Takes(g, type)
  PROVE  LET q == toGuest[g] p == seat[g] w == Tail(q) IN
         /\ toGuest' = [toGuest EXCEPT ![g] = w] /\ q[1] \in GuestMessages /\ q[1].type = type
         /\ Head(q) = q[1]
         /\ p \in Hands /\ pile \in Int /\ host \in Hosts
         /\ Load(w) = Load(q) - Brings(q, 1) /\ Load(q) \in Int
         /\ Brings(q, 1) = IF type \in TileBearing THEN 1 ELSE 0
         /\ type # "NEW_ROUND" => (Holds(w, {"NEW_ROUND"}) <=> Holds(q, {"NEW_ROUND"}))
         /\ Word(q[1]) # "CHANGE_CARD"
         /\ Word(q[1]) \in {"tile", "flower", "claim"} => ~p.extra /\ ~Holds(q, {"NEW_ROUND"})
         /\ Word(q[1]) = "own" => p.extra /\ ~Holds(q, {"NEW_ROUND"})
<1>. DEFINE q == toGuest[g] p == seat[g]
<1>1. /\ q # <<>> /\ q[1] \in GuestMessages /\ q[1].type = type
      /\ toGuest' = [toGuest EXCEPT ![g] = Tail(q)]
  BY Taking
<1>2. q \in Seq(GuestMessages) /\ p \in Hands /\ Placed(host, g, q, toHost[g], p)
      /\ toHost[g] \in Seq(HostMessages)
  BY GuestFacts
<1>3. pile \in Int /\ host \in Hosts
  BY HostFacts
<1>. HIDE DEF q, p
<1>4. Fits(q, p)
  BY <1>2, PlacedFits
<1>5. /\ Load(Tail(q)) = Load(q) - Brings(q, 1)
      /\ type # "NEW_ROUND" => (Holds(Tail(q), {"NEW_ROUND"}) <=> Holds(q, {"NEW_ROUND"}))
  BY <1>1, <1>2, <1>4, TailLoad DEF Fits
<1>6. Brings(q, 1) = IF type \in TileBearing THEN 1 ELSE 0
  <2>1. 1 <= Len(q)
    BY <1>1, <1>2
  <2>. QED
    BY <1>1, <2>1 DEF Brings
<1>7. Head(q) = q[1] /\ Load(q) \in Int
  BY <1>1, <1>2, LoadInt
<1>. QED
  BY <1>1, <1>2, <1>3, <1>4, <1>5, <1>6, <1>7 DEF Fits, q, p

\* A message that neither brings a tile nor takes one.
LEMMA PlainTaken ==
  ASSUME RoundAssumption, IInv, ~DealtFlower, NEW g \in Guests, NEW type, Takes(g, type),
         type \notin {"NEW_ROUND", "GET_CARD", "CHANGE_CARD"}, NEW p, p.extra = seat[g].extra,
         seat' = [seat EXCEPT ![g] = p], UNCHANGED <<host, pile>>
  PROVE  Balanced
<1>. DEFINE q == toGuest[g] w == Tail(q)
<1>1. /\ toGuest' = [toGuest EXCEPT ![g] = w] /\ pile \in Int /\ host \in Hosts
      /\ Load(w) = Load(q) - Brings(q, 1) /\ Load(q) \in Int
      /\ Brings(q, 1) = IF type \in TileBearing THEN 1 ELSE 0
      /\ type # "NEW_ROUND" => (Holds(w, {"NEW_ROUND"}) <=> Holds(q, {"NEW_ROUND"}))
  BY Taken
<1>. HIDE DEF w, q
<1>2. Load(w) = Load(q)
  BY <1>1 DEF TileBearing
<1>3. Kept(w, p) = Kept(q, seat[g])
  BY <1>1 DEF Kept
<1>4. Kept(q, seat[g]) \in Int
  BY DEF Kept
<1>5. GuestStep(g, w, p, 0)
  BY <1>1, <1>2, <1>3, <1>4 DEF GuestStep, q
<1>. QED
  BY <1>5, GuestWeighs

LEMMA PlainTakes ==
  ASSUME RoundAssumption, IInv, ~DealtFlower, NEW g \in Guests, TakeCanGet(g) \/ TakeCheck(g) \/ TakeMake(g)
  PROVE  Balanced
<1>1. seat[g] \in Hands
  BY GuestFacts
<1>2. CASE TakeCanGet(g)
  <2>1. [seat[g] EXCEPT !.mode = "get"].extra = seat[g].extra
    BY <1>1 DEF Hands
  <2>. QED
    BY <1>2, <2>1, PlainTaken DEF TakeCanGet, Knows
<1>3. CASE TakeCheck(g)
  <2>1. [seat[g] EXCEPT !.asked = TRUE, !.offer = Head(toGuest[g]).offer].extra = seat[g].extra
    BY <1>1 DEF Hands
  <2>. QED
    BY <1>3, <2>1, PlainTaken DEF TakeCheck, Knows
<1>4. CASE TakeMake(g)
  <2>1. [seat[g] EXCEPT !.mode = "wait"].extra = seat[g].extra
    BY <1>1 DEF Hands
  <2>. QED
    BY <1>4, <2>1, PlainTaken DEF TakeMake, Knows
<1>. QED
  BY <1>2, <1>3, <1>4

LEMMA TakeNewRoundBalanced ==
  ASSUME RoundAssumption, IInv, ~DealtFlower, NEW g \in Guests, TakeNewRound(g)
  PROVE  Balanced
<1>. DEFINE q == toGuest[g] w == Tail(q)
<1>1. /\ toGuest' = [toGuest EXCEPT ![g] = w] /\ pile \in Int /\ q[1].type = "NEW_ROUND"
      /\ Load(w) = Load(q) - Brings(q, 1) /\ Load(q) \in Int
      /\ Brings(q, 1) = IF "NEW_ROUND" \in TileBearing THEN 1 ELSE 0
  BY Taken DEF TakeNewRound
<1>2. q \in Seq(GuestMessages) /\ q # <<>>
  BY Taking, GuestFacts DEF TakeNewRound
<1>3. seat' = [seat EXCEPT ![g] = Empty] /\ UNCHANGED <<host, pile>>
  BY DEF TakeNewRound, Knows
<1>. HIDE DEF w, q
<1>4. Holds(q, {"NEW_ROUND"})
  BY <1>1, <1>2 DEF Holds
<1>5. Kept(q, seat[g]) = 0 /\ Kept(w, Empty) = 0
  BY <1>4 DEF Kept, Empty
<1>6. GuestStep(g, w, Empty, 0)
  BY <1>1, <1>3, <1>5 DEF TileBearing, GuestStep, q
<1>. QED
  BY <1>6, GuestWeighs

LEMMA TakeCardBalanced ==
  ASSUME RoundAssumption, IInv, ~DealtFlower, NEW g \in Guests, TakeCard(g)
  PROVE  Balanced
<1>. DEFINE q == toGuest[g] w == Tail(q) p == seat'[g]
<1>1. /\ toGuest' = [toGuest EXCEPT ![g] = w] /\ pile \in Int
      /\ q[1].type = "GET_CARD" /\ q[1] \in GuestMessages /\ Head(q) = q[1]
      /\ Load(w) = Load(q) - Brings(q, 1) /\ Load(q) \in Int
      /\ Brings(q, 1) = IF "GET_CARD" \in TileBearing THEN 1 ELSE 0
      /\ Holds(w, {"NEW_ROUND"}) <=> Holds(q, {"NEW_ROUND"})
      /\ Word(q[1]) \in {"tile", "flower", "claim"} => ~seat[g].extra /\ ~Holds(q, {"NEW_ROUND"})
  BY Taken DEF TakeCard
<1>2. seat \in [Seated -> Hands] /\ g \in Seated
  BY HostFacts, GuestFacts
<1>3. Word(q[1]) \in {"tile", "flower"}
  BY <1>1 DEF Word
<1>4. Kept(q, seat[g]) = 0
  BY <1>1, <1>3 DEF Kept
<1>5. CASE Head(q) = q[1] /\ q[1].card = Flower
  <2>1. /\ seat' = [seat EXCEPT ![g] = [seat[g] EXCEPT !.extra = FALSE]] /\ host' = host /\ pile' = pile + 1
    BY <1>5 DEF TakeCard, Knows
  <2>. DEFINE pp == [seat[g] EXCEPT !.extra = FALSE]
  <2>2. ~pp.extra
    BY <1>2 DEF Hands
  <2>. HIDE DEF w, q, p, pp
  <2>3. Kept(w, pp) = 0
    BY <2>2 DEF Kept
  <2>4. GuestStep(g, w, pp, -1) /\ -1 \in Int
    BY <1>1, <1>4, <2>1, <2>3 DEF TileBearing, GuestStep, q, pp
  <2>. QED
    BY <2>4, GuestWeighs
<1>6. CASE ~(Head(q) = q[1] /\ q[1].card = Flower)
  <2>1. /\ seat' = [seat EXCEPT ![g] = [seat[g] EXCEPT !.mode = "throw", !.extra = TRUE]]
        /\ host' = host /\ pile' = pile
    BY <1>1, <1>6 DEF TakeCard, Knows
  <2>. DEFINE pp == [seat[g] EXCEPT !.mode = "throw", !.extra = TRUE]
  <2>2. pp.extra
    BY <1>2 DEF Hands
  <2>. HIDE DEF w, q, p, pp
  <2>3. Kept(w, pp) = 1
    BY <1>1, <1>3, <2>2 DEF Kept
  <2>4. GuestStep(g, w, pp, 0)
    BY <1>1, <1>4, <2>1, <2>3 DEF TileBearing, GuestStep, q, pp
  <2>. QED
    BY <2>4, GuestWeighs
<1>. QED
  BY <1>5, <1>6

LEMMA TakeEpkBalanced ==
  ASSUME RoundAssumption, IInv, ~DealtFlower, NEW g \in Guests, TakeEpk(g)
  PROVE  Balanced
<1>. DEFINE q == toGuest[g] w == Tail(q) k == q[1].kind p == Melded(seat[g], k)
<1>1. /\ toGuest' = [toGuest EXCEPT ![g] = w] /\ pile \in Int
      /\ q[1].type = "EPK" /\ q[1] \in GuestMessages /\ Head(q) = q[1]
      /\ Load(w) = Load(q) - Brings(q, 1) /\ Load(q) \in Int
      /\ Brings(q, 1) = IF "EPK" \in TileBearing THEN 1 ELSE 0
      /\ Holds(w, {"NEW_ROUND"}) <=> Holds(q, {"NEW_ROUND"})
      /\ Word(q[1]) \in {"tile", "flower", "claim"} => ~seat[g].extra /\ ~Holds(q, {"NEW_ROUND"})
      /\ Word(q[1]) = "own" => seat[g].extra /\ ~Holds(q, {"NEW_ROUND"})
  BY Taken DEF TakeEpk
<1>2. seat[g] \in Hands
  BY GuestFacts
<1>3. k \in Kinds
  BY <1>1 DEF GuestMessages
<1>4. Word(q[1]) = IF k \in {"concealed", "added"} THEN "own" ELSE "claim"
  BY <1>1 DEF Word
<1>5. seat' = [seat EXCEPT ![g] = p] /\ host' = host /\ pile' = PileAfter(k)
  BY <1>1 DEF TakeEpk, Knows
<1>6. p.extra <=> k \in {"eat", "pong"}
  BY <1>2, <1>3 DEF Melded, Hands, Kinds
<1>. HIDE DEF q, w, k, p
<1>7. ~Holds(w, {"NEW_ROUND"}) /\ ~Holds(q, {"NEW_ROUND"}) /\ (seat[g].extra <=> k \in {"concealed", "added"})
  BY <1>1, <1>4
<1>8. Load(w) = Load(q)
  BY <1>1 DEF TileBearing
<1>. DEFINE d == IF k \in {"eat", "pong"} THEN 1 ELSE IF k = "kang" THEN 0 ELSE -1
<1>9. d \in Int /\ pile' = pile - d
  BY <1>1, <1>3, <1>5 DEF PileAfter, Kinds
<1>10. Kept(w, p) = Kept(q, seat[g]) + d /\ Kept(q, seat[g]) \in Int
  BY <1>3, <1>6, <1>7 DEF Kept, Kinds
<1>. HIDE DEF d
<1>11. GuestStep(g, w, p, d)
  BY <1>1, <1>5, <1>8, <1>9, <1>10 DEF GuestStep, q
<1>. QED
  BY <1>9, <1>11, GuestWeighs

LEMMA GuestKeysBalanced ==
  ASSUME RoundAssumption, IInv, ~DealtFlower, NEW g \in Guests, GuestKey(g)
  PROVE  Balanced
<1>. DEFINE q == toGuest[g]
<1>1. /\ toGuest = [toGuest EXCEPT ![g] = q] /\ seat[g] \in Hands /\ pile \in Int
      /\ q \in Seq(GuestMessages) /\ toHost[g] \in Seq(HostMessages)
      /\ Placed(host, g, q, toHost[g], seat[g])
      /\ seat[g].mode = "throw" => seat[g].extra
  BY GuestFacts
<1>2. Load(q) \in Int /\ Kept(q, seat[g]) \in Int
  BY LoadInt DEF Kept
<1>3. CASE GuestAnswer(g)
  <2>. DEFINE p == [seat[g] EXCEPT !.asked = FALSE, !.offer = {}]
  <2>1. UNCHANGED <<toGuest, pile, host>> /\ seat' = [seat EXCEPT ![g] = p]
    BY <1>3 DEF GuestAnswer, Knows
  <2>2. p.extra = seat[g].extra
    BY <1>1 DEF Hands
  <2>. HIDE DEF p, q
  <2>3. Kept(q, p) = Kept(q, seat[g])
    BY <2>2 DEF Kept
  <2>4. GuestStep(g, q, p, 0)
    BY <1>1, <1>2, <2>1, <2>3 DEF GuestStep, q
  <2>. QED
    BY <2>4, GuestWeighs
<1>4. CASE GuestDraw(g)
  <2>. DEFINE p == [seat[g] EXCEPT !.mode = "wait"]
  <2>1. UNCHANGED <<toGuest, pile, host>> /\ seat' = [seat EXCEPT ![g] = p]
    BY <1>4 DEF GuestDraw, Knows
  <2>2. p.extra = seat[g].extra
    BY <1>1 DEF Hands
  <2>. HIDE DEF p, q
  <2>3. Kept(q, p) = Kept(q, seat[g])
    BY <2>2 DEF Kept
  <2>4. GuestStep(g, q, p, 0)
    BY <1>1, <1>2, <2>1, <2>3 DEF GuestStep, q
  <2>. QED
    BY <2>4, GuestWeighs
<1>5. CASE GuestThrow(g)
  <2>. DEFINE p == [seat[g] EXCEPT !.mode = "wait", !.extra = FALSE]
  <2>1. /\ UNCHANGED <<toGuest, host>> /\ seat' = [seat EXCEPT ![g] = p] /\ pile' = pile + 1
        /\ seat[g].mode = "throw"
    BY <1>5 DEF GuestThrow, Knows
  <2>2. ~p.extra
    BY <1>1 DEF Hands
  <2>. HIDE DEF p, q
  <2>3. Fits(q, seat[g])
    BY <1>1, PlacedFits
  <2>4. Kept(q, p) = 0 /\ Kept(q, seat[g]) = 1
    BY <1>1, <2>1, <2>2, <2>3 DEF Kept, Fits
  <2>5. GuestStep(g, q, p, -1) /\ -1 \in Int
    BY <1>1, <1>2, <2>1, <2>4 DEF GuestStep, q
  <2>. QED
    BY <2>5, GuestWeighs
<1>. QED
  BY <1>3, <1>4, <1>5 DEF GuestKey

\* A step of the host, that sends what is neither a tile nor a new round.
Light(e) == e \in Seq(GuestMessages) /\ Load(e) = 0 /\ ~Holds(e, {"NEW_ROUND"})

SendsLight ==
  \A g \in Guests : toGuest'[g] = toGuest[g] \/ \E e : Light(e) /\ toGuest'[g] = toGuest[g] \o e

HostStays(d) ==
  /\ SendsLight /\ \A g \in Guests : seat'[g] = seat[g]
  /\ (IF seat'[Host].extra THEN 1 ELSE 0) = (IF seat[Host].extra THEN 1 ELSE 0) + d
  /\ host'.wall + pile' + d = host.wall + pile

LEMMA LightOne ==
  ASSUME NEW m \in GuestMessages, m.type \notin {"NEW_ROUND", "GET_CARD", "CHANGE_CARD"}
  PROVE  Light(<<m>>)
<1>. DEFINE e == <<m>>
<1>1. e \in Seq(GuestMessages) /\ Len(e) = 1 /\ e[1] = m /\ DOMAIN e = {1}
  OBVIOUS
<1>. HIDE DEF e
<1>2. Brings(e, 1) = 0 /\ Brings(e, 2) = 0 /\ Brings(e, 3) = 0 /\ Brings(e, 4) = 0
  BY <1>1 DEF Brings, TileBearing
<1>3. Load(e) = 0 /\ ~Holds(e, {"NEW_ROUND"})
  BY <1>1, <1>2 DEF Load, Holds
<1>. QED
  BY <1>1, <1>3 DEF Light, e

LEMMA ShortQueue ==
  ASSUME IInv, ~DealtFlower, NEW g \in Guests
  PROVE  Len(toGuest[g]) <= 4 /\ toGuest[g] \in Seq(GuestMessages)
  BY GuestFacts, PlacedFits DEF Fits

\* The same after the step.
LEMMA ShortQueueNext ==
  ASSUME IInv', ~DealtFlower, NEW g \in Guests
  PROVE  Len(toGuest'[g]) <= 4 /\ toGuest'[g] \in Seq(GuestMessages)
<1>1. /\ toGuest'[g] \in Seq(GuestMessages) /\ toHost'[g] \in Seq(HostMessages)
      /\ Placed(host', g, toGuest'[g], toHost'[g], seat'[g])
  BY DEF IInv, TypeOK
<1>2. Fits(toGuest'[g], seat'[g])
  BY <1>1, PlacedFits
<1>. QED
  BY <1>1, <1>2 DEF Fits

LEMMA HostWeighs ==
  ASSUME RoundAssumption, IInv, IInv', ~DealtFlower, NEW d \in Int, HostStays(d)
  PROVE  Balanced
<1>1. /\ pile \in Int /\ host.wall \in Int /\ pile' \in Int /\ host'.wall \in Int /\ Host \in Seated
      /\ \A s \in Seated : s # Host => s \in Guests
  BY HostFacts DEF IInv, TypeOK, Hosts
<1>2. ASSUME NEW g \in Seated, g # Host PROVE Weight(toGuest', seat', g) = Weight(toGuest, seat, g)
  <2>1. g \in Guests
    BY <1>1, <1>2
  <2>2. /\ Len(toGuest[g]) <= 4 /\ toGuest[g] \in Seq(GuestMessages)
        /\ Len(toGuest'[g]) <= 4 /\ toGuest'[g] \in Seq(GuestMessages)
    BY <2>1, ShortQueue, ShortQueueNext
  <2>3. seat'[g] = seat[g] /\ (toGuest'[g] = toGuest[g] \/ \E e : Light(e) /\ toGuest'[g] = toGuest[g] \o e)
    BY <2>1 DEF HostStays, SendsLight
  <2>. DEFINE q == toGuest[g] w == toGuest'[g] p == seat[g]
  <2>4. CASE w = q
    BY <1>2, <2>3, <2>4 DEF Weight
  <2>5. CASE w # q
    <3>1. PICK e : Light(e) /\ w = q \o e
      BY <2>3, <2>5
    <3>2. e \in Seq(GuestMessages) /\ q \in Seq(GuestMessages)
      BY <2>2, <3>1 DEF Light
    <3>. HIDE DEF q, w, p
    <3>3. Len(q) + Len(e) <= 4
      <4>1. Len(w) = Len(q) + Len(e)
        BY <3>1, <3>2
      <4>2. Len(w) <= 4
        BY <2>2 DEF w
      <4>. QED
        BY <4>1, <4>2
    <3>4. Load(w) = Load(q) + Load(e) /\ \A T : Holds(w, T) <=> Holds(q, T) \/ Holds(e, T)
      BY <3>1, <3>2, <3>3, JoinLoad
    <3>5. Load(w) = Load(q) /\ (Holds(w, {"NEW_ROUND"}) <=> Holds(q, {"NEW_ROUND"}))
      BY <3>1, <3>4, LoadInt DEF Light
    <3>6. Kept(w, p) = Kept(q, p)
      BY <3>5 DEF Kept
    <3>. QED
      BY <1>2, <2>3, <3>5, <3>6 DEF Weight, q, w, p
  <2>. QED
    BY <2>4, <2>5
<1>3. Weight(toGuest', seat', Host) = Weight(toGuest, seat, Host) + d
  BY <1>1 DEF Weight, HostStays
<1>4. AllWeights(toGuest', seat') = AllWeights(toGuest, seat) + d
  <2>1. OnlyAt(Host, toGuest, seat, toGuest', seat', d)
    BY <1>2, <1>3 DEF OnlyAt
  <2>. QED
    BY <1>1, <2>1, OneWeight
<1>5. host'.wall + pile' + d = host.wall + pile
  BY DEF HostStays
<1>. QED
  BY <1>1, <1>4, <1>5, TotalChange DEF Balanced

\* Steps of the host that send nothing and move no tile.
LEMMA StillBalanced ==
  ASSUME RoundAssumption, IInv, IInv', ~DealtFlower, UNCHANGED <<toGuest, pile>>,
         host'.wall = host.wall, \A g \in Guests : seat'[g] = seat[g],
         seat'[Host].extra = seat[Host].extra
  PROVE  Balanced
<1>1. pile \in Int /\ host.wall \in Int
  BY HostFacts DEF Hosts
<1>2. HostStays(0)
  BY <1>1 DEF HostStays, SendsLight
<1>. QED
  BY <1>2, HostWeighs

LEMMA QuietBalanced ==
  ASSUME RoundAssumption, IInv, IInv', ~DealtFlower,
         \/ HostAnswer \/ EndInput \/ CheckNone
         \/ \E g \in Guests : HearRequest(g) \/ HearWaitHit(g) \/ HearResult(g) \/ HearShowEpk(g)
  PROVE  Balanced
<1>1. /\ host \in Hosts /\ seat \in [Seated -> Hands] /\ Host \in Seated
      /\ Guests \subseteq Seated /\ Host \notin Guests
  BY HostFacts
<1>2. CASE HostAnswer
  <2>1. PICK c : host' = Answered(Host, c)
    BY <1>2 DEF HostAnswer
  <2>2. host'.wall = host.wall
    BY <1>1, <2>1 DEF Answered, Hosts
  <2>3. UNCHANGED <<toGuest, pile>> /\ seat' = [seat EXCEPT ![Host].asked = FALSE]
    BY <1>2 DEF HostAnswer
  <2>4. /\ \A g \in Guests : seat'[g] = seat[g]
        /\ seat'[Host].extra = seat[Host].extra
    BY <1>1, <2>3 DEF Hands
  <2>. QED
    BY <2>2, <2>3, <2>4, StillBalanced
<1>3. CASE EndInput
  BY <1>3, StillBalanced DEF EndInput
<1>4. CASE CheckNone
  <2>1. UNCHANGED <<toGuest, pile, seat>> /\ host' = [Compared EXCEPT !.nextReq = PassesOn]
    BY <1>4 DEF CheckNone
  <2>2. host'.wall = host.wall
    BY <1>1, <2>1 DEF Compared, Hosts
  <2>. QED
    BY <2>1, <2>2, StillBalanced
<1>5. ASSUME NEW g \in Guests, HearRequest(g) \/ HearWaitHit(g) \/ HearResult(g) \/ HearShowEpk(g)
      PROVE  Balanced
  <2>1. UNCHANGED <<toGuest, pile, seat>>
    BY <1>5 DEF HearRequest, HearWaitHit, HearResult, HearShowEpk, Hears
  <2>2. CASE HearRequest(g)
    <3>1. host'.wall = host.wall
      BY <1>1, <2>2 DEF HearRequest, Hosts
    <3>. QED
      BY <2>1, <3>1, StillBalanced
  <2>3. CASE HearWaitHit(g)
    <3>1. host'.wall = host.wall
      BY <1>1, <2>3 DEF HearWaitHit, Hosts
    <3>. QED
      BY <2>1, <3>1, StillBalanced
  <2>4. CASE HearResult(g)
    <3>1. host'.wall = host.wall
      BY <1>1, <2>4 DEF HearResult, Answered, Hosts
    <3>. QED
      BY <2>1, <3>1, StillBalanced
  <2>5. CASE HearShowEpk(g)
    <3>1. host'.wall = host.wall
      BY <1>1, <2>5 DEF HearShowEpk, Hosts
    <3>. QED
      BY <2>1, <3>1, StillBalanced
  <2>. QED
    BY <1>5, <2>2, <2>3, <2>4, <2>5
<1>. QED
  BY <1>2, <1>3, <1>4, <1>5

LEMMA HostDrawBalanced ==
  ASSUME RoundAssumption, IInv, IInv', ~DealtFlower, ~HostFlower, NEW t \in Tiles, HostDraw(t)
  PROVE  Balanced
<1>1. /\ host \in Hosts /\ seat \in [Seated -> Hands] /\ Host \in Seated /\ pile \in Int
      /\ Guests \subseteq Seated /\ Host \notin Guests
  BY HostFacts
<1>2. t # Flower /\ seat[Host].mode = "get"
  BY DEF HostDraw, Drawable
<1>3. ~seat[Host].extra
  BY <1>1, <1>2 DEF IInv, HandsFit
<1>4. /\ host' = [[host EXCEPT !.owner = Host, !.card = t, !.getting = TRUE,
                               !.inCheck[Host] = Offer(t) # {}, !.checkOn = @ \/ Offer(t) # {},
                               !.flowers = @ - Spent(t)] EXCEPT !.wall = @ - 1]
      /\ seat' = [seat EXCEPT ![Host] = [@ EXCEPT !.mode = "throw", !.extra = TRUE,
                                                  !.offer = t, !.asked = t # {}]]
      /\ UNCHANGED <<toGuest, pile>>
  BY <1>2 DEF HostDraw
<1>5. host'.wall = host.wall - 1 /\ host.wall \in Int
  BY <1>1, <1>4 DEF Hosts
<1>6. seat'[Host].extra /\ \A g \in Guests : seat'[g] = seat[g]
  <2>. DEFINE p == [seat[Host] EXCEPT !.mode = "throw", !.extra = TRUE, !.offer = t, !.asked = t # {}]
  <2>1. seat' = [seat EXCEPT ![Host] = p]
    BY <1>4
  <2>2. seat[Host] \in Hands
    BY <1>1
  <2>3. p.extra = TRUE
    BY <2>2 DEF Hands
  <2>. HIDE DEF p
  <2>. QED
    BY <1>1, <2>1, <2>3
<1>7. HostStays(1)
  <2>1. SendsLight /\ pile' = pile
    BY <1>4 DEF SendsLight
  <2>. QED
    BY <1>1, <1>3, <1>5, <1>6, <2>1 DEF HostStays
<1>. QED
  BY <1>7, HostWeighs

\* Questions weigh nothing.
LEMMA QuestionsLight ==
  ASSUME RoundAssumption, IInv, NEW s \in Seated, NEW d \in Discards(s), NEW S, toGuest' = Questions(d, S)
  PROVE  SendsLight
<1>1. d \in [Seated -> Claims] /\ Claims \subseteq SUBSET Calls
  BY DEF Discards, RoundAssumption
<1>2. toGuest \in [Guests -> Seq(GuestMessages)] /\ Guests \subseteq Seated
  BY HostFacts
<1>3. SUFFICES ASSUME NEW g \in Guests
               PROVE  toGuest'[g] = toGuest[g] \/ \E e : Light(e) /\ toGuest'[g] = toGuest[g] \o e
  BY DEF SendsLight
<1>4. CASE g \in S /\ d[g] # {}
  <2>. DEFINE m == [type |-> "CHECK_CARD", offer |-> d[g]]
  <2>1. toGuest'[g] = toGuest[g] \o <<m>>
    BY <1>4 DEF Questions, Sent
  <2>2. m \in GuestMessages /\ m.type = "CHECK_CARD"
    BY <1>1, <1>2 DEF GuestMessages
  <2>. HIDE DEF m
  <2>3. Light(<<m>>)
    BY <2>2, LightOne
  <2>. QED
    BY <2>1, <2>3
<1>5. CASE ~(g \in S /\ d[g] # {})
  <2>1. toGuest'[g] = toGuest[g] \o <<>>
    BY <1>5 DEF Questions, Sent
  <2>2. toGuest[g] \o <<>> = toGuest[g]
    BY <1>2
  <2>. QED
    BY <2>1, <2>2
<1>. QED
  BY <1>4, <1>5

LEMMA HostThrowBalanced ==
  ASSUME RoundAssumption, IInv, IInv', ~DealtFlower, HostThrow
  PROVE  Balanced
<1>1. /\ host \in Hosts /\ seat \in [Seated -> Hands] /\ Host \in Seated /\ pile \in Int
      /\ Guests \subseteq Seated /\ Host \notin Guests
  BY HostFacts
<1>2. PICK d \in Discards(Host) :
           /\ host' = Discarded([s \in Seated |-> s # Host /\ d[s] # {}])
           /\ toGuest' = Questions(d, Guests)
  BY DEF HostThrow
<1>3. /\ seat[Host].mode = "throw" /\ pile' = pile + 1
      /\ seat' = [seat EXCEPT ![Host].mode = "wait", ![Host].extra = FALSE]
  BY DEF HostThrow
<1>4. seat[Host].extra
  BY <1>1, <1>3 DEF IInv, HandsFit
<1>5. host'.wall = host.wall /\ host.wall \in Int
  BY <1>1, <1>2 DEF Discarded, Hosts
<1>6. ~seat'[Host].extra /\ \A g \in Guests : seat'[g] = seat[g]
  BY <1>1, <1>3 DEF Hands
<1>7. SendsLight
  BY <1>1, <1>2, QuestionsLight
<1>8. HostStays(-1) /\ -1 \in Int
  BY <1>1, <1>3, <1>4, <1>5, <1>6, <1>7 DEF HostStays
<1>. QED
  BY <1>8, HostWeighs

LEMMA HearThrowBalanced ==
  ASSUME RoundAssumption, IInv, IInv', ~DealtFlower, NEW g \in Guests, HearThrow(g)
  PROVE  Balanced
<1>1. /\ host \in Hosts /\ seat \in [Seated -> Hands] /\ Host \in Seated /\ pile \in Int
      /\ Guests \subseteq Seated /\ Host \notin Guests
  BY HostFacts
<1>2. PICK d \in Discards(g) :
       /\ host' = Discarded([s \in Seated |->
                    IF s \in Guests /\ s = host.turn THEN host.inCheck[s]
                    ELSE d[s] # {}])
       /\ seat' = [seat EXCEPT ![Host].offer = d[Host],
                               ![Host].asked = @ \/ d[Host] # {}]
       /\ toGuest' = Questions(d, Guests \ {host.turn})
  BY DEF HearThrow
<1>3. pile' = pile
  BY DEF HearThrow, Hears
<1>4. host'.wall = host.wall /\ host.wall \in Int
  BY <1>1, <1>2 DEF Discarded, Hosts
<1>5. seat'[Host].extra = seat[Host].extra /\ \A u \in Guests : seat'[u] = seat[u]
  <2>. DEFINE p == [seat[Host] EXCEPT !.offer = d[Host], !.asked = @ \/ d[Host] # {}]
  <2>1. seat' = [seat EXCEPT ![Host] = p]
    BY <1>1, <1>2
  <2>2. seat[Host] \in Hands
    BY <1>1
  <2>3. p.extra = seat[Host].extra
    BY <2>2 DEF Hands
  <2>. HIDE DEF p
  <2>. QED
    BY <1>1, <2>1, <2>3
<1>6. SendsLight
  <2>1. g \in Seated
    BY <1>1
  <2>. QED
    BY <1>2, <2>1, QuestionsLight
<1>7. HostStays(0)
  BY <1>1, <1>3, <1>4, <1>5, <1>6 DEF HostStays
<1>. QED
  BY <1>7, HostWeighs

LEMMA CheckMakeBalanced ==
  ASSUME RoundAssumption, IInv, IInv', ~DealtFlower, CheckMake
  PROVE  Balanced
<1>1. /\ host \in Hosts /\ seat \in [Seated -> Hands] /\ Host \in Seated /\ pile \in Int
      /\ Guests \subseteq Seated /\ Host \notin Guests
      /\ toGuest \in [Guests -> Seq(GuestMessages)]
  BY HostFacts
<1>. DEFINE m == [type |-> "MAKE"]
<1>2. /\ host' = [Compared EXCEPT !.waiting = TRUE, !.waitHit[Host] = TRUE, !.dealer = NextDealer(Winner)]
      /\ seat' = [seat EXCEPT ![Host].mode = "wait"]
      /\ toGuest' = SentAll(m) /\ pile' = pile
  BY DEF CheckMake
<1>3. m \in GuestMessages /\ m.type = "MAKE"
  BY DEF GuestMessages
<1>4. host'.wall = host.wall /\ host.wall \in Int
  BY <1>1, <1>2 DEF Compared, Hosts
<1>5. seat'[Host].extra = seat[Host].extra /\ \A g \in Guests : seat'[g] = seat[g]
  BY <1>1, <1>2 DEF Hands
<1>. HIDE DEF m
<1>6. \A g \in Guests : toGuest'[g] = toGuest[g] \o <<m>>
  BY <1>1, <1>2, <1>3, SendsAll
<1>7. SendsLight
  <2>1. Light(<<m>>)
    BY <1>3, LightOne
  <2>. QED
    BY <1>6, <2>1 DEF SendsLight
<1>8. HostStays(0)
  BY <1>1, <1>2, <1>4, <1>5, <1>7 DEF HostStays
<1>. QED
  BY <1>8, HostWeighs

LEMMA NextPlayerBalanced ==
  ASSUME RoundAssumption, IInv, IInv', ~DealtFlower, NextPlayer
  PROVE  Balanced
<1>1. /\ host \in Hosts /\ seat \in [Seated -> Hands] /\ Host \in Seated /\ pile \in Int
      /\ Guests \subseteq Seated /\ Host \notin Guests
      /\ toGuest \in [Guests -> Seq(GuestMessages)]
      /\ \A s \in Seated : s # Host => s \in Guests
  BY HostFacts
<1>. DEFINE m == [type |-> "CAN_GET"] next == NextTurn(host.turn)
<1>2. /\ host' = [host EXCEPT !.turn = next, !.nextReq = FALSE] /\ pile' = pile
      /\ next = Host  => seat' = [seat EXCEPT ![Host].mode = "get"] /\ UNCHANGED toGuest
      /\ next # Host  => toGuest' = SentTo(next, <<m>>) /\ UNCHANGED seat
  BY DEF NextPlayer
<1>3. m \in GuestMessages /\ m.type = "CAN_GET"
  BY DEF GuestMessages
<1>4. host'.wall = host.wall /\ host.wall \in Int
  BY <1>1, <1>2 DEF Hosts
<1>5. host'.turn \in Seated /\ host'.turn = next
  BY <1>1, <1>2 DEF Hosts, IInv, TypeOK
<1>. HIDE DEF m, next
<1>6. seat'[Host].extra = seat[Host].extra /\ \A g \in Guests : seat'[g] = seat[g]
  BY <1>1, <1>2 DEF Hands
<1>7. Light(<<m>>) /\ <<m>> \in Seq(GuestMessages)
  BY <1>3, LightOne DEF Light
<1>8. SendsLight
  <2>1. CASE next # Host
    <3>1. next \in Guests
      BY <1>1, <1>5, <2>1
    <3>2. toGuest' = SentTo(next, <<m>>)
      BY <1>2, <2>1
    <3>3. toGuest'[next] = toGuest[next] \o <<m>> /\ \A g \in Guests : g # next => toGuest'[g] = toGuest[g]
      BY <1>1, <1>7, <3>1, <3>2, SendsTo
    <3>. QED
      BY <1>7, <3>3 DEF SendsLight
  <2>. QED
    BY <1>2, <2>1 DEF SendsLight
<1>9. HostStays(0)
  BY <1>1, <1>2, <1>4, <1>6, <1>8 DEF HostStays
<1>. QED
  BY <1>9, HostWeighs

\* A claim that is granted: the tile is laid open at once by the host, and when the news
\* has come by a guest.
LEMMA GrantBalanced ==
  ASSUME RoundAssumption, IInv, IInv', ~DealtFlower, loop.at = "check", NEW s \in Seated,
         NEW c \in {"eat", "pong", "kang"}, host.checkFor[s] = c,
         NEW kind, kind = (IF c = "kang" THEN KangKind(s) ELSE c), Grant(s, kind)
  PROVE  Balanced
<1>1. /\ host \in Hosts /\ seat \in [Seated -> Hands] /\ Host \in Seated /\ pile \in Int
      /\ Guests \subseteq Seated /\ Host \notin Guests
      /\ toGuest \in [Guests -> Seq(GuestMessages)]
      /\ \A u \in Seated : u # Host => u \in Guests
  BY HostFacts
<1>2. /\ host.checkOn /\ (host.turn # Host \/ Open(host) => ~seat[Host].extra)
      /\ host.turn = Host /\ ~Open(host) => seat[Host].extra
      /\ Open(host) => host.card = {} /\ host.checkFor[host.turn] = "pass"
      /\ ~Open(host) => host.getting /\ \A u \in Seated : u # host.turn => host.checkFor[u] = "pass"
  BY Verdict
<1>3. MayCall(host, seat[s], c)
  BY DEF IInv, CallsFit
<1>4. /\ Open(host) => s # host.turn /\ kind = c
      /\ ~Open(host) => s = host.turn /\ kind \in {"concealed", "added"}
  <2>1. CASE Open(host)
    BY <1>2, <2>1 DEF KangKind
  <2>2. CASE ~Open(host)
    BY <1>2, <1>3, <2>2 DEF MayCall, KangKind
  <2>. QED
    BY <2>1, <2>2
<1>5. kind \in Kinds
  BY <1>4 DEF Kinds
<1>6. host'.wall = host.wall /\ host.wall \in Int
  <2>1. host' = [Compared EXCEPT !.owner = s, !.turn = s]
    BY DEF Grant
  <2>. QED
    BY <1>1, <2>1 DEF Compared, Hosts
<1>7. CASE s = Host
  <2>. DEFINE p == Melded(seat[Host], kind)
           d == IF kind \in {"eat", "pong"} THEN 1 ELSE IF kind = "kang" THEN 0 ELSE -1
  <2>1. seat' = [seat EXCEPT ![Host] = p] /\ pile' = PileAfter(kind) /\ UNCHANGED toGuest
    BY <1>7 DEF Grant
  <2>2. p.extra <=> kind \in {"eat", "pong"}
    <3>1. seat[Host] \in Hands
      BY <1>1
    <3>. QED
      BY <1>5, <3>1 DEF Melded, Hands, Kinds
  <2>3. seat[Host].extra <=> kind \in {"concealed", "added"}
    BY <1>2, <1>4, <1>7
  <2>. HIDE DEF p
  <2>4. seat'[Host].extra = p.extra /\ \A g \in Guests : seat'[g] = seat[g]
    BY <1>1, <2>1
  <2>5. pile' = pile - d /\ d \in Int
    BY <1>1, <1>5, <2>1 DEF PileAfter, Kinds
  <2>6. (IF seat'[Host].extra THEN 1 ELSE 0) = (IF seat[Host].extra THEN 1 ELSE 0) + d
    BY <1>5, <2>2, <2>3, <2>4 DEF Kinds
  <2>7. SendsLight
    BY <2>1 DEF SendsLight
  <2>. HIDE DEF d
  <2>8. HostStays(d)
    BY <1>1, <1>6, <2>4, <2>5, <2>6, <2>7 DEF HostStays
  <2>. QED
    BY <2>5, <2>8, HostWeighs
<1>8. CASE s # Host
  <2>. DEFINE m == [type |-> "EPK", kind |-> kind]
  <2>1. toGuest' = SentTo(s, <<m>>) /\ UNCHANGED <<seat, pile>>
    BY <1>8 DEF Grant
  <2>2. m \in GuestMessages /\ m.type = "EPK"
    BY <1>5 DEF GuestMessages
  <2>3. s \in Guests
    BY <1>1, <1>8
  <2>. HIDE DEF m
  <2>4. Light(<<m>>) /\ <<m>> \in Seq(GuestMessages)
    BY <2>2, LightOne DEF Light
  <2>5. toGuest'[s] = toGuest[s] \o <<m>> /\ \A g \in Guests : g # s => toGuest'[g] = toGuest[g]
    BY <1>1, <2>1, <2>3, <2>4, SendsTo
  <2>6. SendsLight
    BY <2>4, <2>5 DEF SendsLight
  <2>7. HostStays(0)
    BY <1>1, <1>6, <2>1, <2>6 DEF HostStays
  <2>. QED
    BY <2>7, HostWeighs
<1>. QED
  BY <1>7, <1>8

LEMMA ClaimsBalanced ==
  ASSUME RoundAssumption, IInv, IInv', ~DealtFlower, CheckKang \/ CheckPong \/ CheckEat
  PROVE  Balanced
<1>1. ASSUME NEW c \in Calls, Callers(c) # {}
      PROVE  Lowest(Callers(c)) \in Seated /\ host.checkFor[Lowest(Callers(c))] = c
  <2>1. Callers(c) \subseteq Seated
    BY DEF Callers
  <2>2. Lowest(Callers(c)) \in Callers(c)
    BY <1>1, <2>1, FirstCaller
  <2>. QED
    BY <2>2 DEF Callers
<1>2. CASE CheckKang
  <2>. DEFINE s == Lowest(Callers("kang"))
  <2>1. loop.at = "check" /\ Callers("kang") # {} /\ Grant(s, KangKind(s))
    BY <1>2 DEF CheckKang
  <2>2. s \in Seated /\ host.checkFor[s] = "kang"
    BY <1>1, <2>1 DEF Calls
  <2>. HIDE DEF s
  <2>. QED
    BY <2>1, <2>2, GrantBalanced
<1>3. CASE CheckPong
  <2>. DEFINE s == Lowest(Callers("pong"))
  <2>1. loop.at = "check" /\ Callers("pong") # {} /\ Grant(s, "pong")
    BY <1>3 DEF CheckPong
  <2>2. s \in Seated /\ host.checkFor[s] = "pong"
    BY <1>1, <2>1 DEF Calls
  <2>. HIDE DEF s
  <2>. QED
    BY <2>1, <2>2, GrantBalanced
<1>4. CASE CheckEat
  <2>. DEFINE s == Lowest(Callers("eat"))
  <2>1. loop.at = "check" /\ Callers("eat") # {} /\ Grant(s, "eat")
    BY <1>4 DEF CheckEat
  <2>2. s \in Seated /\ host.checkFor[s] = "eat"
    BY <1>1, <2>1 DEF Calls
  <2>. HIDE DEF s
  <2>. QED
    BY <2>1, <2>2, GrantBalanced
<1>. QED
  BY <1>2, <1>3, <1>4

\* The tile goes to the player at turn, after the question.
LEMMA SendCardBalanced ==
  ASSUME RoundAssumption, IInv, IInv', ~DealtFlower, NEW t \in Tiles, SendCard(t)
  PROVE  Balanced
<1>. DEFINE s == host.turn
            m == [type |-> "CHECK_CARD", offer |-> t] n == [type |-> "GET_CARD", card |-> t]
            e == (IF Offer(t) = {} THEN <<>> ELSE <<m>>) \o <<n>>
            q == toGuest[s] w == toGuest'[s] p == seat[s]
<1>1. /\ host \in Hosts /\ seat \in [Seated -> Hands] /\ Host \in Seated /\ pile \in Int
      /\ Guests \subseteq Seated /\ Host \notin Guests
      /\ toGuest \in [Guests -> Seq(GuestMessages)] /\ s \in Seated
      /\ \A u \in Seated : u # Host => u \in Guests
  BY HostFacts
<1>2. /\ loop.at = "send" /\ toGuest' = SentTo(s, e) /\ UNCHANGED <<seat, toHost, pile>>
  BY DEF SendCard
<1>3. host'.wall = host.wall - 1 /\ host.wall \in Int
  BY <1>1 DEF SendCard, Hosts
<1>4. s \in Guests
  <2>1. host.sendReq /\ PhasesApart(host)
    BY <1>2 DEF IInv, InLoop, Due
  <2>. QED
    BY <1>1, <2>1 DEF PhasesApart
<1>5. n \in GuestMessages
  BY DEF GuestMessages
<1>6. Offer(t) # {} => m \in GuestMessages
  <2>1. Offer(t) # {} => t \in SUBSET (Calls \cup {"added"})
    BY RoundAssumption DEF RoundAssumption, Offer, Calls
  <2>. QED
    BY <2>1 DEF GuestMessages
<1>7. e \in Seq(GuestMessages) /\ Load(e) = 1 /\ ~Holds(e, {"NEW_ROUND"})
  <2>1. CASE Offer(t) = {}
    <3>1. e = <<n>> /\ e \in Seq(GuestMessages) /\ Len(e) = 1 /\ DOMAIN e = {1} /\ e[1].type = "GET_CARD"
      BY <1>5, <2>1
    <3>. HIDE DEF e
    <3>2. Brings(e, 1) = 1 /\ Brings(e, 2) = 0 /\ Brings(e, 3) = 0 /\ Brings(e, 4) = 0
      BY <3>1 DEF Brings, TileBearing
    <3>. QED
      BY <3>1, <3>2 DEF Load, Holds
  <2>2. CASE Offer(t) # {}
    <3>1. m.type = "CHECK_CARD" /\ n.type = "GET_CARD"
      OBVIOUS
    <3>2. e = <<m>> \o <<n>> /\ m \in GuestMessages
      BY <1>6, <2>2
    <3>. HIDE DEF e, m, n
    <3>4. /\ e \in Seq(GuestMessages) /\ Len(e) = 2 /\ DOMAIN e = {1, 2}
          /\ e[1].type = "CHECK_CARD" /\ e[2].type = "GET_CARD"
      BY <1>5, <3>1, <3>2
    <3>3. Brings(e, 1) = 0 /\ Brings(e, 2) = 1 /\ Brings(e, 3) = 0 /\ Brings(e, 4) = 0
      BY <3>4 DEF Brings, TileBearing
    <3>. QED
      BY <3>3, <3>4 DEF Load, Holds
  <2>. QED
    BY <2>1, <2>2
<1>. HIDE DEF e, m, n
<1>8. w = q \o e /\ \A g \in Guests : g # s => toGuest'[g] = toGuest[g]
  <2>. HIDE DEF s
  <2>. QED
    BY <1>1, <1>2, <1>4, <1>7, SendsTo
<1>9. /\ Len(q) <= 4 /\ q \in Seq(GuestMessages) /\ Len(w) <= 4
  BY <1>4, ShortQueue, ShortQueueNext
<1>. HIDE DEF q, w, p, s
<1>10. Len(q) + Len(e) <= 4
  <2>1. Len(w) = Len(q) + Len(e)
    BY <1>7, <1>8, <1>9
  <2>. QED
    BY <1>9, <2>1
<1>11. Load(w) = Load(q) + Load(e) /\ \A T : Holds(w, T) <=> Holds(q, T) \/ Holds(e, T)
  BY <1>7, <1>8, <1>9, <1>10, JoinLoad
<1>12. Kept(w, p) + Load(w) = Kept(q, p) + Load(q) + 1
  <2>1. Kept(w, p) = Kept(q, p) /\ Kept(q, p) \in Int /\ Load(q) \in Int
    BY <1>7, <1>11, LoadInt DEF Kept
  <2>. QED
    BY <1>7, <1>11, <2>1
<1>13. toGuest' = [toGuest EXCEPT ![s] = w] /\ seat' = [seat EXCEPT ![s] = p]
  <2>1. toGuest' \in [Guests -> Seq(GuestMessages)]
    BY DEF IInv, TypeOK
  <2>2. toGuest' = [toGuest EXCEPT ![s] = w]
    BY <1>1, <1>4, <1>8, <2>1 DEF w
  <2>3. seat' = [seat EXCEPT ![s] = p]
    BY <1>1, <1>2 DEF p
  <2>. QED
    BY <2>2, <2>3
<1>14. s # Host
  BY <1>1, <1>4
<1>15. AllWeights(toGuest', seat') = AllWeights(toGuest, seat) + 1
  <2>1. Weight(toGuest', seat', s) = Weight(toGuest, seat, s) + 1
    BY <1>1, <1>2, <1>12, <1>14 DEF Weight, q, w, p
  <2>2. \A u \in Seated : u # s => Weight(toGuest', seat', u) = Weight(toGuest, seat, u)
    BY <1>1, <1>2, <1>8 DEF Weight
  <2>. DEFINE d == 1
  <2>3. d \in Int /\ d = 1 /\ s \in Seated
    BY <1>1
  <2>. HIDE DEF d
  <2>4. OnlyAt(s, toGuest, seat, toGuest', seat', d)
    BY <2>1, <2>2, <2>3 DEF OnlyAt
  <2>5. AllWeights(toGuest', seat') = AllWeights(toGuest, seat) + d
    BY <2>3, <2>4, OneWeight
  <2>. QED
    BY <2>3, <2>5
<1>16. host'.wall + pile' + 1 = host.wall + pile /\ host'.wall \in Int /\ pile' \in Int
  BY <1>1, <1>2, <1>3
<1>. QED
  BY <1>1, <1>3, <1>15, <1>16, TotalChange DEF Balanced

\* The queue of a guest after a deal brings the dealer's 17th tile, and no other.
LEMMA DealtLoad ==
  ASSUME NEW g, NEW first, NEW w \in Seq(GuestMessages), NEW q, Begins(q, w, g, first, FALSE),
         None(q) \/ One(q, "NEW_ROUND")
  PROVE  Load(w) = (IF g = first THEN 1 ELSE 0) /\ Holds(w, {"NEW_ROUND"})
<1>1. DOMAIN w = 1 .. Len(w) /\ Len(w) \in Nat
  OBVIOUS
<1>2. \A i \in 1 .. Len(w) : w[i].type = Said(Word(w[i]))
  <2>1. \A i \in 1 .. Len(w) : w[i] \in GuestMessages \cup HostMessages
    OBVIOUS
  <2>. QED
    BY <2>1, Types
<1>3. ASSUME NEW i \in 1 .. 4
      PROVE  Brings(w, i) = IF i <= Len(w) /\ Said(Word(w[i])) \in TileBearing THEN 1 ELSE 0
  BY <1>1, <1>2 DEF Brings
<1>4. Said("NEW_ROUND") = "NEW_ROUND" /\ Said("tile") = "GET_CARD"
  BY DEF Said
<1>5. CASE g # first
  <2>1. One(w, "NEW_ROUND") \/ Two(w, "NEW_ROUND", "NEW_ROUND")
    BY <1>5 DEF Begins
  <2>2. Holds(w, {"NEW_ROUND"})
    BY <2>1, NewIn
  <2>3. CASE One(w, "NEW_ROUND")
    <3>1. Brings(w, 1) = 0 /\ Brings(w, 2) = 0 /\ Brings(w, 3) = 0 /\ Brings(w, 4) = 0
      BY <1>3, <1>4, <2>3 DEF One, TileBearing
    <3>. QED
      BY <1>5, <2>2, <3>1 DEF Load
  <2>4. CASE Two(w, "NEW_ROUND", "NEW_ROUND")
    <3>1. Brings(w, 1) = 0 /\ Brings(w, 2) = 0 /\ Brings(w, 3) = 0 /\ Brings(w, 4) = 0
      BY <1>3, <1>4, <2>4 DEF Two, TileBearing
    <3>. QED
      BY <1>5, <2>2, <3>1 DEF Load
  <2>. QED
    BY <2>1, <2>3, <2>4
<1>6. CASE g = first
  <2>1. Two(w, "NEW_ROUND", "tile") \/ Three(w, "NEW_ROUND", "NEW_ROUND", "tile")
    BY <1>6 DEF Begins
  <2>2. Holds(w, {"NEW_ROUND"})
    BY <2>1, NewIn
  <2>3. CASE Two(w, "NEW_ROUND", "tile")
    <3>1. Brings(w, 1) = 0 /\ Brings(w, 2) = 1 /\ Brings(w, 3) = 0 /\ Brings(w, 4) = 0
      BY <1>3, <1>4, <2>3 DEF Two, TileBearing
    <3>. QED
      BY <1>6, <2>2, <3>1 DEF Load
  <2>4. CASE Three(w, "NEW_ROUND", "NEW_ROUND", "tile")
    <3>1. Brings(w, 1) = 0 /\ Brings(w, 2) = 0 /\ Brings(w, 3) = 1 /\ Brings(w, 4) = 0
      BY <1>3, <1>4, <2>4 DEF Three, TileBearing
    <3>. QED
      BY <1>6, <2>2, <3>1 DEF Load
  <2>. QED
    BY <2>1, <2>3, <2>4
<1>. QED
  BY <1>5, <1>6

\* Where one seat weighs one and the others nothing, the sum is one.
LEMMA OneHeld ==
  ASSUME RoundAssumption, NEW tg, NEW st, NEW s \in Seated,
         \A u \in Seated : Weight(tg, st, u) = IF u = s THEN 1 ELSE 0
  PROVE  AllWeights(tg, st) = 1
<1>1. ASSUME NEW n PROVE Weight(tg, st, n) = IF n = s THEN 1 ELSE 0
  <2>1. n \notin Seated => Weight(tg, st, n) = 0
    BY DEF Weight
  <2>. QED
    BY <2>1
<1>2. s \in 1 .. 4
  BY DEF RoundAssumption
<1>. QED
  BY <1>1, <1>2 DEF AllWeights

\* The queues of a deal without a flower.
LEMMA PlainDeal ==
  ASSUME NEW g, NEW first, NEW t, g = first => t \in GuestDealt /\ t # Flower,
         NEW q \in Seq(GuestMessages)
  PROVE  LET e == Dealt(g, first, t, FALSE) IN
         e \in Seq(GuestMessages) /\ Begins(q, q \o e, g, first, FALSE)
<1>. DEFINE flower == FALSE e == Dealt(g, first, t, FALSE) w == q \o e
<1>1. flower \in BOOLEAN /\ flower = FALSE /\ e = Dealt(g, first, t, flower) /\ w = q \o e
  OBVIOUS
<1>. HIDE DEF flower, e, w
<1>2. e \in Seq(GuestMessages) /\ Begins(q, w, g, first, flower)
  BY <1>1, DealtWords
<1>. QED
  BY <1>1, <1>2 DEF e, w

\* A deal puts Wall tiles on the wall and the 17th in the dealer's hand, or on its way there.
LEMMA DealWeighs ==
  ASSUME RoundAssumption, IInv, GuestDealt = {{}}, ~DealtFlower, NEW v \in Hosts, Deals(v),
         \A g \in Guests : None(toGuest[g]) \/ One(toGuest[g], "NEW_ROUND")
  PROVE  host'.wall = Wall /\ pile' = 0 /\ AllWeights(toGuest', seat') = 1
<1>. DEFINE first == FirstTurn(v)
<1>1. PICK t \in HostDealt \cup GuestDealt, flower \in BOOLEAN : Deal(v, t, flower)
  BY DEF Deals
<1>. DEFINE ph == [Empty EXCEPT !.mode  = IF first = Host THEN "throw" ELSE "wait",
                                !.extra = first = Host, !.asked = t # {},
                                !.offer = IF first = Host THEN t ELSE seat[Host].offer]
            ms == [g \in Guests |-> Dealt(g, first, t, FALSE)]
<1>2. /\ t \in IF first = Host THEN HostDealt ELSE GuestDealt
      /\ flower = FALSE /\ host' = Opened(v, t, flower) /\ seat' = [seat EXCEPT ![Host] = ph]
      /\ pile' = 0 /\ toGuest' = Sent([g \in Guests |-> Dealt(g, first, t, flower)])
  BY <1>1 DEF Deal, Dealt
<1>3. /\ seat \in [Seated -> Hands] /\ Host \in Seated
      /\ toGuest \in [Guests -> Seq(GuestMessages)]
      /\ Guests \subseteq Seated /\ Host \notin Guests
      /\ \A u \in Seated : u # Host => u \in Guests
  BY HostFacts
<1>4. first \in Seated
  BY <1>1, OpenedFacts
<1>5. host'.wall = Wall
  BY <1>2 DEF Opened, Hosts
<1>6. seat'[Host].extra <=> first = Host
  <2>1. ph.extra <=> first = Host
    BY DEF Empty
  <2>. HIDE DEF ph, first
  <2>. QED
    BY <1>2, <1>3, <2>1
<1>. HIDE DEF first, ph
<1>7. ASSUME NEW g \in Guests
      PROVE  /\ ms[g] \in Seq(GuestMessages)
             /\ \A w : w = toGuest[g] \o ms[g] => Begins(toGuest[g], w, g, first, FALSE)
  <2>. DEFINE q == toGuest[g] e == ms[g] w == q \o e
  <2>1. q \in Seq(GuestMessages) /\ g # Host
    BY <1>3
  <2>2. g = first => t \in GuestDealt /\ t # Flower
    BY <1>2, <2>1 DEF Flower
  <2>3. e = Dealt(g, first, t, FALSE) /\ w = q \o e
    OBVIOUS
  <2>. HIDE DEF q, e, w, ms
  <2>4. e \in Seq(GuestMessages) /\ Begins(q, w, g, first, FALSE)
    <3>. DEFINE d == Dealt(g, first, t, FALSE)
    <3>1. d \in Seq(GuestMessages) /\ Begins(q, q \o d, g, first, FALSE)
      BY <2>1, <2>2, PlainDeal
    <3>2. e = d /\ w = q \o e
      BY <2>3
    <3>. HIDE DEF d
    <3>. QED
      BY <3>1, <3>2
  <2>5. ms[g] = e /\ toGuest[g] = q /\ w = q \o e
    BY DEF q, e, w
  <2>. QED
    BY <2>4, <2>5
<1>8. toGuest' = Sent(ms)
  BY <1>2
<1>. HIDE DEF ms
<1>9. /\ toGuest' \in [Guests -> Seq(GuestMessages)]
      /\ \A g \in Guests : toGuest'[g] = toGuest[g] \o ms[g]
  BY <1>3, <1>7, <1>8, Sends
<1>10. ASSUME NEW g \in Guests
       PROVE  Load(toGuest'[g]) = (IF g = first THEN 1 ELSE 0) /\ Holds(toGuest'[g], {"NEW_ROUND"})
  <2>. DEFINE q == toGuest[g] w == toGuest'[g]
  <2>1. w \in Seq(GuestMessages) /\ Begins(q, w, g, first, FALSE) /\ (None(q) \/ One(q, "NEW_ROUND"))
    BY <1>7, <1>9
  <2>. HIDE DEF q, w
  <2>2. Load(w) = (IF g = first THEN 1 ELSE 0) /\ Holds(w, {"NEW_ROUND"})
    BY <2>1, DealtLoad
  <2>. QED
    BY <2>2 DEF w
<1>11. ASSUME NEW u \in Seated PROVE Weight(toGuest', seat', u) = IF u = first THEN 1 ELSE 0
  <2>1. CASE u = Host
    BY <1>6, <2>1 DEF Weight
  <2>2. CASE u # Host
    <3>1. u \in Guests
      BY <1>3, <2>2
    <3>2. Kept(toGuest'[u], seat'[u]) = 0
      BY <1>10, <3>1 DEF Kept
    <3>3. Weight(toGuest', seat', u) = 0 + Load(toGuest'[u])
      BY <2>2, <3>2 DEF Weight
    <3>. QED
      BY <1>10, <3>1, <3>3
  <2>. QED
    BY <2>1, <2>2
<1>12. AllWeights(toGuest', seat') = 1
  BY <1>4, <1>11, OneHeld
<1>. QED
  BY <1>2, <1>5, <1>12

\* What TilesConserved says after a deal.
LEMMA DealsWeigh ==
  ASSUME RoundAssumption, Plain, IInv, ~DealtFlower, StartGame \/ NewRound \/ SeaBottom
  PROVE  Total(host', pile', toGuest', seat') = Wall + 1
<1>1. /\ host \in Hosts /\ Host \in Seated /\ Guests \subseteq Seated /\ Host \notin Guests
      /\ Wall \in Int
  BY RoundAssumption, HostFacts
<1>2. /\ PhasesApart(host) /\ InLoop(host, loop)
      /\ (\A g \in Guests : Placed(host, g, toGuest[g], toHost[g], seat[g]))
  BY DEF IInv
<1>3. ASSUME NEW v \in Hosts, Deals(v),
             \A g \in Guests : None(toGuest[g]) \/ One(toGuest[g], "NEW_ROUND")
      PROVE  Total(host', pile', toGuest', seat') = Wall + 1
  <2>1. host'.wall = Wall /\ pile' = 0 /\ AllWeights(toGuest', seat') = 1
    BY <1>3, DealWeighs DEF Plain
  <2>. QED
    BY <1>1, <2>1 DEF Total
<1>4. CASE StartGame
  <2>1. Deals(host) /\ \A g \in Guests : None(toGuest[g])
    BY <1>4 DEF StartGame, IInv
  <2>. QED
    BY <1>1, <1>3, <2>1
<1>5. CASE NewRound
  <2>. DEFINE v == [host EXCEPT !.waiting = FALSE]
  <2>1. loop.at = "waiting" /\ Deals(v)
    BY <1>5 DEF NewRound
  <2>2. v \in Hosts
    BY <1>1 DEF Hosts
  <2>3. host.waiting /\ (\A s \in Seated : host.waitHit[s])
    BY <1>2, <2>1 DEF InLoop, Due
  <2>4. ASSUME NEW g \in Guests PROVE None(toGuest[g]) \/ One(toGuest[g], "NEW_ROUND")
    <3>1. host.waitHit[g] = TRUE
      BY <1>1, <2>3 DEF Hosts
    <3>2. Told(host.waitHit[g], toGuest[g], toHost[g], seat[g])
      BY <1>1, <1>2, <2>3, PlacedThere
    <3>3. Told(TRUE, toGuest[g], toHost[g], seat[g])
      BY <3>1, <3>2
    <3>. QED
      BY <3>3 DEF Told
  <2>. HIDE DEF v
  <2>. QED
    BY <1>3, <2>1, <2>2, <2>4
<1>6. CASE SeaBottom
  <2>. DEFINE v == [host EXCEPT !.drawn = TRUE]
  <2>1. loop.at = "next" /\ Deals(v)
    BY <1>6 DEF SeaBottom
  <2>2. v \in Hosts
    BY <1>1 DEF Hosts
  <2>3. host.nextReq /\ ~host.drawn
    BY <1>2, <2>1 DEF InLoop, Due
  <2>4. ~host.waiting /\ Passing(host)
    BY <1>2, <2>3 DEF PhasesApart, Passing
  <2>5. ASSUME NEW g \in Guests PROVE None(toGuest[g]) \/ One(toGuest[g], "NEW_ROUND")
    <3>1. Idle(toGuest[g], toHost[g], seat[g])
      BY <1>1, <1>2, <2>3, <2>4, PlacedThere
    <3>. QED
      BY <3>1 DEF Idle
  <2>. HIDE DEF v
  <2>. QED
    BY <1>3, <2>1, <2>2, <2>5
<1>. QED
  BY <1>4, <1>5, <1>6

\* What TilesConserved says of weights.
Conserved == loop.at # "start" => Total(host, pile, toGuest, seat) = Wall + 1

LEMMA InitConserved ==
  ASSUME Init
  PROVE  Conserved
  BY DEF Init, Conserved

\* Every handler but a deal keeps the sum, and none but the first starts the game.
LEMMA StepBalanced ==
  ASSUME RoundAssumption, IInv, IInv', ~DealtFlower, ~HostFlower, Next,
         ~(StartGame \/ NewRound \/ SeaBottom)
  PROVE  Balanced
<1>1. ASSUME NEW g \in Guests, GuestReceive(g) PROVE Balanced
  <2>1. CASE TakeChange(g)
    <3>. DEFINE q == toGuest[g]
    <3>1. /\ q[1] \in GuestMessages /\ q[1].type = "CHANGE_CARD" /\ Word(q[1]) # "CHANGE_CARD"
      BY <2>1, Taken DEF TakeChange
    <3>. HIDE DEF q
    <3>2. q[1] \in GuestMessages \cup HostMessages
      BY <3>1
    <3>3. Word(q[1]) = q[1].type
      BY <3>1, <3>2, Words
    <3>. QED
      BY <3>1, <3>3
  <2>. QED
    BY <1>1, <2>1, TakeNewRoundBalanced, PlainTakes, TakeCardBalanced, TakeEpkBalanced DEF GuestReceive
<1>2. ASSUME NEW g \in Guests, GuestKey(g) PROVE Balanced
  BY <1>2, GuestKeysBalanced
<1>3. ASSUME NEW g \in Guests, Hear(g) PROVE Balanced
  <2>1. CASE HearThrow(g)
    BY <2>1, HearThrowBalanced
  <2>2. CASE HearRequest(g) \/ HearWaitHit(g) \/ HearResult(g) \/ HearShowEpk(g)
    BY <2>2, QuietBalanced
  <2>. QED
    BY <1>3, <2>1, <2>2 DEF Hear
<1>4. HostAnswer \/ EndInput \/ CheckNone => Balanced
  BY QuietBalanced
<1>5. ASSUME NEW t \in Tiles, HostDraw(t) \/ SendCard(t) PROVE Balanced
  BY <1>5, HostDrawBalanced, SendCardBalanced
<1>6. HostThrow \/ CheckMake \/ NextPlayer \/ CheckKang \/ CheckPong \/ CheckEat => Balanced
  BY HostThrowBalanced, CheckMakeBalanced, NextPlayerBalanced, ClaimsBalanced
<1>. QED
  BY <1>1, <1>2, <1>3, <1>4, <1>5, <1>6 DEF Next, HostKey, Stage

LEMMA NotYet ==
  ASSUME Next, ~StartGame, loop.at = "start"
  PROVE  loop'.at = "start"
<1>1. ~HostKey /\ ~EndInput
  BY DEF HostKey, HostAnswer, HostDraw, HostThrow, AtKeys, EndInput
<1>2. ~Stage
  BY DEF Stage, NewRound, CheckMake, CheckKang, CheckPong, CheckEat, CheckNone, NextPlayer,
         SeaBottom, SendCard
<1>3. ASSUME NEW g \in Guests, Hear(g) PROVE FALSE
  BY <1>3 DEF Hear, HearRequest, HearThrow, HearWaitHit, HearResult, HearShowEpk, Hears
<1>4. ASSUME NEW g \in Guests, GuestReceive(g) \/ GuestKey(g) PROVE loop' = loop
  BY <1>4 DEF GuestReceive, TakeNewRound, TakeCanGet, TakeCard, TakeChange, TakeCheck, TakeEpk,
              TakeMake, GuestKey, GuestAnswer, GuestDraw, GuestThrow, Knows
<1>. QED
  BY <1>1, <1>2, <1>3, <1>4 DEF Next

LEMMA StepConserved ==
  ASSUME Plain, ~DealtFlower, ~HostFlower, IInv, IInv', Conserved, [Next]_vars
  PROVE  Conserved'
<1>1. CASE UNCHANGED vars
  BY <1>1 DEF vars, Conserved, Total, AllWeights, Weight, Kept, Load, Brings, Holds
<1>2. CASE StartGame \/ NewRound \/ SeaBottom
  BY <1>2, RoundAssumption, DealsWeigh DEF Conserved
<1>3. CASE Next /\ ~(StartGame \/ NewRound \/ SeaBottom)
  <2>1. Balanced
    BY <1>3, RoundAssumption, StepBalanced
  <2>2. loop.at = "start" => loop'.at = "start"
    BY <1>3, NotYet
  <2>. QED
    BY <2>1, <2>2 DEF Conserved, Balanced
<1>. QED
  BY <1>1, <1>2, <1>3

(* No tile is lost or made: claims, kongs, wins and deals keep what left the *)
(* wall in a hand, on its way to one, or on the table.  A flower drawn by    *)
(* the host costs the wall a tile that nobody gets, and one dealt to a guest *)
(* is replaced twice, so neither is allowed here.                            *)
THEOREM TilesConservedHolds ==
  ASSUME Plain, ~DealtFlower, ~HostFlower
  PROVE  Spec => []TilesConserved
<1>1. Init => Conserved
  BY InitConserved
<1>2. IInv /\ IInv' /\ Conserved /\ [Next]_vars => Conserved'
  BY StepConserved
<1>3. IInv /\ Conserved => TilesConserved
  <2>1. SUFFICES ASSUME IInv, Conserved, loop.at # "start"
                 PROVE  host.wall + pile + TilesHeld = Wall + 1
    BY DEF TilesConserved
  <2>2. TilesHeld = AllWeights(toGuest, seat)
    BY <2>1, RoundAssumption, Weighs
  <2>. QED
    BY <2>1, <2>2 DEF Conserved, Total
<1>. QED
  BY <1>1, <1>2, <1>3, Invariance, PTL DEF Spec
=============================================================================
