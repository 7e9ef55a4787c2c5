--------------------------- MODULE AiClientProofs ---------------------------
(***************************************************************************)
(* What TLAPS proves of AiClient: whatever the service replies, however    *)
(* often a request fails, and whatever is typed meanwhile, a guest's       *)
(* question and its move are in one place each.                            *)
(*                                                                         *)
(* The invariant speaks of the two boxes message by message: what may be   *)
(* under way together, and in which order.  A guest that reads one message *)
(* in an iteration acts on old news, and only the order makes that safe: a *)
(* question about a drawn tile comes before the tile, a new round after    *)
(* whatever the old one left unread.  Tiles thrown before the verdict on   *)
(* an own call (Hasty) break it, and every theorem excludes them.          *)
(***************************************************************************)
EXTENDS AiClient, FiniteSetTheorems, TLAPS

\* How many messages of a type are under way to a guest, and from it.
In(t)  == Count(inbox, {t})
Out(t) == Count(outbox, {t})

\* At the host's own process nothing is under way, and the move is where it says.
HostMove ==
  /\ inbox = <<>> /\ outbox = <<>>
  /\ play = CASE table.stage = "others"  -> "wait"
              [] table.stage = "ours"    -> "get"
              [] table.stage = "holding" -> "throw"

\* What the process waits for fits what it is doing; only a host's own draw
\* lets the service be asked more than once.
Called ==
  /\ call.why = "none" => call = Idle
  /\ call.why = "discard" => play = "throw" /\ input = "play"
  /\ ~atHost => /\ call.why # "own" /\ call.left <= 1
                /\ call.why = "claim" => input = "check"

\* What a guest may answer.
Allowed == table.offer \cup {"pass"} \cup IF Careless /\ "eat" \in table.offer THEN {"unheld"} ELSE {}

\* A question is in one place as long as it is open, and then the verdict is too.
Question ==
  /\ In("CHECK_CARD") + Out("CHECK_RESULT") + One(input # "play") = One(table.inCheck)
  /\ table.inCheck => table.checkOn
  /\ table.said # "pass" => table.checkOn /\ ~table.inCheck
  /\ table.stage = "ours" => ~table.checkOn

\* The guest is offered what the host can accept.
Offers ==
  /\ \A i \in DOMAIN inbox : inbox[i].type = "CHECK_CARD" => inbox[i].what = table.offer
  /\ input # "play" => offer = table.offer
  /\ input = "eat" => "eat" \in offer
  /\ table.said \in Allowed
  /\ \A i \in DOMAIN outbox : outbox[i].type = "CHECK_RESULT" => outbox[i].what \in Allowed
  /\ table.stage = "holding" /\ table.checkOn => table.offer \subseteq OwnCalls

\* A move is in one place; a guest may hold a tile that is no longer its own only
\* until it has read what came of its call.
Move ==
  /\ table.stage = "ours" => In("CAN_GET") + In("EPK") + One(play = "get") + Out("REQUEST_CARD") = 1
  /\ table.stage # "ours" => In("CAN_GET") = 0 /\ play # "get" /\ Out("REQUEST_CARD") = 0
  /\ table.stage = "holding" =>
       In("GET_CARD") + In("EPK") + One(play = "throw") + Out("THROW_CARD") = 1
  /\ table.stage # "holding" =>
       /\ Out("THROW_CARD") = 0
       /\ In("GET_CARD") > 0 \/ play = "throw" => In("MAKE") + In("EPK") > 0

\* A granted call is news until it is read: nothing else has happened.
Melded ==
  \A i \in DOMAIN inbox : inbox[i].type = "EPK" =>
       \/ table.stage = "ours" /\ inbox[i].what = {"kang"}
       \/ table.stage = "holding" /\ inbox[i].what # {"kang"} /\ ~table.checkOn

\* Nothing of the last round is open when the guest learns of the new one.
Rounds ==
  In("MAKE") + In("NEW_ROUND") > 0 =>
    /\ table.stage # "holding" /\ (table.stage = "ours" => In("CAN_GET") = 1)
    /\ table.said = "pass" /\ Out("CHECK_RESULT") = 0 /\ input = "play"

\* Behind a thrown tile no call is left that could be granted.
Thrown ==
  Out("THROW_CARD") > 0 =>
    /\ table.said = "pass" /\ input = "play" /\ In("CHECK_CARD") = 0
    /\ \A i \in DOMAIN outbox : outbox[i].type = "CHECK_RESULT" => outbox[i].what = "pass"

\* The question about a drawn tile is read before the tile.
Drawn ==
  table.stage = "holding" /\ In("CHECK_CARD") > 0 =>
     inbox[1].type = "CHECK_CARD" /\ In("GET_CARD") = 1

\* What may come behind what.
InOrder ==
  \A i, j \in DOMAIN inbox : i < j =>
    /\ inbox[j].type \in {"MAKE", "NEW_ROUND"} => inbox[i].type \in {"GET_CARD", "MAKE"}
    /\ inbox[j].type = "GET_CARD" => inbox[i].type = "CHECK_CARD"
    /\ inbox[j].type = "EPK" => inbox[i].type = "GET_CARD"

GuestInv == Question /\ Offers /\ Move /\ Melded /\ Rounds /\ Thrown /\ Drawn /\ InOrder

Inv == /\ Called
       /\ atHost => HostMove
       /\ ~atHost => GuestInv

-----------------------------------------------------------------------------
(* Counting the messages of some types in a box.                            *)

Found(box, types) == {i \in DOMAIN box : box[i].type \in types}

LEMMA FoundFinite ==
  ASSUME NEW S, NEW box \in Seq(S), NEW types
  PROVE  IsFiniteSet(Found(box, types)) /\ Cardinality(Found(box, types)) \in Nat
<1>1. DOMAIN box = 1 .. Len(box) /\ Len(box) \in Int OBVIOUS
<1>2. IsFiniteSet(1 .. Len(box)) BY <1>1, FS_Interval
<1>3. Found(box, types) \subseteq 1 .. Len(box) BY <1>1 DEF Found
<1>4. IsFiniteSet(Found(box, types)) BY <1>2, <1>3, FS_Subset
<1> QED BY <1>4, FS_CardinalityType

LEMMA CountIsFound ==
  ASSUME NEW box, NEW types
  PROVE  Count(box, types) = Cardinality(Found(box, types))
BY DEF Count, Found

LEMMA CountInNat ==
  ASSUME NEW S, NEW box \in Seq(S), NEW types
  PROVE  Count(box, types) \in Nat
BY FoundFinite, CountIsFound

LEMMA CountNone ==
  ASSUME NEW types
  PROVE  Count(<<>>, types) = 0
<1>1. Found(<<>>, types) = {} BY DEF Found
<1> QED BY <1>1, FS_EmptySet, CountIsFound

LEMMA CountZero ==
  ASSUME NEW S, NEW box \in Seq(S), NEW types
  PROVE  Count(box, types) = 0 <=> \A i \in DOMAIN box : box[i].type \notin types
<1>1. Count(box, types) = 0 <=> Found(box, types) = {} BY FoundFinite, CountIsFound, FS_EmptySet
<1> QED BY <1>1 DEF Found

LEMMA CountAppend ==
  ASSUME NEW S, NEW box \in Seq(S), NEW m \in S, NEW types
  PROVE  Count(Append(box, m), types) = Count(box, types) + One(m.type \in types)
<1> DEFINE n == Len(box) + 1
<1>1. DOMAIN box = 1 .. Len(box) /\ Len(box) \in Nat /\ n \notin DOMAIN box OBVIOUS
<1>2. /\ DOMAIN Append(box, m) = DOMAIN box \cup {n}
      /\ Append(box, m)[n] = m
      /\ \A i \in DOMAIN box : Append(box, m)[i] = box[i]
  OBVIOUS
<1>3. CASE m.type \in types
  <2>1. Found(Append(box, m), types) = Found(box, types) \cup {n} BY <1>2, <1>3 DEF Found
  <2>2. n \notin Found(box, types) BY <1>1 DEF Found
  <2>3. Cardinality(Found(box, types) \cup {n}) = Cardinality(Found(box, types)) + 1
    BY <2>2, FoundFinite, FS_AddElement
  <2> QED BY <1>3, <2>1, <2>3, CountIsFound DEF One
<1>4. CASE m.type \notin types
  <2>1. Found(Append(box, m), types) = Found(box, types) BY <1>2, <1>4 DEF Found
  <2> QED BY <1>4, <2>1, FoundFinite, CountIsFound DEF One
<1> QED BY <1>3, <1>4

LEMMA CountTail ==
  ASSUME NEW S, NEW box \in Seq(S), box # <<>>, NEW types
  PROVE  Count(box, types) = One(Head(box).type \in types) + Count(Tail(box), types)
<1> DEFINE Later == {i \in DOMAIN box : i # 1 /\ box[i].type \in types}
           n == Len(box) - 1
<1>1. /\ DOMAIN box = 1 .. n + 1 /\ n \in Nat /\ Head(box) = box[1]
      /\ DOMAIN Tail(box) = 1 .. n
      /\ \A i \in 1 .. n : Tail(box)[i] = box[i + 1]
  OBVIOUS
<1>2. Tail(box) \in Seq(S) OBVIOUS
<1>3. Later \subseteq Found(box, types) BY DEF Found
<1>4. IsFiniteSet(Later) BY <1>3, FoundFinite, FS_Subset
<1>5. Cardinality(Later) = Cardinality(Found(Tail(box), types))
  <2> DEFINE Early == Found(Tail(box), types)
             f == [i \in Early |-> i + 1]
  <2>1. \A i \in Early : f[i] \in Later BY <1>1 DEF Found
  <2>2. \A i, j \in Early : f[i] = f[j] => i = j BY <1>1 DEF Found
  <2>3. \A j \in Later : \E i \in Early : f[i] = j
    <3> TAKE j \in Later
    <3>1. j - 1 \in 1 .. n BY <1>1
    <3>2. j - 1 \in Early BY <1>1, <3>1 DEF Found
    <3>3. f[j - 1] = j BY <1>1, <3>1, <3>2
    <3> QED BY <3>2, <3>3
  <2>4. f \in Bijection(Early, Later)
    <3>1. f \in [Early -> Later] BY <2>1
    <3> HIDE DEF Early, Later, f
    <3> QED BY <2>2, <2>3, <3>1 DEF Bijection, Injection, Surjection, IsInjective
  <2>5. IsFiniteSet(Early) BY <1>2, FoundFinite
  <2> HIDE DEF Early, Later, f
  <2> QED BY <2>4, <2>5, FS_Bijection DEF ExistsBijection, Early
<1>6. Cardinality(Later) \in Nat BY <1>4, FS_CardinalityType
<1>7. CASE Head(box).type \in types
  <2>1. Found(box, types) = Later \cup {1} /\ 1 \notin Later BY <1>1, <1>7 DEF Found
  <2> HIDE DEF Later
  <2>2. Cardinality(Later \cup {1}) = Cardinality(Later) + 1 BY <1>4, <2>1, FS_AddElement
  <2>3. Count(box, types) = Cardinality(Later) + 1 BY <2>1, <2>2, CountIsFound
  <2>4. Count(Tail(box), types) = Cardinality(Later) BY <1>5, CountIsFound
  <2>5. One(Head(box).type \in types) = 1 BY <1>7 DEF One
  <2> QED BY <1>6, <2>3, <2>4, <2>5
<1>8. CASE Head(box).type \notin types
  <2>1. Found(box, types) = Later BY <1>1, <1>8 DEF Found
  <2> HIDE DEF Later
  <2>2. Count(box, types) = Cardinality(Later) BY <2>1, CountIsFound
  <2>3. Count(Tail(box), types) = Cardinality(Later) BY <1>5, CountIsFound
  <2>4. One(Head(box).type \in types) = 0 BY <1>8 DEF One
  <2> QED BY <1>6, <2>2, <2>3, <2>4
<1> QED BY <1>7, <1>8

LEMMA CountTwo ==
  ASSUME NEW S, NEW box \in Seq(S), NEW a, NEW b, a # b
  PROVE  Count(box, {a, b}) = Count(box, {a}) + Count(box, {b})
<1>1. /\ Found(box, {a, b}) = Found(box, {a}) \cup Found(box, {b})
      /\ Found(box, {a}) \cap Found(box, {b}) = {}
  BY DEF Found
<1>2. IsFiniteSet(Found(box, {a})) /\ IsFiniteSet(Found(box, {b})) BY FoundFinite
<1>3. Cardinality(Found(box, {a}) \cup Found(box, {b}))
        = Cardinality(Found(box, {a})) + Cardinality(Found(box, {b}))
            - Cardinality(Found(box, {a}) \cap Found(box, {b}))
  BY <1>2, FS_Union
<1>4. Cardinality(Found(box, {a}) \cap Found(box, {b})) = 0 BY <1>1, FS_EmptySet
<1>5. Cardinality(Found(box, {a})) \in Nat /\ Cardinality(Found(box, {b})) \in Nat BY FoundFinite
<1>6. \A m, n \in Nat : \A k, l : k = m + n - l /\ l = 0 => k = m + n OBVIOUS
<1>7. Cardinality(Found(box, {a}) \cup Found(box, {b}))
        = Cardinality(Found(box, {a})) + Cardinality(Found(box, {b}))
  BY ONLY <1>3, <1>4, <1>5, <1>6
<1>8. Cardinality(Found(box, {a, b})) = Cardinality(Found(box, {a})) + Cardinality(Found(box, {b}))
  BY <1>1, <1>7
<1> QED BY <1>8, CountIsFound

-----------------------------------------------------------------------------
(* The boxes of a guest.                                                    *)

LEMMA Numbers ==
  ASSUME TypeOK
  PROVE  \A t : In(t) \in Nat /\ Out(t) \in Nat
BY CountInNat DEF TypeOK, In, Out

LEMMA Found1 ==
  ASSUME TypeOK
  PROVE  /\ \A t : In(t) > 0 <=> \E i \in DOMAIN inbox : inbox[i].type = t
         /\ \A t : Out(t) > 0 <=> \E i \in DOMAIN outbox : outbox[i].type = t
<1>1. \A t : In(t) = 0 <=> \A i \in DOMAIN inbox : inbox[i].type \notin {t}
  BY CountZero DEF TypeOK, In
<1>2. \A t : Out(t) = 0 <=> \A i \in DOMAIN outbox : outbox[i].type \notin {t}
  BY CountZero DEF TypeOK, Out
<1>3. \A t : In(t) \in Nat /\ Out(t) \in Nat BY Numbers
<1>4. \A n \in Nat : n > 0 <=> n # 0 OBVIOUS
<1>5. \A t : In(t) > 0 <=> In(t) # 0 BY <1>3, <1>4
<1>6. \A t : Out(t) > 0 <=> Out(t) # 0 BY <1>3, <1>4
<1> HIDE DEF In, Out
<1> QED BY <1>1, <1>2, <1>5, <1>6

\* The guest sends a message.
LEMMA Sent ==
  ASSUME TypeOK, NEW m \in Outbound, outbox' = Append(outbox, m)
  PROVE  /\ \A t : Out(t)' = IF t = m.type THEN Out(t) + 1 ELSE Out(t)
         /\ \A i \in DOMAIN outbox' : (i \in DOMAIN outbox /\ outbox'[i] = outbox[i]) \/ outbox'[i] = m
<1>1. outbox \in Seq(Outbound) BY DEF TypeOK
<1>2. \A t : Out(t)' = Out(t) + One(m.type \in {t}) BY <1>1, CountAppend DEF Out
<1>3. \A t : Out(t) \in Nat BY Numbers
<1>4. \A i \in DOMAIN outbox' : (i \in DOMAIN outbox /\ outbox'[i] = outbox[i]) \/ outbox'[i] = m
  BY <1>1
<1> HIDE DEF Out
<1> QED BY <1>2, <1>3, <1>4 DEF One

LEMMA Replies ==
  ASSUME TypeOK, TypeOK', GuestInv, input # "play", NEW c \in Allowed, c \in Answers,
         outbox' = Append(outbox, Msg("CHECK_RESULT", c)), input' = "play",
         UNCHANGED <<inbox, table, play>>
  PROVE  GuestInv'
<1> DEFINE m == Msg("CHECK_RESULT", c)
<1>1. m \in Outbound /\ m.type = "CHECK_RESULT" /\ m.what = c BY DEF Outbound, Msg
<1>2. /\ \A t : Out(t)' = IF t = "CHECK_RESULT" THEN Out(t) + 1 ELSE Out(t)
      /\ \A i \in DOMAIN outbox' : (i \in DOMAIN outbox /\ outbox'[i] = outbox[i]) \/ outbox'[i] = m
  BY <1>1, Sent
<1>3. \A t : In(t)' = In(t) BY DEF In
<1>4. \A t : In(t) \in Nat /\ Out(t) \in Nat BY Numbers
<1> HIDE DEF In, Out, m
<1>5. Question' BY <1>2, <1>3, <1>4 DEF GuestInv, Question, One
<1>6. Offers' BY <1>1, <1>2 DEF GuestInv, Offers, Allowed
<1>7. Move' BY <1>2, <1>3 DEF GuestInv, Move, One
<1>8. Melded' BY DEF GuestInv, Melded
<1>9. Rounds' BY <1>2, <1>3 DEF GuestInv, Rounds
<1>10. Thrown' BY <1>2, <1>3 DEF GuestInv, Thrown
<1>11. Drawn' BY <1>2, <1>3 DEF GuestInv, Drawn
<1>12. InOrder' BY DEF GuestInv, InOrder
<1> QED BY <1>5, <1>6, <1>7, <1>8, <1>9, <1>10, <1>11, <1>12 DEF GuestInv

LEMMA Nothing ==
  ASSUME TypeOK, TypeOK', GuestInv, UNCHANGED <<inbox, outbox, table, play, input, offer>>
  PROVE  GuestInv'
<1>1. \A t : In(t)' = In(t) /\ Out(t)' = Out(t) BY DEF In, Out
<1> HIDE DEF In, Out
<1> QED BY <1>1 DEF GuestInv, Question, Offers, Allowed, Move, Melded, Rounds, Thrown, Drawn, InOrder

LEMMA Chooses ==
  ASSUME TypeOK, TypeOK', GuestInv, input = "check", "eat" \in offer, input' = "eat",
         UNCHANGED <<inbox, outbox, table, play, offer>>
  PROVE  GuestInv'
<1>1. \A t : In(t)' = In(t) /\ Out(t)' = Out(t) BY DEF In, Out
<1> HIDE DEF In, Out
<1>2. Question' BY <1>1 DEF GuestInv, Question, One
<1>3. Offers' BY DEF GuestInv, Offers, Allowed
<1>4. Move' /\ Melded' /\ InOrder' BY <1>1 DEF GuestInv, Move, Melded, InOrder
<1>5. Rounds' /\ Thrown' /\ Drawn' BY <1>1 DEF GuestInv, Rounds, Thrown, Drawn
<1> QED BY <1>2, <1>3, <1>4, <1>5 DEF GuestInv

LEMMA Asks ==
  ASSUME TypeOK, TypeOK', GuestInv, play = "get", play' = "wait",
         outbox' = Append(outbox, Msg("REQUEST_CARD", "pass")),
         UNCHANGED <<inbox, table, input, offer>>
  PROVE  GuestInv'
<1> DEFINE m == Msg("REQUEST_CARD", "pass")
<1>1. m \in Outbound /\ m.type = "REQUEST_CARD" BY DEF Outbound, Msg
<1>2. /\ \A t : Out(t)' = IF t = "REQUEST_CARD" THEN Out(t) + 1 ELSE Out(t)
      /\ \A i \in DOMAIN outbox' : (i \in DOMAIN outbox /\ outbox'[i] = outbox[i]) \/ outbox'[i] = m
  BY <1>1, Sent
<1>3. \A t : In(t)' = In(t) BY DEF In
<1>4. \A t : In(t) \in Nat /\ Out(t) \in Nat BY Numbers
<1> HIDE DEF In, Out, m
<1>5. Question' BY <1>2, <1>3, <1>4 DEF GuestInv, Question, One
<1>6. Offers' BY <1>1, <1>2 DEF GuestInv, Offers, Allowed
<1>7. Move' BY <1>2, <1>3, <1>4 DEF GuestInv, Move, One
<1>8. Melded' /\ InOrder' BY DEF GuestInv, Melded, InOrder
<1>9. Rounds' BY <1>2, <1>3 DEF GuestInv, Rounds
<1>10. Thrown' BY <1>1, <1>2, <1>3 DEF GuestInv, Thrown
<1>11. Drawn' BY <1>2, <1>3 DEF GuestInv, Drawn
<1> QED BY <1>5, <1>6, <1>7, <1>8, <1>9, <1>10, <1>11 DEF GuestInv

LEMMA Throws ==
  ASSUME TypeOK, TypeOK', GuestInv, play = "throw", input = "play", ~Undecided, play' = "wait",
         outbox' = Append(outbox, Msg("THROW_CARD", "pass")),
         UNCHANGED <<inbox, table, input, offer>>
  PROVE  GuestInv'
<1> DEFINE m == Msg("THROW_CARD", "pass")
<1>1. m \in Outbound /\ m.type = "THROW_CARD" BY DEF Outbound, Msg
<1>2. /\ \A t : Out(t)' = IF t = "THROW_CARD" THEN Out(t) + 1 ELSE Out(t)
      /\ \A i \in DOMAIN outbox' : (i \in DOMAIN outbox /\ outbox'[i] = outbox[i]) \/ outbox'[i] = m
  BY <1>1, Sent
<1>3. \A t : In(t)' = In(t) BY DEF In
<1>4. \A t : In(t) \in Nat /\ Out(t) \in Nat BY Numbers
<1>5. /\ table.said = "pass"
      /\ \A i \in DOMAIN outbox : outbox[i].type = "CHECK_RESULT" => outbox[i].what = "pass"
      /\ In("EPK") = 0 /\ In("MAKE") = 0
  <2>1. \A t : In(t) > 0 => \E i \in DOMAIN inbox : inbox[i].type = t BY Found1
  <2> HIDE DEF In
  <2>2. ~(In("EPK") > 0) /\ ~(In("MAKE") > 0) BY <2>1 DEF Undecided
  <2> QED BY <1>4, <2>2 DEF Undecided
<1> HIDE DEF In, Out, m
<1>6. table.stage = "holding" BY <1>4, <1>5 DEF GuestInv, Move
<1>7. In("GET_CARD") = 0 /\ Out("THROW_CARD") = 0 BY <1>4, <1>5, <1>6, SMTT(40) DEF GuestInv, Move, One
<1>8. In("CHECK_CARD") = 0 BY <1>4, <1>6, <1>7 DEF GuestInv, Drawn
<1>9. Question' BY <1>2, <1>3, <1>4 DEF GuestInv, Question, One
<1>10. Offers' BY <1>1, <1>2 DEF GuestInv, Offers, Allowed
<1>11. Move' BY <1>2, <1>3, <1>4, <1>6, <1>7 DEF GuestInv, Move, One
<1>12. Melded' /\ InOrder' BY DEF GuestInv, Melded, InOrder
<1>13. Rounds' BY <1>2, <1>3 DEF GuestInv, Rounds
<1>14. Thrown' BY <1>1, <1>2, <1>3, <1>5, <1>8 DEF GuestInv, Thrown
<1>15. Drawn' BY <1>2, <1>3 DEF GuestInv, Drawn
<1> QED BY <1>9, <1>10, <1>11, <1>12, <1>13, <1>14, <1>15 DEF GuestInv

\* The guest reads a message.
LEMMA Read ==
  ASSUME TypeOK, inbox # <<>>, inbox' = Tail(inbox)
  PROVE  /\ Head(inbox) = inbox[1] /\ 1 \in DOMAIN inbox /\ Head(inbox) \in Inbound
         /\ \A t : In(t)' = IF t = Head(inbox).type THEN In(t) - 1 ELSE In(t)
         /\ \A i \in DOMAIN inbox' : i \in Nat /\ i > 0 /\ i + 1 \in DOMAIN inbox /\ inbox'[i] = inbox[i + 1]
<1>1. inbox \in Seq(Inbound) BY DEF TypeOK
<1>2. \A t : In(t) = One(Head(inbox).type \in {t}) + In(t)' BY <1>1, CountTail DEF In
<1>3. Tail(inbox) \in Seq(Inbound) BY <1>1
<1>4. \A t : In(t)' \in Nat BY <1>3, CountInNat DEF In
<1>5. /\ Head(inbox) = inbox[1] /\ 1 \in DOMAIN inbox /\ Head(inbox) \in Inbound
      /\ \A i \in DOMAIN inbox' : i \in Nat /\ i > 0 /\ i + 1 \in DOMAIN inbox /\ inbox'[i] = inbox[i + 1]
  BY <1>1
<1> HIDE DEF In
<1>6. \A t : In(t)' = IF t = Head(inbox).type THEN In(t) - 1 ELSE In(t)
  BY <1>2, <1>4 DEF One
<1> QED BY <1>5, <1>6

\* What is left of the box is in order, and nothing is where it may not be.
LEMMA ReadKeepsOrder ==
  ASSUME TypeOK, GuestInv, inbox # <<>>, inbox' = Tail(inbox), UNCHANGED table
  PROVE  InOrder' /\ Melded'
<1>1. \A i \in DOMAIN inbox' : i \in Nat /\ i + 1 \in DOMAIN inbox /\ inbox'[i] = inbox[i + 1] BY Read
<1>2. \A i, j \in Nat : i < j => i + 1 < j + 1 OBVIOUS
<1>3. InOrder' BY <1>1, <1>2 DEF GuestInv, InOrder
<1>4. Melded' BY <1>1 DEF GuestInv, Melded
<1> QED BY <1>3, <1>4

\* What comes after the head.
LEMMA Behind ==
  ASSUME TypeOK, InOrder, inbox # <<>>, inbox' = Tail(inbox), NEW t, In(t)' > 0
  PROVE  /\ t \in {"MAKE", "NEW_ROUND"} => Head(inbox).type \in {"GET_CARD", "MAKE"}
         /\ t = "GET_CARD" => Head(inbox).type = "CHECK_CARD"
         /\ t = "EPK" => Head(inbox).type = "GET_CARD"
<1>1. inbox \in Seq(Inbound) BY DEF TypeOK
<1>2. Tail(inbox) \in Seq(Inbound) BY <1>1
<1>3. In(t)' = 0 <=> \A i \in DOMAIN inbox' : inbox'[i].type \notin {t}
  BY <1>2, CountZero DEF In
<1>4. PICK i \in DOMAIN inbox' : inbox'[i].type = t
  <2> HIDE DEF In
  <2> QED BY <1>3
<1>5. 1 < i + 1 /\ i + 1 \in DOMAIN inbox /\ inbox[i + 1].type = t /\ Head(inbox) = inbox[1] /\ 1 \in DOMAIN inbox
  BY <1>4, Read
<1> QED BY <1>5 DEF InOrder

LEMMA ReadsCheck ==
  ASSUME TypeOK, TypeOK', GuestInv, inbox # <<>>, inbox' = Tail(inbox),
         Head(inbox).type = "CHECK_CARD", input' = "check", offer' = Head(inbox).what,
         UNCHANGED <<outbox, table, play>>
  PROVE  GuestInv'
<1>1. /\ Head(inbox) = inbox[1] /\ 1 \in DOMAIN inbox
      /\ \A t : In(t)' = IF t = Head(inbox).type THEN In(t) - 1 ELSE In(t)
      /\ \A i \in DOMAIN inbox' : i + 1 \in DOMAIN inbox /\ inbox'[i] = inbox[i + 1]
  BY Read
<1>2. \A t : Out(t)' = Out(t) BY DEF Out
<1>3. \A t : In(t) \in Nat /\ Out(t) \in Nat BY Numbers
<1>4. \A t : In(t)' \in Nat BY CountInNat DEF TypeOK, In
<1>5. InOrder' /\ Melded' BY ReadKeepsOrder
<1>6. /\ \A t \in {"MAKE", "NEW_ROUND"} : In(t)' > 0 => Head(inbox).type \in {"GET_CARD", "MAKE"}
      /\ In("GET_CARD")' > 0 => Head(inbox).type = "CHECK_CARD"
      /\ In("EPK")' > 0 => Head(inbox).type = "GET_CARD"
  BY Behind DEF GuestInv
<1> HIDE DEF In, Out
<1>7. In("CHECK_CARD") > 0 BY <1>1, <1>3, <1>4
<1>8. Question'
  <2>1. In("CHECK_CARD") + Out("CHECK_RESULT") + One(input # "play") = One(table.inCheck)
    BY DEF GuestInv, Question
  <2>2. One(input # "play") \in Nat /\ One(table.inCheck) \in {0, 1} BY DEF One
  <2>3. /\ In("CHECK_CARD") = 1 /\ Out("CHECK_RESULT") = 0
        /\ One(input # "play") = 0 /\ One(table.inCheck) = 1
    BY <1>3, <1>7, <2>1, <2>2
  <2>4. In("CHECK_CARD")' = 0 /\ Out("CHECK_RESULT")' = 0 BY <1>1, <1>2, <2>3
  <2>5. One(input # "play")' = 1 /\ One(table.inCheck)' = 1 BY <2>3 DEF One
  <2> QED BY <2>4, <2>5 DEF GuestInv, Question
<1>9. Offers' BY <1>1, <1>2, <1>3, <1>7 DEF GuestInv, Offers, Allowed
<1>10. Move'
  <2>1. /\ In("CAN_GET")' = In("CAN_GET") - One(Head(inbox).type = "CAN_GET")
        /\ In("GET_CARD")' = In("GET_CARD") - One(Head(inbox).type = "GET_CARD")
        /\ In("EPK")' = In("EPK") - One(Head(inbox).type = "EPK")
        /\ In("MAKE")' = In("MAKE") - One(Head(inbox).type = "MAKE")
    BY <1>1, <1>3 DEF One
  <2>2. /\ In("CAN_GET")' \in Nat /\ In("GET_CARD")' \in Nat /\ In("EPK")' \in Nat
        /\ In("MAKE")' \in Nat
    BY <1>4
  <2>3. /\ In("CAN_GET") \in Nat /\ In("GET_CARD") \in Nat /\ In("EPK") \in Nat
        /\ In("MAKE") \in Nat /\ In("NEW_ROUND") \in Nat
        /\ Out("REQUEST_CARD") \in Nat /\ Out("THROW_CARD") \in Nat
    BY <1>3
  <2>4. Out("REQUEST_CARD")' = Out("REQUEST_CARD") /\ Out("THROW_CARD")' = Out("THROW_CARD")
    BY <1>2
  <2>5. In("GET_CARD")' = 0 \/ Head(inbox).type = "CHECK_CARD" BY <1>4, <1>6
  <2>6. table'.stage = table.stage /\ Move /\ Rounds BY DEF GuestInv
  <2> QED BY <1>7, <2>1, <2>2, <2>3, <2>4, <2>5, <2>6, SMTT(40) DEF Move, One, Rounds
<1>11. Rounds' BY <1>1, <1>2, <1>3, <1>4, <1>6, <1>7 DEF GuestInv, Rounds
<1>12. Thrown' BY <1>1, <1>2, <1>3, <1>4, <1>7 DEF GuestInv, Thrown
<1>13. Drawn' BY <1>1, <1>2, <1>3, <1>4, <1>6, <1>7, SMTT(40) DEF GuestInv, Drawn, Question, One
<1> QED BY <1>5, <1>8, <1>9, <1>10, <1>11, <1>12, <1>13 DEF GuestInv

LEMMA ReadsTurn ==
  ASSUME TypeOK, TypeOK', GuestInv, inbox # <<>>, inbox' = Tail(inbox), Head(inbox).type = "CAN_GET",
         play' = "get", UNCHANGED <<outbox, table, input, offer>>
  PROVE  GuestInv'
<1>1. /\ Head(inbox) = inbox[1] /\ 1 \in DOMAIN inbox
      /\ \A t : In(t)' = IF t = Head(inbox).type THEN In(t) - 1 ELSE In(t)
      /\ \A i \in DOMAIN inbox' : i + 1 \in DOMAIN inbox /\ inbox'[i] = inbox[i + 1]
  BY Read
<1>2. \A t : Out(t)' = Out(t) BY DEF Out
<1>3. \A t : In(t) \in Nat /\ Out(t) \in Nat BY Numbers
<1>4. \A t : In(t)' \in Nat BY CountInNat DEF TypeOK, In
<1>5. InOrder' /\ Melded' BY ReadKeepsOrder
<1>6. /\ \A t \in {"MAKE", "NEW_ROUND"} : In(t)' > 0 => Head(inbox).type \in {"GET_CARD", "MAKE"}
      /\ In("GET_CARD")' > 0 => Head(inbox).type = "CHECK_CARD"
      /\ In("EPK")' > 0 => Head(inbox).type = "GET_CARD"
  BY Behind DEF GuestInv
<1> HIDE DEF In, Out
<1>7. /\ In("CAN_GET")' = In("CAN_GET") - 1 /\ In("CAN_GET") > 0
      /\ In("CHECK_CARD")' = In("CHECK_CARD")
      /\ In("EPK")' = In("EPK")
      /\ In("GET_CARD")' = In("GET_CARD")
      /\ In("MAKE")' = In("MAKE")
      /\ In("NEW_ROUND")' = In("NEW_ROUND")
  BY <1>1, <1>3, <1>4
<1>8. Question' BY <1>2, <1>7 DEF GuestInv, Question
<1>9. Offers' BY <1>1, <1>2, <1>3, <1>7 DEF GuestInv, Offers, Allowed
<1>10. Move'
  <2>1. One(play = "get") \in Nat /\ One(play = "throw") \in Nat BY DEF One
  <2>2. table.stage = "ours" BY <1>3, <1>7, SMTT(40) DEF GuestInv, Move
  <2>3. In("CAN_GET") + In("EPK") + One(play = "get") + Out("REQUEST_CARD") = 1
    BY <2>2 DEF GuestInv, Move
  <2>a. /\ In("CAN_GET") \in Nat /\ In("EPK") \in Nat /\ Out("REQUEST_CARD") \in Nat
        /\ In("CAN_GET") > 0
    BY <1>3, <1>7
  <2>4. In("CAN_GET") = 1 /\ In("EPK") = 0 /\ Out("REQUEST_CARD") = 0 BY <2>1, <2>3, <2>a
  <2>5. In("GET_CARD")' = 0 BY <1>4, <1>6
  <2>6. In("CAN_GET")' = 0 /\ In("EPK")' = 0 /\ Out("REQUEST_CARD")' = 0 BY <1>2, <1>7, <2>4
  <2>7. One(play = "get")' = 1 BY DEF One
  <2>8. Out("THROW_CARD")' = 0 BY <1>2, <2>2 DEF GuestInv, Move
  <2> QED BY <2>2, <2>5, <2>6, <2>7, <2>8 DEF Move
<1>11. Rounds' BY <1>2, <1>3, <1>4, <1>6, <1>7, SMTT(40) DEF GuestInv, Rounds, Move
<1>12. Thrown' BY <1>2, <1>3, <1>4, <1>7 DEF GuestInv, Thrown
<1>13. Drawn' BY <1>1, <1>2, <1>3, <1>4, <1>6, <1>7 DEF GuestInv, Drawn
<1> QED BY <1>5, <1>8, <1>9, <1>10, <1>11, <1>12, <1>13 DEF GuestInv

LEMMA ReadsCard ==
  ASSUME TypeOK, TypeOK', GuestInv, inbox # <<>>, inbox' = Tail(inbox), Head(inbox).type = "GET_CARD",
         play' = "throw", UNCHANGED <<outbox, table, input, offer>>
  PROVE  GuestInv'
<1>1. /\ Head(inbox) = inbox[1] /\ 1 \in DOMAIN inbox
      /\ \A t : In(t)' = IF t = Head(inbox).type THEN In(t) - 1 ELSE In(t)
      /\ \A i \in DOMAIN inbox' : i + 1 \in DOMAIN inbox /\ inbox'[i] = inbox[i + 1]
  BY Read
<1>2. \A t : Out(t)' = Out(t) BY DEF Out
<1>3. \A t : In(t) \in Nat /\ Out(t) \in Nat BY Numbers
<1>4. \A t : In(t)' \in Nat BY CountInNat DEF TypeOK, In
<1>5. InOrder' /\ Melded' BY ReadKeepsOrder
<1>6. /\ \A t \in {"MAKE", "NEW_ROUND"} : In(t)' > 0 => Head(inbox).type \in {"GET_CARD", "MAKE"}
      /\ In("GET_CARD")' > 0 => Head(inbox).type = "CHECK_CARD"
      /\ In("EPK")' > 0 => Head(inbox).type = "GET_CARD"
  BY Behind DEF GuestInv
<1> HIDE DEF In, Out
<1>7. /\ In("GET_CARD")' = In("GET_CARD") - 1 /\ In("GET_CARD") > 0
      /\ In("CHECK_CARD")' = In("CHECK_CARD")
      /\ In("CAN_GET")' = In("CAN_GET")
      /\ In("EPK")' = In("EPK")
      /\ In("MAKE")' = In("MAKE")
      /\ In("NEW_ROUND")' = In("NEW_ROUND")
  BY <1>1, <1>3, <1>4, SMTT(40)
<1>8. Question' BY <1>2, <1>7 DEF GuestInv, Question
<1>9. Offers' BY <1>1, <1>2, <1>3, <1>7 DEF GuestInv, Offers, Allowed
<1>10. Move'
  <2>1. One(play = "get") \in Nat /\ One(play = "throw") \in Nat BY DEF One
  <2>2. One(play = "throw")' = 1 /\ One(play = "get")' = 0 BY DEF One
  <2>3. CASE table.stage = "holding"
    <3>1. In("GET_CARD") + In("EPK") + One(play = "throw") + Out("THROW_CARD") = 1
      BY <2>3 DEF GuestInv, Move
    <3>a. /\ In("GET_CARD") \in Nat /\ In("EPK") \in Nat /\ Out("THROW_CARD") \in Nat
          /\ In("GET_CARD") > 0
      BY <1>3, <1>7
    <3>2. In("GET_CARD") = 1 /\ In("EPK") = 0 /\ Out("THROW_CARD") = 0 BY <2>1, <3>1, <3>a
    <3>3. In("GET_CARD")' = 0 /\ In("EPK")' = 0 /\ Out("THROW_CARD")' = 0 BY <1>2, <1>7, <3>2
    <3>4. In("CAN_GET")' = 0 /\ Out("REQUEST_CARD")' = 0 BY <1>2, <1>7, <2>3 DEF GuestInv, Move
    <3> QED BY <2>2, <2>3, <3>3, <3>4 DEF Move
  <2>4. CASE table.stage # "holding"
    <3>1. In("MAKE") + In("EPK") > 0 /\ Out("THROW_CARD") = 0 BY <1>7, <2>4 DEF GuestInv, Move
    <3>2. In("MAKE")' + In("EPK")' > 0 /\ Out("THROW_CARD")' = 0 BY <1>2, <1>7, <3>1
    <3>3. CASE table.stage = "ours"
      <4>1. In("CAN_GET") + In("EPK") + One(play = "get") + Out("REQUEST_CARD") = 1
        BY <3>3 DEF GuestInv, Move
      <4>2. In("EPK") > 0 \/ In("CAN_GET") = 1
        BY <1>3, <3>1, <3>3 DEF GuestInv, Rounds
      <4>3. One(play = "get") = 0 BY <1>3, <2>1, <4>1, <4>2
      <4>4. In("CAN_GET")' + In("EPK")' + One(play = "get")' + Out("REQUEST_CARD")' = 1
        BY <1>2, <1>7, <2>2, <4>1, <4>3
      <4> QED BY <2>4, <3>2, <3>3, <4>4 DEF Move
    <3>4. CASE table.stage # "ours"
      <4>1. In("CAN_GET")' = 0 /\ Out("REQUEST_CARD")' = 0 BY <1>2, <1>7, <3>4 DEF GuestInv, Move
      <4> QED BY <2>4, <3>2, <3>4, <4>1 DEF Move
    <3> QED BY <3>3, <3>4
  <2> QED BY <2>3, <2>4
<1>11. Rounds' BY <1>2, <1>3, <1>4, <1>6, <1>7 DEF GuestInv, Rounds, Move
<1>12. Thrown' BY <1>2, <1>3, <1>4, <1>7 DEF GuestInv, Thrown
<1>13. Drawn' BY <1>1, <1>2, <1>3, <1>4, <1>6, <1>7 DEF GuestInv, Drawn
<1> QED BY <1>5, <1>8, <1>9, <1>10, <1>11, <1>12, <1>13 DEF GuestInv

LEMMA ReadsMeld ==
  ASSUME TypeOK, TypeOK', GuestInv, inbox # <<>>, inbox' = Tail(inbox), Head(inbox).type = "EPK",
         play' = IF Head(inbox).what = {"kang"} THEN "get" ELSE "throw",
         UNCHANGED <<outbox, table, input, offer>>
  PROVE  GuestInv'
<1>1. /\ Head(inbox) = inbox[1] /\ 1 \in DOMAIN inbox
      /\ \A t : In(t)' = IF t = Head(inbox).type THEN In(t) - 1 ELSE In(t)
      /\ \A i \in DOMAIN inbox' : i + 1 \in DOMAIN inbox /\ inbox'[i] = inbox[i + 1]
  BY Read
<1>2. \A t : Out(t)' = Out(t) BY DEF Out
<1>3. \A t : In(t) \in Nat /\ Out(t) \in Nat BY Numbers
<1>4. \A t : In(t)' \in Nat BY CountInNat DEF TypeOK, In
<1>5. InOrder' /\ Melded' BY ReadKeepsOrder
<1>6. /\ \A t \in {"MAKE", "NEW_ROUND"} : In(t)' > 0 => Head(inbox).type \in {"GET_CARD", "MAKE"}
      /\ In("GET_CARD")' > 0 => Head(inbox).type = "CHECK_CARD"
      /\ In("EPK")' > 0 => Head(inbox).type = "GET_CARD"
  BY Behind DEF GuestInv
<1> HIDE DEF In, Out
<1>7. /\ In("EPK")' = In("EPK") - 1 /\ In("EPK") > 0
      /\ In("CHECK_CARD")' = In("CHECK_CARD")
      /\ In("CAN_GET")' = In("CAN_GET")
      /\ In("GET_CARD")' = In("GET_CARD")
      /\ In("MAKE")' = In("MAKE")
      /\ In("NEW_ROUND")' = In("NEW_ROUND")
  BY <1>1, <1>3, <1>4, SMTT(40)
<1>a. \/ table.stage = "ours" /\ play' = "get"
      \/ table.stage = "holding" /\ play' = "throw"
  BY <1>1 DEF GuestInv, Melded
<1>8. Question' BY <1>2, <1>7 DEF GuestInv, Question
<1>9. Offers' BY <1>1, <1>2, <1>3, <1>7 DEF GuestInv, Offers, Allowed
<1>10. Move'
  <2>1. One(play = "get") \in Nat /\ One(play = "throw") \in Nat BY DEF One
  <2>2. In("GET_CARD")' = 0 BY <1>4, <1>6
  <2>3. CASE table.stage = "ours" /\ play' = "get"
    <3>1. In("CAN_GET") + In("EPK") + One(play = "get") + Out("REQUEST_CARD") = 1
      BY <2>3 DEF GuestInv, Move
    <3>a. /\ In("CAN_GET") \in Nat /\ In("EPK") \in Nat /\ Out("REQUEST_CARD") \in Nat
          /\ In("EPK") > 0
      BY <1>3, <1>7
    <3>2. In("EPK") = 1 /\ In("CAN_GET") = 0 /\ Out("REQUEST_CARD") = 0 BY <2>1, <3>1, <3>a
    <3>3. In("EPK")' = 0 /\ In("CAN_GET")' = 0 /\ Out("REQUEST_CARD")' = 0 BY <1>2, <1>7, <3>2
    <3>4. One(play = "get")' = 1 BY <2>3 DEF One
    <3>5. Out("THROW_CARD")' = 0 BY <1>2, <2>3 DEF GuestInv, Move
    <3> QED BY <2>2, <2>3, <3>3, <3>4, <3>5 DEF Move
  <2>4. CASE table.stage = "holding" /\ play' = "throw"
    <3>1. In("GET_CARD") + In("EPK") + One(play = "throw") + Out("THROW_CARD") = 1
      BY <2>4 DEF GuestInv, Move
    <3>a. /\ In("GET_CARD") \in Nat /\ In("EPK") \in Nat /\ Out("THROW_CARD") \in Nat
          /\ In("EPK") > 0
      BY <1>3, <1>7
    <3>2. In("EPK") = 1 /\ Out("THROW_CARD") = 0 BY <2>1, <3>1, <3>a
    <3>3. In("EPK")' = 0 /\ Out("THROW_CARD")' = 0 BY <1>2, <1>7, <3>2
    <3>4. One(play = "throw")' = 1 BY <2>4 DEF One
    <3>5. In("CAN_GET")' = 0 /\ Out("REQUEST_CARD")' = 0 BY <1>2, <1>7, <2>4 DEF GuestInv, Move
    <3> QED BY <2>2, <2>4, <3>3, <3>4, <3>5 DEF Move
  <2> QED BY <1>a, <2>3, <2>4
<1>11. Rounds' BY <1>2, <1>3, <1>4, <1>6, <1>7 DEF GuestInv, Rounds, Move
<1>12. Thrown' BY <1>2, <1>3, <1>4, <1>7 DEF GuestInv, Thrown
<1>13. Drawn' BY <1>1, <1>2, <1>3, <1>4, <1>6, <1>7 DEF GuestInv, Drawn
<1> QED BY <1>5, <1>8, <1>9, <1>10, <1>11, <1>12, <1>13 DEF GuestInv

LEMMA ReadsMake ==
  ASSUME TypeOK, TypeOK', GuestInv, inbox # <<>>, inbox' = Tail(inbox), Head(inbox).type = "MAKE",
         play' = "wait", UNCHANGED <<outbox, table, input, offer>>
  PROVE  GuestInv'
<1>1. /\ Head(inbox) = inbox[1] /\ 1 \in DOMAIN inbox
      /\ \A t : In(t)' = IF t = Head(inbox).type THEN In(t) - 1 ELSE In(t)
      /\ \A i \in DOMAIN inbox' : i + 1 \in DOMAIN inbox /\ inbox'[i] = inbox[i + 1]
  BY Read
<1>2. \A t : Out(t)' = Out(t) BY DEF Out
<1>3. \A t : In(t) \in Nat /\ Out(t) \in Nat BY Numbers
<1>4. \A t : In(t)' \in Nat BY CountInNat DEF TypeOK, In
<1>5. InOrder' /\ Melded' BY ReadKeepsOrder
<1>6. /\ \A t \in {"MAKE", "NEW_ROUND"} : In(t)' > 0 => Head(inbox).type \in {"GET_CARD", "MAKE"}
      /\ In("GET_CARD")' > 0 => Head(inbox).type = "CHECK_CARD"
      /\ In("EPK")' > 0 => Head(inbox).type = "GET_CARD"
  BY Behind DEF GuestInv
<1> HIDE DEF In, Out
<1>7. /\ In("MAKE")' = In("MAKE") - 1 /\ In("MAKE") > 0
      /\ In("CHECK_CARD")' = In("CHECK_CARD")
      /\ In("CAN_GET")' = In("CAN_GET")
      /\ In("EPK")' = In("EPK")
      /\ In("GET_CARD")' = In("GET_CARD")
      /\ In("NEW_ROUND")' = In("NEW_ROUND")
  BY <1>1, <1>3, <1>4
<1>8. Question' BY <1>2, <1>7 DEF GuestInv, Question
<1>9. Offers' BY <1>1, <1>2, <1>3, <1>7 DEF GuestInv, Offers, Allowed
<1>10. Move'
  <2>1. One(play = "get") \in Nat /\ One(play = "throw") \in Nat BY DEF One
  <2>2. table.stage # "holding" /\ Out("THROW_CARD") = 0
    BY <1>3, <1>7, SMTT(40) DEF GuestInv, Rounds, Move
  <2>3. In("GET_CARD")' = 0 BY <1>4, <1>6
  <2>4. One(play = "get")' = 0 BY DEF One
  <2>5. CASE table.stage = "ours"
    <3>1. In("CAN_GET") = 1 BY <1>3, <1>7, <2>5, SMTT(40) DEF GuestInv, Rounds
    <3>2. In("CAN_GET") + In("EPK") + One(play = "get") + Out("REQUEST_CARD") = 1
      BY <2>5 DEF GuestInv, Move
    <3>3. In("EPK") = 0 /\ Out("REQUEST_CARD") = 0 BY <1>3, <2>1, <3>1, <3>2, SMTT(40)
    <3> QED BY <1>2, <1>7, <2>2, <2>3, <2>4, <2>5, <3>1, <3>3 DEF Move
  <2>6. CASE table.stage # "ours"
    <3>1. In("CAN_GET")' = 0 /\ Out("REQUEST_CARD")' = 0 BY <1>2, <1>7, <2>6 DEF GuestInv, Move
    <3> QED BY <1>2, <2>2, <2>3, <2>6, <3>1 DEF Move
  <2> QED BY <2>5, <2>6
<1>11. Rounds' BY <1>2, <1>3, <1>4, <1>6, <1>7, SMTT(40) DEF GuestInv, Rounds, Move
<1>12. Thrown' BY <1>2, <1>3, <1>4, <1>7 DEF GuestInv, Thrown
<1>13. Drawn' BY <1>1, <1>2, <1>3, <1>4, <1>6, <1>7 DEF GuestInv, Drawn
<1> QED BY <1>5, <1>8, <1>9, <1>10, <1>11, <1>12, <1>13 DEF GuestInv

LEMMA ReadsNewRound ==
  ASSUME TypeOK, TypeOK', GuestInv, inbox # <<>>, inbox' = Tail(inbox), Head(inbox).type = "NEW_ROUND",
         play' = "wait", input' = "play", UNCHANGED <<outbox, table>>
  PROVE  GuestInv'
<1>1. /\ Head(inbox) = inbox[1] /\ 1 \in DOMAIN inbox
      /\ \A t : In(t)' = IF t = Head(inbox).type THEN In(t) - 1 ELSE In(t)
      /\ \A i \in DOMAIN inbox' : i + 1 \in DOMAIN inbox /\ inbox'[i] = inbox[i + 1]
  BY Read
<1>2. \A t : Out(t)' = Out(t) BY DEF Out
<1>3. \A t : In(t) \in Nat /\ Out(t) \in Nat BY Numbers
<1>4. \A t : In(t)' \in Nat BY CountInNat DEF TypeOK, In
<1>5. InOrder' /\ Melded' BY ReadKeepsOrder
<1>6. /\ \A t \in {"MAKE", "NEW_ROUND"} : In(t)' > 0 => Head(inbox).type \in {"GET_CARD", "MAKE"}
      /\ In("GET_CARD")' > 0 => Head(inbox).type = "CHECK_CARD"
      /\ In("EPK")' > 0 => Head(inbox).type = "GET_CARD"
  BY Behind DEF GuestInv
<1> HIDE DEF In, Out
<1>7. /\ In("NEW_ROUND")' = In("NEW_ROUND") - 1 /\ In("NEW_ROUND") > 0
      /\ In("CHECK_CARD")' = In("CHECK_CARD")
      /\ In("CAN_GET")' = In("CAN_GET")
      /\ In("EPK")' = In("EPK")
      /\ In("GET_CARD")' = In("GET_CARD")
      /\ In("MAKE")' = In("MAKE")
  BY <1>1, <1>3, <1>4
<1>a. input = "play" BY <1>3, <1>7, SMTT(40) DEF GuestInv, Rounds
<1>8. Question' BY <1>2, <1>7, <1>a DEF GuestInv, Question
<1>9. Offers' BY <1>1, <1>2, <1>3, <1>7 DEF GuestInv, Offers, Allowed
<1>10. Move'
  <2>1. One(play = "get") \in Nat /\ One(play = "throw") \in Nat BY DEF One
  <2>2. table.stage # "holding" /\ Out("THROW_CARD") = 0
    BY <1>3, <1>7, SMTT(40) DEF GuestInv, Rounds, Move
  <2>3. In("GET_CARD")' = 0 BY <1>4, <1>6
  <2>4. One(play = "get")' = 0 BY DEF One
  <2>5. CASE table.stage = "ours"
    <3>1. In("CAN_GET") = 1 BY <1>3, <1>7, <2>5, SMTT(40) DEF GuestInv, Rounds
    <3>2. In("CAN_GET") + In("EPK") + One(play = "get") + Out("REQUEST_CARD") = 1
      BY <2>5 DEF GuestInv, Move
    <3>3. In("EPK") = 0 /\ Out("REQUEST_CARD") = 0 BY <1>3, <2>1, <3>1, <3>2, SMTT(40)
    <3> QED BY <1>2, <1>7, <2>2, <2>3, <2>4, <2>5, <3>1, <3>3 DEF Move
  <2>6. CASE table.stage # "ours"
    <3>1. In("CAN_GET")' = 0 /\ Out("REQUEST_CARD")' = 0 BY <1>2, <1>7, <2>6 DEF GuestInv, Move
    <3> QED BY <1>2, <2>2, <2>3, <2>6, <3>1 DEF Move
  <2> QED BY <2>5, <2>6
<1>11. Rounds' BY <1>2, <1>3, <1>4, <1>6, <1>7, SMTT(40) DEF GuestInv, Rounds, Move
<1>12. Thrown' BY <1>2, <1>3, <1>4, <1>7 DEF GuestInv, Thrown
<1>13. Drawn' BY <1>1, <1>2, <1>3, <1>4, <1>6, <1>7 DEF GuestInv, Drawn
<1> QED BY <1>5, <1>8, <1>9, <1>10, <1>11, <1>12, <1>13 DEF GuestInv

\* A message is put into the guest's box.
LEMMA Delivered ==
  ASSUME TypeOK, NEW m \in Inbound, inbox' = inbox \o <<m>>
  PROVE  /\ \A t : In(t)' = IF t = m.type THEN In(t) + 1 ELSE In(t)
         /\ \A i \in DOMAIN inbox' : \/ i \in DOMAIN inbox /\ inbox'[i] = inbox[i]
                                     \/ i = Len(inbox) + 1 /\ inbox'[i] = m
         /\ DOMAIN inbox = 1 .. Len(inbox) /\ Len(inbox) \in Nat
<1>1. inbox \in Seq(Inbound) BY DEF TypeOK
<1>2. inbox' = Append(inbox, m) BY <1>1
<1>3. \A t : In(t)' = In(t) + One(m.type \in {t}) BY <1>1, <1>2, CountAppend, ZenonT(60) DEF In
<1>4. \A t : In(t) \in Nat BY Numbers
<1>5. /\ \A i \in DOMAIN inbox' : \/ i \in DOMAIN inbox /\ inbox'[i] = inbox[i]
                                  \/ i = Len(inbox) + 1 /\ inbox'[i] = m
      /\ DOMAIN inbox = 1 .. Len(inbox) /\ Len(inbox) \in Nat
  BY <1>1, <1>2
<1> HIDE DEF In
<1> QED BY <1>3, <1>4, <1>5 DEF One

\* So are two.
LEMMA DeliveredTwo ==
  ASSUME TypeOK, NEW a \in Inbound, NEW b \in Inbound, inbox' = inbox \o <<a, b>>
  PROVE  /\ \A t : In(t)' = In(t) + (IF t = a.type THEN 1 ELSE 0) + (IF t = b.type THEN 1 ELSE 0)
         /\ \A i \in DOMAIN inbox' : \/ i \in DOMAIN inbox /\ inbox'[i] = inbox[i]
                                     \/ i = Len(inbox) + 1 /\ inbox'[i] = a
                                     \/ i = Len(inbox) + 2 /\ inbox'[i] = b
         /\ DOMAIN inbox = 1 .. Len(inbox) /\ Len(inbox) \in Nat
<1>1. inbox \in Seq(Inbound) BY DEF TypeOK
<1> DEFINE box == Append(inbox, a)
<1>2. box \in Seq(Inbound) /\ inbox' = Append(box, b) BY <1>1
<1>3. \A t : Count(box, {t}) = Count(inbox, {t}) + One(a.type \in {t}) BY <1>1, CountAppend
<1> HIDE DEF box
<1>4. \A t : Count(inbox', {t}) = Count(box, {t}) + One(b.type \in {t}) BY <1>2, CountAppend, ZenonT(60)
<1>5. \A t : Count(inbox, {t}) \in Nat BY <1>1, CountInNat
<1>6. \A t : In(t)' = In(t) + (IF t = a.type THEN 1 ELSE 0) + (IF t = b.type THEN 1 ELSE 0)
  BY <1>3, <1>4, <1>5 DEF In, One
<1>7. /\ \A i \in DOMAIN inbox' : \/ i \in DOMAIN inbox /\ inbox'[i] = inbox[i]
                                  \/ i = Len(inbox) + 1 /\ inbox'[i] = a
                                  \/ i = Len(inbox) + 2 /\ inbox'[i] = b
      /\ DOMAIN inbox = 1 .. Len(inbox) /\ Len(inbox) \in Nat
  BY <1>1
<1> HIDE DEF In
<1> QED BY <1>6, <1>7

\* The host reads a message.
LEMMA Heard ==
  ASSUME TypeOK, outbox # <<>>, outbox' = Tail(outbox)
  PROVE  /\ Head(outbox) = outbox[1] /\ 1 \in DOMAIN outbox /\ Head(outbox) \in Outbound
         /\ \A t : Out(t)' = IF t = Head(outbox).type THEN Out(t) - 1 ELSE Out(t)
         /\ \A t : Out(t)' \in Nat
         /\ \A i \in DOMAIN outbox' : i + 1 \in DOMAIN outbox /\ outbox'[i] = outbox[i + 1]
<1>1. outbox \in Seq(Outbound) BY DEF TypeOK
<1>2. \A t : Out(t) = One(Head(outbox).type \in {t}) + Out(t)' BY <1>1, CountTail DEF Out
<1>3. Tail(outbox) \in Seq(Outbound) BY <1>1
<1>4. \A t : Out(t)' \in Nat BY <1>3, CountInNat DEF Out
<1>5. /\ Head(outbox) = outbox[1] /\ 1 \in DOMAIN outbox /\ Head(outbox) \in Outbound
      /\ \A i \in DOMAIN outbox' : i + 1 \in DOMAIN outbox /\ outbox'[i] = outbox[i + 1]
  BY <1>1
<1> HIDE DEF Out
<1>6. \A t : Out(t)' = IF t = Head(outbox).type THEN Out(t) - 1 ELSE Out(t)
  BY <1>2, <1>4 DEF One
<1> QED BY <1>4, <1>5, <1>6

\* No meld is under way when the host is not waiting for the guest to make its move.
LEMMA NoMeld ==
  ASSUME TypeOK, GuestInv, table.stage # "ours", table.stage # "holding" \/ table.checkOn
  PROVE  In("EPK") = 0
<1>1. In("EPK") > 0 => \E i \in DOMAIN inbox : inbox[i].type = "EPK" BY Found1
<1>2. In("EPK") \in Nat BY Numbers
<1> HIDE DEF In
<1>3. ~(In("EPK") > 0) BY <1>1 DEF GuestInv, Melded
<1> QED BY <1>2, <1>3

\* Where nothing is counted nothing is.
LEMMA NothingIn ==
  ASSUME TypeOK, In("CHECK_CARD") = 0, In("CAN_GET") = 0, In("GET_CARD") = 0, In("EPK") = 0,
         In("MAKE") = 0, In("NEW_ROUND") = 0
  PROVE  inbox = <<>>
<1>1. inbox \in Seq(Inbound) BY DEF TypeOK
<1>2. \A t : In(t) > 0 <=> \E i \in DOMAIN inbox : inbox[i].type = t BY Found1
<1>3. ASSUME inbox # <<>> PROVE FALSE
  <2>1. 1 \in DOMAIN inbox /\ inbox[1] \in Inbound BY <1>1, <1>3
  <2>2. inbox[1].type \in {"CHECK_CARD", "CAN_GET", "GET_CARD", "EPK", "MAKE", "NEW_ROUND"}
    BY <2>1 DEF Inbound
  <2>3. In(inbox[1].type) > 0 BY <1>2, <2>1
  <2> HIDE DEF In
  <2> QED BY <2>2, <2>3
<1> QED BY <1>3

\* The host is not asking, and the guest has said all it had to.
LEMMA AtRest ==
  ASSUME TypeOK, GuestInv, ~table.inCheck
  PROVE  In("CHECK_CARD") = 0 /\ Out("CHECK_RESULT") = 0 /\ input = "play"
<1>1. In("CHECK_CARD") + Out("CHECK_RESULT") + One(input # "play") = One(table.inCheck)
  BY DEF GuestInv, Question
<1>2. In("CHECK_CARD") \in Nat /\ Out("CHECK_RESULT") \in Nat /\ One(input # "play") \in {0, 1}
  BY Numbers DEF One
<1>3. One(table.inCheck) = 0 BY DEF One
<1> HIDE DEF In, Out
<1>4. In("CHECK_CARD") = 0 /\ Out("CHECK_RESULT") = 0 /\ One(input # "play") = 0
  BY <1>1, <1>2, <1>3
<1> QED BY <1>4 DEF One

LEMMA Quieted ==
  ASSUME TypeOK, GuestInv, Quiet
  PROVE  /\ table.stage = "others" /\ ~table.checkOn /\ ~table.inCheck /\ table.said = "pass"
         /\ \A t : Out(t) = 0
         /\ In("CHECK_CARD") = 0 /\ In("CAN_GET") = 0 /\ In("EPK") = 0
         /\ input = "play" /\ play # "get"
<1>1. table.stage = "others" /\ ~table.checkOn BY DEF Quiet
<1>2. ~table.inCheck /\ table.said = "pass" BY <1>1 DEF GuestInv, Question
<1>3. \A t : Out(t) = 0 BY CountNone DEF Quiet, Out
<1> HIDE DEF In, Out
<1> QED BY <1>1, <1>2, <1>3, AtRest, NoMeld DEF GuestInv, Move

LEMMA OthersThrowKeeps ==
  ASSUME TypeOK, TypeOK', GuestInv, Quiet, NEW o \in SUBSET Calls,
         table' = [table EXCEPT !.checkOn = TRUE, !.offer = o, !.inCheck = TRUE],
         inbox' = inbox \o <<Msg("CHECK_CARD", o)>>, UNCHANGED <<outbox, play, input, offer>>
  PROVE  GuestInv'
<1> DEFINE m == Msg("CHECK_CARD", o)
<1>1. m \in Inbound /\ m.type = "CHECK_CARD" /\ m.what = o BY DEF Inbound, Msg
<1>2. /\ \A t : In(t)' = IF t = m.type THEN In(t) + 1 ELSE In(t)
      /\ \A i \in DOMAIN inbox' : \/ i \in DOMAIN inbox /\ inbox'[i] = inbox[i]
                                  \/ i = Len(inbox) + 1 /\ inbox'[i] = m
      /\ DOMAIN inbox = 1 .. Len(inbox) /\ Len(inbox) \in Nat
  BY <1>1, Delivered
<1>3. \A t : Out(t)' = Out(t) BY DEF Out
<1>4. /\ table.stage = "others" /\ ~table.checkOn /\ ~table.inCheck /\ table.said = "pass"
      /\ \A t : Out(t) = 0
      /\ In("CHECK_CARD") = 0 /\ In("CAN_GET") = 0 /\ In("EPK") = 0
      /\ input = "play" /\ play # "get"
  BY Quieted
<1>5. /\ table'.stage = "others" /\ table'.checkOn = TRUE /\ table'.inCheck = TRUE
      /\ table'.said = "pass" /\ table'.offer = o
  BY <1>4 DEF TypeOK, Tables
<1>6. \A i \in DOMAIN inbox : inbox[i].type # "CHECK_CARD" /\ inbox[i].type # "EPK"
  <2>1. \A t : In(t) > 0 <=> \E i \in DOMAIN inbox : inbox[i].type = t BY Found1
  <2> HIDE DEF In
  <2> QED BY <1>4, <2>1
<1>7. outbox = <<>> BY DEF Quiet
<1> HIDE DEF In, Out, m
<1>8. Question' BY <1>1, <1>2, <1>3, <1>4, <1>5 DEF Question, One
<1>9. Offers' BY <1>1, <1>2, <1>4, <1>5, <1>6, <1>7 DEF Offers, Allowed
<1>10. Move' BY <1>1, <1>2, <1>3, <1>4, <1>5 DEF GuestInv, Move
<1>11. Melded' BY <1>1, <1>2, <1>6 DEF Melded
<1>12. Rounds' BY <1>1, <1>2, <1>3, <1>4, <1>5 DEF Rounds
<1>13. Thrown' /\ Drawn' BY <1>3, <1>4, <1>5 DEF Thrown, Drawn
<1>14. InOrder' BY <1>1, <1>2 DEF GuestInv, InOrder
<1> QED BY <1>8, <1>9, <1>10, <1>11, <1>12, <1>13, <1>14 DEF GuestInv

LEMMA OurTurnKeeps ==
  ASSUME TypeOK, TypeOK', GuestInv, Quiet, table' = [table EXCEPT !.stage = "ours"],
         inbox' = inbox \o <<Msg("CAN_GET", {})>>, UNCHANGED <<outbox, play, input, offer>>
  PROVE  GuestInv'
<1> DEFINE m == Msg("CAN_GET", {})
<1>1. m \in Inbound /\ m.type = "CAN_GET" BY DEF Inbound, Msg
<1>2. /\ \A t : In(t)' = IF t = m.type THEN In(t) + 1 ELSE In(t)
      /\ \A i \in DOMAIN inbox' : \/ i \in DOMAIN inbox /\ inbox'[i] = inbox[i]
                                  \/ i = Len(inbox) + 1 /\ inbox'[i] = m
      /\ DOMAIN inbox = 1 .. Len(inbox) /\ Len(inbox) \in Nat
  BY <1>1, Delivered
<1>3. \A t : Out(t)' = Out(t) BY DEF Out
<1>4. /\ table.stage = "others" /\ ~table.checkOn /\ ~table.inCheck /\ table.said = "pass"
      /\ \A t : Out(t) = 0
      /\ In("CHECK_CARD") = 0 /\ In("CAN_GET") = 0 /\ In("EPK") = 0
      /\ input = "play" /\ play # "get"
  BY Quieted
<1>5. /\ table'.stage = "ours" /\ table'.checkOn = table.checkOn /\ table'.inCheck = table.inCheck
      /\ table'.said = "pass" /\ table'.offer = table.offer
  BY <1>4 DEF TypeOK, Tables
<1>6. \A i \in DOMAIN inbox : inbox[i].type # "CHECK_CARD" /\ inbox[i].type # "EPK"
  <2>1. \A t : In(t) > 0 <=> \E i \in DOMAIN inbox : inbox[i].type = t BY Found1
  <2> HIDE DEF In
  <2> QED BY <1>4, <2>1
<1>7. outbox = <<>> BY DEF Quiet
<1> HIDE DEF In, Out, m
<1>8. Question' BY <1>1, <1>2, <1>3, <1>4, <1>5 DEF Question, One
<1>9. Offers' BY <1>1, <1>2, <1>4, <1>5, <1>6, <1>7 DEF Offers, Allowed
<1>10. Move'
  <2>1. In("CAN_GET")' = 1 /\ In("EPK")' = 0 /\ Out("REQUEST_CARD")' = 0 /\ Out("THROW_CARD")' = 0
    BY <1>1, <1>2, <1>3, <1>4
  <2>2. One(play = "get")' = 0 BY <1>4 DEF One
  <2>3. In("GET_CARD")' > 0 \/ play' = "throw" => In("MAKE")' + In("EPK")' > 0
    BY <1>1, <1>2, <1>4 DEF GuestInv, Move
  <2> QED BY <1>5, <2>1, <2>2, <2>3 DEF Move
<1>11. Melded' BY <1>1, <1>2, <1>6 DEF Melded
<1>12. Rounds' BY <1>1, <1>2, <1>3, <1>4, <1>5 DEF Rounds
<1>13. Thrown' /\ Drawn' BY <1>3, <1>4, <1>5 DEF Thrown, Drawn
<1>14. InOrder' BY <1>1, <1>2 DEF GuestInv, InOrder
<1> QED BY <1>8, <1>9, <1>10, <1>11, <1>12, <1>13, <1>14 DEF GuestInv

\* A round is over: the guest is shown the tiles.
LEMMA RoundEnds ==
  ASSUME TypeOK, TypeOK', GuestInv, table.stage # "ours", ~table.inCheck,
         In("EPK") = 0, In("MAKE") = 0, In("NEW_ROUND") = 0, Out("THROW_CARD") = 0,
         table'.stage = "others", ~table'.checkOn, ~table'.inCheck, table'.said = "pass",
         inbox' = inbox \o <<Msg("MAKE", {}), Msg("NEW_ROUND", {})>>,
         UNCHANGED <<outbox, play, input, offer>>
  PROVE  GuestInv'
<1>1. inbox \in Seq(Inbound) BY DEF TypeOK
<1> DEFINE a == Msg("MAKE", {})
           b == Msg("NEW_ROUND", {})
           n == Len(inbox)
<1>2. /\ a \in Inbound /\ b \in Inbound /\ a.type = "MAKE" /\ b.type = "NEW_ROUND"
      /\ inbox' = inbox \o <<a, b>>
  BY DEF Inbound, Msg
<1> HIDE DEF a, b
<1>3. \A t : In(t)' = In(t) + (IF t = a.type THEN 1 ELSE 0) + (IF t = b.type THEN 1 ELSE 0)
  BY <1>2, DeliveredTwo
<1>4. /\ \A i \in DOMAIN inbox' : \/ i \in DOMAIN inbox /\ inbox'[i] = inbox[i]
                                  \/ i = n + 1 /\ inbox'[i] = a
                                  \/ i = n + 2 /\ inbox'[i] = b
      /\ DOMAIN inbox = 1 .. n /\ n \in Nat
  BY <1>2, DeliveredTwo
<1>5. \A t : Out(t)' = Out(t) BY DEF Out
<1>6. In("CHECK_CARD") = 0 /\ Out("CHECK_RESULT") = 0 /\ input = "play" BY AtRest
<1>7. \A t : In(t) \in Nat BY Numbers
<1>8. \A t : In(t) > 0 <=> \E i \in DOMAIN inbox : inbox[i].type = t BY Found1
<1>9. \A t : Out(t) > 0 <=> \E i \in DOMAIN outbox : outbox[i].type = t BY Found1
<1> HIDE DEF In, Out, n
<1>10. /\ In("CAN_GET") = 0 /\ play # "get" /\ Out("REQUEST_CARD") = 0 BY DEF GuestInv, Move
<1>11. \A i \in DOMAIN inbox : inbox[i].type = "GET_CARD"
  <2> TAKE i \in DOMAIN inbox
  <2>1. inbox[i] \in Inbound BY <1>1
  <2>2. inbox[i].type \in {"CHECK_CARD", "CAN_GET", "GET_CARD", "EPK", "MAKE", "NEW_ROUND"}
    BY <2>1 DEF Inbound
  <2>3. In(inbox[i].type) > 0 BY <1>8
  <2> QED BY <1>6, <1>10, <2>2, <2>3
<1>12. \A i \in DOMAIN outbox : outbox[i].type # "CHECK_RESULT" BY <1>6, <1>9
<1>13. /\ In("CHECK_CARD")' = 0 /\ In("CAN_GET")' = 0 /\ In("EPK")' = 0 /\ In("MAKE")' = 1
  BY <1>2, <1>3, <1>6, <1>7, <1>10
<1>14. Question' BY <1>5, <1>6, <1>13 DEF Question, One
<1>15. Offers' BY <1>2, <1>4, <1>6, <1>11, <1>12 DEF Offers, Allowed
<1>16. Move' BY <1>5, <1>10, <1>13 DEF Move
<1>17. Melded' BY <1>2, <1>4, <1>11 DEF Melded
<1>18. Rounds' BY <1>5, <1>6 DEF Rounds
<1>19. Thrown' /\ Drawn' BY <1>5 DEF Thrown, Drawn
<1>20. InOrder'
  <2> SUFFICES ASSUME NEW i \in DOMAIN inbox', NEW j \in DOMAIN inbox', i < j
               PROVE  /\ inbox'[j].type \in {"MAKE", "NEW_ROUND"} =>
                           inbox'[i].type \in {"GET_CARD", "MAKE"}
                      /\ inbox'[j].type = "GET_CARD" => inbox'[i].type = "CHECK_CARD"
                      /\ inbox'[j].type = "EPK" => inbox'[i].type = "GET_CARD"
    BY DEF InOrder
  <2>1. CASE j \in DOMAIN inbox
    <3>1. i \in DOMAIN inbox /\ inbox'[i] = inbox[i] /\ inbox'[j] = inbox[j] BY <1>4, <2>1
    <3> QED BY <2>1, <3>1 DEF GuestInv, InOrder
  <2>2. CASE j \notin DOMAIN inbox
    <3>1. inbox'[j].type \in {"MAKE", "NEW_ROUND"} BY <1>2, <1>4, <2>2
    <3>2. inbox'[i].type \in {"GET_CARD", "MAKE"} BY <1>2, <1>4, <1>11, <2>2
    <3> QED BY <3>1, <3>2
  <2> QED BY <2>1, <2>2
<1> QED BY <1>14, <1>15, <1>16, <1>17, <1>18, <1>19, <1>20 DEF GuestInv

LEMMA HearsAnswer ==
  ASSUME TypeOK, TypeOK', GuestInv, outbox # <<>>, outbox' = Tail(outbox),
         Head(outbox).type = "CHECK_RESULT",
         table' = [table EXCEPT !.inCheck = FALSE, !.said = Head(outbox).what],
         UNCHANGED <<inbox, play, input, offer>>
  PROVE  GuestInv'
<1>1. /\ Head(outbox) = outbox[1] /\ 1 \in DOMAIN outbox /\ Head(outbox) \in Outbound
      /\ \A t : Out(t)' = IF t = Head(outbox).type THEN Out(t) - 1 ELSE Out(t)
      /\ \A t : Out(t)' \in Nat
      /\ \A i \in DOMAIN outbox' : i + 1 \in DOMAIN outbox /\ outbox'[i] = outbox[i + 1]
  BY Heard
<1>2. \A t : In(t)' = In(t) BY DEF In
<1>3. \A t : In(t) \in Nat /\ Out(t) \in Nat BY Numbers
<1> HIDE DEF In, Out
<1>4. /\ Out("CHECK_RESULT")' = Out("CHECK_RESULT") - 1 /\ Out("CHECK_RESULT") > 0
      /\ Out("THROW_CARD")' = Out("THROW_CARD") /\ Out("REQUEST_CARD")' = Out("REQUEST_CARD")
  BY <1>1, <1>3
<1>5. /\ In("CHECK_CARD") = 0 /\ Out("CHECK_RESULT") = 1 /\ input = "play" /\ table.inCheck
  <2>1. In("CHECK_CARD") + Out("CHECK_RESULT") + One(input # "play") = One(table.inCheck)
    BY DEF GuestInv, Question
  <2>2. /\ In("CHECK_CARD") \in Nat /\ Out("CHECK_RESULT") \in Nat /\ Out("CHECK_RESULT") > 0
        /\ One(input # "play") \in {0, 1} /\ One(table.inCheck) \in {0, 1}
    BY <1>3, <1>4 DEF One
  <2>3. /\ In("CHECK_CARD") = 0 /\ Out("CHECK_RESULT") = 1 /\ One(input # "play") = 0
        /\ One(table.inCheck) = 1
    BY <2>1, <2>2
  <2> QED BY <2>3 DEF One
<1>6. table.checkOn /\ table.stage # "ours" BY <1>5 DEF GuestInv, Question
<1>7. /\ table'.stage = table.stage /\ (table'.checkOn <=> table.checkOn) /\ ~table'.inCheck
      /\ table'.said = Head(outbox).what /\ table'.offer = table.offer
  BY DEF TypeOK, Tables
<1>8. Head(outbox).what \in Allowed BY <1>1 DEF GuestInv, Offers
<1>9. Question' BY <1>2, <1>4, <1>5, <1>6, <1>7 DEF Question, One
<1>10. Offers' BY <1>1, <1>5, <1>7, <1>8 DEF GuestInv, Offers, Allowed
<1>11. Move' BY <1>2, <1>4, <1>7 DEF GuestInv, Move
<1>12. Melded' BY <1>7 DEF GuestInv, Melded
<1>13. Rounds' BY <1>2, <1>5 DEF GuestInv, Rounds
<1>14. Thrown' BY <1>1, <1>2, <1>4, <1>5, <1>7 DEF GuestInv, Thrown
<1>15. Drawn' BY <1>2, <1>5 DEF Drawn
<1>16. InOrder' BY DEF GuestInv, InOrder
<1> QED BY <1>9, <1>10, <1>11, <1>12, <1>13, <1>14, <1>15, <1>16 DEF GuestInv

LEMMA HearsThrow ==
  ASSUME TypeOK, TypeOK', GuestInv, outbox # <<>>, outbox' = Tail(outbox),
         Head(outbox).type = "THROW_CARD", table' = [table EXCEPT !.stage = "others"],
         UNCHANGED <<inbox, play, input, offer>>
  PROVE  GuestInv'
<1>1. /\ Head(outbox) = outbox[1] /\ 1 \in DOMAIN outbox /\ Head(outbox) \in Outbound
      /\ \A t : Out(t)' = IF t = Head(outbox).type THEN Out(t) - 1 ELSE Out(t)
      /\ \A t : Out(t)' \in Nat
      /\ \A i \in DOMAIN outbox' : i + 1 \in DOMAIN outbox /\ outbox'[i] = outbox[i + 1]
  BY Heard
<1>2. \A t : In(t)' = In(t) BY DEF In
<1>3. \A t : In(t) \in Nat /\ Out(t) \in Nat BY Numbers
<1>4. \A i \in DOMAIN inbox : inbox[i].type = "EPK" => In("EPK") > 0 BY Found1
<1> HIDE DEF In, Out
<1>5. /\ Out("THROW_CARD")' = Out("THROW_CARD") - 1 /\ Out("THROW_CARD") > 0
      /\ Out("CHECK_RESULT")' = Out("CHECK_RESULT") /\ Out("REQUEST_CARD")' = Out("REQUEST_CARD")
  BY <1>1, <1>3
<1>6. table.stage = "holding" BY <1>5 DEF GuestInv, Move
<1>7. In("GET_CARD") = 0 /\ In("EPK") = 0 /\ Out("THROW_CARD") = 1 /\ play # "throw"
  <2>1. In("GET_CARD") + In("EPK") + One(play = "throw") + Out("THROW_CARD") = 1
    BY <1>6 DEF GuestInv, Move
  <2>2. /\ In("GET_CARD") \in Nat /\ In("EPK") \in Nat /\ Out("THROW_CARD") \in Nat
        /\ One(play = "throw") \in {0, 1} /\ Out("THROW_CARD") > 0
    BY <1>3, <1>5 DEF One
  <2>3. In("GET_CARD") = 0 /\ In("EPK") = 0 /\ Out("THROW_CARD") = 1 /\ One(play = "throw") = 0
    BY <2>1, <2>2
  <2> QED BY <2>3 DEF One
<1>8. /\ table'.stage = "others" /\ (table'.checkOn <=> table.checkOn)
      /\ (table'.inCheck <=> table.inCheck)
      /\ table'.said = table.said /\ table'.offer = table.offer
  BY DEF TypeOK, Tables
<1>9. Question' BY <1>2, <1>5, <1>8 DEF GuestInv, Question, One
<1>10. Offers' BY <1>1, <1>8 DEF GuestInv, Offers, Allowed
<1>11. Move' BY <1>2, <1>5, <1>6, <1>7, <1>8 DEF GuestInv, Move
<1>12. Melded' BY <1>4, <1>7 DEF Melded
<1>13. Rounds' BY <1>2, <1>6 DEF GuestInv, Rounds
<1>14. Thrown' /\ Drawn' BY <1>5, <1>7, <1>8 DEF Thrown, Drawn
<1>15. InOrder' BY DEF GuestInv, InOrder
<1> QED BY <1>9, <1>10, <1>11, <1>12, <1>13, <1>14, <1>15 DEF GuestInv

LEMMA HearsRequest ==
  ASSUME TypeOK, TypeOK', GuestInv, outbox # <<>>, outbox' = Tail(outbox),
         Head(outbox).type = "REQUEST_CARD", NEW o \in SUBSET OwnCalls,
         table' = [table EXCEPT !.stage = "holding", !.inCheck = o # {},
                                !.checkOn = @ \/ o # {}, !.offer = o],
         inbox' = inbox \o (IF o = {} THEN <<>> ELSE <<Msg("CHECK_CARD", o)>>)
                        \o <<Msg("GET_CARD", {})>>,
         UNCHANGED <<play, input, offer>>
  PROVE  GuestInv'
<1>1. /\ Head(outbox) = outbox[1] /\ 1 \in DOMAIN outbox /\ Head(outbox) \in Outbound
      /\ \A t : Out(t)' = IF t = Head(outbox).type THEN Out(t) - 1 ELSE Out(t)
      /\ \A t : Out(t)' \in Nat
      /\ \A i \in DOMAIN outbox' : i + 1 \in DOMAIN outbox /\ outbox'[i] = outbox[i + 1]
  BY Heard
<1>2. \A t : In(t) \in Nat /\ Out(t) \in Nat BY Numbers
<1>a. \A i \in DOMAIN outbox : outbox[i].type = "CHECK_RESULT" => Out("CHECK_RESULT") > 0 BY Found1
<1> HIDE DEF In, Out
<1>3. /\ Out("REQUEST_CARD")' = Out("REQUEST_CARD") - 1 /\ Out("REQUEST_CARD") > 0
      /\ Out("CHECK_RESULT")' = Out("CHECK_RESULT") /\ Out("THROW_CARD")' = Out("THROW_CARD")
  BY <1>1, <1>2
<1>4. table.stage = "ours" BY <1>3 DEF GuestInv, Move
<1>5. ~table.checkOn /\ ~table.inCheck /\ table.said = "pass" BY <1>4 DEF GuestInv, Question
<1>6. In("CAN_GET") = 0 /\ In("EPK") = 0 /\ play # "get" /\ Out("REQUEST_CARD") = 1
  <2>1. In("CAN_GET") + In("EPK") + One(play = "get") + Out("REQUEST_CARD") = 1
    BY <1>4 DEF GuestInv, Move
  <2>2. /\ In("CAN_GET") \in Nat /\ In("EPK") \in Nat /\ Out("REQUEST_CARD") \in Nat
        /\ One(play = "get") \in {0, 1} /\ Out("REQUEST_CARD") > 0
    BY <1>2, <1>3 DEF One
  <2>3. In("CAN_GET") = 0 /\ In("EPK") = 0 /\ Out("REQUEST_CARD") = 1 /\ One(play = "get") = 0
    BY <2>1, <2>2
  <2> QED BY <2>3 DEF One
<1>7. In("MAKE") = 0 /\ In("NEW_ROUND") = 0
  <2>1. ~(In("MAKE") + In("NEW_ROUND") > 0) BY <1>4, <1>6 DEF GuestInv, Rounds
  <2>2. In("MAKE") \in Nat /\ In("NEW_ROUND") \in Nat BY <1>2
  <2> QED BY <2>1, <2>2
<1>8. In("GET_CARD") = 0 /\ play # "throw" /\ Out("THROW_CARD") = 0
  <2>1. /\ Out("THROW_CARD") = 0
        /\ In("GET_CARD") > 0 \/ play = "throw" => In("MAKE") + In("EPK") > 0
    BY <1>4 DEF GuestInv, Move
  <2>2. ~(In("GET_CARD") > 0) /\ play # "throw" BY <1>6, <1>7, <2>1
  <2>3. In("GET_CARD") \in Nat BY <1>2
  <2> QED BY <2>1, <2>2, <2>3
<1>9. In("CHECK_CARD") = 0 /\ Out("CHECK_RESULT") = 0 /\ input = "play" BY <1>5, AtRest
<1>10. inbox = <<>> BY <1>6, <1>7, <1>8, <1>9, NothingIn
<1> DEFINE c == Msg("CHECK_CARD", o)
           g == Msg("GET_CARD", {})
<1>11. /\ c \in Inbound /\ c.type = "CHECK_CARD" /\ c.what = o
       /\ g \in Inbound /\ g.type = "GET_CARD"
  BY DEF Inbound, Msg, OwnCalls, Calls
<1>b. inbox \in Seq(Inbound) BY DEF TypeOK
<1> HIDE DEF c, g
<1>12. (o = {} => inbox' = inbox \o <<g>>) /\ (o # {} => inbox' = inbox \o <<c, g>>)
  <2>1. o = {} => inbox' = (inbox \o <<>>) \o <<g>> BY DEF g
  <2>2. o # {} => inbox' = (inbox \o <<c>>) \o <<g>> BY DEF c, g
  <2>3. (inbox \o <<>>) \o <<g>> = inbox \o <<g>> BY <1>b, <1>11
  <2>4. (inbox \o <<c>>) \o <<g>> = inbox \o <<c, g>>
    <3>1. inbox \o <<c>> = Append(inbox, c) /\ inbox \o <<c, g>> = Append(Append(inbox, c), g)
      BY <1>b, <1>11
    <3>2. Append(inbox, c) \in Seq(Inbound) BY <1>b, <1>11
    <3>3. Append(inbox, c) \o <<g>> = Append(Append(inbox, c), g) BY <1>11, <3>2
    <3> QED BY <3>1, <3>3
  <2> QED BY <2>1, <2>2, <2>3, <2>4
<1>13. \A t : In(t)' = In(t) + One(t = "GET_CARD") + One(o # {} /\ t = "CHECK_CARD")
  <2>1. CASE o = {} BY <1>2, <1>11, <1>12, <2>1, Delivered, SMTT(40) DEF One
  <2>2. CASE o # {}
    <3>a. c \in Inbound /\ g \in Inbound /\ inbox' = inbox \o <<c, g>> BY <1>11, <1>12, <2>2
    <3>1. \A t : In(t)' = In(t) + (IF t = c.type THEN 1 ELSE 0) + (IF t = g.type THEN 1 ELSE 0)
      BY <3>a, DeliveredTwo
    <3> QED BY <1>2, <1>11, <2>2, <3>1 DEF One
  <2> QED BY <2>1, <2>2
<1>14. \A i \in DOMAIN inbox' : \/ o # {} /\ i = 1 /\ inbox'[i] = c
                                \/ inbox'[i] = g /\ i \in {1, 2} /\ (i = 1 <=> o = {})
  <2>1. Len(inbox) = 0 /\ DOMAIN inbox = {} BY <1>10
  <2>2. CASE o = {} BY <1>11, <1>12, <2>1, <2>2, Delivered
  <2>3. CASE o # {} BY <1>11, <1>12, <2>1, <2>3, DeliveredTwo
  <2> QED BY <2>2, <2>3
<1>15. o # {} => inbox'[1] = c
  <2>1. inbox \o <<c, g>> = <<c, g>> BY <1>10
  <2>2. <<c, g>>[1] = c OBVIOUS
  <2>3. o # {} => inbox' = <<c, g>> BY <1>12, <2>1
  <2> QED BY <2>2, <2>3
<1>16. /\ table'.stage = "holding" /\ (table'.checkOn <=> o # {}) /\ (table'.inCheck <=> o # {})
       /\ table'.said = "pass" /\ table'.offer = o
  BY <1>5 DEF TypeOK, Tables
<1>c. /\ In("CHECK_CARD")' = One(o # {}) /\ In("GET_CARD")' = 1 /\ In("CAN_GET")' = 0
      /\ In("EPK")' = 0 /\ In("MAKE")' = 0 /\ In("NEW_ROUND")' = 0
  BY <1>6, <1>7, <1>8, <1>9, <1>13, SMTT(40) DEF One
<1>d. /\ Out("REQUEST_CARD")' = 0 /\ Out("CHECK_RESULT")' = 0 /\ Out("THROW_CARD")' = 0
  BY <1>3, <1>6, <1>8, <1>9
<1>17. Question' BY <1>9, <1>16, <1>c, <1>d DEF Question, One
<1>18. Offers'
  <2>1. \A i \in DOMAIN inbox' : inbox'[i].type = "CHECK_CARD" => inbox'[i].what = o
    BY <1>11, <1>14
  <2>2. \A i \in DOMAIN outbox : outbox[i].type # "CHECK_RESULT" BY <1>9, <1>a
  <2>3. \A i \in DOMAIN outbox' : outbox'[i].type # "CHECK_RESULT" BY <1>1, <2>2
  <2> QED BY <1>9, <1>16, <2>1, <2>3 DEF Offers, Allowed
<1>19. Move'
  <2>1. One(play = "throw")' = 0 BY <1>8 DEF One
  <2> QED BY <1>6, <1>16, <1>c, <1>d, <2>1 DEF Move
<1>20. Melded' BY <1>11, <1>14 DEF Melded
<1>21. Rounds' BY <1>c DEF Rounds
<1>22. Thrown' BY <1>d DEF Thrown
<1>23. Drawn' BY <1>11, <1>15, <1>c DEF Drawn, One
<1>24. InOrder'
  <2> SUFFICES ASSUME NEW i \in DOMAIN inbox', NEW j \in DOMAIN inbox', i < j
               PROVE  inbox'[j].type = "GET_CARD" /\ inbox'[i].type = "CHECK_CARD"
    BY ZenonT(60) DEF InOrder
  <2>1. i = 1 /\ j = 2 BY <1>14, SMTT(40)
  <2>2. inbox'[j] = g /\ o # {}
    <3>1. j # 1 BY <2>1
    <3>2. inbox'[j] = g /\ (j = 1 <=> o = {}) BY <1>14, <3>1
    <3> QED BY <3>1, <3>2
  <2>3. inbox'[i] = c BY <1>14, <2>1, <2>2
  <2> QED BY <1>11, <2>1, <2>2, <2>3
<1> QED BY <1>17, <1>18, <1>19, <1>20, <1>21, <1>22, <1>23, <1>24 DEF GuestInv

\* The verdict that another player was first, or that all passed.
LEMMA PassedKeeps ==
  ASSUME TypeOK, TypeOK', GuestInv, table.checkOn, ~table.inCheck,
         table' = [table EXCEPT !.checkOn = FALSE, !.said = "pass", !.offer = {}],
         UNCHANGED <<inbox, outbox, play, input, offer>>
  PROVE  GuestInv'
<1>1. \A t : In(t)' = In(t) /\ Out(t)' = Out(t) BY DEF In, Out
<1>2. In("CHECK_CARD") = 0 /\ Out("CHECK_RESULT") = 0 /\ input = "play" BY AtRest
<1>3. /\ table'.stage = table.stage /\ ~table'.checkOn /\ ~table'.inCheck
      /\ table'.said = "pass" /\ table'.offer = {}
  BY DEF TypeOK, Tables
<1>4. /\ \A i \in DOMAIN inbox : inbox[i].type = "CHECK_CARD" => In("CHECK_CARD") > 0
      /\ \A i \in DOMAIN outbox : outbox[i].type = "CHECK_RESULT" => Out("CHECK_RESULT") > 0
  BY Found1
<1> HIDE DEF In, Out
<1>5. /\ \A i \in DOMAIN inbox : inbox[i].type # "CHECK_CARD"
      /\ \A i \in DOMAIN outbox : outbox[i].type # "CHECK_RESULT"
  BY <1>2, <1>4
<1>6. Question' BY <1>1, <1>2, <1>3 DEF Question, One
<1>7. Offers' BY <1>2, <1>3, <1>5 DEF Offers, Allowed
<1>8. Move' BY <1>1, <1>3 DEF GuestInv, Move
<1>9. Melded' BY <1>3 DEF GuestInv, Melded
<1>10. Rounds' BY <1>1, <1>3 DEF GuestInv, Rounds
<1>11. Thrown' /\ Drawn' BY <1>1, <1>2, <1>3, <1>5 DEF Thrown, Drawn
<1>12. InOrder' BY DEF GuestInv, InOrder
<1> QED BY <1>6, <1>7, <1>8, <1>9, <1>10, <1>11, <1>12 DEF GuestInv

\* The guest's call was granted: nothing that was sent before the question is unread.
LEMMA Granted ==
  ASSUME TypeOK, GuestInv, table.said # "pass"
  PROVE  /\ table.checkOn /\ ~table.inCheck /\ table.stage # "ours"
         /\ In("CHECK_CARD") = 0 /\ Out("CHECK_RESULT") = 0 /\ input = "play"
         /\ In("CAN_GET") = 0 /\ In("EPK") = 0 /\ In("MAKE") = 0 /\ In("NEW_ROUND") = 0
         /\ Out("REQUEST_CARD") = 0 /\ Out("THROW_CARD") = 0 /\ play # "get"
         /\ table.stage # "holding" => In("GET_CARD") = 0 /\ play # "throw"
<1>1. table.checkOn /\ ~table.inCheck /\ table.stage # "ours" BY DEF GuestInv, Question
<1>2. In("CHECK_CARD") = 0 /\ Out("CHECK_RESULT") = 0 /\ input = "play" BY <1>1, AtRest
<1>3. In("EPK") = 0 BY <1>1, NoMeld
<1>4. \A t : In(t) \in Nat /\ Out(t) \in Nat BY Numbers
<1> HIDE DEF In, Out
<1>5. In("MAKE") = 0 /\ In("NEW_ROUND") = 0
  <2>1. ~(In("MAKE") + In("NEW_ROUND") > 0) BY DEF GuestInv, Rounds
  <2>2. In("MAKE") \in Nat /\ In("NEW_ROUND") \in Nat BY <1>4
  <2> QED BY <2>1, <2>2
<1>6. In("CAN_GET") = 0 /\ Out("REQUEST_CARD") = 0 /\ play # "get" BY <1>1 DEF GuestInv, Move
<1>7. Out("THROW_CARD") = 0
  <2>1. ~(Out("THROW_CARD") > 0) BY DEF GuestInv, Thrown
  <2>2. Out("THROW_CARD") \in Nat BY <1>4
  <2> QED BY <2>1, <2>2
<1>8. table.stage # "holding" => In("GET_CARD") = 0 /\ play # "throw"
  <2> SUFFICES ASSUME table.stage # "holding" PROVE In("GET_CARD") = 0 /\ play # "throw" OBVIOUS
  <2>1. In("GET_CARD") > 0 \/ play = "throw" => In("MAKE") + In("EPK") > 0 BY DEF GuestInv, Move
  <2>2. ~(In("GET_CARD") > 0) /\ play # "throw" BY <1>3, <1>5, <2>1
  <2>3. In("GET_CARD") \in Nat BY <1>4
  <2> QED BY <2>2, <2>3
<1> QED BY <1>1, <1>2, <1>3, <1>5, <1>6, <1>7, <1>8

\* A meld of the discard, or a kong, is granted: the guest is told.
LEMMA GrantKeeps ==
  ASSUME TypeOK, TypeOK', GuestInv, table.said # "pass",
         NEW what \in {"eat", "pong", "kang", "unheld"}, NEW stage,
         stage = IF what = "kang" THEN "ours" ELSE "holding",
         what # "kang" => table.stage # "holding",
         table' = [table EXCEPT !.checkOn = FALSE, !.said = "pass", !.offer = {}, !.stage = stage],
         inbox' = inbox \o <<Msg("EPK", {what})>>, UNCHANGED <<outbox, play, input, offer>>
  PROVE  GuestInv'
<1> DEFINE m == Msg("EPK", {what})
<1>1. m \in Inbound /\ m.type = "EPK" /\ m.what = {what} /\ inbox' = inbox \o <<m>>
  BY DEF Inbound, Msg
<1> HIDE DEF m
<1>2. /\ \A t : In(t)' = IF t = m.type THEN In(t) + 1 ELSE In(t)
      /\ \A i \in DOMAIN inbox' : \/ i \in DOMAIN inbox /\ inbox'[i] = inbox[i]
                                  \/ i = Len(inbox) + 1 /\ inbox'[i] = m
      /\ DOMAIN inbox = 1 .. Len(inbox) /\ Len(inbox) \in Nat
  BY <1>1, Delivered
<1>3. \A t : Out(t)' = Out(t) BY DEF Out
<1>4. /\ table.checkOn /\ ~table.inCheck /\ table.stage # "ours"
      /\ In("CHECK_CARD") = 0 /\ Out("CHECK_RESULT") = 0 /\ input = "play"
      /\ In("CAN_GET") = 0 /\ In("EPK") = 0 /\ In("MAKE") = 0 /\ In("NEW_ROUND") = 0
      /\ Out("REQUEST_CARD") = 0 /\ Out("THROW_CARD") = 0 /\ play # "get"
      /\ table.stage # "holding" => In("GET_CARD") = 0 /\ play # "throw"
  BY Granted
<1>5. /\ table'.stage = stage /\ ~table'.checkOn /\ ~table'.inCheck
      /\ table'.said = "pass" /\ table'.offer = {}
  BY <1>4 DEF TypeOK, Tables
<1>6. \A t : In(t) \in Nat BY Numbers
<1>7. \A t : In(t) > 0 <=> \E i \in DOMAIN inbox : inbox[i].type = t BY Found1
<1>8. \A t : Out(t) > 0 <=> \E i \in DOMAIN outbox : outbox[i].type = t BY Found1
<1>9. inbox \in Seq(Inbound) BY DEF TypeOK
<1> HIDE DEF In, Out
<1>10. \A i \in DOMAIN inbox : inbox[i].type = "GET_CARD"
  <2> TAKE i \in DOMAIN inbox
  <2>1. inbox[i] \in Inbound BY <1>9
  <2>2. inbox[i].type \in {"CHECK_CARD", "CAN_GET", "GET_CARD", "EPK", "MAKE", "NEW_ROUND"}
    BY <2>1 DEF Inbound
  <2>3. In(inbox[i].type) > 0 BY <1>7
  <2> QED BY <1>4, <2>2, <2>3
<1>11. \A i \in DOMAIN outbox : outbox[i].type # "CHECK_RESULT" BY <1>4, <1>8
<1>12. /\ In("EPK")' = 1 /\ In("CHECK_CARD")' = 0 /\ In("CAN_GET")' = 0
       /\ In("MAKE")' = 0 /\ In("NEW_ROUND")' = 0 /\ In("GET_CARD")' = In("GET_CARD")
  BY <1>1, <1>2, <1>4
<1>13. /\ Out("CHECK_RESULT")' = 0 /\ Out("REQUEST_CARD")' = 0 /\ Out("THROW_CARD")' = 0
  BY <1>3, <1>4
<1>14. Question' BY <1>4, <1>5, <1>12, <1>13 DEF Question, One
<1>15. Offers' BY <1>1, <1>2, <1>4, <1>5, <1>10, <1>11 DEF Offers, Allowed
<1>16. Move'
  <2>1. One(play = "get")' = 0 BY <1>4 DEF One
  <2>2. table.stage # "holding" => One(play = "throw")' = 0 BY <1>4 DEF One
  <2>3. CASE what = "kang" BY <1>5, <1>12, <1>13, <2>1, <2>3 DEF Move
  <2>4. CASE what # "kang" BY <1>4, <1>5, <1>12, <1>13, <2>2, <2>4 DEF Move
  <2> QED BY <2>3, <2>4
<1>17. Melded'
  <2>1. what # "kang" => {what} # {"kang"} OBVIOUS
  <2> QED BY <1>1, <1>2, <1>5, <1>10, <2>1 DEF Melded
<1>18. Rounds' /\ Thrown' /\ Drawn' BY <1>12, <1>13 DEF Rounds, Thrown, Drawn
<1>19. InOrder'
  <2> SUFFICES ASSUME NEW i \in DOMAIN inbox', NEW j \in DOMAIN inbox', i < j
               PROVE  /\ inbox'[j].type \in {"MAKE", "NEW_ROUND"} =>
                           inbox'[i].type \in {"GET_CARD", "MAKE"}
                      /\ inbox'[j].type = "GET_CARD" => inbox'[i].type = "CHECK_CARD"
                      /\ inbox'[j].type = "EPK" => inbox'[i].type = "GET_CARD"
    BY DEF InOrder
  <2>1. i \in DOMAIN inbox /\ inbox'[i] = inbox[i] BY <1>2
  <2>2. CASE j \in DOMAIN inbox
    <3>1. inbox'[j] = inbox[j] BY <1>2, <2>2
    <3> QED BY <2>1, <2>2, <3>1 DEF GuestInv, InOrder
  <2>3. CASE j \notin DOMAIN inbox
    <3>1. inbox'[j] = m BY <1>2, <2>3
    <3> QED BY <1>1, <1>10, <2>1, <3>1
  <2> QED BY <2>2, <2>3
<1> QED BY <1>14, <1>15, <1>16, <1>17, <1>18, <1>19 DEF GuestInv

-----------------------------------------------------------------------------
(* Types.                                                                   *)

CallType == [why : {"none", "claim", "own", "discard"}, failed : 0 .. Attempts - 1,
             refused : BOOLEAN, left : 0 .. Cardinality(OwnCalls)]

LEMMA TwoOwnCalls == Cardinality(OwnCalls) = 2
<1>1. Cardinality({"kang"}) = 1 /\ IsFiniteSet({"kang"}) BY FS_Singleton
<1>2. Cardinality({"kang"} \cup {"make"}) = 2 BY <1>1, FS_AddElement
<1>3. OwnCalls = {"kang"} \cup {"make"} BY DEF OwnCalls
<1> QED BY <1>2, <1>3

LEMMA OwnOffers ==
  ASSUME NEW o \in OwnClaims \cup {{}}
  PROVE  /\ o \in SUBSET OwnCalls /\ o \in SUBSET Calls
         /\ Cardinality(o) \in 0 .. Cardinality(OwnCalls)
<1>1. o \in SUBSET OwnCalls /\ o \in SUBSET Calls BY AiAssumption DEF OwnCalls, Calls
<1>2. IsFiniteSet(OwnCalls)
  <2>1. IsFiniteSet({"kang"} \cup {"make"}) BY FS_Singleton, FS_AddElement
  <2> QED BY <2>1 DEF OwnCalls
<1>3. IsFiniteSet(o) /\ Cardinality(o) <= Cardinality(OwnCalls) BY <1>1, <1>2, FS_Subset
<1>4. Cardinality(o) \in Nat BY <1>3, FS_CardinalityType
<1> QED BY <1>1, <1>3, <1>4, TwoOwnCalls

LEMMA BeginsType ==
  ASSUME NEW why \in {"claim", "own", "discard"}, NEW left \in 0 .. Cardinality(OwnCalls),
         Begins(why, left)
  PROVE  call' \in CallType /\ call'.why = why /\ call'.left = left
<1>1. 0 \in 0 .. Attempts - 1 BY AiAssumption
<1> QED BY <1>1 DEF Begins, Idle, CallType

LEMMA IdleType == Idle \in CallType /\ Idle.why = "none" /\ Idle.left = 0
<1>1. 0 \in 0 .. Attempts - 1 BY AiAssumption
<1>2. 0 \in 0 .. Cardinality(OwnCalls) BY TwoOwnCalls
<1> QED BY <1>1, <1>2 DEF Idle, CallType

LEMMA AnswerType ==
  ASSUME TypeOK, NEW c \in Answers, Answer(c)
  PROVE  table' \in Tables /\ outbox' \in Seq(Outbound)
<1>1. Msg("CHECK_RESULT", c) \in Outbound BY DEF Msg, Outbound
<1>2. CASE atHost
  <2>1. table' = [table EXCEPT !.inCheck = FALSE, !.said = c] /\ outbox' = outbox
    BY <1>2 DEF Answer
  <2>2. table' \in Tables BY <2>1 DEF TypeOK, Tables
  <2> QED BY <2>1, <2>2 DEF TypeOK
<1>3. CASE ~atHost
  <2>1. outbox' = Append(outbox, Msg("CHECK_RESULT", c)) /\ table' = table BY <1>3 DEF Answer
  <2> QED BY <1>1, <2>1 DEF TypeOK
<1> QED BY <1>2, <1>3

LEMMA ThrowType ==
  ASSUME TypeOK, Throw
  PROVE  table' \in Tables /\ outbox' \in Seq(Outbound) /\ play' = "wait"
<1>1. Msg("THROW_CARD", "pass") \in Outbound BY DEF Msg, Outbound
<1>2. CASE atHost
  <2>1. table' = [table EXCEPT !.stage = "others", !.inCheck = FALSE, !.checkOn = TRUE]
    BY <1>2 DEF Throw
  <2>2. table' \in Tables BY <2>1 DEF TypeOK, Tables
  <2> QED BY <1>2, <2>2 DEF Throw, TypeOK
<1>3. CASE ~atHost BY <1>1, <1>3 DEF Throw, TypeOK
<1> QED BY <1>2, <1>3

LEMMA AskType ==
  ASSUME TypeOK, NEW o \in SUBSET Calls, NEW left \in 0 .. Cardinality(OwnCalls), Ask(o, left)
  PROVE  offer' \in SUBSET Calls /\ input' = "check" /\ talking' \in BOOLEAN /\ call' \in CallType
<1>1. CASE ai BY <1>1, BeginsType DEF Ask, Prompted, TypeOK
<1>2. CASE ~ai BY <1>2 DEF Ask, Prompted, TypeOK, CallType
<1> QED BY <1>1, <1>2

LEMMA DrawType ==
  ASSUME TypeOK, Draw
  PROVE  /\ table' \in Tables /\ outbox' \in Seq(Outbound) /\ play' \in {"wait", "get", "throw"}
         /\ offer' \in SUBSET Calls /\ input' \in {"play", "check", "eat"} /\ talking' \in BOOLEAN
         /\ call' \in CallType
<1>1. CASE atHost
  <2>1. HostDraw BY <1>1 DEF Draw
  <2>2. PICK o \in OwnClaims \cup {{}} :
          /\ table' = [table EXCEPT !.stage = "holding", !.inCheck = o # {} /\ ~ai,
                                    !.checkOn = @ \/ o # {}, !.offer = o]
          /\ IF o = {} THEN offer' = {} /\ UNCHANGED <<input, talking, call>>
             ELSE Ask(o, Cardinality(o))
    BY <2>1 DEF HostDraw
  <2>3. o \in SUBSET Calls /\ Cardinality(o) \in 0 .. Cardinality(OwnCalls) BY OwnOffers
  <2>4. table' \in Tables BY <2>2, <2>3 DEF TypeOK, Tables
  <2>5. CASE o = {} BY <2>1, <2>2, <2>4, <2>5 DEF HostDraw, TypeOK, CallType
  <2>6. CASE o # {} BY <2>1, <2>2, <2>3, <2>4, <2>6, AskType DEF HostDraw, TypeOK
  <2> QED BY <2>5, <2>6
<1>2. CASE ~atHost
  <2>1. Msg("REQUEST_CARD", "pass") \in Outbound BY DEF Msg, Outbound
  <2>2. /\ play' = "wait" /\ outbox' = Append(outbox, Msg("REQUEST_CARD", "pass"))
        /\ table' = table /\ offer' = offer /\ input' = input /\ talking' = talking /\ call' = call
    BY <1>2 DEF Draw, GuestDraw
  <2>3. outbox' \in Seq(Outbound) BY <2>1, <2>2 DEF TypeOK
  <2> QED BY <2>2, <2>3 DEF TypeOK, CallType
<1> QED BY <1>1, <1>2

LEMMA GrantsType ==
  ASSUME TypeOK, NEW d
  PROVE  Grants(d) \in Answers
BY DEF TypeOK, Grants, Answers

\* The process knows why it is calling.
Reasoned == call.why = "none" => call = Idle

LEMMA ConcludesType ==
  ASSUME TypeOK, Reasoned, Calling, NEW d, Concludes(d)
  PROVE  token' \in {"good", "stale"} => TypeOK'
<1>1. call.why \in {"claim", "own", "discard"} BY DEF TypeOK, Reasoned, Calling
<1>2. atHost' = atHost /\ at' = at /\ inbox' = inbox /\ ai' \in BOOLEAN BY DEF Concludes
<1>3. /\ table' \in Tables /\ outbox' \in Seq(Outbound) /\ play' \in {"wait", "get", "throw"}
      /\ offer' \in SUBSET Calls /\ input' \in {"play", "check", "eat"} /\ talking' \in BOOLEAN
      /\ call' \in CallType
  <2>1. CASE call.why = "claim"
    <3>1. ClaimEnds(d, ai') BY <2>1 DEF Concludes
    <3> DEFINE open == d = "misfit" /\ "eat" \in offer
               more == call.left > 1
    <3>2. table' \in Tables /\ outbox' \in Seq(Outbound)
      <4>1. CASE atHost
        <5>1. \/ table' = [table EXCEPT !.inCheck = TRUE, !.said = Grants(d)]
              \/ table' = [table EXCEPT !.inCheck = TRUE, !.said = @]
          BY <3>1, <4>1 DEF ClaimEnds
        <5>2. table \in Tables /\ Grants(d) \in Answers BY GrantsType DEF TypeOK
        <5>3. table' \in Tables BY <5>1, <5>2 DEF Tables
        <5>4. outbox' = outbox BY <3>1, <4>1 DEF ClaimEnds
        <5> QED BY <5>3, <5>4 DEF TypeOK
      <4>2. CASE ~atHost BY <3>1, <4>2, GrantsType, AnswerType DEF ClaimEnds, TypeOK
      <4> QED BY <4>1, <4>2
    <3>3. offer' \in SUBSET Calls /\ input' \in {"play", "check", "eat"} /\ talking' \in BOOLEAN
      BY <3>1 DEF ClaimEnds, Closed, TypeOK
    <3>4. call' \in CallType
      <4>1. CASE more /\ ai'
        <5>1. call.left - 1 \in 0 .. Cardinality(OwnCalls) BY <4>1, TwoOwnCalls DEF TypeOK
        <5> QED BY <3>1, <4>1, <5>1, BeginsType DEF ClaimEnds
      <4>2. CASE ~(more /\ ai') BY <3>1, <4>2, IdleType DEF ClaimEnds
      <4> QED BY <4>1, <4>2
    <3> QED BY <3>1, <3>2, <3>3, <3>4 DEF ClaimEnds, TypeOK
  <2>2. CASE call.why = "own"
    <3>1. OwnEnds(d) BY <2>2 DEF Concludes
    <3>2. (IF d \in OwnCalls THEN d ELSE "pass") \in Answers BY DEF OwnCalls, Answers, Calls
    <3> QED BY <3>1, <3>2, AnswerType, IdleType DEF OwnEnds, Closed, TypeOK
  <2>3. CASE call.why = "discard"
    <3>1. DiscardEnds(d) BY <2>3 DEF Concludes
    <3> QED BY <3>1, ThrowType, IdleType DEF DiscardEnds, TypeOK
  <2> QED BY <1>1, <2>1, <2>2, <2>3
<1> QED BY <1>2, <1>3 DEF TypeOK, CallType

LEMMA SendsType ==
  ASSUME TypeOK, NEW ms \in Seq(Inbound), Sends(ms)
  PROVE  /\ inbox' \in Seq(Inbound) /\ play' = play /\ input' = input /\ talking' = talking
         /\ offer' = offer /\ call' = call
<1>1. inbox' = inbox \o ms BY DEF Sends
<1> QED BY <1>1 DEF Sends, TypeOK

LEMMA MessagesType ==
  /\ \A o \in SUBSET Calls : <<Msg("CHECK_CARD", o)>> \in Seq(Inbound)
  /\ <<Msg("CAN_GET", {})>> \in Seq(Inbound) /\ <<Msg("GET_CARD", {})>> \in Seq(Inbound)
  /\ <<Msg("MAKE", {}), Msg("NEW_ROUND", {})>> \in Seq(Inbound)
  /\ \A w \in {"eat", "pong", "kang", "unheld"} : <<Msg("EPK", {w})>> \in Seq(Inbound)
<1>1. \A m \in Inbound, n \in Inbound : <<m>> \in Seq(Inbound) /\ <<m, n>> \in Seq(Inbound)
  OBVIOUS
<1>2. \A o \in SUBSET Calls : Msg("CHECK_CARD", o) \in Inbound BY DEF Msg, Inbound
<1>3. \A t \in {"CAN_GET", "GET_CARD", "MAKE", "NEW_ROUND"} : Msg(t, {}) \in Inbound
  BY DEF Msg, Inbound
<1>4. \A w \in {"eat", "pong", "kang", "unheld"} : Msg("EPK", {w}) \in Inbound
  BY DEF Msg, Inbound
<1> QED BY <1>1, <1>2, <1>3, <1>4

LEMMA KeysKeepType ==
  ASSUME TypeOK, Key
  PROVE  TypeOK'
<1>1. call \in CallType BY DEF TypeOK, CallType
<1>2. CASE KeyAnswer
  <2>1. CASE \E c \in offer \cup {"pass"} : Answer(c) /\ Closed
    <3>1. PICK c \in offer \cup {"pass"} : Answer(c) /\ Closed BY <2>1
    <3>2. c \in Answers BY DEF TypeOK, Answers
    <3>3. table' \in Tables /\ outbox' \in Seq(Outbound) BY <3>1, <3>2, AnswerType
    <3> QED BY <1>2, <3>1, <3>3 DEF KeyAnswer, Typed, Closed, TypeOK
  <2>2. CASE "eat" \in offer /\ input' = "eat" /\ UNCHANGED <<talking, offer, table, outbox>>
    BY <1>2, <2>2 DEF KeyAnswer, Typed, TypeOK
  <2> QED BY <1>2, <2>1, <2>2 DEF KeyAnswer
<1>3. CASE KeyEat
  <2>1. "eat" \in Answers BY DEF Answers, Calls
  <2>2. table' \in Tables /\ outbox' \in Seq(Outbound) BY <1>3, <2>1, AnswerType DEF KeyEat
  <2> QED BY <1>3, <2>2 DEF KeyEat, Typed, Closed, TypeOK
<1>4. CASE KeyDraw
  <2>1. Draw BY <1>4 DEF KeyDraw
  <2> QED BY <1>4, <2>1, DrawType DEF KeyDraw, Typed, TypeOK, CallType
<1>5. CASE KeyThrow
  <2>1. Throw BY <1>5 DEF KeyThrow
  <2> QED BY <1>5, <2>1, ThrowType DEF KeyThrow, Typed, TypeOK
<1>6. CASE KeyTalk BY <1>6 DEF KeyTalk, Typed, TypeOK
<1>7. CASE KeyBack BY <1>7 DEF KeyBack, BackTo, Typed, TypeOK
<1>8. CASE KeySwitch
  <2>1. ai' \in BOOLEAN BY <1>8 DEF KeySwitch, Switched, TypeOK
  <2> QED BY <1>8, <2>1 DEF KeySwitch, Typed, TypeOK
<1>9. CASE NoKey BY <1>9 DEF NoKey, Goes, Stops, TypeOK
<1> QED BY <1>2, <1>3, <1>4, <1>5, <1>6, <1>7, <1>8, <1>9 DEF Key

LEMMA HooksKeepType ==
  ASSUME TypeOK, Hook
  PROVE  TypeOK'
<1>1. 0 \in 0 .. Cardinality(OwnCalls) BY TwoOwnCalls
<1>2. CASE DrawHook
  <2>1. CASE AutoDraws
    <3>1. Draw BY <1>2, <2>1 DEF DrawHook
    <3> QED BY <1>2, <3>1, DrawType DEF DrawHook, Goes, Stops, TypeOK, CallType
  <2>2. CASE ~AutoDraws BY <1>2, <2>2 DEF DrawHook, Goes, Stops, TypeOK
  <2> QED BY <2>1, <2>2
<1>3. CASE CheckHook
  <2>1. call' = call \/ Begins("own", 0) BY <1>3 DEF CheckHook
  <2>2. call' \in CallType BY <1>1, <2>1, BeginsType DEF TypeOK, CallType
  <2> QED BY <1>3, <2>2 DEF CheckHook, Goes, Stops, TypeOK, CallType
<1>4. CASE DiscardHook
  <2>1. call' = call \/ Begins("discard", 0) BY <1>4 DEF DiscardHook
  <2>2. call' \in CallType BY <1>1, <2>1, BeginsType DEF TypeOK, CallType
  <2> QED BY <1>4, <2>2 DEF DiscardHook, Goes, Stops, TypeOK, CallType
<1> QED BY <1>2, <1>3, <1>4 DEF Hook

LEMMA RequestsKeepType ==
  ASSUME TypeOK, Reasoned, Request
  PROVE  TypeOK'
<1>1. CASE RequestFails
  <2>1. CASE GivesUp
    <3>1. Concludes("none") /\ token' = token BY <1>1, <2>1 DEF RequestFails
    <3> QED BY <1>1, <3>1, ConcludesType DEF RequestFails, TypeOK
  <2>2. CASE ~GivesUp
    <3>1. call' = [call EXCEPT !.failed = Failed, !.refused = FALSE] /\ Waits /\ token' = token
      BY <1>1, <2>2 DEF RequestFails
    <3>2. Failed \in 0 .. Attempts - 1 BY <2>2, AiAssumption DEF GivesUp, Failed, TypeOK
    <3>3. call' \in CallType BY <3>1, <3>2 DEF TypeOK, CallType
    <3> QED BY <3>1, <3>3 DEF Waits, loopVars, TypeOK, CallType
  <2> QED BY <2>1, <2>2
<1>2. CASE RequestRefused
  <2>1. CASE call.refused
    <3>1. Concludes("none") /\ token' = token BY <1>2, <2>1 DEF RequestRefused
    <3> QED BY <1>2, <3>1, ConcludesType DEF RequestRefused, TypeOK
  <2>2. CASE ~call.refused
    <3>1. /\ call' = [call EXCEPT !.refused = TRUE] /\ Waits /\ token' \in {"good", "stale"}
      BY <1>2, <2>2 DEF RequestRefused
    <3>2. call' \in CallType BY <3>1 DEF TypeOK, CallType
    <3> QED BY <3>1, <3>2 DEF Waits, loopVars, TypeOK, CallType
  <2> QED BY <2>1, <2>2
<1>3. CASE RequestAnswered
  <2>1. PICK d \in Decisions : Concludes(d) BY <1>3 DEF RequestAnswered
  <2> QED BY <1>3, <2>1, ConcludesType DEF RequestAnswered, TypeOK
<1> QED BY <1>1, <1>2, <1>3 DEF Request

LEMMA TakesType ==
  ASSUME TypeOK, NEW type, Takes(type)
  PROVE  /\ atHost' = atHost /\ at' \in Stops /\ ai' = ai /\ token' = token /\ table' = table
         /\ inbox' \in Seq(Inbound) /\ Head(inbox) \in Inbound /\ Head(inbox).type = type
<1>1. inbox \in Seq(Inbound) /\ inbox # <<>> BY DEF TypeOK, Takes
<1>2. Head(inbox) \in Inbound /\ Tail(inbox) \in Seq(Inbound) BY <1>1
<1> QED BY <1>2 DEF Takes, Goes, Stops

LEMMA MessagesKeepType ==
  ASSUME TypeOK, Message
  PROVE  TypeOK'
<1>1. CASE TakeCheck
  <2>1. Takes("CHECK_CARD") BY <1>1 DEF TakeCheck
  <2>2. Head(inbox).what \in SUBSET Calls BY <2>1, TakesType DEF Inbound
  <2>3. 1 \in 0 .. Cardinality(OwnCalls) BY TwoOwnCalls
  <2>4. offer' \in SUBSET Calls /\ input' = "check" /\ talking' \in BOOLEAN /\ call' \in CallType
    BY <1>1, <2>2, <2>3, AskType DEF TakeCheck
  <2> QED BY <1>1, <2>1, <2>4, TakesType DEF TakeCheck, TypeOK, CallType
<1>2. CASE TakeTurn BY <1>2, TakesType DEF TakeTurn, Sets, TypeOK
<1>3. CASE TakeCard BY <1>3, TakesType DEF TakeCard, Sets, TypeOK
<1>4. CASE TakeEpk BY <1>4, TakesType DEF TakeEpk, Sets, TypeOK
<1>5. CASE TakeMake BY <1>5, TakesType DEF TakeMake, Sets, TypeOK
<1>6. CASE TakeNewRound BY <1>6, TakesType DEF TakeNewRound, Closed, TypeOK
<1>7. CASE NoMessage BY <1>7 DEF NoMessage, Goes, Stops, TypeOK
<1> QED BY <1>1, <1>2, <1>3, <1>4, <1>5, <1>6, <1>7 DEF Message

LEMMA RoundOverType ==
  ASSUME TypeOK, RoundOver
  PROVE  /\ inbox' \in Seq(Inbound) /\ play' \in {"wait", "get", "throw"}
         /\ offer' \in SUBSET Calls /\ input' \in {"play", "check", "eat"} /\ talking' \in BOOLEAN
         /\ call' \in CallType
<1>1. CASE atHost BY <1>1 DEF RoundOver, Closed, TypeOK, CallType
<1>2. CASE ~atHost BY <1>2, MessagesType, SendsType DEF RoundOver, TypeOK, CallType
<1> QED BY <1>1, <1>2

LEMMA VerdictType ==
  ASSUME TypeOK, NEW stage \in {"ours", "holding"}, NEW mode \in {"get", "throw"},
         NEW what \in {"eat", "pong", "kang", "unheld"}, Verdict(stage, mode, what)
  PROVE  /\ table' \in Tables /\ inbox' \in Seq(Inbound) /\ play' \in {"wait", "get", "throw"}
         /\ UNCHANGED <<input, talking, offer, call>>
<1>1. table' = [table EXCEPT !.checkOn = FALSE, !.said = "pass", !.offer = {}, !.stage = stage]
  BY DEF Verdict
<1>2. table' \in Tables
  <2>1. "pass" \in Answers BY DEF Answers
  <2> QED BY <1>1, <2>1 DEF TypeOK, Tables
<1>3. CASE atHost BY <1>2, <1>3 DEF Verdict, TypeOK
<1>4. CASE ~atHost BY <1>2, <1>4, MessagesType, SendsType DEF Verdict, TypeOK
<1> QED BY <1>3, <1>4

LEMMA TableKeepsType ==
  ASSUME TypeOK, Table
  PROVE  TypeOK'
<1>1. "pass" \in Answers /\ table \in Tables BY DEF Answers, TypeOK
<1>2. Elsewhere => at' \in Stops BY DEF Elsewhere, Goes, Stops, TypeOK
<1>3. CASE OthersThrow
  <2>1. PICK o \in Claims :
       /\ table' = [table EXCEPT !.checkOn = TRUE, !.offer = o, !.inCheck = ~(atHost /\ ai)]
       /\ IF atHost THEN Ask(o, 1) /\ UNCHANGED <<inbox, play>>
          ELSE Sends(<<Msg("CHECK_CARD", o)>>)
    BY <1>3 DEF OthersThrow
  <2>2. o \in SUBSET Calls BY AiAssumption DEF Calls
  <2>3. table' \in Tables BY <1>1, <2>1, <2>2 DEF Tables
  <2>4. 1 \in 0 .. Cardinality(OwnCalls) BY TwoOwnCalls
  <2>5. CASE atHost
    <3>1. offer' \in SUBSET Calls /\ input' = "check" /\ talking' \in BOOLEAN /\ call' \in CallType
      BY <2>1, <2>2, <2>4, <2>5, AskType
    <3> QED BY <1>2, <1>3, <2>1, <2>3, <2>5, <3>1 DEF OthersThrow, TypeOK, CallType
  <2>6. CASE ~atHost
    <3>1. /\ inbox' \in Seq(Inbound) /\ play' = play /\ input' = input /\ talking' = talking
          /\ offer' = offer /\ call' = call
      BY <2>1, <2>2, <2>6, MessagesType, SendsType
    <3> QED BY <1>2, <1>3, <2>3, <3>1 DEF OthersThrow, TypeOK
  <2> QED BY <2>5, <2>6
<1>4. CASE OurTurn
  <2>1. table' = [table EXCEPT !.stage = "ours"] BY <1>4 DEF OurTurn
  <2>2. table' \in Tables BY <1>1, <2>1 DEF Tables
  <2>3. CASE atHost BY <1>2, <1>4, <2>2, <2>3 DEF OurTurn, TypeOK
  <2>4. CASE ~atHost
    <3>1. /\ inbox' \in Seq(Inbound) /\ play' = play /\ input' = input /\ talking' = talking
          /\ offer' = offer /\ call' = call
      BY <1>4, <2>4, MessagesType, SendsType DEF OurTurn
    <3> QED BY <1>2, <1>4, <2>2, <3>1 DEF OurTurn, TypeOK
  <2> QED BY <2>3, <2>4
<1>5. CASE OthersWin
  <2>1. RoundOver BY <1>5 DEF OthersWin
  <2> QED BY <1>2, <1>5, <2>1, RoundOverType DEF OthersWin, TypeOK, CallType
<1>6. CASE Hears
  <2> DEFINE m == Head(outbox)
  <2>1. m \in Outbound /\ outbox' \in Seq(Outbound)
    <3>1. outbox \in Seq(Outbound) /\ outbox # <<>> BY <1>6 DEF Hears, TypeOK
    <3>2. Head(outbox) \in Outbound /\ Tail(outbox) \in Seq(Outbound) BY <3>1
    <3> QED BY <1>6, <3>2 DEF Hears
  <2>2. CASE m.type = "CHECK_RESULT"
    <3>1. m.what \in Answers BY <2>1, <2>2 DEF Outbound
    <3>2. table' = [table EXCEPT !.inCheck = FALSE, !.said = m.what] /\ inbox' = inbox
      BY <1>6, <2>2 DEF Hears
    <3>3. table' \in Tables BY <1>1, <3>1, <3>2 DEF Tables
    <3> QED BY <1>6, <2>1, <3>2, <3>3 DEF Hears, loopVars, TypeOK
  <2>3. CASE m.type = "THROW_CARD"
    <3>1. table' = [table EXCEPT !.stage = "others"] /\ inbox' = inbox
      BY <1>6, <2>3 DEF Hears
    <3>2. table' \in Tables BY <1>1, <3>1 DEF Tables
    <3> QED BY <1>6, <2>1, <3>1, <3>2 DEF Hears, loopVars, TypeOK
  <2>4. CASE m.type = "REQUEST_CARD"
    <3>1. PICK o \in OwnClaims \cup {{}} :
              /\ table' = [table EXCEPT !.stage = "holding", !.inCheck = o # {},
                                        !.checkOn = @ \/ o # {}, !.offer = o]
              /\ inbox' = inbox \o (IF o = {} THEN <<>> ELSE <<Msg("CHECK_CARD", o)>>)
                                \o <<Msg("GET_CARD", {})>>
      BY <1>6, <2>4 DEF Hears
    <3>2. o \in SUBSET Calls BY OwnOffers
    <3>3. table' \in Tables BY <1>1, <3>1, <3>2 DEF Tables
    <3>4. inbox' \in Seq(Inbound)
      <4>1. \A q \in Seq(Inbound), r \in Seq(Inbound) : q \o r \in Seq(Inbound) OBVIOUS
      <4>2. inbox \in Seq(Inbound) /\ <<>> \in Seq(Inbound) BY DEF TypeOK
      <4>3. (IF o = {} THEN <<>> ELSE <<Msg("CHECK_CARD", o)>>) \in Seq(Inbound)
        BY <3>2, <4>2, MessagesType
      <4> QED BY <3>1, <4>1, <4>2, <4>3, MessagesType
    <3> QED BY <1>6, <2>1, <3>3, <3>4 DEF Hears, loopVars, TypeOK
  <2> QED BY <2>1, <2>2, <2>3, <2>4 DEF Outbound
<1>7. CASE Decides
  <2>1. at' \in Stops /\ atHost' = atHost /\ ai' = ai /\ token' = token /\ outbox' = outbox
    BY <1>7 DEF Decides, Goes, Stops, TypeOK
  <2>2. CASE Passed
    <3>1. table' = [table EXCEPT !.checkOn = FALSE, !.said = "pass", !.offer = {}]
      BY <2>2 DEF Passed
    <3>2. table' \in Tables BY <1>1, <3>1 DEF Tables
    <3> QED BY <2>1, <2>2, <3>2 DEF Passed, TypeOK
  <2>3. CASE Melds
    <3>1. Verdict("holding", "throw", table.said) /\ table.said \in {"eat", "pong", "kang", "unheld"}
      BY <2>3 DEF Melds
    <3> QED BY <2>1, <3>1, VerdictType DEF TypeOK
  <2>4. CASE Kongs
    <3>1. Verdict("ours", "get", "kang") BY <2>4 DEF Kongs
    <3> QED BY <2>1, <3>1, VerdictType DEF TypeOK
  <2>5. CASE Wins
    <3>1. table' = [table EXCEPT !.checkOn = FALSE, !.said = "pass", !.offer = {}, !.stage = "others"]
      BY <2>5 DEF Wins
    <3>2. table' \in Tables BY <1>1, <3>1 DEF Tables
    <3> QED BY <2>1, <2>5, <3>2, RoundOverType DEF Wins, TypeOK, CallType
  <2> QED BY <1>7, <2>2, <2>3, <2>4, <2>5 DEF Decides
<1>8. CASE NothingHeard BY <1>8 DEF NothingHeard, Goes, Stops, TypeOK
<1> QED BY <1>3, <1>4, <1>5, <1>6, <1>7, <1>8 DEF Table

LEMMA NextKeepsType ==
  ASSUME TypeOK, Reasoned, [Next]_vars
  PROVE  TypeOK'
<1>1. CASE TokenExpires BY <1>1 DEF TokenExpires, loopVars, TypeOK
<1>2. CASE UNCHANGED vars BY <1>2 DEF vars, loopVars, TypeOK
<1> QED BY <1>1, <1>2, KeysKeepType, HooksKeepType, RequestsKeepType, MessagesKeepType,
           TableKeepsType DEF Next

-----------------------------------------------------------------------------
(* The call in progress.                                                    *)

LEMMA BegunIs ==
  ASSUME NEW why, NEW left, Begins(why, left)
  PROVE  call'.why = why /\ call'.left = left
BY DEF Begins, Idle

LEMMA DrawCalls ==
  ASSUME Draw
  PROVE  call' = call \/ (atHost /\ call'.why = "claim")
BY BegunIs DEF Draw, HostDraw, GuestDraw, Ask

\* A call that goes on asks for the same.
LEMMA CallGoesOn ==
  ASSUME TypeOK, Called, call # Idle, call'.why = call.why, call'.left = call.left,
         UNCHANGED <<play, input, atHost>>
  PROVE  Called'
BY DEF Called

LEMMA ConcludesCall ==
  ASSUME TypeOK, Called, call # Idle, NEW d, Concludes(d)
  PROVE  Called'
<1>1. call.why \in {"claim", "own", "discard"} BY DEF TypeOK, Called
<1>2. atHost' = atHost BY DEF Concludes
<1>3. CASE call' = Idle BY <1>3 DEF Called, Idle
<1>4. CASE call' # Idle
  <2>1. call.why = "claim" BY <1>1, <1>4 DEF Concludes, OwnEnds, DiscardEnds
  <2>2. ClaimEnds(d, ai') BY <2>1 DEF Concludes
  <2>3. Begins("claim", call.left - 1) /\ call.left > 1 BY <1>4, <2>2 DEF ClaimEnds
  <2>4. call'.why = "claim" BY <2>3, BegunIs
  <2>5. atHost
    <3>1. call.left \in Nat BY TwoOwnCalls DEF TypeOK
    <3> QED BY <2>3, <3>1 DEF Called
  <2> QED BY <1>2, <2>4, <2>5 DEF Called
<1> QED BY <1>3, <1>4

LEMMA CallsKept ==
  ASSUME TypeOK, Called, [Next]_vars
  PROVE  Called'
<1>1. ASSUME call' = Idle PROVE Called' BY <1>1 DEF Called, Idle
<1>2. ASSUME UNCHANGED <<atHost, call, play, input>> PROVE Called' BY <1>2 DEF Called
<1>3. CASE Key
  <2>1. call = Idle /\ atHost' = atHost
    BY <1>3 DEF Key, KeyAnswer, KeyEat, KeyDraw, KeyThrow, KeyTalk, KeyBack, KeySwitch, NoKey,
                Typed, Reached
  <2>2. call' = call \/ KeyDraw
    BY <1>3 DEF Key, KeyAnswer, KeyEat, KeyThrow, KeyTalk, KeyBack, KeySwitch, NoKey
  <2>3. CASE KeyDraw
    <3>1. Draw BY <2>3 DEF KeyDraw
    <3> QED BY <1>1, <2>1, <3>1, DrawCalls DEF Called
  <2> QED BY <1>1, <2>1, <2>2, <2>3
<1>4. CASE DrawHook
  <2>1. call = Idle /\ atHost' = atHost /\ (call' = call \/ Draw) BY <1>4 DEF DrawHook, Reached
  <2> QED BY <1>1, <2>1, DrawCalls DEF Called
<1>5. CASE CheckHook
  <2>1. /\ call = Idle /\ atHost' = atHost
        /\ call' = call \/ (Begins("own", 0) /\ atHost)
    BY <1>5 DEF CheckHook, Reached
  <2> QED BY <1>1, <2>1, BegunIs DEF Called
<1>6. CASE DiscardHook
  <2>1. /\ call = Idle /\ atHost' = atHost /\ play' = play /\ input' = input
        /\ call' = call \/ (Begins("discard", 0) /\ input = "play" /\ play = "throw")
    BY <1>6 DEF DiscardHook, Reached
  <2>2. ASSUME Begins("discard", 0), input = "play", play = "throw" PROVE Called'
    <3>1. call'.why = "discard" /\ call'.left = 0 BY <2>2, BegunIs
    <3> QED BY <2>1, <2>2, <3>1 DEF Called
  <2> QED BY <1>1, <2>1, <2>2
<1>7. CASE Request
  <2>1. call # Idle BY <1>7 DEF Request, RequestFails, RequestRefused, RequestAnswered, Calling
  <2>2. \/ \E d : Concludes(d)
        \/ call' = [call EXCEPT !.failed = Failed, !.refused = FALSE] /\ Waits
        \/ call' = [call EXCEPT !.refused = TRUE] /\ Waits
    BY <1>7 DEF Request, RequestFails, RequestRefused, RequestAnswered
  <2>3. ASSUME \E d : Concludes(d) PROVE Called' BY <2>1, <2>3, ConcludesCall
  <2>4. ASSUME call' = [call EXCEPT !.failed = Failed, !.refused = FALSE], Waits PROVE Called'
    <3>1. call'.why = call.why /\ call'.left = call.left BY <2>4 DEF TypeOK
    <3> QED BY <2>1, <2>4, <3>1, CallGoesOn DEF Waits, loopVars
  <2>5. ASSUME call' = [call EXCEPT !.refused = TRUE], Waits PROVE Called'
    <3>1. call'.why = call.why /\ call'.left = call.left BY <2>5 DEF TypeOK
    <3> QED BY <2>1, <2>5, <3>1, CallGoesOn DEF Waits, loopVars
  <2> QED BY <2>2, <2>3, <2>4, <2>5
<1>8. CASE TokenExpires BY <1>2, <1>8 DEF TokenExpires, loopVars
<1>9. CASE Message
  <2>1. call = Idle /\ atHost' = atHost
    BY <1>9 DEF Message, TakeCheck, TakeTurn, TakeCard, TakeEpk, TakeMake, TakeNewRound,
                NoMessage, Takes, Reached
  <2>2. call' = call \/ TakeCheck
    BY <1>9 DEF Message, TakeTurn, TakeCard, TakeEpk, TakeMake, TakeNewRound, NoMessage, Sets
  <2>3. CASE TakeCheck
    <3>1. input' = "check" /\ (call' = call \/ Begins("claim", 1))
      BY <2>3 DEF TakeCheck, Ask, Prompted
    <3> QED BY <1>1, <2>1, <3>1, BegunIs DEF Called
  <2> QED BY <1>1, <2>1, <2>2, <2>3
<1>10. CASE Table
  <2>1. atHost' = atHost
    BY <1>10 DEF Table, OthersThrow, OurTurn, OthersWin, Hears, Decides, NothingHeard
  <2>2. CASE atHost
    <3>1. call = Idle
      BY <1>10, <2>2 DEF Table, OthersThrow, OurTurn, OthersWin, Hears, Decides, NothingHeard,
                         Elsewhere, Reached
    <3>2. call' = call \/ \E o : Ask(o, 1)
      BY <1>10, <2>2 DEF Table, OthersThrow, OurTurn, OthersWin, Hears, Decides, NothingHeard,
                         RoundOver, Passed, Melds, Kongs, Wins, Verdict
    <3>3. call' = call \/ Begins("claim", 1) BY <3>2 DEF Ask
    <3> QED BY <1>1, <2>1, <2>2, <3>1, <3>3, BegunIs DEF Called
  <2>3. CASE ~atHost
    <3>1. UNCHANGED <<call, play, input>>
      BY <1>10, <2>3 DEF Table, OthersThrow, OurTurn, OthersWin, Hears, Decides, NothingHeard,
                         RoundOver, Passed, Melds, Kongs, Wins, Verdict, Sends, loopVars
    <3> QED BY <1>2, <2>1, <3>1
  <2> QED BY <2>2, <2>3
<1>11. CASE UNCHANGED vars BY <1>2, <1>11 DEF vars, loopVars
<1> QED BY <1>3, <1>4, <1>5, <1>6, <1>7, <1>8, <1>9, <1>10, <1>11 DEF Next, Hook

-----------------------------------------------------------------------------
(* The table host's own process.                                            *)

\* The move stays with the mode of play.
LEMMA MoveStays ==
  ASSUME HostMove, UNCHANGED <<inbox, outbox, play>>, table'.stage = table.stage
  PROVE  HostMove'
BY DEF HostMove

LEMMA AnswerStays ==
  ASSUME TypeOK, atHost, HostMove, NEW c, Answer(c), UNCHANGED <<inbox, play>>
  PROVE  HostMove'
<1>1. table'.stage = table.stage /\ outbox' = outbox BY DEF Answer, TypeOK, Tables
<1> QED BY <1>1, MoveStays

LEMMA ThrowMoves ==
  ASSUME TypeOK, atHost, HostMove, Throw, UNCHANGED inbox
  PROVE  HostMove'
<1>1. table'.stage = "others" /\ outbox' = outbox /\ play' = "wait" BY DEF Throw, TypeOK, Tables
<1> QED BY <1>1 DEF HostMove

LEMMA DrawMoves ==
  ASSUME TypeOK, atHost, HostMove, Draw, UNCHANGED inbox
  PROVE  HostMove'
<1>1. table'.stage = "holding" /\ outbox' = outbox /\ play' = "throw"
  BY DEF Draw, HostDraw, TypeOK, Tables
<1> QED BY <1>1 DEF HostMove

LEMMA ConcludesMoves ==
  ASSUME TypeOK, atHost, HostMove, Called, call # Idle, NEW d, Concludes(d)
  PROVE  HostMove'
<1>1. call.why \in {"claim", "own", "discard"} BY DEF TypeOK, Called
<1>2. inbox' = inbox BY DEF Concludes
<1>3. CASE call.why = "claim"
  <2>1. ClaimEnds(d, ai') BY <1>3 DEF Concludes
  <2>2. table'.stage = table.stage /\ outbox' = outbox /\ play' = play
    BY <2>1 DEF ClaimEnds, TypeOK, Tables
  <2> QED BY <1>2, <2>2, MoveStays
<1>4. CASE call.why = "own" BY <1>2, <1>4, AnswerStays DEF Concludes, OwnEnds
<1>5. CASE call.why = "discard"
  <2>1. DiscardEnds(d) BY <1>5 DEF Concludes
  <2> QED BY <1>2, <2>1, ThrowMoves, MoveStays DEF DiscardEnds
<1> QED BY <1>1, <1>3, <1>4, <1>5

LEMMA HostKeeps ==
  ASSUME TypeOK, Called, atHost, HostMove, [Next]_vars
  PROVE  HostMove'
<1>1. ASSUME UNCHANGED <<inbox, outbox, table, play>> PROVE HostMove' BY <1>1 DEF HostMove
<1>2. CASE Key
  <2>1. inbox' = inbox BY <1>2 DEF Key, KeyAnswer, KeyEat, KeyDraw, KeyThrow, KeyTalk, KeyBack,
                                   KeySwitch, NoKey, Typed
  <2>2. CASE KeyAnswer BY <1>1, <2>1, <2>2, AnswerStays DEF KeyAnswer
  <2>3. CASE KeyEat BY <2>1, <2>3, AnswerStays DEF KeyEat
  <2>4. CASE KeyDraw BY <2>1, <2>4, DrawMoves DEF KeyDraw
  <2>5. CASE KeyThrow BY <2>1, <2>5, ThrowMoves DEF KeyThrow
  <2>6. CASE KeyTalk \/ KeyBack \/ KeySwitch \/ NoKey
    BY <1>1, <2>1, <2>6 DEF KeyTalk, KeyBack, KeySwitch, NoKey
  <2> QED BY <1>2, <2>2, <2>3, <2>4, <2>5, <2>6 DEF Key
<1>3. CASE Hook
  <2>1. CASE DrawHook BY <1>1, <2>1, DrawMoves DEF DrawHook
  <2>2. CASE CheckHook \/ DiscardHook BY <1>1, <2>2 DEF CheckHook, DiscardHook
  <2> QED BY <1>3, <2>1, <2>2 DEF Hook
<1>4. CASE Request
  <2>1. (\E d : Concludes(d)) \/ Waits
    BY <1>4 DEF Request, RequestFails, RequestRefused, RequestAnswered
  <2>2. call # Idle BY <1>4 DEF Request, RequestFails, RequestRefused, RequestAnswered, Calling
  <2> QED BY <1>1, <2>1, <2>2, ConcludesMoves DEF Waits
<1>5. CASE TokenExpires BY <1>1, <1>5 DEF TokenExpires
<1>6. CASE Message
  <2>1. FALSE
    BY <1>6 DEF Message, TakeCheck, TakeTurn, TakeCard, TakeEpk, TakeMake, TakeNewRound,
                NoMessage, Takes
  <2> QED BY <2>1
<1>7. CASE OthersThrow
  <2>1. table'.stage = table.stage BY <1>7 DEF OthersThrow, TypeOK, Tables
  <2> QED BY <1>7, <2>1, MoveStays DEF OthersThrow
<1>8. CASE OurTurn
  <2>1. table'.stage = "ours" /\ play' = "get" /\ UNCHANGED <<inbox, outbox>>
    BY <1>8 DEF OurTurn, TypeOK, Tables
  <2> QED BY <2>1 DEF HostMove
<1>9. CASE OthersWin
  <2>1. table'.stage = "others" /\ play' = "wait" /\ UNCHANGED <<inbox, outbox>>
    BY <1>9 DEF OthersWin, Quiet, RoundOver
  <2> QED BY <2>1 DEF HostMove
<1>10. CASE Decides
  <2>1. outbox' = outbox /\ (Passed \/ Melds \/ Kongs \/ Wins) BY <1>10 DEF Decides
  <2>2. CASE Passed
    <3>1. table'.stage = table.stage BY <2>2 DEF Passed, TypeOK, Tables
    <3> QED BY <2>1, <2>2, <3>1, MoveStays DEF Passed
  <2>3. CASE Melds
    <3>1. table'.stage = "holding" /\ play' = "throw" /\ inbox' = inbox
      BY <2>3 DEF Melds, Verdict, TypeOK, Tables
    <3> QED BY <2>1, <3>1 DEF HostMove
  <2>4. CASE Kongs
    <3>1. table'.stage = "ours" /\ play' = "get" /\ inbox' = inbox
      BY <2>4 DEF Kongs, Verdict, TypeOK, Tables
    <3> QED BY <2>1, <3>1 DEF HostMove
  <2>5. CASE Wins
    <3>1. table'.stage = "others" /\ play' = "wait" /\ inbox' = inbox
      BY <2>5 DEF Wins, RoundOver, TypeOK, Tables
    <3> QED BY <2>1, <3>1 DEF HostMove
  <2> QED BY <2>1, <2>2, <2>3, <2>4, <2>5
<1>11. CASE Hears \/ NothingHeard BY <1>1, <1>11 DEF Hears, NothingHeard
<1>12. CASE UNCHANGED vars BY <1>1, <1>12 DEF vars
<1> QED BY <1>2, <1>3, <1>4, <1>5, <1>6, <1>7, <1>8, <1>9, <1>10, <1>11, <1>12 DEF Next, Table

-----------------------------------------------------------------------------
(* A guest and its table host.                                              *)

LEMMA GuestThrows ==
  ASSUME TypeOK, TypeOK', ~Hasty, ~atHost, GuestInv, Throw, play = "throw", input = "play",
         UNCHANGED <<inbox, input, offer>>
  PROVE  GuestInv'
<1>1. ~Undecided BY DEF Throw
<1>2. /\ play' = "wait" /\ outbox' = Append(outbox, Msg("THROW_CARD", "pass")) /\ table' = table
  BY DEF Throw
<1> QED BY <1>1, <1>2, Throws

LEMMA GuestAnswers ==
  ASSUME TypeOK, TypeOK', ~atHost, GuestInv, input # "play", NEW c \in Allowed, c \in Answers,
         Answer(c), Closed, UNCHANGED <<inbox, play>>
  PROVE  GuestInv'
<1>1. outbox' = Append(outbox, Msg("CHECK_RESULT", c)) /\ table' = table BY DEF Answer
<1> QED BY <1>1, Replies DEF Closed

LEMMA GuestDraws ==
  ASSUME TypeOK, TypeOK', ~atHost, GuestInv, Draw, play = "get", UNCHANGED inbox
  PROVE  GuestInv'
BY Asks DEF Draw, GuestDraw

LEMMA GuestConcludes ==
  ASSUME TypeOK, TypeOK', ~Hasty, ~atHost, Called, call # Idle, GuestInv,
         NEW d \in Decisions, Concludes(d)
  PROVE  GuestInv'
<1>1. call.why \in {"claim", "discard"} BY DEF TypeOK, Called
<1>2. inbox' = inbox BY DEF Concludes
<1>3. CASE call.why = "claim"
  <2>1. ClaimEnds(d, ai') BY <1>3 DEF Concludes
  <2>2. input = "check" BY <1>3 DEF Called
  <2>3. offer = table.offer BY <2>2 DEF GuestInv, Offers
  <2>4. ~(call.left > 1)
    <3>1. call.left \in Nat /\ call.left <= 1 BY TwoOwnCalls DEF TypeOK, Called
    <3> QED BY <3>1
  <2>5. CASE d = "misfit" /\ "eat" \in offer
    BY <1>2, <2>1, <2>5, Nothing DEF ClaimEnds
  <2>6. CASE ~(d = "misfit" /\ "eat" \in offer)
    <3>1. Answer(Grants(d)) /\ Closed /\ play' = play BY <2>1, <2>4, <2>6 DEF ClaimEnds
    <3>2. d = "unheld" => Careless BY DEF Decisions, Calls
    <3>3. Grants(d) \in Allowed BY <2>3, <3>2 DEF Grants, Allowed
    <3> QED BY <1>2, <2>2, <3>1, <3>3, GrantsType, GuestAnswers
  <2> QED BY <2>5, <2>6
<1>4. CASE call.why = "discard"
  <2>1. DiscardEnds(d) BY <1>4 DEF Concludes
  <2>2. play = "throw" /\ input = "play" BY <1>4 DEF Called
  <2>3. CASE d = "discard" BY <1>2, <2>1, <2>2, <2>3, GuestThrows DEF DiscardEnds
  <2>4. CASE d # "discard" BY <1>2, <2>1, <2>4, Nothing DEF DiscardEnds
  <2> QED BY <2>3, <2>4
<1> QED BY <1>1, <1>3, <1>4

LEMMA GuestPlays ==
  ASSUME TypeOK, TypeOK', ~Hasty, Called, ~atHost, GuestInv,
         Key \/ Hook \/ Request \/ TokenExpires
  PROVE  GuestInv'
<1>1. input # "play" => offer = table.offer BY DEF GuestInv, Offers
<1>2. CASE KeyAnswer
  <2>1. input = "check" /\ UNCHANGED <<inbox, play>> BY <1>2 DEF KeyAnswer, Typed
  <2>2. CASE \E c \in offer \cup {"pass"} : Answer(c) /\ Closed
    <3>1. PICK c \in offer \cup {"pass"} : Answer(c) /\ Closed BY <2>2
    <3>2. c \in Answers BY DEF TypeOK, Answers
    <3>3. c \in Allowed BY <1>1, <2>1 DEF Allowed
    <3> QED BY <2>1, <3>1, <3>2, <3>3, GuestAnswers
  <2>3. CASE "eat" \in offer /\ input' = "eat" /\ UNCHANGED <<talking, offer, table, outbox>>
    BY <2>1, <2>3, Chooses
  <2> QED BY <1>2, <2>2, <2>3 DEF KeyAnswer
<1>3. CASE KeyEat
  <2>1. input = "eat" /\ Answer("eat") /\ Closed /\ UNCHANGED <<inbox, play>>
    BY <1>3 DEF KeyEat, Typed
  <2>2. "eat" \in Allowed /\ "eat" \in Answers
    BY <2>1 DEF GuestInv, Offers, Allowed, Answers, Calls
  <2> QED BY <2>1, <2>2, GuestAnswers
<1>4. CASE KeyDraw BY <1>4, GuestDraws DEF KeyDraw, Typed
<1>5. CASE KeyThrow BY <1>5, GuestThrows DEF KeyThrow, Typed
<1>6. CASE KeyBack BY <1>6, Nothing DEF KeyBack, BackTo, Typed
<1>7. CASE KeyTalk \/ KeySwitch \/ NoKey
  BY <1>7, Nothing DEF KeyTalk, KeySwitch, NoKey, Typed
<1>8. CASE DrawHook
  <2>1. CASE AutoDraws BY <1>8, <2>1, GuestDraws DEF DrawHook, AutoDraws
  <2>2. CASE ~AutoDraws BY <1>8, <2>2, Nothing DEF DrawHook
  <2> QED BY <2>1, <2>2
<1>9. CASE CheckHook \/ DiscardHook BY <1>9, Nothing DEF CheckHook, DiscardHook
<1>10. CASE Request
  <2>1. (\E d \in Decisions : Concludes(d)) \/ Waits
    <3>1. "none" \in Decisions BY DEF Decisions
    <3> QED BY <1>10, <3>1 DEF Request, RequestFails, RequestRefused, RequestAnswered
  <2>2. call # Idle BY <1>10 DEF Request, RequestFails, RequestRefused, RequestAnswered, Calling
  <2>3. CASE Waits BY <2>3, Nothing DEF Waits, loopVars
  <2> QED BY <2>1, <2>2, <2>3, GuestConcludes
<1>11. CASE TokenExpires BY <1>11, Nothing DEF TokenExpires, loopVars
<1> QED BY <1>2, <1>3, <1>4, <1>5, <1>6, <1>7, <1>8, <1>9, <1>10, <1>11 DEF Key, Hook

LEMMA GuestReads ==
  ASSUME TypeOK, TypeOK', ~atHost, GuestInv, Message
  PROVE  GuestInv'
<1>1. CASE TakeCheck BY <1>1, ReadsCheck DEF TakeCheck, Takes, Ask, Prompted
<1>2. CASE TakeTurn BY <1>2, ReadsTurn DEF TakeTurn, Takes, Sets
<1>3. CASE TakeCard BY <1>3, ReadsCard DEF TakeCard, Takes, Sets
<1>4. CASE TakeEpk BY <1>4, ReadsMeld DEF TakeEpk, Takes, Sets
<1>5. CASE TakeMake BY <1>5, ReadsMake DEF TakeMake, Takes, Sets
<1>6. CASE TakeNewRound BY <1>6, ReadsNewRound DEF TakeNewRound, Takes, Closed
<1>7. CASE NoMessage BY <1>7, Nothing DEF NoMessage
<1> QED BY <1>1, <1>2, <1>3, <1>4, <1>5, <1>6, <1>7 DEF Message

\* What a guest may call of its own tile is no meld of a discard.
LEMMA MeldIsOfDiscard ==
  ASSUME TypeOK, ~atHost, GuestInv, table.checkOn, table.said \in {"eat", "pong", "unheld"}
  PROVE  table.stage # "holding"
<1>1. table.said \in Allowed BY DEF GuestInv, Offers
<1>2. table.stage = "holding" => table.offer \subseteq {"kang", "make"}
  BY DEF GuestInv, Offers, OwnCalls
<1> QED BY <1>1, <1>2 DEF Allowed

LEMMA GuestHears ==
  ASSUME TypeOK, TypeOK', ~atHost, GuestInv, Table
  PROVE  GuestInv'
<1>1. CASE OthersThrow
  <2>1. PICK o \in Claims :
       /\ table' = [table EXCEPT !.checkOn = TRUE, !.offer = o, !.inCheck = ~(atHost /\ ai)]
       /\ Sends(<<Msg("CHECK_CARD", o)>>)
    BY <1>1 DEF OthersThrow
  <2>2. o \in SUBSET Calls BY AiAssumption DEF Calls
  <2>3. table' = [table EXCEPT !.checkOn = TRUE, !.offer = o, !.inCheck = TRUE] BY <2>1
  <2> QED BY <1>1, <2>1, <2>2, <2>3, OthersThrowKeeps DEF OthersThrow, Sends
<1>2. CASE OurTurn BY <1>2, OurTurnKeeps DEF OurTurn, Sends
<1>3. CASE OthersWin
  <2>1. Quiet /\ inbox = <<>> /\ UNCHANGED <<outbox, table>> BY <1>3 DEF OthersWin
  <2>2. inbox' = inbox \o <<Msg("MAKE", {}), Msg("NEW_ROUND", {})>> /\ UNCHANGED <<play, input, offer>>
    BY <1>3 DEF OthersWin, RoundOver, Sends
  <2>3. \A t : In(t) = 0 BY <2>1, CountNone DEF In
  <2> HIDE DEF In, Out
  <2>4. /\ table.stage = "others" /\ ~table.checkOn /\ ~table.inCheck /\ table.said = "pass"
        /\ \A t : Out(t) = 0
    BY <2>1, Quieted
  <2> QED BY <2>1, <2>2, <2>3, <2>4, RoundEnds
<1>4. CASE Hears
  <2> DEFINE m == Head(outbox)
  <2>1. outbox # <<>> /\ outbox' = Tail(outbox) /\ UNCHANGED <<play, input, offer>>
    BY <1>4 DEF Hears, loopVars
  <2>2. CASE m.type = "CHECK_RESULT"
    <3>1. table' = [table EXCEPT !.inCheck = FALSE, !.said = m.what] /\ inbox' = inbox
      BY <1>4, <2>2 DEF Hears
    <3> QED BY <2>1, <2>2, <3>1, HearsAnswer
  <2>3. CASE m.type = "THROW_CARD"
    <3>1. table' = [table EXCEPT !.stage = "others"] /\ inbox' = inbox
      BY <1>4, <2>3 DEF Hears
    <3> QED BY <2>1, <2>3, <3>1, HearsThrow
  <2>4. CASE m.type = "REQUEST_CARD"
    <3>1. PICK o \in OwnClaims \cup {{}} :
              /\ table' = [table EXCEPT !.stage = "holding", !.inCheck = o # {},
                                        !.checkOn = @ \/ o # {}, !.offer = o]
              /\ inbox' = inbox \o (IF o = {} THEN <<>> ELSE <<Msg("CHECK_CARD", o)>>)
                                \o <<Msg("GET_CARD", {})>>
      BY <1>4, <2>4 DEF Hears
    <3>2. o \in SUBSET OwnCalls BY OwnOffers
    <3> QED BY <2>1, <2>4, <3>1, <3>2, HearsRequest
  <2>5. m \in Outbound
    <3>1. outbox \in Seq(Outbound) BY DEF TypeOK
    <3> QED BY <2>1, <3>1
  <2> QED BY <2>2, <2>3, <2>4, <2>5 DEF Outbound
<1>5. CASE Decides
  <2>1. table.checkOn /\ ~table.inCheck /\ outbox' = outbox BY <1>5 DEF Decides
  <2>2. CASE Passed BY <2>1, <2>2, PassedKeeps DEF Passed
  <2>3. CASE Melds
    <3>1. /\ table.said \in {"eat", "pong", "unheld"}
          /\ table' = [table EXCEPT !.checkOn = FALSE, !.said = "pass", !.offer = {}, !.stage = "holding"]
          /\ inbox' = inbox \o <<Msg("EPK", {table.said})>> /\ UNCHANGED <<play, input, offer>>
      BY <2>3 DEF Melds, Verdict, Sends
    <3>2. table.stage # "holding" BY <2>1, <3>1, MeldIsOfDiscard
    <3> QED BY <2>1, <3>1, <3>2, GrantKeeps
  <2>4. CASE Kongs
    <3>1. /\ table.said = "kang"
          /\ table' = [table EXCEPT !.checkOn = FALSE, !.said = "pass", !.offer = {}, !.stage = "ours"]
          /\ inbox' = inbox \o <<Msg("EPK", {"kang"})>> /\ UNCHANGED <<play, input, offer>>
      BY <2>4 DEF Kongs, Verdict, Sends
    <3> QED BY <2>1, <3>1, GrantKeeps
  <2>5. CASE Wins
    <3>1. /\ table.said = "make"
          /\ table' = [table EXCEPT !.checkOn = FALSE, !.said = "pass", !.offer = {}, !.stage = "others"]
          /\ inbox' = inbox \o <<Msg("MAKE", {}), Msg("NEW_ROUND", {})>>
          /\ UNCHANGED <<play, input, offer>>
      BY <2>5 DEF Wins, RoundOver, Sends
    <3>2. /\ table'.stage = "others" /\ ~table'.checkOn /\ ~table'.inCheck /\ table'.said = "pass"
      BY <2>1, <3>1 DEF TypeOK, Tables
    <3>3. /\ table.stage # "ours" /\ In("EPK") = 0 /\ In("MAKE") = 0 /\ In("NEW_ROUND") = 0
          /\ Out("THROW_CARD") = 0
      BY <3>1, Granted
    <3> QED BY <2>1, <3>1, <3>2, <3>3, RoundEnds
  <2> QED BY <1>5, <2>2, <2>3, <2>4, <2>5 DEF Decides
<1>6. CASE NothingHeard BY <1>6 DEF NothingHeard
<1> QED BY <1>1, <1>2, <1>3, <1>4, <1>5, <1>6 DEF Table

-----------------------------------------------------------------------------
(* The invariant, and what follows from it.                                 *)

LEMMA InitInv == Init => TypeOK /\ Inv
<1> SUFFICES ASSUME Init PROVE TypeOK /\ Inv OBVIOUS
<1>1. TypeOK
  <2>1. call \in CallType BY IdleType DEF Init
  <2>2. inbox \in Seq(Inbound) /\ outbox \in Seq(Outbound) BY DEF Init
  <2>3. table \in Tables BY DEF Init, Tables, Answers
  <2> QED BY <2>1, <2>2, <2>3 DEF Init, TypeOK, Stops, CallType
<1>2. Called BY DEF Init, Called, Idle
<1>3. HostMove BY DEF Init, HostMove
<1>4. GuestInv
  <2>1. \A t : In(t) = 0 /\ Out(t) = 0 BY CountNone DEF Init, In, Out
  <2> HIDE DEF In, Out
  <2>2. inbox = <<>> /\ outbox = <<>> /\ DOMAIN inbox = {} /\ DOMAIN outbox = {} BY DEF Init
  <2>3. Question BY <2>1 DEF Init, Question, One
  <2>4. Offers BY <2>2 DEF Init, Offers, Allowed
  <2>5. Move BY <2>1 DEF Init, Move
  <2>6. Melded /\ InOrder BY <2>2 DEF Melded, InOrder
  <2>7. Rounds /\ Thrown /\ Drawn BY <2>1 DEF Rounds, Thrown, Drawn
  <2> QED BY <2>3, <2>4, <2>5, <2>6, <2>7 DEF GuestInv
<1> QED BY <1>1, <1>2, <1>3, <1>4 DEF Inv

LEMMA NextKeepsInv ==
  ASSUME ~Hasty, TypeOK, Inv, [Next]_vars
  PROVE  TypeOK' /\ Inv'
<1>1. TypeOK' BY NextKeepsType DEF Inv, Called, Reasoned
<1>2. Called' BY CallsKept DEF Inv
<1>3. atHost' = atHost
  <2>1. CASE Request
    BY <2>1 DEF Request, RequestFails, RequestRefused, RequestAnswered, Concludes, Waits
  <2>2. CASE ~Request
    BY <2>2 DEF Next, Key, Hook, Message, Table, KeyAnswer, KeyEat, KeyDraw, KeyThrow, KeyTalk,
                KeyBack, KeySwitch, NoKey, Typed, DrawHook, CheckHook, DiscardHook, TokenExpires,
                TakeCheck, TakeTurn, TakeCard, TakeEpk, TakeMake, TakeNewRound, NoMessage, Takes,
                OthersThrow, OurTurn, OthersWin, Hears, Decides, NothingHeard, vars
  <2> QED BY <2>1, <2>2
<1>4. CASE atHost BY <1>1, <1>2, <1>3, <1>4, HostKeeps DEF Inv
<1>5. CASE ~atHost
  <2>1. GuestInv BY <1>5 DEF Inv
  <2>2. GuestInv'
    <3>1. Called BY DEF Inv
    <3>2. CASE UNCHANGED vars BY <1>1, <2>1, <3>2, Nothing DEF vars, loopVars
    <3>3. CASE Key \/ Hook \/ Request \/ TokenExpires BY <1>1, <1>5, <2>1, <3>1, <3>3, GuestPlays
    <3>4. CASE Message BY <1>1, <1>5, <2>1, <3>4, GuestReads
    <3>5. CASE Table BY <1>1, <1>5, <2>1, <3>5, GuestHears
    <3> QED BY <3>2, <3>3, <3>4, <3>5 DEF Next
  <2> QED BY <1>1, <1>2, <1>3, <1>5, <2>2 DEF Inv
<1> QED BY <1>4, <1>5

LEMMA InvHolds == ASSUME ~Hasty PROVE Spec => [](TypeOK /\ Inv)
<1>1. Init => TypeOK /\ Inv BY InitInv
<1>2. TypeOK /\ Inv /\ [Next]_vars => (TypeOK /\ Inv)' BY NextKeepsInv
<1> QED BY <1>1, <1>2, PTL DEF Spec

LEMMA InvAnswersOnce == TypeOK /\ Inv => AnsweredOnce
<1> SUFFICES ASSUME TypeOK, Inv, ~atHost PROVE AnsweredOnce BY DEF AnsweredOnce
<1>1. In("CHECK_CARD") + Out("CHECK_RESULT") + One(input # "play") = One(table.inCheck)
  BY DEF Inv, GuestInv, Question
<1>2. One(input # "play") = One(input \in {"check", "eat"}) BY DEF TypeOK, One
<1> QED BY <1>1, <1>2 DEF AnsweredOnce, In, Out

LEMMA InvMovesOnce == TypeOK /\ Inv => MoveInOnePlace
<1> SUFFICES ASSUME TypeOK, Inv PROVE MoveInOnePlace OBVIOUS
<1>1. Count(inbox, {"CAN_GET", "EPK"}) = In("CAN_GET") + In("EPK") BY CountTwo DEF TypeOK, In
<1>2. \A t : In(t) \in Nat /\ Out(t) \in Nat BY Numbers
<1>3. /\ Count(outbox, {"REQUEST_CARD"}) = Out("REQUEST_CARD")
      /\ Count(outbox, {"THROW_CARD"}) = Out("THROW_CARD")
      /\ Count(inbox, {"GET_CARD"}) = In("GET_CARD") /\ Count(inbox, {"EPK"}) = In("EPK")
  BY DEF In, Out
<1>4. One(play = "get") \in Nat /\ One(play = "throw") \in Nat BY DEF One
<1>5. CASE atHost
  <2>1. \A t : In(t) = 0 /\ Out(t) = 0 BY <1>5, CountNone DEF Inv, HostMove, In, Out
  <2> HIDE DEF In, Out
  <2>2. table.stage = "ours" => One(play = "get") = 1 BY <1>5 DEF Inv, HostMove, One
  <2>3. table.stage = "holding" => One(play = "throw") = 1 BY <1>5 DEF Inv, HostMove, One
  <2> QED BY <1>1, <1>3, <2>1, <2>2, <2>3 DEF MoveInOnePlace
<1>6. CASE ~atHost
  <2> HIDE DEF In, Out
  <2>1. Move BY <1>6 DEF Inv, GuestInv
  <2> QED BY <1>1, <1>2, <1>3, <1>4, <2>1 DEF Move, MoveInOnePlace
<1> QED BY <1>5, <1>6

LEMMA InvAnswersSound == ASSUME ~Careless PROVE TypeOK /\ Inv => AnswersSound
<1>1. Allowed = table.offer \cup {"pass"} BY DEF Allowed
<1> QED BY <1>1 DEF Inv, GuestInv, Offers, AnswersSound, OnlyOffered

(* While the host waits for a guest's answer its question is in one place:     *)
(* on its way, on the screen, before the service, or answered.  The person and *)
(* the service never both answer, and no chat, no switched-off service and no  *)
(* reply that nobody understands loses it.                                     *)
THEOREM QuestionInOnePlace == ASSUME ~Hasty PROVE Spec => []AnsweredOnce
<1>1. Spec => [](TypeOK /\ Inv) BY InvHolds
<1> QED BY <1>1, InvAnswersOnce, PTL

(* A player whose turn it is has been told, has asked for its tile, or holds   *)
(* it, and exactly one of them: ai_client.c's hooks and the person at the keys *)
(* never draw or throw twice for one turn.                                     *)
THEOREM MoveIsInOnePlace == ASSUME ~Hasty PROVE Spec => []MoveInOnePlace
<1>1. Spec => [](TypeOK /\ Inv) BY InvHolds
<1> QED BY <1>1, InvMovesOnce, PTL

(* A guest answers with what it was offered or passes, whatever the service    *)
(* replies, as long as it eats only with tiles the hand has.                   *)
THEOREM AnswersAreSound == ASSUME ~Hasty, ~Careless PROVE Spec => []AnswersSound
<1>1. Spec => [](TypeOK /\ Inv) BY InvHolds
<1> QED BY <1>1, InvAnswersSound, PTL
=============================================================================
