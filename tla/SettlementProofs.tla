-------------------------- MODULE SettlementProofs --------------------------
(***************************************************************************)
(* What TLAPS proves of the settlement, for every set of seats that are    *)
(* taken, every stake and every score: the books stay well-formed, what is *)
(* won is lost, the processes' books agree, and the lobby ends with the    *)
(* host's money.                                                           *)
(***************************************************************************)
EXTENDS Settlement, TLAPS

USE SeatedAssumption, PaymentAssumption, ScoresAssumption, BoundAssumption DEF Host, Seats

---------------------------------------------------------------------------
(* The helpers.                                                            *)

\* Some seat within the next four is taken: next_turn() ends, and at a taken seat.
LEMMA NextTurnType ==
  ASSUME NEW s \in Seats
  PROVE  NextTurn(s) \in Seated
<1> DEFINE At(d) == ((s + d - 1) % 4) + 1
           Found(t) == \E d \in 1 .. 4 : t = At(d) /\ \A e \in 1 .. d - 1 : At(e) \notin Seated
<1>1. \E d \in 1 .. 4 : At(d) \in Seated
  <2>1. CASE s = 1 BY <2>1, At(4) = 1
  <2>2. CASE s = 2 BY <2>2, At(3) = 1
  <2>3. CASE s = 3 BY <2>3, At(2) = 1
  <2>4. CASE s = 4 BY <2>4, At(1) = 1
  <2> QED BY <2>1, <2>2, <2>3, <2>4
<1> HIDE DEF At
<1>2. \E t \in Seated : Found(t)
  <2>1. CASE At(1) \in Seated
    <3>1. Found(At(1)) BY 1 \in 1 .. 4, 1 .. 1 - 1 = {}
    <3> QED BY <2>1, <3>1
  <2>2. CASE At(1) \notin Seated /\ At(2) \in Seated
    <3>1. Found(At(2)) BY <2>2, 2 \in 1 .. 4, 1 .. 2 - 1 = {1}
    <3> QED BY <2>2, <3>1
  <2>3. CASE At(1) \notin Seated /\ At(2) \notin Seated /\ At(3) \in Seated
    <3>1. Found(At(3)) BY <2>3, 3 \in 1 .. 4, 1 .. 3 - 1 = {1, 2}
    <3> QED BY <2>3, <3>1
  <2>4. CASE At(1) \notin Seated /\ At(2) \notin Seated /\ At(3) \notin Seated
    <3>1. At(4) \in Seated BY <1>1, <2>4
    <3>2. Found(At(4)) BY <2>4, 4 \in 1 .. 4, 1 .. 4 - 1 = {1, 2, 3}
    <3> QED BY <3>1, <3>2
  <2> QED BY <2>1, <2>2, <2>3, <2>4
<1>3. NextTurn(s) = CHOOSE t \in Seated : Found(t) BY DEF NextTurn, At
<1> HIDE DEF Found
<1> QED BY <1>2, <1>3

\* opening() and open_deal() leave well-formed books.
LEMMA DealtType ==
  ASSUME NEW p \in Seated, NEW k \in Known, NEW any \in BOOLEAN, NEW fs \in SUBSET Seats
  PROVE  Dealt(p, k, any, fs) \in Known
<1>1. k.dealer \in Seats /\ NextTurn(k.dealer) \in Seated BY NextTurnType DEF Known
<1> HIDE DEF Seats
<1>2. Seats \in SUBSET Seats OBVIOUS
<1> QED BY <1>1, <1>2 DEF Dealt, Known

\* A claim, a throw and a flower do.
LEMMA AfterMeldType ==
  ASSUME NEW p \in Seated, knows[p] \in Known, NEW s \in Seated,
         NEW kong \in BOOLEAN, NEW added \in BOOLEAN
  PROVE  AfterMeld(p, s, kong, added) \in Known
<1> DEFINE k == knows[p]
           heard == kong /\ (added => p \in {s, Host})
<1> HIDE DEF Seats
<1>1. CASE heard
  <2>1. AfterMeld(p, s, kong, added) = [k EXCEPT !.owner = s, !.kang = TRUE]
    BY <1>1 DEF AfterMeld
  <2> QED BY <2>1 DEF Known
<1>2. CASE ~heard
  <2>1. AfterMeld(p, s, kong, added) = [k EXCEPT !.owner = s, !.kang = @]
    BY <1>2 DEF AfterMeld, Known
  <2> QED BY <2>1 DEF Known
<1> QED BY <1>1, <1>2

LEMMA AfterThrowType ==
  ASSUME NEW p \in Seated, knows[p] \in Known, NEW s \in Seats
  PROVE  AfterThrow(p, s) \in Known
<1> HIDE DEF Seats
<1>1. knows[p].first \ {s} \in SUBSET Seats BY DEF Known
<1> QED BY <1>1 DEF Known, AfterThrow

LEMMA AfterFlowerType ==
  ASSUME NEW k \in Known, NEW fs \in SUBSET Seats
  PROVE  [k EXCEPT !.kang = TRUE, !.flowers = fs] \in Known
<1> HIDE DEF Seats
<1> QED BY DEF Known

\* A score is a number.
LEMMA ScoreType ==
  ASSUME NEW k \in Known, win.tiles \in Nat
  PROVE  Score(k) \in Nat
BY DEF Score, Known

\* So is a payment.
LEMMA DueType ==
  ASSUME NEW k \in Known, NEW i \in Seats, win.tiles \in Nat
  PROVE  Due(k, i) \in Int
<1>1. Score(k) \in Nat /\ k.cont \in Nat BY ScoreType DEF Known
<1>2. \A a, b \in Int : a * b \in Int OBVIOUS
<1> QED BY <1>1, <1>2 DEF Due

\* What change_money[] adds up to: the winner's seat pays nothing, and has what the
\* three others pay.
LEMMA ChangeSum ==
  ASSUME NEW k \in Known, win.sit \in Seats, win.tiles \in Nat
  PROVE  /\ Change(k) \in [Seats -> Int]
         /\ Change(k)[1] + Change(k)[2] + Change(k)[3] + Change(k)[4] = 0
<1> DEFINE Paid(i) == IF Pays(k, i) THEN Due(k, i) ELSE 0
<1>1. \A i \in Seats : Paid(i) \in Int BY DueType
<1>2. ~Pays(k, win.sit) BY DEF Pays
<1>3. Paid(win.sit) = 0 BY <1>2
<1>4. Change(k) = [i \in Seats |-> IF i = win.sit THEN Paid(1) + Paid(2) + Paid(3) + Paid(4)
                                   ELSE -Paid(i)]
  BY DEF Change
<1> HIDE DEF Paid
<1>5. 1 \in Seats /\ 2 \in Seats /\ 3 \in Seats /\ 4 \in Seats OBVIOUS
<1>6. Change(k) \in [Seats -> Int] BY <1>1, <1>4, <1>5
<1>7. CASE win.sit = 1 BY <1>1, <1>3, <1>4, <1>5, <1>7, SMTT(40)
<1>8. CASE win.sit = 2 BY <1>1, <1>3, <1>4, <1>5, <1>8
<1>9. CASE win.sit = 3 BY <1>1, <1>3, <1>4, <1>5, <1>9
<1>10. CASE win.sit = 4 BY <1>1, <1>3, <1>4, <1>5, <1>10
<1> QED BY <1>6, <1>7, <1>8, <1>9, <1>10

Messages == [who : Seated, money : Int]

\* What the host sends to the lobby is well-formed.
LEMMA ReportsType ==
  ASSUME NEW k \in Known, win.sit \in Seats, win.tiles \in Nat
  PROVE  Reports(k) \in Seq(Messages)
<1> DEFINE One(i) == IF i \in Seated THEN <<[who |-> i, money |-> k.money[i] + Change(k)[i]]>>
                     ELSE <<>>
<1>1. \A i \in Seats : k.money[i] + Change(k)[i] \in Int BY ChangeSum DEF Known
<1>2. \A i \in Seats : One(i) \in Seq(Messages)
  <2> TAKE i \in Seats
  <2>1. CASE i \in Seated
    <3>1. [who |-> i, money |-> k.money[i] + Change(k)[i]] \in Messages
      BY <1>1, <2>1 DEF Messages
    <3> HIDE DEF Messages
    <3> QED BY <2>1, <3>1
  <2>2. CASE i \notin Seated BY <2>2
  <2> QED BY <2>1, <2>2
<1>3. Reports(k) = One(1) \o One(2) \o One(3) \o One(4) BY DEF Reports
<1> HIDE DEF One
<1>4. One(1) \in Seq(Messages) /\ One(2) \in Seq(Messages)
      /\ One(3) \in Seq(Messages) /\ One(4) \in Seq(Messages)
  BY <1>2
<1> QED BY <1>3, <1>4

\* So is a book when dealer and wind have turned.
LEMMA RotatedType ==
  ASSUME NEW k \in Known
  PROVE  Rotated(k) \in Known
<1>1. k.cont + 1 \in Nat /\ 0 \in Nat BY DEF Known
<1>2. (k.dealer % 4) + 1 \in Seats BY DEF Known
<1>3. (k.wind % 4) + 1 \in 1 .. 4 BY DEF Known
<1>4. [k EXCEPT !.cont = @ + 1] \in Known BY <1>1 DEF Known
<1>5. ASSUME NEW w \in 1 .. 4
      PROVE  [k EXCEPT !.dealer = (@ % 4) + 1, !.cont = 0, !.wind = w] \in Known
  BY <1>1, <1>2 DEF Known
<1>6. k.wind \in 1 .. 4 BY DEF Known
<1> QED BY <1>3, <1>4, <1>5, <1>6 DEF Rotated

\* A book that has settled is well-formed.
LEMMA SettledType ==
  ASSUME NEW k \in Known, win.sit \in Seats, win.tiles \in Nat
  PROVE  AfterWin(k) \in Known
<1>1. [i \in Seats |-> k.money[i] + Change(k)[i]] \in [Seats -> Int] BY ChangeSum DEF Known
<1> HIDE DEF Seats
<1> QED BY <1>1, RotatedType DEF AfterWin, Known

\* A deal keeps everything well-formed.
LEMMA DealKeepsType ==
  ASSUME TypeOK, NEW k, \A p \in Seated : k[p] \in Known, Deal(k)
  PROVE  TypeOK'
<1>1. PICK f \in DealtFlowers : knows' = [p \in Seated |-> Dealt(p, k[p], f.any, f.doors)]
  BY DEF Deal
<1>2. f.any \in BOOLEAN /\ f.doors \in SUBSET Seats BY <1>1 DEF DealtFlowers
<1>3. knows' \in [Seated -> Known] BY <1>1, <1>2, DealtType
<1> QED BY <1>3 DEF Deal, TypeOK, Phases, Replaced

\* Every step does.
LEMMA NextKeepsType == TypeOK /\ [Next]_vars => TypeOK'
<1> SUFFICES ASSUME TypeOK, [Next]_vars PROVE TypeOK' OBVIOUS
<1>0. \A p \in Seated : knows[p] \in Known BY DEF TypeOK
<1>1. win.sit \in Seated /\ win.sit \in Seats /\ win.tiles \in Nat BY DEF TypeOK
<1>2. Turn \in Seated BY <1>0 DEF Turn, Known
<1>3. ASSUME NEW s \in Seats, Draw(s) PROVE TypeOK'
  <2>0. s \in Seated BY <1>2, <1>3, NextTurnType DEF Draw
  <2>1. \A p \in Seated : [knows[p] EXCEPT !.owner = s] \in Known BY <1>0, <2>0 DEF Known
  <2>2. knows' \in [Seated -> Known] BY <1>3, <2>1 DEF Draw
  <2> QED BY <1>3, <2>2 DEF Draw, TypeOK, Phases, Replaced
<1>4. ASSUME NEW s \in Seats, Win(s) PROVE TypeOK'
  <2>1. s \in Seated BY <1>2, <1>4 DEF Win
  <2>2. win' \in [sit : Seated, tiles : Nat] BY <1>4, <2>1 DEF Win
  <2> QED BY <1>4, <2>2 DEF Win, TypeOK, Phases
<1>5. ASSUME NEW s \in Seats, NEW kong \in BOOLEAN, Claim(s, kong) PROVE TypeOK'
  <2>0. s \in Seated BY <1>5 DEF Claim
  <2>1. \A p \in Seated : AfterMeld(p, s, kong, FALSE) \in Known
    BY <1>0, <2>0, AfterMeldType
  <2>2. knows' \in [Seated -> Known] BY <1>5, <2>1 DEF Claim
  <2> QED BY <1>5, <2>2 DEF Claim, TypeOK, Phases
<1>6. CASE Throw
  <2>1. \A p \in Seated : AfterThrow(p, Turn) \in Known BY <1>0, <1>2, AfterThrowType
  <2>2. knows' \in [Seated -> Known] BY <1>6, <2>1 DEF Throw
  <2> QED BY <1>6, <2>2 DEF Throw, TypeOK, Phases
<1>7. ASSUME NEW door \in BOOLEAN, Flower(door) PROVE TypeOK'
  <2>1. knows' = [p \in Seated |-> [knows[p] EXCEPT !.kang = TRUE,
                     !.flowers = IF door /\ p = Turn THEN @ \cup {p} ELSE @]]
    BY <1>7 DEF Flower
  <2>2. \A p \in Seated :
          [knows[p] EXCEPT !.kang = TRUE,
                           !.flowers = IF door /\ p = Turn THEN @ \cup {p} ELSE @] \in Known
    <3> TAKE p \in Seated
    <3>1. (IF door /\ p = Turn THEN knows[p].flowers \cup {p} ELSE knows[p].flowers)
            \in SUBSET Seats
      BY <1>0 DEF Known
    <3> QED BY <1>0, <3>1, AfterFlowerType
  <2>3. knows' \in [Seated -> Known] BY <2>1, <2>2
  <2> QED BY <1>7, <2>3 DEF Flower, TypeOK, Phases
<1>8. ASSUME NEW added \in BOOLEAN, Kong(added) PROVE TypeOK'
  <2>1. \A p \in Seated : AfterMeld(p, Turn, TRUE, added) \in Known
    BY <1>0, <1>2, AfterMeldType
  <2>2. knows' \in [Seated -> Known] BY <1>8, <2>1 DEF Kong
  <2> QED BY <1>8, <2>2 DEF Kong, TypeOK, Phases
<1>9. CASE SeaBottom
  <2> DEFINE k == [p \in Seated |-> [knows[p] EXCEPT !.cont = @ + 1]]
  <2>1. \A p \in Seated : k[p] \in Known BY <1>0 DEF Known
  <2>2. Deal(k) BY <1>9 DEF SeaBottom
  <2> QED BY <2>1, <2>2, DealKeepsType
<1>10. CASE New BY <1>0, <1>10, DealKeepsType DEF New
<1>11. CASE NewRound BY <1>0, <1>11, DealKeepsType DEF NewRound
<1>12. CASE LobbyHears
  <2>1. Head(reports) \in Messages /\ Tail(reports) \in Seq(Messages)
    <3>1. reports \in Seq(Messages) /\ reports # <<>>
      BY <1>12 DEF LobbyHears, TypeOK, Messages
    <3> HIDE DEF Messages
    <3> QED BY <3>1
  <2>2. account' \in [Seats -> Int] BY <1>12, <2>1 DEF LobbyHears, TypeOK, Messages
  <2> QED BY <1>12, <2>1, <2>2 DEF LobbyHears, TypeOK, Messages
<1>13. ASSUME NEW p \in Seated, Settle(p) PROVE TypeOK'
  <2>1. knows' \in [Seated -> Known]
    BY <1>0, <1>1, <1>13, SettledType DEF Settle, TypeOK
  <2>2. Reports(knows[p]) \in Seq(Messages) BY <1>0, <1>1, ReportsType
  <2>3. reports' \in Seq(Messages) BY <1>13, <2>2 DEF Settle, TypeOK, Messages
  <2> QED BY <1>13, <2>1, <2>3 DEF Settle, TypeOK, Messages
<1>14. CASE UNCHANGED vars BY <1>14 DEF vars, TypeOK
<1> QED BY <1>3, <1>4, <1>5, <1>6, <1>7, <1>8, <1>9, <1>10, <1>11, <1>12, <1>13, <1>14 DEF Next

\* A new game is well-formed.
LEMMA InitType == Init => TypeOK
<1> SUFFICES ASSUME Init PROVE TypeOK OBVIOUS
<1>1. PICK f \in DealtFlowers : knows = [p \in Seated |-> Dealt(p, Fresh, f.any, f.doors)]
  BY DEF Init
<1>2. f.any \in BOOLEAN /\ f.doors \in SUBSET Seats BY <1>1 DEF DealtFlowers
<1>3. Fresh \in Known BY DEF Fresh, Known
<1>4. knows \in [Seated -> Known] BY <1>1, <1>2, <1>3, DealtType
<1> QED BY <1>4 DEF Init, TypeOK, Phases, Replaced

\* The books of all processes, the reports and the accounts stay well-formed:
\* next_turn() finds a seat, and dealer and wind stay within the four.
THEOREM TypeCorrect == Spec => []TypeOK
BY InitType, NextKeepsType, PTL DEF Spec

---------------------------------------------------------------------------
(* Money.                                                                  *)

Settling == \E p \in Seated : Settle(p)

\* A deal moves no money.
LEMMA DealKeepsMoney ==
  ASSUME TypeOK, NEW k, Deal(k),
         \A p \in Seated : k[p] \in Known /\ k[p].money = knows[p].money
  PROVE  \A p \in Seated : knows'[p].money = knows[p].money
<1>1. PICK f \in DealtFlowers : knows' = [p \in Seated |-> Dealt(p, k[p], f.any, f.doors)]
  BY DEF Deal
<1> TAKE p \in Seated
<1>2. knows'[p] = Dealt(p, k[p], f.any, f.doors) BY <1>1
<1>3. Dealt(p, k[p], f.any, f.doors).money = k[p].money BY DEF Dealt, Known
<1> QED BY <1>2, <1>3

\* Nothing but process_make() moves money in a book.
LEMMA MoneyStays ==
  ASSUME TypeOK, [Next]_vars, ~Settling
  PROVE  \A p \in Seated : knows'[p].money = knows[p].money
<1>0. \A p \in Seated : knows[p] \in Known BY DEF TypeOK
<1>1. ASSUME NEW s \in Seats, Draw(s) PROVE \A p \in Seated : knows'[p].money = knows[p].money
  <2> TAKE p \in Seated
  <2>1. knows'[p] = [knows[p] EXCEPT !.owner = s] BY <1>1 DEF Draw
  <2>2. ([knows[p] EXCEPT !.owner = s]).money = knows[p].money BY <1>0 DEF Known
  <2> QED BY <2>1, <2>2
<1>2. ASSUME NEW s \in Seats, NEW kong \in BOOLEAN, Claim(s, kong)
      PROVE  \A p \in Seated : knows'[p].money = knows[p].money
  <2> TAKE p \in Seated
  <2>1. knows'[p] = AfterMeld(p, s, kong, FALSE) BY <1>2 DEF Claim
  <2>2. (AfterMeld(p, s, kong, FALSE)).money = knows[p].money BY <1>0 DEF AfterMeld, Known
  <2> QED BY <2>1, <2>2
<1>3. CASE Throw
  <2> TAKE p \in Seated
  <2>1. knows'[p] = AfterThrow(p, Turn) BY <1>3 DEF Throw
  <2>2. (AfterThrow(p, Turn)).money = knows[p].money BY <1>0 DEF AfterThrow, Known
  <2> QED BY <2>1, <2>2
<1>4. ASSUME NEW door \in BOOLEAN, Flower(door)
      PROVE  \A p \in Seated : knows'[p].money = knows[p].money
  <2> TAKE p \in Seated
  <2>1. PICK fs : knows'[p] = [knows[p] EXCEPT !.kang = TRUE, !.flowers = fs]
    BY <1>4 DEF Flower
  <2>2. [knows[p] EXCEPT !.kang = TRUE, !.flowers = fs].money = knows[p].money
    BY <1>0 DEF Known
  <2> QED BY <2>1, <2>2
<1>5. ASSUME NEW added \in BOOLEAN, Kong(added)
      PROVE  \A p \in Seated : knows'[p].money = knows[p].money
  <2> TAKE p \in Seated
  <2>1. knows'[p] = AfterMeld(p, Turn, TRUE, added) BY <1>5 DEF Kong
  <2>2. (AfterMeld(p, Turn, TRUE, added)).money = knows[p].money BY <1>0 DEF AfterMeld, Known
  <2> QED BY <2>1, <2>2
<1>6. CASE SeaBottom
  <2> DEFINE k == [p \in Seated |-> [knows[p] EXCEPT !.cont = @ + 1]]
  <2>1. \A p \in Seated : k[p] \in Known /\ k[p].money = knows[p].money BY <1>0 DEF Known
  <2>2. Deal(k) BY <1>6 DEF SeaBottom
  <2> QED BY <2>1, <2>2, DealKeepsMoney
<1>7. CASE New BY <1>0, <1>7, DealKeepsMoney DEF New
<1>8. CASE NewRound BY <1>0, <1>8, DealKeepsMoney DEF NewRound
<1>9. ASSUME NEW s \in Seats, Win(s) PROVE knows' = knows BY <1>9 DEF Win
<1>10. CASE LobbyHears BY <1>10 DEF LobbyHears
<1>11. CASE UNCHANGED vars BY <1>11 DEF vars
<1> QED BY <1>1, <1>2, <1>3, <1>4, <1>5, <1>6, <1>7, <1>8, <1>9, <1>10, <1>11 DEF Next, Settling

\* What process_make() makes of the money in the book of p.
LEMMA MoneySettled ==
  ASSUME TypeOK, NEW p \in Seated, Settle(p)
  PROVE  /\ \A q \in Seated \ {p} : knows'[q] = knows[q]
         /\ knows'[p].money = [i \in Seats |-> knows[p].money[i] + Change(knows[p])[i]]
<1>1. knows[p] \in Known BY DEF TypeOK
<1>2. Rotated(knows[p]) \in Known BY <1>1, RotatedType
<1>3. knows' = [knows EXCEPT ![p] = AfterWin(knows[p])] BY DEF Settle
<1> HIDE DEF Seats
<1> QED BY <1>2, <1>3 DEF TypeOK, Known, AfterWin

\* What the winner gets the others pay, in every book.
LEMMA NextKeepsSums == TypeOK /\ SumsKept /\ [Next]_vars => SumsKept'
<1> SUFFICES ASSUME TypeOK, SumsKept, [Next]_vars PROVE SumsKept' OBVIOUS
<1>1. CASE ~Settling
  <2>1. \A p \in Seated : knows'[p].money = knows[p].money BY <1>1, MoneyStays
  <2> QED BY <2>1 DEF SumsKept
<1>2. ASSUME NEW p \in Seated, Settle(p) PROVE SumsKept'
  <2> DEFINE k == knows[p]
             m == [i \in Seats |-> k.money[i] + Change(k)[i]]
  <2>1. k \in Known /\ win.sit \in Seats /\ win.tiles \in Nat BY DEF TypeOK
  <2>2. /\ \A q \in Seated \ {p} : knows'[q] = knows[q]
        /\ knows'[p].money = m
    BY <1>2, MoneySettled
  <2>3. k.money \in [Seats -> Int] BY <2>1 DEF Known
  <2>4. Sum(m) = Sum(k.money)
    <3>1. /\ Change(k) \in [Seats -> Int]
          /\ Change(k)[1] + Change(k)[2] + Change(k)[3] + Change(k)[4] = 0
      BY <2>1, ChangeSum
    <3> HIDE DEF k
    <3> QED BY <2>3, <3>1 DEF Sum
  <2>5. Sum(k.money) = Sum(Start) BY DEF SumsKept
  <2> HIDE DEF m
  <2> QED BY <2>2, <2>4, <2>5 DEF SumsKept
<1> QED BY <1>1, <1>2 DEF Settling

\* The money of the four seats adds up to what it was at the start, at every process
\* and after any number of wins, whoever is dealer and however many seats are empty.
THEOREM NothingIsCreated == Spec => []BooksSound
<1>1. Init => SumsKept
  <2> SUFFICES ASSUME Init PROVE SumsKept OBVIOUS
  <2>1. PICK f \in DealtFlowers : knows = [p \in Seated |-> Dealt(p, Fresh, f.any, f.doors)]
    BY DEF Init
  <2>2. \A p \in Seated : Dealt(p, Fresh, f.any, f.doors).money = Start BY DEF Dealt, Fresh
  <2> QED BY <2>1, <2>2 DEF SumsKept
<1>2. Spec => []SumsKept BY <1>1, NextKeepsSums, TypeCorrect, PTL DEF Spec
<1> QED BY <1>2, TypeCorrect, PTL DEF BooksSound

---------------------------------------------------------------------------
(* The books agree.                                                        *)

\* All but in_kang.
Forget(k) == [k EXCEPT !.kang = FALSE]

\* Two players of whom both or neither has settled know the same, except that a kong
\* just added to a pong is not known to all.
SameBooks ==
  \A p, q \in Seated : (p \in settled <=> q \in settled) =>
    /\ Forget(knows[p]) = Forget(knows[q])
    /\ JustAdded \/ knows[p] = knows[q]

\* Who has settled knows what the others will know when they have.
BooksAhead == \A p \in settled, q \in Seated \ settled : knows[p] = AfterWin(knows[q])

BooksInv ==
  /\ TypeOK /\ SameBooks /\ BooksAhead
  /\ phase # "won" => settled = {}

\* Without flowers of a door a deal treats all books alike.
LEMMA DealAgrees ==
  ASSUME Doors = {}, NEW k, Deal(k), \A p, q \in Seated : k[p] = k[q]
  PROVE  SameBooks' /\ BooksAhead' /\ (phase # "won" => settled = {})'
<1>1. PICK f \in DealtFlowers : knows' = [p \in Seated |-> Dealt(p, k[p], f.any, f.doors)]
  BY DEF Deal
<1>2. f.doors = {} BY <1>1 DEF DealtFlowers
<1>3. \A p, q \in Seated : Dealt(p, k[p], f.any, f.doors) = Dealt(q, k[q], f.any, f.doors)
  BY <1>2 DEF Dealt
<1>4. \A p, q \in Seated : knows'[p] = knows'[q] BY <1>1, <1>3
<1> QED BY <1>4 DEF SameBooks, BooksAhead, Deal

\* Every step keeps the books alike, if nobody wins and no new hand is dealt right
\* after a kong was added to a pong.
LEMMA NextKeepsBooks ==
  ASSUME Doors = {}, ~AddedWins, BooksInv, [Next]_vars
  PROVE  BooksInv'
<1>0. TypeOK' /\ \A p \in Seated : knows[p] \in Known
  BY NextKeepsType DEF BooksInv, TypeOK
<1> DEFINE Books == SameBooks' /\ BooksAhead' /\ (phase # "won" => settled = {})'
<1> SUFFICES Books BY <1>0 DEF BooksInv
<1>a. phase # "won" => \A p, q \in Seated : /\ Forget(knows[p]) = Forget(knows[q])
                                            /\ JustAdded \/ knows[p] = knows[q]
  BY DEF BooksInv, SameBooks
<1>1. ASSUME NEW s \in Seats, Draw(s) PROVE Books
  <2>1. \A p \in Seated : knows'[p] = [knows[p] EXCEPT !.owner = s] BY <1>1 DEF Draw
  <2>2. phase # "won" /\ phase' = "holding" /\ settled' = settled
    BY <1>1 DEF Draw, Replaced
  <2>3. \A p, q \in Seated : Forget(knows'[p]) = Forget(knows'[q])
    <3> TAKE p, q \in Seated
    <3>1. Forget(knows'[p]) = [Forget(knows[p]) EXCEPT !.owner = s]
      BY <1>0, <2>1, ZenonT(60) DEF Forget, Known
    <3>2. Forget(knows'[q]) = [Forget(knows[q]) EXCEPT !.owner = s]
      BY <1>0, <2>1, ZenonT(60) DEF Forget, Known
    <3> QED BY <1>a, <2>2, <3>1, <3>2
  <2>4. JustAdded => JustAdded' BY <1>1 DEF Draw, JustAdded, Replaced
  <2>5. ~JustAdded => \A p, q \in Seated : knows'[p] = knows'[q] BY <1>a, <2>1, <2>2
  <2> QED BY <2>2, <2>3, <2>4, <2>5 DEF SameBooks, BooksAhead, BooksInv
<1>2. ASSUME NEW s \in Seats, NEW kong \in BOOLEAN, Claim(s, kong) PROVE Books
  <2>1. \A p, q \in Seated : knows[p] = knows[q] BY <1>2, <1>a DEF Claim, JustAdded
  <2>2. \A p, q \in Seated : AfterMeld(p, s, kong, FALSE) = AfterMeld(q, s, kong, FALSE)
    BY <2>1 DEF AfterMeld
  <2> QED BY <1>2, <2>2 DEF Claim, SameBooks, BooksAhead, BooksInv
<1>3. CASE Throw
  <2>1. \A p \in Seated : AfterThrow(p, Turn) = [Forget(knows[p]) EXCEPT !.first = @ \ {Turn}]
    BY <1>0 DEF AfterThrow, Forget, Known
  <2>2. \A p, q \in Seated : AfterThrow(p, Turn) = AfterThrow(q, Turn)
    BY <1>3, <1>a, <2>1 DEF Throw
  <2> QED BY <1>3, <2>2 DEF Throw, SameBooks, BooksAhead, BooksInv
<1>4. ASSUME NEW door \in BOOLEAN, Flower(door) PROVE Books
  <2>1. door = FALSE BY <1>4 DEF Flower
  <2>2. \A p \in Seated : knows'[p] = [Forget(knows[p]) EXCEPT !.kang = TRUE]
    BY <1>0, <1>4, <2>1 DEF Flower, Forget, Known
  <2>3. \A p, q \in Seated : Forget(knows[p]) = Forget(knows[q]) BY <1>4, <1>a DEF Flower
  <2>4. \A p, q \in Seated : knows'[p] = knows'[q] BY <2>2, <2>3
  <2> QED BY <1>4, <2>4 DEF Flower, SameBooks, BooksAhead, BooksInv
<1>5. ASSUME NEW added \in BOOLEAN, Kong(added) PROVE Books
  <2>1. \A p \in Seated : knows'[p] = AfterMeld(p, Turn, TRUE, added) BY <1>5 DEF Kong
  <2>2. \A p, q \in Seated : Forget(knows'[p]) = Forget(knows'[q])
    <3> TAKE p, q \in Seated
    <3>1. Forget(knows'[p]) = [Forget(knows[p]) EXCEPT !.owner = Turn]
      BY <1>0, <2>1, ZenonT(60) DEF Forget, AfterMeld, Known
    <3>2. Forget(knows'[q]) = [Forget(knows[q]) EXCEPT !.owner = Turn]
      BY <1>0, <2>1, ZenonT(60) DEF Forget, AfterMeld, Known
    <3> QED BY <1>5, <1>a, <3>1, <3>2 DEF Kong
  <2>3. CASE added BY <1>5, <2>2, <2>3 DEF Kong, SameBooks, BooksAhead, JustAdded, BooksInv
  <2>4. CASE ~added
    <3>1. \A p \in Seated : knows'[p] = [Forget(knows[p]) EXCEPT !.owner = Turn, !.kang = TRUE]
      <4> TAKE p \in Seated
      <4>1. knows'[p] = [knows[p] EXCEPT !.owner = Turn, !.kang = TRUE]
        BY <2>1, <2>4 DEF AfterMeld
      <4> QED BY <1>0, <4>1 DEF Forget, Known
    <3>2. \A p, q \in Seated : Forget(knows[p]) = Forget(knows[q]) BY <1>5, <1>a DEF Kong
    <3>3. \A p, q \in Seated : knows'[p] = knows'[q] BY <3>1, <3>2
    <3> QED BY <1>5, <3>3 DEF Kong, SameBooks, BooksAhead, BooksInv
  <2> QED BY <2>3, <2>4
<1>6. CASE SeaBottom
  <2> DEFINE k == [p \in Seated |-> [knows[p] EXCEPT !.cont = @ + 1]]
  <2>1. \A p, q \in Seated : k[p] = k[q] BY <1>6, <1>a DEF SeaBottom, JustAdded
  <2>2. Deal(k) BY <1>6 DEF SeaBottom
  <2> QED BY <2>1, <2>2, DealAgrees
<1>7. CASE New
  <2>1. \A p, q \in Seated : knows[p] = knows[q] BY <1>7, <1>a DEF New
  <2> QED BY <1>7, <2>1, DealAgrees DEF New
<1>8. CASE NewRound
  <2>1. \A p, q \in Seated : knows[p] = knows[q]
    BY <1>8 DEF NewRound, BooksInv, SameBooks, JustAdded
  <2> QED BY <1>8, <2>1, DealAgrees DEF NewRound
<1>9. ASSUME NEW s \in Seats, Win(s) PROVE Books
  <2>1. \A p, q \in Seated : knows[p] = knows[q] BY <1>9, <1>a DEF Win, JustAdded
  <2> QED BY <1>9, <2>1 DEF Win, SameBooks, BooksAhead
<1>10. ASSUME UNCHANGED <<knows, phase, wall, replaced, win, settled>> PROVE Books
  <2>1. ASSUME NEW q \in Seated PROVE AfterWin(knows[q])' = AfterWin(knows[q])
    BY <1>10 DEF AfterWin, Rotated, Change, Pays, Due, Score
  <2>2. BooksAhead' BY <1>10, <2>1 DEF BooksInv, BooksAhead
  <2> QED BY <1>10, <2>2 DEF SameBooks, JustAdded, BooksInv
<1>11. ASSUME NEW p \in Seated, Settle(p) PROVE Books
  <2>1. /\ phase = "won" /\ phase' = "won" /\ p \in Seated \ settled
        /\ settled' = settled \cup {p} /\ win' = win /\ wall' = wall
        /\ knows' = [knows EXCEPT ![p] = AfterWin(knows[p])]
    BY <1>11 DEF Settle
  <2>2. \A q, r \in Seated : (q \in settled <=> r \in settled) => knows[q] = knows[r]
    BY <2>1 DEF BooksInv, SameBooks, JustAdded
  <2>3. ASSUME NEW q \in Seated \ {p} PROVE AfterWin(knows[q])' = AfterWin(knows[q])
    <3>1. win' = win /\ wall' = wall /\ knows'[q] = knows[q] BY <2>1 DEF BooksInv, TypeOK
    <3> QED BY <3>1 DEF AfterWin, Rotated, Change, Pays, Due, Score
  <2>4. \A q \in Seated \ {p} : knows'[q] = knows[q] BY <2>1 DEF BooksInv, TypeOK
  <2>5. knows'[p] = AfterWin(knows[p]) BY <2>1 DEF BooksInv, TypeOK
  <2>6. \A q \in settled : knows[q] = AfterWin(knows[p]) BY <2>1 DEF BooksInv, BooksAhead
  <2>7. \A q \in settled' : knows'[q] = AfterWin(knows[p])
    BY <2>1, <2>4, <2>5, <2>6 DEF BooksInv, TypeOK
  <2>8. \A q \in Seated \ settled' : knows'[q] = knows[p] BY <2>1, <2>2, <2>4
  <2>9. SameBooks' BY <2>7, <2>8 DEF SameBooks
  <2>10. BooksAhead'
    <3> SUFFICES ASSUME NEW q \in Seated \ settled' PROVE AfterWin(knows[q])' = AfterWin(knows[p])
      BY <2>1, <2>7 DEF BooksAhead, BooksInv, TypeOK
    <3>1. q \in Seated \ {p} /\ q \notin settled BY <2>1
    <3>2. knows[q] = knows[p] BY <2>1, <2>2, <3>1
    <3> QED BY <2>3, <3>1, <3>2
  <2> QED BY <2>1, <2>9, <2>10
<1> QED BY <1>1, <1>2, <1>3, <1>4, <1>5, <1>6, <1>7, <1>8, <1>9, <1>10, <1>11
        DEF Next, vars, LobbyHears

\* The processes hear of the moves by different handlers and settle by themselves,
\* and come to the same money, dealer, wind and rounds, as long as the two messages
\* the handlers of guests treat otherwise do not matter: flowers of a door, and a kong
\* added to a pong that is followed at once by a win or a new deal.
THEOREM BooksAlwaysAgree ==
  ASSUME Doors = {}, ~AddedWins
  PROVE  Spec => []BooksAgree
<1>1. Init => BooksInv
  <2> SUFFICES ASSUME Init PROVE BooksInv OBVIOUS
  <2>1. PICK f \in DealtFlowers : knows = [p \in Seated |-> Dealt(p, Fresh, f.any, f.doors)]
    BY DEF Init
  <2>2. f.doors = {} BY <2>1 DEF DealtFlowers
  <2>3. \A p, q \in Seated : knows[p] = knows[q] BY <2>1, <2>2 DEF Dealt
  <2> QED BY <2>3, InitType DEF Init, BooksInv, SameBooks, BooksAhead
<1>2. BooksInv /\ [Next]_vars => BooksInv' BY NextKeepsBooks
<1>3. BooksInv => BooksAgree
  <2> SUFFICES ASSUME BooksInv PROVE BooksAgree OBVIOUS
  <2>1. \A p \in Seated : /\ Forget(knows[p]).money = knows[p].money
                          /\ Forget(knows[p]).dealer = knows[p].dealer
                          /\ Forget(knows[p]).cont = knows[p].cont
                          /\ Forget(knows[p]).wind = knows[p].wind
    BY DEF BooksInv, TypeOK, Known, Forget
  <2> QED BY <2>1 DEF BooksInv, SameBooks, BooksAgree
<1> QED BY <1>1, <1>2, <1>3, PTL DEF Spec

---------------------------------------------------------------------------
(* The stake of the dealer.                                                *)

\* The score without what the winner has as dealer.
Bare(k) ==
  win.tiles + (IF win.sit = k.owner THEN 1 ELSE 0) + (IF k.kang THEN 1 ELSE 0)
  + (IF wall = "last" THEN 1 ELSE 0) + (IF win.sit \in k.flowers THEN 1 ELSE 0)
  + (IF win.sit \in k.first THEN 16 ELSE 0)

\* A payment is the base and what the hand is worth, with the dealer's stake if the
\* dealer is one of the two.
LEMMA DueOnce ==
  ASSUME NEW k \in Known, NEW i \in Seats, i # win.sit, win.tiles \in Nat
  PROVE  Due(k, i) =
           Base + (Bare(k) + (IF k.dealer \in {i, win.sit} THEN 1 + 2 * k.cont ELSE 0)) * Value
<1>1. Score(k) = Bare(k) + (IF win.sit = k.dealer THEN 1 + 2 * k.cont ELSE 0)
  BY DEF Score, Bare, Known
<1>2. Bare(k) \in Nat /\ k.cont \in Nat BY DEF Bare, Known
<1>3. CASE i = k.dealer
  <2>1. Score(k) + 1 + k.cont * 2 = Bare(k) + (1 + 2 * k.cont) BY <1>1, <1>2, <1>3
  <2> QED BY <1>3, <2>1 DEF Due
<1>4. CASE i # k.dealer
  <2>1. Score(k) = Bare(k) + (IF k.dealer \in {i, win.sit} THEN 1 + 2 * k.cont ELSE 0)
    BY <1>1, <1>4
  <2> QED BY <1>4, <2>1 DEF Due
<1> QED BY <1>3, <1>4

\* Whoever is dealer, and however long, each payment has the dealer's stake once if
\* the dealer pays it or gets it, and not otherwise.
THEOREM StakeIsPaidOnce == Spec => []DealerStake
<1>1. TypeOK => DealerStake
  <2> SUFFICES ASSUME TypeOK, NEW p \in Seated \ settled, NEW i \in Seats \ {win.sit}
      PROVE LET k == knows[p]
                drawn == win.sit = k.owner
                payers == IF drawn THEN Seats \ {win.sit} ELSE {k.owner}
            IN  Change(k)[i] =
                  IF i \notin payers THEN 0
                  ELSE -(Base + (Bare(k)
                                 + (IF k.dealer \in {i, win.sit} THEN 1 + 2 * k.cont ELSE 0)) * Value)
    BY DEF DealerStake, Bare
  <2> DEFINE k == knows[p]
  <2>1. k \in Known /\ win.tiles \in Nat BY DEF TypeOK
  <2>2. Change(k)[i] = -(IF Pays(k, i) THEN Due(k, i) ELSE 0) BY DEF Change
  <2>3. Due(k, i) =
          Base + (Bare(k) + (IF k.dealer \in {i, win.sit} THEN 1 + 2 * k.cont ELSE 0)) * Value
    BY <2>1, DueOnce
  <2>4. CASE Pays(k, i) BY <2>2, <2>3, <2>4 DEF Pays
  <2>5. CASE ~Pays(k, i)
    <3> DEFINE x == IF Pays(k, i) THEN Due(k, i) ELSE 0
    <3>1. x = 0 BY <2>5
    <3>2. x \in Int BY <3>1
    <3>3. Change(k)[i] = -x BY <2>2
    <3> HIDE DEF x
    <3>4. -x = 0 - x BY <3>2
    <3>5. Change(k)[i] = 0 - x BY <3>3, <3>4
    <3>6. Change(k)[i] = 0 BY <3>1, <3>5
    <3> QED BY <2>5, <3>6 DEF Pays
  <2> QED BY <2>4, <2>5
<1> QED BY <1>1, TypeCorrect, PTL

---------------------------------------------------------------------------
(* The lobby's accounts.                                                   *)

\* The messages of s name i for the last time with the money m, or do not name it.
LastFor(s, i, m) ==
  \E j \in 1 .. Len(s) : /\ s[j].who = i /\ s[j].money = m
                        /\ \A l \in 1 .. Len(s) : l > j => s[l].who # i
NoneFor(s, i) == \A j \in 1 .. Len(s) : s[j].who # i

\* What is said later counts.
LEMMA LastOfTwo ==
  ASSUME NEW a \in Seq(Messages), NEW b \in Seq(Messages), NEW i, NEW m
  PROVE  /\ LastFor(b, i, m) => LastFor(a \o b, i, m)
         /\ LastFor(a, i, m) /\ NoneFor(b, i) => LastFor(a \o b, i, m)
<1> HIDE DEF Messages
<1> DEFINE c == a \o b
<1>1. /\ Len(c) = Len(a) + Len(b) /\ Len(a) \in Nat /\ Len(b) \in Nat
      /\ \A j \in 1 .. Len(c) : c[j] = IF j <= Len(a) THEN a[j] ELSE b[j - Len(a)]
  OBVIOUS
<1> HIDE DEF c
<1>2. ASSUME LastFor(b, i, m) PROVE LastFor(c, i, m)
  <2>1. PICK j \in 1 .. Len(b) : /\ b[j].who = i /\ b[j].money = m
                                 /\ \A l \in 1 .. Len(b) : l > j => b[l].who # i
    BY <1>2 DEF LastFor
  <2>2. j + Len(a) \in 1 .. Len(c) /\ c[j + Len(a)] = b[j]
    <3>1. j + Len(a) \in 1 .. Len(c) /\ ~(j + Len(a) <= Len(a)) BY <1>1, <2>1
    <3>2. (j + Len(a)) - Len(a) = j BY <1>1, <2>1
    <3> QED BY <1>1, <3>1, <3>2
  <2>3. \A l \in 1 .. Len(c) : l > j + Len(a) => c[l].who # i
    <3> TAKE l \in 1 .. Len(c)
    <3> HAVE l > j + Len(a)
    <3>1. l - Len(a) \in 1 .. Len(b) /\ l - Len(a) > j /\ c[l] = b[l - Len(a)] BY <1>1, SMTT(40)
    <3> QED BY <2>1, <3>1
  <2> QED BY <2>1, <2>2, <2>3 DEF LastFor
<1>3. ASSUME LastFor(a, i, m), NoneFor(b, i) PROVE LastFor(c, i, m)
  <2>1. PICK j \in 1 .. Len(a) : /\ a[j].who = i /\ a[j].money = m
                                 /\ \A l \in 1 .. Len(a) : l > j => a[l].who # i
    BY <1>3 DEF LastFor
  <2>2. j \in 1 .. Len(c) /\ c[j] = a[j] BY <1>1, <2>1
  <2>3. \A l \in 1 .. Len(c) : l > j => c[l].who # i
    <3> TAKE l \in 1 .. Len(c)
    <3> HAVE l > j
    <3>1. CASE l <= Len(a)
      <4>1. l \in 1 .. Len(a) /\ c[l] = a[l] BY <1>1, <3>1
      <4> QED BY <2>1, <4>1
    <3>2. CASE l > Len(a)
      <4>1. l - Len(a) \in 1 .. Len(b) /\ c[l] = b[l - Len(a)] BY <1>1, <3>2
      <4> QED BY <1>3, <4>1 DEF NoneFor
    <3> QED BY <1>1, <3>1, <3>2
  <2> QED BY <2>1, <2>2, <2>3 DEF LastFor
<1> QED BY <1>2, <1>3 DEF c

\* The host reports everybody's money after the win.
LEMMA ReportsAreLast ==
  ASSUME NEW k \in Known, win.sit \in Seats, win.tiles \in Nat, NEW i \in Seated
  PROVE  LastFor(Reports(k), i, k.money[i] + Change(k)[i])
<1> DEFINE One(s) == IF s \in Seated THEN <<[who |-> s, money |-> k.money[s] + Change(k)[s]]>>
                     ELSE <<>>
           m == k.money[i] + Change(k)[i]
<1>1. \A s \in Seats : k.money[s] + Change(k)[s] \in Int BY ChangeSum DEF Known
<1>2. \A s \in Seats : One(s) \in Seq(Messages)
  <2> TAKE s \in Seats
  <2>1. CASE s \in Seated
    <3>1. [who |-> s, money |-> k.money[s] + Change(k)[s]] \in Messages
      BY <1>1, <2>1 DEF Messages
    <3> HIDE DEF Messages
    <3> QED BY <2>1, <3>1
  <2>2. CASE s \notin Seated BY <2>2
  <2> QED BY <2>1, <2>2
<1>3. LastFor(One(i), i, m)
  <2> DEFINE r == [who |-> i, money |-> m]
  <2>1. One(i) = <<r>> /\ r.who = i /\ r.money = m OBVIOUS
  <2> HIDE DEF One, r, m
  <2>2. Len(<<r>>) = 1 /\ <<r>>[1] = r OBVIOUS
  <2> QED BY <2>1, <2>2 DEF LastFor
<1>4. \A s \in Seats \ {i} : NoneFor(One(s), i)
  <2> TAKE s \in Seats \ {i}
  <2>1. CASE s \in Seated
    <3> DEFINE r == [who |-> s, money |-> k.money[s] + Change(k)[s]]
    <3>1. One(s) = <<r>> /\ r.who = s BY <2>1
    <3> HIDE DEF One, r
    <3>2. Len(<<r>>) = 1 /\ <<r>>[1] = r OBVIOUS
    <3> QED BY <3>1, <3>2 DEF NoneFor
  <2>2. CASE s \notin Seated
    <3>1. One(s) = <<>> BY <2>2
    <3> HIDE DEF One
    <3> QED BY <3>1 DEF NoneFor
  <2> QED BY <2>1, <2>2
<1> DEFINE Two == One(1) \o One(2)
           Three == Two \o One(3)
<1>5. Reports(k) = Three \o One(4) BY DEF Reports
<1> HIDE DEF One, m, Messages
<1>6. /\ One(1) \in Seq(Messages) /\ One(2) \in Seq(Messages)
      /\ One(3) \in Seq(Messages) /\ One(4) \in Seq(Messages)
  BY <1>2
<1>7. Two \in Seq(Messages) /\ Three \in Seq(Messages) BY <1>6
<1>8. i \in {1, 2} => LastFor(Two, i, m)
  <2>1. CASE i = 1 BY <1>3, <1>4, <1>6, <2>1, LastOfTwo
  <2>2. CASE i = 2 BY <1>3, <1>6, <2>2, LastOfTwo
  <2> QED BY <2>1, <2>2
<1> HIDE DEF Two
<1>9. i \in {1, 2, 3} => LastFor(Three, i, m)
  <2>1. CASE i \in {1, 2} BY <1>4, <1>6, <1>7, <1>8, <2>1, LastOfTwo
  <2>2. CASE i = 3 BY <1>3, <1>6, <1>7, <2>2, LastOfTwo
  <2> QED BY <2>1, <2>2
<1> HIDE DEF Three
<1>10. LastFor(Three \o One(4), i, m)
  <2>1. CASE i \in {1, 2, 3}
    <3>1. NoneFor(One(4), i) BY <1>4, <2>1
    <3> QED BY <1>6, <1>7, <1>9, <2>1, <3>1, LastOfTwo
  <2>2. CASE i = 4 BY <1>3, <1>6, <1>7, <2>2, LastOfTwo
  <2> QED BY <2>1, <2>2
<1> QED BY <1>5, <1>10 DEF m

\* Once the lobby has read what is under way, it has the host's money.
Arriving ==
  \A i \in Seated :
    \/ LastFor(reports, i, knows[Host].money[i])
    \/ NoneFor(reports, i) /\ account[i] = knows[Host].money[i]

\* Every step keeps that: the host reports when its own book changes, and to all.
LEMMA NextKeepsArriving == TypeOK /\ Arriving /\ [Next]_vars => Arriving'
<1> SUFFICES ASSUME TypeOK, Arriving, [Next]_vars PROVE Arriving' OBVIOUS
<1>0. reports \in Seq(Messages) BY DEF TypeOK, Messages
<1>1. CASE LobbyHears
  <2> DEFINE m == knows[Host].money
             t == Tail(reports)
             h == Head(reports)
  <2>1. /\ reports # <<>> /\ reports' = t /\ knows' = knows
        /\ account' = [account EXCEPT ![h.who] = h.money]
    BY <1>1 DEF LobbyHears
  <2>2. /\ Len(reports) \in Nat \ {0} /\ Len(t) = Len(reports) - 1 /\ h = reports[1]
        /\ \A j \in 1 .. Len(t) : t[j] = reports[j + 1]
    BY <1>0, <2>1
  <2>3. h \in Messages
    <3> HIDE DEF Messages
    <3> QED BY <1>0, <2>1
  <2>4. h.who \in Seats /\ account \in [Seats -> Int] BY <2>3 DEF Messages, TypeOK
  <2> HIDE DEF m, t, h
  <2>5. ASSUME NEW i \in Seated PROVE LastFor(t, i, m[i]) \/ (NoneFor(t, i) /\ account'[i] = m[i])
    <3>1. CASE NoneFor(reports, i) /\ account[i] = m[i]
      <4>1. NoneFor(t, i) BY <2>2, <3>1, SMTT(40) DEF NoneFor
      <4>2. h.who # i BY <2>2, <3>1 DEF NoneFor
      <4> QED BY <2>1, <2>4, <3>1, <4>1, <4>2
    <3>2. CASE LastFor(reports, i, m[i])
      <4>1. PICK j \in 1 .. Len(reports) :
              /\ reports[j].who = i /\ reports[j].money = m[i]
              /\ \A l \in 1 .. Len(reports) : l > j => reports[l].who # i
        BY <3>2 DEF LastFor
      <4>2. CASE j = 1
        <5>1. NoneFor(t, i) BY <2>2, <4>1, <4>2, SMTT(40) DEF NoneFor
        <5> QED BY <2>1, <2>2, <2>4, <4>1, <4>2, <5>1
      <4>3. CASE j # 1
        <5>1. j - 1 \in 1 .. Len(t) /\ (j - 1) + 1 = j BY <2>2, <4>3
        <5>2. t[j - 1] = reports[j] BY <2>2, <5>1
        <5>3. \A l \in 1 .. Len(t) : l > j - 1 => t[l].who # i
          <6> TAKE l \in 1 .. Len(t)
          <6> HAVE l > j - 1
          <6>1. l + 1 \in 1 .. Len(reports) /\ l + 1 > j BY <2>2, <4>1
          <6> QED BY <2>2, <4>1, <6>1
        <5> QED BY <4>1, <5>1, <5>2, <5>3 DEF LastFor
      <4> QED BY <4>2, <4>3
    <3> QED BY <3>1, <3>2 DEF Arriving, m
  <2> QED BY <2>1, <2>5 DEF Arriving, m, LastFor, NoneFor
<1>2. CASE Settle(Host)
  <2> DEFINE k == knows[Host]
  <2>1. k \in Known /\ win.sit \in Seats /\ win.tiles \in Nat BY DEF TypeOK
  <2>2. knows'[Host].money = [i \in Seats |-> k.money[i] + Change(k)[i]] BY <1>2, MoneySettled
  <2>3. reports' = reports \o Reports(k) BY <1>2 DEF Settle
  <2>4. Reports(k) \in Seq(Messages) BY <2>1, ReportsType
  <2>5. \A i \in Seated : LastFor(Reports(k), i, k.money[i] + Change(k)[i])
    BY <2>1, ReportsAreLast
  <2> HIDE DEF k, Messages
  <2>6. \A i \in Seated : LastFor(reports \o Reports(k), i, k.money[i] + Change(k)[i])
    BY <1>0, <2>4, <2>5, LastOfTwo
  <2>7. \A i \in Seated : knows'[Host].money[i] = k.money[i] + Change(k)[i] BY <2>2
  <2>8. \A i \in Seated : LastFor(reports', i, knows'[Host].money[i]) BY <2>3, <2>6, <2>7
  <2> QED BY <2>8 DEF Arriving
<1>3. CASE ~LobbyHears /\ ~Settle(Host)
  <2>1. knows'[Host].money = knows[Host].money
    <3>1. CASE ~Settling BY <3>1, MoneyStays
    <3>2. ASSUME NEW p \in Seated, Settle(p) PROVE knows'[Host].money = knows[Host].money
      <4>1. p # Host BY <1>3, <3>2
      <4> QED BY <3>2, <4>1, MoneySettled
    <3> QED BY <3>1, <3>2 DEF Settling
  <2>2. reports' = reports /\ account' = account
    BY <1>3 DEF Next, vars, Draw, Win, Claim, Throw, Flower, Kong, SeaBottom, New, NewRound, Deal,
                Settle
  <2>3. \A i \in Seated : \/ LastFor(reports', i, knows'[Host].money[i])
                          \/ NoneFor(reports', i) /\ account'[i] = knows'[Host].money[i]
    <3> TAKE i \in Seated
    <3>1. knows'[Host].money[i] = knows[Host].money[i] BY <2>1
    <3>2. \/ LastFor(reports, i, knows[Host].money[i])
          \/ NoneFor(reports, i) /\ account[i] = knows[Host].money[i]
      BY DEF Arriving
    <3> QED BY <2>2, <3>1, <3>2 DEF LastFor, NoneFor
  <2> QED BY <2>3 DEF Arriving
<1> QED BY <1>1, <1>2, <1>3

\* When the lobby has read all reports its accounts are what the host's book says,
\* however many rounds the reports are behind.
THEOREM AccountsFollow == Spec => []AccountsMatch
<1>1. Init => Arriving
  <2> SUFFICES ASSUME Init PROVE Arriving OBVIOUS
  <2>1. PICK f \in DealtFlowers : knows = [p \in Seated |-> Dealt(p, Fresh, f.any, f.doors)]
    BY DEF Init
  <2>2. knows[Host].money = Start BY <2>1 DEF Dealt, Fresh
  <2>3. \A i \in Seated : NoneFor(reports, i) BY DEF Init, NoneFor
  <2> QED BY <2>2, <2>3 DEF Init, Arriving
<1>2. Arriving => AccountsMatch BY DEF Arriving, AccountsMatch, LastFor
<1> QED BY <1>1, <1>2, NextKeepsArriving, TypeCorrect, PTL DEF Spec
---------------------------------------------------------------------------
(* The kong flag.                                                          *)

\* The flag at every process, in a round in which somebody has thrown.
KongKnown ==
  knows[Host].first # Seats =>
    /\ phase \in {"thrown", "melded"} => \A p \in Seated : ~knows[p].kang
    /\ phase \in {"kong", "flower"} => \A p \in Seated : knows[p].kang
    /\ phase = "holding" =>
         /\ replaced = "nothing" => \A p \in Seated : ~knows[p].kang
         /\ replaced \in {"kong", "flower"} => \A p \in Seated : knows[p].kang
    /\ phase = "won" =>
         \A p \in Seated : knows[p].kang <=> (replaced # "nothing" /\ win.sit = knows[p].owner)

\* The dealer a process goes on with: rotated by those who have settled.
DealersAgree ==
  /\ \A p, q \in Seated : (p \in settled <=> q \in settled) => knows[p].dealer = knows[q].dealer
  /\ \A p \in settled, q \in Seated \ settled :
       knows[p].dealer = IF win.sit = knows[q].dealer THEN knows[q].dealer
                         ELSE (knows[q].dealer % 4) + 1

KongInv ==
  /\ TypeOK
  /\ phase # "won" => settled = {}
  /\ \A p, q \in Seated : knows[p].owner = knows[q].owner
  /\ DealersAgree
  /\ KongKnown

\* What the rest of the flag's history needs of a move: the fields it sets.
LEMMA DealtFields ==
  ASSUME NEW p \in Seated, NEW k \in Known, NEW any, NEW fs
  PROVE  LET d == Dealt(p, k, any, fs)
         IN  /\ d.dealer = k.dealer /\ d.first = Seats
             /\ d.owner = IF k.dealer \in Seated THEN k.dealer ELSE NextTurn(k.dealer)
<1> HIDE DEF Seats
<1> QED BY DEF Dealt, Known

LEMMA ThrownFields ==
  ASSUME NEW p \in Seated, knows[p] \in Known, NEW s
  PROVE  LET k == knows[p]
             d == AfterThrow(p, s)
         IN  d.owner = k.owner /\ d.kang = FALSE /\ d.dealer = k.dealer
<1> HIDE DEF Seats
<1> QED BY DEF AfterThrow, Known

LEMMA FlowerFields ==
  ASSUME NEW k \in Known, NEW fs
  PROVE  LET d == [k EXCEPT !.kang = TRUE, !.flowers = fs]
         IN  d.owner = k.owner /\ d.kang = TRUE /\ d.dealer = k.dealer /\ d.first = k.first
<1> HIDE DEF Seats
<1> QED BY DEF Known

LEMMA SettledFields ==
  ASSUME NEW k \in Known
  PROVE  LET d == AfterWin(k)
         IN  /\ d.owner = k.owner /\ d.kang = k.kang /\ d.first = k.first
             /\ d.dealer = IF win.sit = k.dealer THEN k.dealer ELSE (k.dealer % 4) + 1
<1> HIDE DEF Seats
<1>1. CASE win.sit = k.dealer BY <1>1 DEF AfterWin, Rotated, Known
<1>2. CASE win.sit # k.dealer BY <1>2 DEF AfterWin, Rotated, Known
<1> QED BY <1>1, <1>2

\* A deal by a dealer all agree on.
LEMMA DealKeepsKongs ==
  ASSUME NEW k, Deal(k), TypeOK', \A p, q \in Seated : k[p].dealer = k[q].dealer,
         \A p \in Seated : k[p] \in Known
  PROVE  KongInv'
<1>1. PICK f \in DealtFlowers : knows' = [p \in Seated |-> Dealt(p, k[p], f.any, f.doors)]
  BY DEF Deal
<1>2. /\ phase' = "holding" /\ settled' = {}
      /\ \A p \in Seated : /\ knows'[p].dealer = k[p].dealer /\ knows'[p].first = Seats
                           /\ knows'[p].owner = IF k[p].dealer \in Seated THEN k[p].dealer
                                                ELSE NextTurn(k[p].dealer)
  <2>1. \A p \in Seated : knows'[p] = Dealt(p, k[p], f.any, f.doors) BY <1>1
  <2> HIDE DEF Seats
  <2>2. \A p \in Seated : /\ knows'[p].dealer = k[p].dealer /\ knows'[p].first = Seats
                          /\ knows'[p].owner = IF k[p].dealer \in Seated THEN k[p].dealer
                                               ELSE NextTurn(k[p].dealer)
    BY <2>1, DealtFields
  <2> QED BY <2>2 DEF Deal
<1> HIDE DEF Seats
<1> QED BY <1>2 DEF KongInv, DealersAgree, KongKnown

\* Every step keeps the flags right, if the tile after an added kong is not won with.
LEMMA NextKeepsKongs ==
  ASSUME ~AddedWins, KongInv, [Next]_vars
  PROVE  KongInv'
<1>0. TypeOK /\ TypeOK' BY NextKeepsType DEF KongInv
<1>a. /\ \A p \in Seated : knows[p] \in Known
      /\ Turn \in Seated
      /\ \A p \in Seated : knows[p].owner = Turn
  BY <1>0 DEF TypeOK, Known, KongInv, Turn
<1>b. phase # "won" => \A p, q \in Seated : knows[p].dealer = knows[q].dealer
  BY DEF KongInv, DealersAgree
<1> HIDE DEF Seats
<1>c. Seated \subseteq Seats /\ Host \in Seated BY DEF Host
<1>1. ASSUME NEW s \in Seats, Draw(s) PROVE KongInv'
  <2>1. \A p \in Seated : knows'[p] = [knows[p] EXCEPT !.owner = s] BY <1>1 DEF Draw
  <2>2. \A p \in Seated : /\ knows'[p].owner = s /\ (knows'[p].kang <=> knows[p].kang)
                          /\ knows'[p].dealer = knows[p].dealer
                          /\ knows'[p].first = knows[p].first
    <3> TAKE p \in Seated
    <3>1. knows[p] \in Known /\ knows'[p] = [knows[p] EXCEPT !.owner = s] BY <1>a, <2>1
    <3> QED BY <3>1 DEF Known
  <2>3. phase' = "holding" /\ settled' = settled /\ win' = win BY <1>1 DEF Draw
  <2>4. phase # "won" BY <1>1 DEF Draw, Replaced
  <2>5. phase \in Phases BY <1>0 DEF TypeOK
  <2>6. KongKnown'
    <3>1. knows'[Host].first = knows[Host].first BY <1>c, <2>2
    <3>2. CASE phase = "thrown" /\ replaced' = "nothing"
      BY <1>c, <2>2, <2>3, <3>1, <3>2 DEF KongInv, KongKnown
    <3>3. CASE phase \in Replaced /\ replaced' = phase
      BY <1>c, <2>2, <2>3, <2>5, <3>1, <3>3 DEF KongInv, KongKnown, Replaced, Phases
    <3> QED BY <1>1, <3>2, <3>3 DEF Draw
  <2> QED BY <1>0, <2>2, <2>3, <2>4, <2>6 DEF KongInv, DealersAgree
<1>2. CASE Throw
  <2>1. \A p \in Seated : knows'[p] = AfterThrow(p, Turn) BY <1>2 DEF Throw
  <2>2. \A p \in Seated : /\ knows'[p].owner = knows[p].owner /\ knows'[p].kang = FALSE
                          /\ knows'[p].dealer = knows[p].dealer
    <3> TAKE p \in Seated
    <3>1. knows[p] \in Known /\ knows'[p] = AfterThrow(p, Turn) BY <1>a, <2>1
    <3> HIDE DEF Turn
    <3> QED BY <3>1, ThrownFields
  <2> QED BY <1>0, <1>2, <2>2 DEF Throw, KongInv, DealersAgree, KongKnown
<1>3. ASSUME NEW s \in Seats, NEW kong \in BOOLEAN, Claim(s, kong) PROVE KongInv'
  <2>1. \A p \in Seated : knows'[p] = AfterMeld(p, s, kong, FALSE) BY <1>3 DEF Claim
  <2>2. \A p \in Seated : /\ knows'[p].owner = s /\ knows'[p].dealer = knows[p].dealer
                          /\ knows'[p].first = knows[p].first
                          /\ ~kong => (knows'[p].kang <=> knows[p].kang)
                          /\ kong => knows'[p].kang = TRUE
    <3> TAKE p \in Seated
    <3>1. knows[p] \in Known /\ knows'[p] = AfterMeld(p, s, kong, FALSE) BY <1>a, <2>1
    <3>2. knows[p].kang \in BOOLEAN BY <3>1 DEF Known
    <3> QED BY <3>1, <3>2 DEF AfterMeld, Known
  <2>3. KongKnown' BY <1>3, <1>c, <2>2 DEF Claim, KongInv, KongKnown
  <2>4. phase # "won" /\ phase' # "won" /\ settled' = settled BY <1>3 DEF Claim
  <2>5. DealersAgree' BY <1>b, <2>2, <2>4 DEF KongInv, DealersAgree
  <2> QED BY <1>0, <2>2, <2>3, <2>4, <2>5 DEF KongInv
<1>4. ASSUME NEW added \in BOOLEAN, Kong(added) PROVE KongInv'
  <2>1. \A p \in Seated : knows'[p] = AfterMeld(p, Turn, TRUE, added) BY <1>4 DEF Kong
  <2>2. \A p \in Seated : /\ knows'[p].owner = Turn
                          /\ ~added => knows'[p].kang = TRUE
                          /\ knows'[p].dealer = knows[p].dealer
                          /\ knows'[p].first = knows[p].first
    <3> TAKE p \in Seated
    <3>1. knows[p] \in Known /\ knows'[p] = AfterMeld(p, Turn, TRUE, added) BY <1>a, <2>1
    <3>2. knows[p].kang \in BOOLEAN BY <3>1 DEF Known
    <3> QED BY <3>1, <3>2 DEF AfterMeld, Known
  <2>3. KongKnown' BY <1>4, <1>c, <2>2 DEF Kong, KongInv, KongKnown
  <2>4. phase # "won" /\ phase' # "won" /\ settled' = settled BY <1>4 DEF Kong
  <2>5. DealersAgree' BY <1>b, <2>2, <2>4 DEF KongInv, DealersAgree
  <2> QED BY <1>0, <2>2, <2>3, <2>4, <2>5 DEF KongInv
<1>5. ASSUME NEW door \in BOOLEAN, Flower(door) PROVE KongInv'
  <2>1. \A p \in Seated : \E fs :
          knows'[p] = [knows[p] EXCEPT !.kang = TRUE, !.flowers = fs]
    BY <1>5 DEF Flower
  <2>2. \A p \in Seated : /\ knows'[p].owner = knows[p].owner /\ knows'[p].kang = TRUE
                          /\ knows'[p].dealer = knows[p].dealer
                          /\ knows'[p].first = knows[p].first
    <3> TAKE p \in Seated
    <3>1. PICK fs : knows'[p] = [knows[p] EXCEPT !.kang = TRUE, !.flowers = fs] BY <2>1
    <3> QED BY <1>a, <3>1, FlowerFields
  <2>3. KongKnown' BY <1>5, <1>c, <2>2 DEF Flower, KongInv, KongKnown
  <2>4. phase # "won" /\ phase' # "won" /\ settled' = settled BY <1>5 DEF Flower
  <2>5. DealersAgree' BY <1>b, <2>2, <2>4 DEF KongInv, DealersAgree
  <2> QED BY <1>0, <2>2, <2>3, <2>4, <2>5 DEF KongInv
<1>6. CASE SeaBottom
  <2> DEFINE k == [p \in Seated |-> [knows[p] EXCEPT !.cont = @ + 1]]
  <2>1. \A p \in Seated : k[p].dealer = knows[p].dealer /\ k[p] \in Known BY <1>a DEF Known
  <2>2. Deal(k) /\ phase # "won" BY <1>6 DEF SeaBottom
  <2> HIDE DEF k
  <2> QED BY <1>0, <1>b, <2>1, <2>2, DealKeepsKongs
<1>7. CASE New BY <1>0, <1>7, <1>a, <1>b, DealKeepsKongs DEF New
<1>8. CASE NewRound
  <2>1. \A p, q \in Seated : knows[p].dealer = knows[q].dealer
    BY <1>8 DEF NewRound, KongInv, DealersAgree
  <2> QED BY <1>0, <1>8, <1>a, <2>1, DealKeepsKongs DEF NewRound
<1>9. ASSUME NEW s \in Seats, Win(s) PROVE KongInv'
  <2>1. /\ knows' = knows /\ replaced' = replaced /\ phase' = "won" /\ settled' = {}
        /\ win'.sit = s /\ phase \in {"holding", "thrown"}
    BY <1>9 DEF Win
  <2>2. CASE phase = "holding"
    <3>1. s = Turn /\ replaced # "added" BY <1>9, <2>2 DEF Win, JustAdded
    <3>2. replaced \in {"nothing", "kong", "flower"} BY <1>0, <3>1 DEF TypeOK, Replaced
    <3>3. KongKnown' BY <1>a, <2>1, <2>2, <3>1, <3>2 DEF KongInv, KongKnown
    <3> QED BY <1>0, <1>b, <2>1, <2>2, <3>3 DEF KongInv, DealersAgree
  <2>3. CASE phase = "thrown"
    <3>1. s # Turn BY <1>9, <2>3 DEF Win
    <3>2. KongKnown' BY <1>a, <2>1, <2>3, <3>1 DEF KongInv, KongKnown
    <3> QED BY <1>0, <1>b, <2>1, <2>3, <3>2 DEF KongInv, DealersAgree
  <2> QED BY <2>1, <2>2, <2>3
<1>10. CASE UNCHANGED <<knows, phase, wall, replaced, win, settled>>
  BY <1>0, <1>10 DEF KongInv, KongKnown, DealersAgree
<1>11. ASSUME NEW p \in Seated, Settle(p) PROVE KongInv'
  <2>1. /\ phase = "won" /\ phase' = "won" /\ p \in Seated \ settled /\ replaced' = replaced
        /\ settled' = settled \cup {p} /\ win' = win
        /\ knows'[p] = AfterWin(knows[p])
        /\ \A q \in Seated \ {p} : knows'[q] = knows[q]
    BY <1>11, <1>0 DEF Settle, TypeOK
  <2>2. /\ knows'[p].owner = knows[p].owner /\ knows'[p].kang = knows[p].kang
        /\ knows'[p].first = knows[p].first
        /\ knows'[p].dealer = IF win.sit = knows[p].dealer THEN knows[p].dealer
                              ELSE (knows[p].dealer % 4) + 1
    BY <1>a, <2>1, SettledFields
  <2>3. \A q \in Seated : /\ knows'[q].owner = knows[q].owner /\ knows'[q].kang = knows[q].kang
                          /\ knows'[q].first = knows[q].first
    BY <2>1, <2>2
  <2>4. KongKnown' BY <1>c, <2>1, <2>3 DEF KongInv, KongKnown
  <2>5. DealersAgree'
    <3> DEFINE Follows(q) == IF win.sit = knows[q].dealer THEN knows[q].dealer
                          ELSE (knows[q].dealer % 4) + 1
    <3>1. /\ \A a, b \in Seated : (a \in settled <=> b \in settled) => knows[a].dealer = knows[b].dealer
          /\ \A a \in settled, b \in Seated \ settled : knows[a].dealer = Follows(b)
      BY DEF KongInv, DealersAgree
    <3>2. \A a, b \in Seated \ settled : Follows(a) = Follows(b) BY <3>1
    <3>3. knows'[p].dealer = Follows(p) BY <2>2
    <3> HIDE DEF Follows
    <3>4. \A a \in settled' : knows'[a].dealer = Follows(p)
      BY <1>0, <2>1, <3>1, <3>3 DEF TypeOK
    <3>5. \A b \in Seated \ settled' : knows'[b].dealer = knows[b].dealer /\ Follows(b) = Follows(p)
      BY <2>1, <3>2
    <3>6. \A a, b \in Seated : (a \in settled' <=> b \in settled') =>
            knows'[a].dealer = knows'[b].dealer
      BY <2>1, <3>1, <3>4, <3>5
    <3>7. \A a \in settled', b \in Seated \ settled' :
            knows'[a].dealer = IF win'.sit = knows'[b].dealer THEN knows'[b].dealer
                               ELSE (knows'[b].dealer % 4) + 1
      BY <2>1, <3>4, <3>5 DEF Follows
    <3> QED BY <3>6, <3>7 DEF DealersAgree
  <2> QED BY <1>0, <2>1, <2>3, <2>4, <2>5 DEF KongInv
<1> QED BY <1>1, <1>2, <1>3, <1>4, <1>5, <1>6, <1>7, <1>8, <1>9, <1>10, <1>11
        DEF Next, vars, LobbyHears

\* A kong counts at a win with the tile drawn in its place, at every process, and at
\* no other, unless a kong added to a pong is followed at once by a win or a new deal.
THEOREM KongsCountOnce ==
  ASSUME ~AddedWins
  PROVE  Spec => []KongCounted
<1>1. Init => KongInv
  <2> SUFFICES ASSUME Init PROVE KongInv OBVIOUS
  <2>1. PICK f \in DealtFlowers : knows = [p \in Seated |-> Dealt(p, Fresh, f.any, f.doors)]
    BY DEF Init
  <2>2. \A p \in Seated : knows[p] = Dealt(p, Fresh, f.any, f.doors) BY <2>1
  <2> HIDE DEF Seats
  <2>3. \A p \in Seated : /\ knows[p].dealer = 1 /\ knows[p].first = Seats
                          /\ knows[p].owner = IF 1 \in Seated THEN 1 ELSE NextTurn(1)
    <3> TAKE p \in Seated
    <3>1. Fresh \in Known /\ Fresh.dealer = 1 BY DEF Fresh, Known, Seats, Host
    <3> HIDE DEF Fresh
    <3> QED BY <2>2, <3>1, DealtFields
  <2> QED BY <2>3, InitType DEF Init, KongInv, DealersAgree, KongKnown
<1>2. KongInv /\ [Next]_vars => KongInv' BY NextKeepsKongs
<1>3. KongInv => KongCounted
  BY DEF KongInv, KongKnown, KongCounted, TypeOK
<1> QED BY <1>1, <1>2, <1>3, PTL DEF Spec
=============================================================================
