---------------------------- MODULE LobbyProofs ----------------------------
(***************************************************************************)
(* What TLAPS proves of the lobby server for every number of slots, login  *)
(* limit, table size and population of accounts: type correctness and the  *)
(* order of the tables; and, each from the circumstances it needs, what is *)
(* further true of head-counts and accounts: the counts are exact as long  *)
(* as no slot moves from one table to another, and logins, sessions and    *)
(* cached money agree while everybody has an account and the database      *)
(* answers.                                                                *)
(*                                                                         *)
(* Most handlers build the new array of slots from two or three helpers of *)
(* the server (close_connection(), welcome_user(), the loops that move     *)
(* head-counts), so the argument is made once per helper, on an arbitrary  *)
(* array: if it is Sound, what the helper returns is.  The lemmas on the   *)
(* handlers then only say which helpers each of them applies.              *)
(***************************************************************************)
EXTENDS Lobby, FiniteSetTheorems, FunctionTheorems, TLAPS

PlayerArrays == [Slots -> Players]

---------------------------------------------------------------------------
(* The helpers return arrays of slots. *)
\* close_connection() leaves an array of well-formed slots.
LEMMA ClosedType ==
  ASSUME NEW pl \in PlayerArrays, NEW c \in Slots
  PROVE  Closed(pl, c) \in PlayerArrays
<1>1. "version" \in Prompts /\ 0 \in 0 .. 3 BY DEF Prompts
<1>2. \A s \in Slots : pl[s] \in Players BY DEF PlayerArrays
<1>3. [pl[c] EXCEPT !.login = 0, !.current = FALSE, !.prompt = "version",
                    !.name = NoName, !.serv = 0, !.join = 0] \in Players
  BY <1>1, <1>2 DEF Players
<1>4. ASSUME NEW s \in Slots, pl[s].serv > 0
      PROVE  [pl[s] EXCEPT !.serv = @ - 1] \in Players
  <2>1. pl[s].serv - 1 \in Nat BY <1>2, <1>4 DEF Players
  <2> QED BY <1>2, <2>1 DEF Players
<1> QED BY <1>2, <1>3, <1>4 DEF Closed, PlayerArrays

\* So does welcome_user().
LEMMA WelcomedType ==
  ASSUME NEW pl \in PlayerArrays, NEW p \in Slots, NEW r \in Records
  PROVE  Welcomed(pl, p, r) \in PlayerArrays
<1>1. "lobby" \in Prompts /\ "silence" \in Prompts /\ 2 \in 0 .. 3 BY DEF Prompts
<1>2. pl[p] \in Players BY DEF PlayerArrays
<1>3. r.id \in Ids /\ r.money \in Moneys BY DEF Records
<1>4. [pl[p] EXCEPT !.login = 2, !.prompt = "lobby", !.id = r.id, !.money = r.money] \in Players
  BY <1>1, <1>2, <1>3 DEF Players
<1>5. [pl[p] EXCEPT !.prompt = "silence"] \in Players
  BY <1>1, <1>2 DEF Players
<1> QED BY <1>4, <1>5 DEF Welcomed, PlayerArrays

\* So does taking a guest out of its table.
LEMMA UnseatedType ==
  ASSUME NEW pl \in PlayerArrays, NEW p \in Slots
  PROVE  Unseated(pl, p) \in PlayerArrays
<1>1. \A s \in Slots : pl[s] \in Players BY DEF PlayerArrays
<1>2. [pl[p] EXCEPT !.join = 0] \in Players BY <1>1 DEF Players
<1>3. ASSUME NEW s \in Slots, pl[s].serv > 0
      PROVE  [pl[s] EXCEPT !.serv = @ - 1] \in Players
  <2>1. pl[s].serv - 1 \in Nat BY <1>1, <1>3 DEF Players
  <2> QED BY <1>1, <2>1 DEF Players
<1> QED BY <1>1, <1>2, <1>3 DEF Unseated, PlayerArrays

\* So does the "clear all client" loop.
LEMMA ClearedType ==
  ASSUME NEW pl \in PlayerArrays, NEW p \in Slots
  PROVE  Cleared(pl, p) \in PlayerArrays
<1>1. \A s \in Slots : pl[s] \in Players BY DEF PlayerArrays
<1>2. \A s \in Slots : [pl[s] EXCEPT !.join = 0] \in Players BY <1>1 DEF Players
<1> QED BY <1>1, <1>2 DEF Cleared, PlayerArrays

\* So does seating a guest.
LEMMA JoinedType ==
  ASSUME NEW pl \in PlayerArrays, NEW p \in Slots, NEW t \in Slots
  PROVE  Joined(pl, p, t) \in PlayerArrays
<1>1. \A s \in Slots : pl[s] \in Players BY DEF PlayerArrays
<1>2. \A v \in Nat : [pl[p] EXCEPT !.join = t, !.serv = v] \in Players
  BY <1>1 DEF Players
<1>3. [pl[p] EXCEPT !.join = t, !.serv = IF t = p THEN 1 ELSE 0] \in Players
  BY <1>2
<1>4. pl[t].serv + 1 \in Nat BY <1>1 DEF Players
<1>5. [pl[t] EXCEPT !.serv = @ + 1] \in Players BY <1>1, <1>4 DEF Players
<1> QED BY <1>1, <1>3, <1>5 DEF Joined, PlayerArrays

---------------------------------------------------------------------------
(* The helpers keep the tables in order. *)

GuestsIn(pl, t) == {g \in Slots : pl[g].join = t}

\* The four invariants on tables, of an array of slots.
Orderly(pl) ==
  /\ \A t \in Slots : pl[t].serv > 0 => pl[t].serv >= 1 + Cardinality(GuestsIn(pl, t))
  /\ \A t \in Slots : pl[t].serv <= TableSize
  /\ \A s \in Slots : pl[s].serv > 0 => pl[s].join = 0
  /\ \A s \in Slots : pl[s].serv > 0 \/ pl[s].join # 0 => pl[s].login = 2

\* The guests of a table can be counted.
LEMMA GuestsFinite ==
  ASSUME NEW pl \in PlayerArrays, NEW t
  PROVE  IsFiniteSet(GuestsIn(pl, t)) /\ Cardinality(GuestsIn(pl, t)) \in Nat
<1>1. IsFiniteSet(Slots) BY LobbyAssumption, FS_Interval DEF Slots
<1>2. IsFiniteSet(GuestsIn(pl, t)) BY <1>1, FS_Subset DEF GuestsIn
<1> QED BY <1>2, FS_CardinalityType

\* Counting a set without x.
LEMMA OneLess ==
  ASSUME NEW S, IsFiniteSet(S), NEW x
  PROVE  Cardinality(S \ {x}) = IF x \in S THEN Cardinality(S) - 1 ELSE Cardinality(S)
BY FS_RemoveElement

\* Counting a set with x.
LEMMA OneMore ==
  ASSUME NEW S, IsFiniteSet(S), NEW x
  PROVE  Cardinality(S \cup {x}) = IF x \in S THEN Cardinality(S) ELSE Cardinality(S) + 1
BY FS_AddElement

\* close_connection() keeps the tables in order: the count of the table the
\* slot sat at drops together with the link to it, and the slot hosts nothing.
LEMMA ClosedOrderly ==
  ASSUME NEW pl \in PlayerArrays, NEW c \in Slots, Orderly(pl)
  PROVE  Orderly(Closed(pl, c))
<1> DEFINE q == Closed(pl, c)
<1>1. \A s \in Slots : pl[s] \in Players BY DEF PlayerArrays
<1>2. q \in PlayerArrays BY ClosedType
<1>3. /\ q[c].serv = 0 /\ q[c].join = 0 /\ q[c].login = 0
      /\ \A s \in Slots \ {c} : q[s].join = pl[s].join /\ q[s].login = pl[s].login
  BY <1>1 DEF Closed, Players
<1>4. \A s \in Slots \ {c} :
        q[s].serv = IF s = pl[c].join /\ pl[s].serv > 0 THEN pl[s].serv - 1 ELSE pl[s].serv
  BY <1>1 DEF Closed, Players
<1>5. \A t \in Slots : pl[t].serv \in Nat BY <1>1 DEF Players
<1>6. ASSUME NEW t \in Slots, q[t].serv > 0
      PROVE  q[t].serv >= 1 + Cardinality(GuestsIn(q, t))
  <2>1. t # c /\ pl[t].serv > 0 BY <1>3, <1>4, <1>5, <1>6
  <2>2. t # 0 BY DEF Slots
  <2>3. GuestsIn(q, t) = GuestsIn(pl, t) \ {c} BY <1>3, <2>2 DEF GuestsIn
  <2>4. Cardinality(GuestsIn(q, t)) =
          IF c \in GuestsIn(pl, t) THEN Cardinality(GuestsIn(pl, t)) - 1
                                   ELSE Cardinality(GuestsIn(pl, t))
    BY <2>3, GuestsFinite, OneLess
  <2>5. Cardinality(GuestsIn(pl, t)) \in Nat BY GuestsFinite
  <2>6. pl[t].serv >= 1 + Cardinality(GuestsIn(pl, t)) BY <2>1 DEF Orderly
  <2>7. c \in GuestsIn(pl, t) <=> t = pl[c].join BY DEF GuestsIn
  <2> QED BY <1>4, <1>5, <2>1, <2>4, <2>5, <2>6, <2>7
<1>7. \A t \in Slots : q[t].serv <= TableSize
  BY <1>3, <1>4, <1>5, LobbyAssumption DEF Orderly
<1>8. \A s \in Slots : q[s].serv > 0 => q[s].join = 0
  BY <1>3, <1>4, <1>5 DEF Orderly
<1>9. \A s \in Slots : q[s].serv > 0 \/ q[s].join # 0 => q[s].login = 2
  BY <1>3, <1>4, <1>5 DEF Orderly
<1> HIDE DEF q
<1>10. Orderly(q) BY <1>6, <1>7, <1>8, <1>9 DEF Orderly
<1> QED BY <1>10 DEF q

\* Taking a guest out of its table keeps the tables in order.
LEMMA UnseatedOrderly ==
  ASSUME NEW pl \in PlayerArrays, NEW p \in Slots, Orderly(pl)
  PROVE  Orderly(Unseated(pl, p))
<1> DEFINE q == Unseated(pl, p)
<1>1. \A s \in Slots : pl[s] \in Players BY DEF PlayerArrays
<1>2. q \in PlayerArrays BY UnseatedType
<1>3. /\ q[p].serv = pl[p].serv /\ q[p].join = 0
      /\ \A s \in Slots : q[s].login = pl[s].login
      /\ \A s \in Slots \ {p} : q[s].join = pl[s].join
  BY <1>1 DEF Unseated, Players
<1>4. \A s \in Slots \ {p} :
        q[s].serv = IF s = pl[p].join /\ pl[s].serv > 0 THEN pl[s].serv - 1 ELSE pl[s].serv
  BY <1>1 DEF Unseated, Players
<1>5. \A t \in Slots : pl[t].serv \in Nat BY <1>1 DEF Players
<1>6. ASSUME NEW t \in Slots, q[t].serv > 0
      PROVE  q[t].serv >= 1 + Cardinality(GuestsIn(q, t))
  <2>1. pl[t].serv > 0 BY <1>3, <1>4, <1>5, <1>6
  <2>2. t # 0 BY DEF Slots
  <2>3. GuestsIn(q, t) = GuestsIn(pl, t) \ {p} BY <1>3, <2>2 DEF GuestsIn
  <2>4. Cardinality(GuestsIn(q, t)) =
          IF p \in GuestsIn(pl, t) THEN Cardinality(GuestsIn(pl, t)) - 1
                                   ELSE Cardinality(GuestsIn(pl, t))
    BY <2>3, GuestsFinite, OneLess
  <2>5. Cardinality(GuestsIn(pl, t)) \in Nat BY GuestsFinite
  <2>6. pl[t].serv >= 1 + Cardinality(GuestsIn(pl, t)) BY <2>1 DEF Orderly
  <2>7. p \in GuestsIn(pl, t) <=> t = pl[p].join BY DEF GuestsIn
  <2> QED BY <1>3, <1>4, <1>5, <2>1, <2>4, <2>5, <2>6, <2>7
<1>7. \A t \in Slots : q[t].serv <= TableSize
  BY <1>3, <1>4, <1>5, LobbyAssumption DEF Orderly
<1>8. \A s \in Slots : q[s].serv > 0 => q[s].join = 0
  BY <1>3, <1>4, <1>5 DEF Orderly
<1>9. \A s \in Slots : q[s].serv > 0 \/ q[s].join # 0 => q[s].login = 2
  BY <1>3, <1>4, <1>5 DEF Orderly
<1> HIDE DEF q
<1>10. Orderly(q) BY <1>6, <1>7, <1>8, <1>9 DEF Orderly
<1> QED BY <1>10 DEF q

\* Opening (n = 1) or closing (n = 0) a table after clearing the links to it.
LEMMA OpenedOrderly ==
  ASSUME NEW pl \in PlayerArrays, NEW p \in Slots, Orderly(pl), pl[p].login = 2,
         pl[p].join = 0, NEW n \in {0, 1}
  PROVE  /\ [Cleared(pl, p) EXCEPT ![p].serv = n] \in PlayerArrays
         /\ Orderly([Cleared(pl, p) EXCEPT ![p].serv = n])
<1> DEFINE q == [Cleared(pl, p) EXCEPT ![p].serv = n]
<1>1. \A s \in Slots : pl[s] \in Players BY DEF PlayerArrays
<1>2. Cleared(pl, p) \in PlayerArrays BY ClearedType
<1>3. [Cleared(pl, p)[p] EXCEPT !.serv = n] \in Players BY <1>2 DEF PlayerArrays, Players
<1>4. q \in PlayerArrays BY <1>2, <1>3 DEF PlayerArrays
<1>5. \A s \in Slots : q[s].join = IF pl[s].join = p THEN 0 ELSE pl[s].join
  BY <1>1 DEF Cleared, Players
<1>6. \A s \in Slots : q[s].serv = IF s = p THEN n ELSE pl[s].serv
  BY <1>1 DEF Cleared, Players
<1>7. \A s \in Slots : q[s].login = pl[s].login
  BY <1>1 DEF Cleared, Players
<1>8. \A t \in Slots : pl[t].serv \in Nat BY <1>1 DEF Players
<1>9. ASSUME NEW t \in Slots, q[t].serv > 0
      PROVE  q[t].serv >= 1 + Cardinality(GuestsIn(q, t))
  <2>1. t # 0 BY DEF Slots
  <2>2. CASE t = p
    <3>1. GuestsIn(q, t) = {} BY <1>5, <2>1, <2>2 DEF GuestsIn
    <3>2. Cardinality(GuestsIn(q, t)) = 0 BY <3>1, FS_EmptySet
    <3>3. q[t].serv = 1 BY <1>6, <1>9, <2>2
    <3> QED BY <3>2, <3>3
  <2>3. CASE t # p
    <3>1. GuestsIn(q, t) = GuestsIn(pl, t) BY <1>5, <2>1, <2>3 DEF GuestsIn
    <3> QED BY <1>6, <1>9, <2>3, <3>1 DEF Orderly
  <2> QED BY <2>2, <2>3
<1>10. \A t \in Slots : q[t].serv <= TableSize
  BY <1>6, LobbyAssumption DEF Orderly
<1>11. \A s \in Slots : q[s].serv > 0 => q[s].join = 0
  BY <1>5, <1>6 DEF Orderly
<1>12. \A s \in Slots : q[s].serv > 0 \/ q[s].join # 0 => q[s].login = 2
  BY <1>5, <1>6, <1>7, <1>8 DEF Orderly
<1> HIDE DEF q
<1>13. Orderly(q) BY <1>9, <1>10, <1>11, <1>12 DEF Orderly
<1> QED BY <1>4, <1>13 DEF q

\* Seating p at the open table t that is not full.
LEMMA JoinedOrderly ==
  ASSUME NEW pl \in PlayerArrays, NEW p \in Slots, NEW t \in Slots, Orderly(pl),
         pl[p].serv = 0, pl[p].login = 2, pl[t].serv > 0, ~ pl[t].serv >= TableSize
  PROVE  Orderly(Joined(pl, p, t))
<1> DEFINE q == Joined(pl, p, t)
<1>1. \A s \in Slots : pl[s] \in Players BY DEF PlayerArrays
<1>2. q \in PlayerArrays BY JoinedType
<1>3. p # t /\ t # 0 BY DEF Slots
<1>4. /\ q[p].serv = 0 /\ q[p].join = t
      /\ q[t].serv = pl[t].serv + 1
      /\ \A s \in Slots : q[s].login = pl[s].login
      /\ \A s \in Slots \ {p} : q[s].join = pl[s].join
      /\ \A s \in Slots \ {t} : q[s].serv = pl[s].serv
  BY <1>1, <1>3 DEF Joined, Players
<1>5. \A s \in Slots : pl[s].serv \in Nat BY <1>1 DEF Players
<1>6. ASSUME NEW s \in Slots, q[s].serv > 0
      PROVE  q[s].serv >= 1 + Cardinality(GuestsIn(q, s))
  <2>1. Cardinality(GuestsIn(pl, s)) \in Nat BY GuestsFinite
  <2>2. CASE s = t
    <3>1. GuestsIn(q, s) = GuestsIn(pl, s) \cup {p} BY <1>4, <2>2 DEF GuestsIn
    <3>2. Cardinality(GuestsIn(q, s)) <= Cardinality(GuestsIn(pl, s)) + 1
      BY <3>1, <2>1, GuestsFinite, OneMore
    <3>3. Cardinality(GuestsIn(q, s)) \in Nat BY <1>2, GuestsFinite
    <3> QED BY <1>4, <1>5, <2>1, <2>2, <3>2, <3>3 DEF Orderly
  <2>3. CASE s # t
    <3>1. GuestsIn(q, s) = GuestsIn(pl, s) \ {p} BY <1>4, <2>3 DEF GuestsIn
    <3>2. Cardinality(GuestsIn(q, s)) <= Cardinality(GuestsIn(pl, s))
      BY <3>1, <2>1, GuestsFinite, OneLess
    <3>3. Cardinality(GuestsIn(q, s)) \in Nat BY <1>2, GuestsFinite
    <3>4. pl[s].serv >= 1 + Cardinality(GuestsIn(pl, s)) BY <1>4, <1>6, <2>3 DEF Orderly
    <3> QED BY <1>4, <1>5, <2>1, <2>3, <3>2, <3>3, <3>4
  <2> QED BY <2>2, <2>3
<1>7. \A s \in Slots : q[s].serv <= TableSize
  <2>1. q[t].serv <= TableSize BY <1>4, <1>5, LobbyAssumption
  <2> QED BY <1>4, <2>1 DEF Orderly
<1>8. \A s \in Slots : q[s].serv > 0 => q[s].join = 0
  BY <1>3, <1>4 DEF Orderly
<1>9. \A s \in Slots : q[s].serv > 0 \/ q[s].join # 0 => q[s].login = 2
  <2>1. pl[t].login = 2 BY DEF Orderly
  <2> QED BY <1>4, <2>1 DEF Orderly
<1> HIDE DEF q
<1>10. Orderly(q) BY <1>6, <1>7, <1>8, <1>9 DEF Orderly
<1> QED BY <1>10 DEF q

Sound(pl) == pl \in PlayerArrays /\ Orderly(pl)

\* A change that touches neither counts nor links, and logs nobody out, keeps
\* the tables in order.
LEMMA SameTables ==
  ASSUME NEW pl, NEW q \in PlayerArrays, Sound(pl),
         \A s \in Slots : /\ q[s].serv = pl[s].serv /\ q[s].join = pl[s].join
                          /\ pl[s].login = 2 => q[s].login = 2
  PROVE  Sound(q)
<1>1. \A t \in Slots : GuestsIn(q, t) = GuestsIn(pl, t) BY DEF GuestsIn
<1> QED BY <1>1 DEF Sound, Orderly

\* close_connection() keeps an array sound.
LEMMA ClosedSound ==
  ASSUME NEW pl, NEW c \in Slots, Sound(pl)
  PROVE  Sound(Closed(pl, c))
BY ClosedType, ClosedOrderly DEF Sound

\* Taking a guest out of its table keeps an array sound.
LEMMA UnseatedSound ==
  ASSUME NEW pl, NEW p \in Slots, Sound(pl)
  PROVE  Sound(Unseated(pl, p))
BY UnseatedType, UnseatedOrderly DEF Sound

\* welcome_user() keeps an array sound.
LEMMA WelcomedSound ==
  ASSUME NEW pl, NEW p \in Slots, NEW r \in Records, Sound(pl)
  PROVE  Sound(Welcomed(pl, p, r))
<1>1. pl \in PlayerArrays BY DEF Sound
<1>2. \A s \in Slots : pl[s] \in Players BY <1>1 DEF PlayerArrays
<1>3. Welcomed(pl, p, r) \in PlayerArrays BY <1>1, WelcomedType
<1>4. \A s \in Slots : LET q == Welcomed(pl, p, r)
                       IN  /\ q[s].serv = pl[s].serv /\ q[s].join = pl[s].join
                           /\ pl[s].login = 2 => q[s].login = 2
  BY <1>1, <1>2 DEF Welcomed, PlayerArrays, Players
<1> QED BY <1>3, <1>4, SameTables

\* read_user_name_update() keeps an array sound and the tables as they are.
LEMMA RefreshedSound ==
  ASSUME TypeOK, Orderly(player), NEW p \in Slots, NEW r \in Records
  PROVE  /\ Sound(Refreshed(p, r))
         /\ \A s \in Slots : /\ Refreshed(p, r)[s].serv = player[s].serv
                             /\ Refreshed(p, r)[s].join = player[s].join
                             /\ Refreshed(p, r)[s].login = player[s].login
<1>1. player \in PlayerArrays BY DEF TypeOK, PlayerArrays
<1>2. \A s \in Slots : player[s] \in Players BY <1>1 DEF PlayerArrays
<1>3. r.money \in Moneys BY DEF Records
<1>4. [player[p] EXCEPT !.money = r.money] \in Players BY <1>2, <1>3 DEF Players
<1>5. [player[p] EXCEPT !.money = player[p].money] \in Players BY <1>2 DEF Players
<1>6. Refreshed(p, r) \in PlayerArrays BY <1>1, <1>4, <1>5 DEF Refreshed, PlayerArrays
<1>7. \A s \in Slots : /\ Refreshed(p, r)[s].serv = player[s].serv
                       /\ Refreshed(p, r)[s].join = player[s].join
                       /\ Refreshed(p, r)[s].login = player[s].login
  BY <1>1, <1>2 DEF Refreshed, PlayerArrays, Players
<1> QED BY <1>1, <1>6, <1>7, SameTables DEF Sound

---------------------------------------------------------------------------
(* The inductive invariant. *)

Inv == TypeOK /\ Orderly(player)

\* The invariant, variable by variable.
LEMMA InvParts ==
  Inv <=> /\ Sound(player)
          /\ record \in Records
          /\ users \in [Ids -> Records \cup {NoDoc}]
          /\ nextId \in Nat
          /\ sessions \in [Names -> Moneys \cup {NoSession}]
BY DEF Inv, TypeOK, Sound, PlayerArrays

\* Whatever a read by nickname returns, the global record stays a record.
LEMMA ReadNameType ==
  ASSUME Inv, NEW n, NEW r \in ReadName(n)
  PROVE  (r = NoDoc \/ r \in Records) /\ Recall(r) \in Records
BY DEF Inv, TypeOK, ReadName, Found, Recall

\* Whatever a read by id returns, the global record stays a record.
LEMMA ReadIdType ==
  ASSUME Inv, NEW i \in Ids, NEW r \in ReadId(i)
  PROVE  Recall(r) \in Records
BY DEF Inv, TypeOK, ReadId, Recall

\* write_record() keeps the users collection well formed.
LEMMA WriteType ==
  ASSUME Inv, NEW r \in Records, Write(r)
  PROVE  users' \in [Ids -> Records \cup {NoDoc}]
BY DEF Inv, TypeOK, Write

\* session_create() and session_destroy() keep active_sessions well formed.
LEMMA SessionTypes ==
  ASSUME NEW ss \in [Names -> Moneys \cup {NoSession}], NEW pl, NEW p \in Slots
  PROVE  /\ SessionClosed(ss, pl, p) \in [Names -> Moneys \cup {NoSession}]
         /\ \A r \in Records :
              SessionOpened(ss, pl, p, r) \in [Names -> Moneys \cup {NoSession}]
BY DEF SessionClosed, SessionOpened, Records

\* The end of a login, admitted or banned.
LEMMA AdmitSound ==
  ASSUME NEW pl, Sound(pl), NEW p \in Slots, NEW r \in Records,
         NEW ss \in [Names -> Moneys \cup {NoSession}], Admit(p, r, pl, ss)
  PROVE  Sound(player') /\ sessions' \in [Names -> Moneys \cup {NoSession}]
<1>1. PICK banned \in Banned :
        IF banned
        THEN player' = Closed(pl, p) /\ sessions' = SessionClosed(ss, pl, p)
        ELSE player' = Welcomed(pl, p, r) /\ sessions' = SessionOpened(ss, pl, p, r)
  BY DEF Admit
<1>2. CASE banned BY <1>1, <1>2, ClosedSound, SessionTypes
<1>3. CASE ~banned
  <2>1. player' = Welcomed(pl, p, r) /\ sessions' = SessionOpened(ss, pl, p, r)
    BY <1>1, <1>3
  <2>2. Sound(player') BY <2>1, WelcomedSound
  <2>3. sessions' \in [Names -> Moneys \cup {NoSession}] BY <2>1, SessionTypes
  <2> QED BY <2>2, <2>3
<1> QED BY <1>2, <1>3

\* Putting another question to the client.
LEMMA PromptedSound ==
  ASSUME Sound(player), NEW p \in Slots, NEW q \in Prompts
  PROVE  Sound(Prompted(p, q))
<1>1. player \in PlayerArrays /\ \A s \in Slots : player[s] \in Players
  BY DEF Sound, PlayerArrays
<1>2. [player[p] EXCEPT !.prompt = q] \in Players BY <1>1 DEF Players
<1>3. Prompted(p, q) \in PlayerArrays BY <1>1, <1>2 DEF Prompted, PlayerArrays
<1>4. \A s \in Slots : /\ Prompted(p, q)[s].serv = player[s].serv
                       /\ Prompted(p, q)[s].join = player[s].join
                       /\ Prompted(p, q)[s].login = player[s].login
  BY <1>1, <1>2 DEF Prompted, PlayerArrays, Players
<1> QED BY <1>3, <1>4, SameTables

\* The invariant holds when the server starts.
LEMMA InitInv == Init => Inv
<1> SUFFICES ASSUME Init PROVE Inv OBVIOUS
<1>1. FreeSlot \in Players
  <2>1. "version" \in Prompts BY DEF Prompts
  <2>2. 0 \in Ids BY LobbyAssumption DEF Ids
  <2> QED BY <2>1, <2>2, LobbyAssumption DEF FreeSlot, Players
<1>2. player \in PlayerArrays BY <1>1 DEF Init, PlayerArrays
<1>3. \A s \in Slots : player[s].serv = 0 /\ player[s].join = 0
  BY DEF Init, FreeSlot
<1>4. Orderly(player) BY <1>3, LobbyAssumption DEF Orderly
<1>5. record \in Records
  BY LobbyAssumption DEF Init, BlankRecord, Records, Ids
<1>6. nextId \in Nat BY LobbyAssumption, FS_CardinalityType DEF Init
<1>7. sessions \in [Names -> Moneys \cup {NoSession}] BY DEF Init
<1>8. users \in [Ids -> Records \cup {NoDoc}]
  <2>1. PICK idOf \in [Registered -> 1 .. nextId], pw \in Passwords :
          users = [i \in Ids |->
                     IF \E n \in Registered : idOf[n] = i
                     THEN [id |-> i, name |-> CHOOSE n \in Registered : idOf[n] = i,
                           pw |-> pw, money |-> DefaultMoney]
                     ELSE NoDoc]
    BY DEF Init
  <2>2. ASSUME NEW i \in Ids, \E n \in Registered : idOf[n] = i
        PROVE  [id |-> i, name |-> CHOOSE n \in Registered : idOf[n] = i,
                pw |-> pw, money |-> DefaultMoney] \in Records
    <3>1. (CHOOSE n \in Registered : idOf[n] = i) \in Names BY <2>2, LobbyAssumption
    <3> QED BY <3>1, LobbyAssumption DEF Records
  <2> QED BY <2>1, <2>2
<1> QED BY <1>2, <1>4, <1>5, <1>6, <1>7, <1>8 DEF Inv, TypeOK, PlayerArrays

\* accept() keeps the invariant.
LEMMA AcceptInv == Inv /\ Accept => Inv'
<1> SUFFICES ASSUME Inv, Accept PROVE Inv' OBVIOUS
<1>1. PICK p \in Slots :
        /\ IsFirst(p, FreeSlots)
        /\ \/ player' = Closed([player EXCEPT ![p].login = 1], p)
           \/ player' = [player EXCEPT ![p].login = 1]
        /\ UNCHANGED <<record, users, nextId, sessions>>
  BY DEF Accept
<1> DEFINE q == [player EXCEPT ![p].login = 1]
<1>2. player \in PlayerArrays /\ \A s \in Slots : player[s] \in Players
  BY DEF Inv, TypeOK, PlayerArrays
<1>3. [player[p] EXCEPT !.login = 1] \in Players BY <1>2 DEF Players
<1>4. q \in PlayerArrays BY <1>2, <1>3 DEF PlayerArrays
<1>5. player[p].login = 0 BY <1>1 DEF IsFirst, FreeSlots
<1>6. \A s \in Slots : /\ q[s].serv = player[s].serv /\ q[s].join = player[s].join
                       /\ player[s].login = 2 => q[s].login = 2
  BY <1>2, <1>5 DEF PlayerArrays, Players
<1> HIDE DEF q
<1>7. Sound(q) BY <1>4, <1>6, SameTables, InvParts
<1>8. Sound(player') BY <1>1, <1>7, ClosedSound DEF q
<1> QED BY <1>1, <1>8 DEF Inv, TypeOK, Sound, PlayerArrays

\* The end of a connection keeps the invariant.
LEMMA DisconnectInv ==
  ASSUME Inv, NEW p \in Slots, Disconnect(p)
  PROVE  Inv'
BY ClosedSound, SessionTypes, InvParts DEF Disconnect, Inv, TypeOK, Sound, PlayerArrays

\* Every message of the login dialogue keeps the invariant.
LEMMA DialogueInv ==
  ASSUME Inv, NEW p \in Slots, Dialogue(p)
  PROVE  Inv'
<1> USE InvParts
<1>0. player \in PlayerArrays /\ \A s \in Slots : player[s] \in Players
  BY DEF Inv, TypeOK, PlayerArrays
<1>p. /\ "name" \in Prompts /\ "create" \in Prompts /\ "password" \in Prompts
      /\ "silence" \in Prompts /\ "duplicate" \in Prompts /\ 3 \in 0 .. 3
  BY DEF Prompts
<1>s. ASSUME Sound(player'), record' \in Records, nextId' \in Nat,
             users' \in [Ids -> Records \cup {NoDoc}],
             sessions' \in [Names -> Moneys \cup {NoSession}]
      PROVE  Inv'
  BY <1>s DEF Inv, TypeOK, Sound, PlayerArrays
<1>1. CASE Disconnect(p) BY <1>1, DisconnectInv
<1>2. ASSUME NEW v \in Versions, CheckVersion(p, v) PROVE Inv'
  <2>1. [player[p] EXCEPT !.current = v, !.prompt = "name"] \in Players
    BY <1>0, <1>p, LobbyAssumption, ZenonT(60) DEF Players
  <2>2. player' = [player EXCEPT ![p].current = v, ![p].prompt = "name"]
    BY <1>2 DEF CheckVersion
  <2>3. player' \in PlayerArrays BY <1>0, <2>1, <2>2 DEF PlayerArrays
  <2>4. \A s \in Slots : /\ player'[s].serv = player[s].serv
                         /\ player'[s].join = player[s].join
                         /\ player'[s].login = player[s].login
    BY <1>0, <2>2 DEF PlayerArrays, Players
  <2>5. Sound(player') BY <2>3, <2>4, SameTables
  <2> QED BY <1>2, <1>s, <2>5 DEF CheckVersion
<1>3. ASSUME NEW n \in Names, Login(p, n) PROVE Inv'
  <2>1. PICK r \in ReadName(n) :
          /\ record' = Recall(r)
          /\ player' = [player EXCEPT
                       ![p].name   = n,
                       ![p].prompt = IF r = NoDoc THEN "create" ELSE "password"]
    BY <1>3 DEF Login
  <2>2. [player[p] EXCEPT !.name = n,
                          !.prompt = IF r = NoDoc THEN "create" ELSE "password"] \in Players
    BY <1>0, <1>p DEF Players
  <2>3. player' \in PlayerArrays BY <1>0, <2>1, <2>2 DEF PlayerArrays
  <2>4. \A s \in Slots : /\ player'[s].serv = player[s].serv
                         /\ player'[s].join = player[s].join
                         /\ player'[s].login = player[s].login
    BY <1>0, <2>1 DEF PlayerArrays, Players
  <2>5. Sound(player') BY <2>3, <2>4, SameTables
  <2>6. record' \in Records BY <2>1, ReadNameType
  <2> QED BY <1>3, <1>s, <2>5, <2>6 DEF Login
<1>4. ASSUME NEW pw \in Passwords, CheckPassword(p, pw) PROVE Inv'
  <2>1. PICK r \in ReadName(player[p].name) :
       /\ record' = Recall(r)
       /\ \/ /\ r = NoDoc
             /\ player' = Prompted(p, "silence")
             /\ UNCHANGED <<users, sessions>>
          \/ /\ r # NoDoc
             /\ player' = Prompted(p, "name")
             /\ UNCHANGED <<users, sessions>>
          \/ /\ player' = [player EXCEPT ![p].login = 3, ![p].prompt = "duplicate"]
             /\ UNCHANGED <<users, sessions>>
          \/ /\ r # NoDoc
             /\ Write(r)
             /\ Admit(p, r, player, sessions)
    BY <1>4 DEF CheckPassword
  <2>2. record' \in Records /\ nextId' = nextId
    BY <1>4, <2>1, ReadNameType DEF CheckPassword
  <2>3. CASE player' = Prompted(p, "silence") /\ UNCHANGED <<users, sessions>>
    BY <1>p, <1>s, <2>2, <2>3, PromptedSound
  <2>4. CASE player' = Prompted(p, "name") /\ UNCHANGED <<users, sessions>>
    BY <1>p, <1>s, <2>2, <2>4, PromptedSound
  <2>5. CASE /\ player' = [player EXCEPT ![p].login = 3, ![p].prompt = "duplicate"]
             /\ UNCHANGED <<users, sessions>>
    <3>1. [player[p] EXCEPT !.login = 3, !.prompt = "duplicate"] \in Players
      BY <1>0, <1>p DEF Players
    <3>2. player' \in PlayerArrays BY <1>0, <2>5, <3>1 DEF PlayerArrays
    <3>3. player[p].login = 1 BY <1>4 DEF CheckPassword
    <3>4. \A s \in Slots : /\ player'[s].serv = player[s].serv
                           /\ player'[s].join = player[s].join
                           /\ player[s].login = 2 => player'[s].login = 2
      BY <1>0, <2>5, <3>3 DEF PlayerArrays, Players
    <3>5. Sound(player') BY <3>2, <3>4, SameTables
    <3> QED BY <1>s, <2>2, <2>5, <3>5
  <2>6. CASE r # NoDoc /\ Write(r) /\ Admit(p, r, player, sessions)
    <3>1. r \in Records BY <2>6, ReadNameType
    <3>2. users' \in [Ids -> Records \cup {NoDoc}] BY <2>6, <3>1, WriteType
    <3>3. Sound(player') /\ sessions' \in [Names -> Moneys \cup {NoSession}]
      BY <2>6, <3>1, AdmitSound
    <3> QED BY <1>s, <2>2, <3>2, <3>3
  <2> QED BY <2>1, <2>3, <2>4, <2>5, <2>6
<1>5. ASSUME NEW pw \in Passwords, CreateAccount(p, pw) PROVE Inv'
  <2> DEFINE r  == [id |-> nextId + 1, name |-> player[p].name,
                    pw |-> pw, money |-> DefaultMoney]
             us == [users EXCEPT ![r.id] = r]
  <2>1. nextId + 1 \in Ids /\ nextId' = nextId + 1 /\ nextId' \in Nat
    BY <1>5, LobbyAssumption DEF CreateAccount, Ids
  <2>2. player[p].name \in Names \cup {NoName} BY <1>0 DEF Players
  <2>3. r \in Records BY <2>1, <2>2, LobbyAssumption DEF Records
  <2>4. PICK banned \in Banned :
          IF banned
          THEN /\ record' = r
               /\ player' = Closed(player, p)
               /\ UNCHANGED <<users, sessions>>
          ELSE /\ \E d \in IF player[p].current THEN Found(us, r.name) ELSE {NoDoc} :
                    record' = IF d = NoDoc THEN r ELSE d
               /\ users' = us
               /\ player' = Welcomed(player, p, r)
               /\ sessions' = SessionOpened(sessions, player, p, r)
    BY <1>5 DEF CreateAccount
  <2> HIDE DEF r
  <2>5. us \in [Ids -> Records \cup {NoDoc}] BY <2>3
  <2>6. CASE banned BY <1>s, <2>1, <2>3, <2>4, <2>6, ClosedSound
  <2>7. CASE ~banned
    <3>1. /\ users' = us /\ player' = Welcomed(player, p, r)
          /\ sessions' = SessionOpened(sessions, player, p, r)
      BY <2>4, <2>7
    <3>2. PICK d \in IF player[p].current THEN Found(us, r.name) ELSE {NoDoc} :
            record' = IF d = NoDoc THEN r ELSE d
      BY <2>4, <2>7
    <3> HIDE DEF us
    <3>3. d = NoDoc \/ d \in Records BY <2>5, <3>2 DEF Found
    <3>4. record' \in Records BY <2>3, <3>2, <3>3
    <3>5. Sound(player') BY <2>3, <3>1, WelcomedSound
    <3>6. sessions' \in [Names -> Moneys \cup {NoSession}] BY <2>3, <3>1, SessionTypes
    <3> QED BY <1>s, <2>1, <2>5, <3>1, <3>4, <3>5, <3>6
  <2> QED BY <2>6, <2>7
<1>6. ASSUME KillDuplicate(p) PROVE Inv'
  <2>1. PICK r \in ReadName(player[p].name) :
       /\ record' = Recall(r)
       /\ \/ /\ r = NoDoc
             /\ player' = Prompted(p, "silence")
             /\ UNCHANGED <<users, sessions>>
          \/ /\ r # NoDoc
             /\ Write(r)
             /\ Admit(p, r, player, sessions)
          \/ /\ r # NoDoc
             /\ Write(r)
             /\ \E v \in Slots :
                  Admit(p, r, Closed(player, v), SessionClosed(sessions, player, v))
    BY <1>6 DEF KillDuplicate, Rivals
  <2>2. record' \in Records /\ nextId' = nextId
    BY <1>6, <2>1, ReadNameType DEF KillDuplicate
  <2>3. CASE player' = Prompted(p, "silence") /\ UNCHANGED <<users, sessions>>
    BY <1>p, <1>s, <2>2, <2>3, PromptedSound
  <2>4. CASE r # NoDoc /\ Write(r)
    <3>1. r \in Records BY <2>4, ReadNameType
    <3>2. users' \in [Ids -> Records \cup {NoDoc}] BY <2>4, <3>1, WriteType
    <3>3. CASE Admit(p, r, player, sessions)
      BY <1>s, <2>2, <3>1, <3>2, <3>3, AdmitSound
    <3>4. ASSUME NEW v \in Slots,
                 Admit(p, r, Closed(player, v), SessionClosed(sessions, player, v))
          PROVE  Inv'
      <4>1. Sound(Closed(player, v)) BY ClosedSound
      <4>2. SessionClosed(sessions, player, v) \in [Names -> Moneys \cup {NoSession}]
        BY SessionTypes
      <4>3. Sound(player') /\ sessions' \in [Names -> Moneys \cup {NoSession}]
        BY <3>1, <3>4, <4>1, <4>2, AdmitSound
      <4> QED BY <1>s, <2>2, <3>2, <4>3
    <3> QED BY <2>1, <2>4, <3>3, <3>4
  <2> QED BY <2>1, <2>3, <2>4
<1> QED BY <1>1, <1>2, <1>3, <1>4, <1>5, <1>6 DEF Dialogue

\* Every command of a logged-in client keeps the invariant.
LEMMA CommandInv ==
  ASSUME Inv, NEW p \in Slots, Command(p)
  PROVE  Inv'
<1> USE InvParts
<1>0. player \in PlayerArrays /\ \A s \in Slots : player[s] \in Players
  BY DEF Inv, TypeOK, PlayerArrays
<1>s. ASSUME Sound(player'), record' \in Records, nextId' \in Nat,
             users' \in [Ids -> Records \cup {NoDoc}],
             sessions' \in [Names -> Moneys \cup {NoSession}]
      PROVE  Inv'
  BY <1>s DEF Inv, TypeOK, Sound, PlayerArrays
<1>r. ASSUME NEW n, NEW r \in ReadName(n)
      PROVE  (r = NoDoc \/ r \in Records) /\ Recall(r) \in Records
  BY <1>r, ReadNameType
<1>f. ASSUME NEW r \in Records
      PROVE  Sound(Refreshed(p, r))
  BY <1>f, RefreshedSound DEF Inv
<1>1. ASSUME NEW n \in Names, JoinTable(p, n) PROVE Inv'
  <2>1. UNCHANGED <<users, nextId, sessions>> BY <1>1 DEF JoinTable
  <2>2. PICK r \in ReadName(player[p].name) :
          /\ record' = Recall(r)
          /\ \/ r = NoDoc /\ UNCHANGED player
             \/ /\ r # NoDoc
                /\ LET pl == Refreshed(p, r)
                   IN  \/ player' = pl
                       \/ \E t \in TablesOf(n) :
                            player' = IF Full(pl, t) THEN pl
                                      ELSE Joined(pl, p, t)
    BY <1>1 DEF JoinTable
  <2>3. record' \in Records BY <1>r, <2>2
  <2>4. CASE UNCHANGED player BY <1>s, <2>1, <2>3, <2>4
  <2>5. CASE r # NoDoc
    <3> DEFINE pl == Refreshed(p, r)
    <3>1. r \in Records BY <1>r, <2>5
    <3>2. /\ Sound(pl)
          /\ \A s \in Slots : /\ pl[s].serv = player[s].serv
                              /\ pl[s].login = player[s].login
      BY <3>1, RefreshedSound DEF Inv
    <3>3. pl[p].serv = 0 /\ pl[p].login = 2
      BY <1>1, <3>2 DEF JoinTable, LoggedIn
    <3>4. \/ UNCHANGED player
          \/ player' = pl
          \/ \E t \in TablesOf(n) :
               player' = IF Full(pl, t) THEN pl ELSE Joined(pl, p, t)
      BY <2>2, <2>5
    <3> HIDE DEF pl
    <3>5. CASE player' = pl BY <1>s, <2>1, <2>3, <3>2, <3>5
    <3>6. ASSUME NEW t \in TablesOf(n), ~ pl[t].serv >= TableSize,
                 player' = Joined(pl, p, t)
          PROVE  Inv'
      <4>1. t \in Slots /\ pl[t].serv > 0 BY <3>2, <3>6 DEF TablesOf
      <4>2. pl \in PlayerArrays /\ Orderly(pl) BY <3>2 DEF Sound
      <4>3. Joined(pl, p, t) \in PlayerArrays BY <4>1, <4>2, JoinedType
      <4>4. Orderly(Joined(pl, p, t)) BY <3>3, <3>6, <4>1, <4>2, JoinedOrderly
      <4>5. Sound(player') BY <3>6, <4>3, <4>4 DEF Sound
      <4> QED BY <1>s, <2>1, <2>3, <4>5
    <3> QED BY <2>4, <3>4, <3>5, <3>6 DEF Full
  <2> QED BY <2>2, <2>4, <2>5
<1>2. ASSUME NEW n \in Names, LookUp(p, n) PROVE Inv'
  BY <1>r, <1>s, <1>2 DEF LookUp
<1>3. ASSUME NEW n \in Names, Kick(p, n) PROVE Inv'
  <2>1. PICK v \in Slots : /\ player' = Closed(player, v)
                           /\ sessions' = SessionClosed(sessions, player, v)
    BY <1>3 DEF Kick, FoundUser
  <2> QED BY <1>3, <1>s, <2>1, ClosedSound, SessionTypes DEF Kick
<1>4. ASSUME CheckOpen(p) PROVE Inv'
  <2>1. PICK r \in ReadName(player[p].name) :
       /\ record' = Recall(r)
       /\ player' = IF r = NoDoc THEN player ELSE Refreshed(p, r)
    BY <1>4 DEF CheckOpen
  <2>2. Sound(player') BY <1>r, <1>f, <2>1
  <2> QED BY <1>4, <1>r, <1>s, <2>1, <2>2 DEF CheckOpen
<1>5. ASSUME OpenTable(p) PROVE Inv'
  <2>1. PICK r \in ReadName(player[p].name) :
       /\ record' = Recall(r)
       /\ LET pl == IF r = NoDoc THEN player ELSE Refreshed(p, r)
          IN  player' = IF r = NoDoc \/ pl[p].money <= MinJoinMoney THEN pl
                        ELSE [Cleared(Unseated(pl, p), p) EXCEPT ![p].serv = 1]
    BY <1>5 DEF OpenTable
  <2> DEFINE pl == IF r = NoDoc THEN player ELSE Refreshed(p, r)
  <2>2. Sound(pl) BY <1>r, <1>f
  <2>3. pl[p].login = 2
    BY <1>5, <1>r, RefreshedSound DEF OpenTable, LoggedIn, Inv
  <2>4. player' = pl \/ player' = [Cleared(Unseated(pl, p), p) EXCEPT ![p].serv = 1]
    BY <2>1
  <2> HIDE DEF pl
  <2>5. Sound(Unseated(pl, p)) BY <2>2, UnseatedSound
  <2>6. Unseated(pl, p)[p].login = 2 /\ Unseated(pl, p)[p].join = 0
    <3>1. pl[p] \in Players BY <2>2 DEF Sound, PlayerArrays
    <3> QED BY <2>3, <3>1 DEF Unseated, Players
  <2>7. Sound([Cleared(Unseated(pl, p), p) EXCEPT ![p].serv = 1])
    BY <2>5, <2>6, OpenedOrderly DEF Sound
  <2>8. Sound(player') BY <2>2, <2>4, <2>7
  <2> QED BY <1>5, <1>r, <1>s, <2>1, <2>8 DEF OpenTable
<1>6. ASSUME LeaveTable(p) PROVE Inv'
  <2>1. CASE player[p].serv > 0
    <3>1. player[p].login = 2 /\ player[p].join = 0
      BY <1>6, <2>1 DEF LeaveTable, LoggedIn, Sound, Orderly
    <3>2. Sound([Cleared(player, p) EXCEPT ![p].serv = 0])
      BY <3>1, OpenedOrderly DEF Sound
    <3>3. player' = [Cleared(player, p) EXCEPT ![p].serv = 0, ![p].join = 0]
      BY <1>6, <2>1 DEF LeaveTable
    <3>4. player' = [Cleared(player, p) EXCEPT ![p].serv = 0]
      <4>1. Cleared(player, p) \in PlayerArrays BY <1>0, ClosedType, ClearedType
      <4>2. Cleared(player, p)[p] \in Players BY <4>1 DEF PlayerArrays
      <4>3. Cleared(player, p)[p].join = 0 BY <1>0, <3>1 DEF Cleared
      <4>4. [Cleared(player, p)[p] EXCEPT !.serv = 0, !.join = 0]
              = [Cleared(player, p)[p] EXCEPT !.serv = 0]
        BY <4>2, <4>3 DEF Players
      <4> QED BY <3>3, <4>1, <4>4 DEF PlayerArrays
    <3> QED BY <1>6, <1>s, <3>2, <3>4 DEF LeaveTable
  <2>2. CASE ~ player[p].serv > 0
    BY <1>6, <1>s, <2>2, UnseatedSound DEF LeaveTable
  <2> QED BY <2>1, <2>2
<1>7. ASSUME NEW i \in Ids, NEW m \in Reported, WinGame(p, i, m) PROVE Inv'
  <2>1. m \in Moneys BY LobbyAssumption
  <2>2. PICK r \in ReadId(i) : LET w == [Recall(r) EXCEPT !.money = m]
                               IN  record' = w /\ Write(w)
    BY <1>7 DEF WinGame
  <2>3. [Recall(r) EXCEPT !.money = m] \in Records
    BY <2>1, ReadIdType DEF Records
  <2>4. record' \in Records /\ users' \in [Ids -> Records \cup {NoDoc}]
    BY <2>2, <2>3, WriteType
  <2>5. player' = [s \in Slots |-> IF IsFirst(s, PlayingAs(i))
                                   THEN [player[s] EXCEPT !.money = m]
                                   ELSE player[s]]
    BY <1>7 DEF WinGame
  <2>6. \A s \in Slots : [player[s] EXCEPT !.money = m] \in Players
    BY <1>0, <2>1 DEF Players
  <2>7. player' \in PlayerArrays BY <1>0, <2>5, <2>6 DEF PlayerArrays
  <2>8. \A s \in Slots : /\ player'[s].serv = player[s].serv
                         /\ player'[s].join = player[s].join
                         /\ player'[s].login = player[s].login
    BY <1>0, <2>5 DEF Players
  <2>9. Sound(player') BY <2>7, <2>8, SameTables
  <2> QED BY <1>7, <1>s, <2>4, <2>9 DEF WinGame
<1>8. ASSUME NEW pw \in Passwords, ChangePassword(p, pw) PROVE Inv'
  <2>1. PICK r \in ReadName(player[p].name) :
          LET w == [Recall(r) EXCEPT !.pw = pw] IN record' = w /\ Write(w)
    BY <1>8 DEF ChangePassword
  <2>2. [Recall(r) EXCEPT !.pw = pw] \in Records BY <1>r DEF Records
  <2>3. record' \in Records /\ users' \in [Ids -> Records \cup {NoDoc}]
    BY <2>1, <2>2, WriteType
  <2> QED BY <1>8, <1>s, <2>3 DEF ChangePassword
<1> QED BY <1>1, <1>2, <1>3, <1>4, <1>5, <1>6, <1>7, <1>8 DEF Command

\* A restart of the process keeps the invariant.
LEMMA RestartInv == Inv /\ Restart => Inv'
<1> SUFFICES ASSUME Inv, Restart PROVE Inv' OBVIOUS
<1>1. "version" \in Prompts /\ 0 \in Ids BY LobbyAssumption DEF Prompts, Ids
<1>2. FreeSlot \in Players BY <1>1, LobbyAssumption DEF FreeSlot, Players
<1>3. player' \in PlayerArrays BY <1>2 DEF Restart, PlayerArrays
<1>4. \A s \in Slots : player'[s].serv = 0 /\ player'[s].join = 0
  BY DEF Restart, FreeSlot
<1>5. Orderly(player') BY <1>4, LobbyAssumption DEF Orderly
<1>6. record' \in Records
  BY <1>1, LobbyAssumption DEF Restart, BlankRecord, Records
<1> QED BY <1>3, <1>5, <1>6 DEF Restart, Inv, TypeOK, PlayerArrays

\* The invariant is inductive.
LEMMA NextInv == Inv /\ [Next]_vars => Inv'
<1> SUFFICES ASSUME Inv, [Next]_vars PROVE Inv' OBVIOUS
<1>1. CASE UNCHANGED vars BY <1>1 DEF vars, Inv, TypeOK
<1> QED BY <1>1, AcceptInv, DialogueInv, CommandInv, RestartInv DEF Next

\* The inductive invariant holds in every reachable state of the server.
THEOREM InvHolds == Spec => []Inv
<1>1. Init => Inv BY InitInv
<1>2. Inv /\ [Next]_vars => Inv' BY NextInv
<1> QED BY <1>1, <1>2, PTL DEF Spec

\* Type correctness of the server's tables and of the database: no handler of
\* gps_processing() leaves a slot, an account or a session malformed.
THEOREM TypeCorrect == Spec => []TypeOK
<1>1. Inv => TypeOK BY DEF Inv
<1> QED BY <1>1, InvHolds, PTL

\* At every moment the head-count of an open table covers its host and all its
\* guests and is at most the size of a table, nobody is at two tables, and only
\* players who are logged in host or are linked to one.  Holds for any order of
\* messages, lost connections, failing reads, bans and restarts.
THEOREM TablesAreOrderly == Spec => []TablesOrderly
<1>1. Inv => TablesOrderly
  BY DEF Inv, Orderly, TablesOrderly, HeadCountCovers, Guests, GuestsIn, ServBound,
         HostIsNoGuest, OnlyOnlineSeated, LoggedIn
<1> QED BY <1>1, InvHolds, PTL

---------------------------------------------------------------------------
(* The login limit keeps a slot free. *)

\* No connection is kept in a slot above the limit.
LimitHeld == \A s \in Slots : s > LoginLimit => player[s].login = 0

\* close_connection() connects nobody.
LEMMA ClosedConnects ==
  ASSUME NEW pl \in PlayerArrays, NEW c \in Slots
  PROVE  \A s \in Slots : Closed(pl, c)[s].login # 0 => pl[s].login # 0
<1>1. \A s \in Slots : pl[s] \in Players BY DEF PlayerArrays
<1> QED BY <1>1 DEF Closed, Players

\* The end of a login connects nobody but p.
LEMMA AdmitConnects ==
  ASSUME NEW pl \in PlayerArrays, NEW p \in Slots, NEW r \in Records, NEW ss,
         Admit(p, r, pl, ss)
  PROVE  \A s \in Slots \ {p} : player'[s].login # 0 => pl[s].login # 0
<1>1. player' = Closed(pl, p) \/ player' = Welcomed(pl, p, r) BY DEF Admit
<1>2. CASE player' = Closed(pl, p) BY <1>2, ClosedConnects
<1>3. CASE player' = Welcomed(pl, p, r)
  BY <1>3 DEF Welcomed, PlayerArrays
<1> QED BY <1>1, <1>2, <1>3

\* No message connects a slot: a slot is in use after the step of a client only
\* if it was before.
LEMMA OnlyAcceptConnects ==
  ASSUME Inv, NEW p \in Slots, Dialogue(p) \/ Command(p)
  PROVE  \A s \in Slots : player'[s].login # 0 => player[s].login # 0
<1>0. player \in PlayerArrays /\ \A s \in Slots : player[s] \in Players
  BY DEF Inv, TypeOK, PlayerArrays
<1> DEFINE Goal == \A s \in Slots : player'[s].login # 0 => player[s].login # 0
<1>p. ASSUME NEW q, player' = Prompted(p, q) PROVE Goal
  BY <1>0, <1>p DEF Prompted, PlayerArrays, Players
<1>a. ASSUME player[p].login # 0, NEW r \in Records, NEW ss, Admit(p, r, player, ss)
      PROVE  Goal
  BY <1>0, <1>a, AdmitConnects
<1>f. ASSUME NEW r \in Records, player' = Refreshed(p, r) PROVE Goal
  BY <1>f, RefreshedSound DEF Inv
<1>u. ASSUME UNCHANGED player PROVE Goal BY <1>u
<1>1. ASSUME Disconnect(p) PROVE Goal BY <1>0, <1>1, ClosedConnects DEF Disconnect
<1>2. ASSUME NEW v \in Versions, CheckVersion(p, v) PROVE Goal
  BY <1>0, <1>2 DEF CheckVersion, PlayerArrays, Players
<1>3. ASSUME NEW n \in Names, Login(p, n) PROVE Goal
  BY <1>0, <1>3 DEF Login, PlayerArrays, Players
<1>4. ASSUME NEW pw \in Passwords, CheckPassword(p, pw) PROVE Goal
  <2>1. PICK r \in ReadName(player[p].name) :
          \/ player' = Prompted(p, "silence")
          \/ player' = Prompted(p, "name")
          \/ player' = [player EXCEPT ![p].login = 3, ![p].prompt = "duplicate"]
          \/ r # NoDoc /\ Admit(p, r, player, sessions)
    BY <1>4 DEF CheckPassword
  <2>2. player[p].login # 0 BY <1>4 DEF CheckPassword
  <2>3. CASE player' = [player EXCEPT ![p].login = 3, ![p].prompt = "duplicate"]
    BY <1>0, <2>2, <2>3 DEF PlayerArrays, Players
  <2>4. CASE r # NoDoc /\ Admit(p, r, player, sessions)
    <3>1. r \in Records BY <2>4, ReadNameType
    <3> QED BY <1>a, <2>2, <2>4, <3>1
  <2> QED BY <1>p, <2>1, <2>3, <2>4
<1>5. ASSUME NEW pw \in Passwords, CreateAccount(p, pw) PROVE Goal
  <2>1. \/ player' = Closed(player, p)
        \/ \E r : player' = Welcomed(player, p, r)
    BY <1>5 DEF CreateAccount
  <2>2. player[p].login # 0 BY <1>5 DEF CreateAccount
  <2>3. CASE player' = Closed(player, p) BY <1>0, <2>3, ClosedConnects
  <2>4. ASSUME NEW r, player' = Welcomed(player, p, r) PROVE Goal
    BY <1>0, <2>2, <2>4 DEF Welcomed, PlayerArrays, Players
  <2> QED BY <2>1, <2>3, <2>4
<1>6. ASSUME KillDuplicate(p) PROVE Goal
  <2>1. PICK r \in ReadName(player[p].name) :
          \/ player' = Prompted(p, "silence")
          \/ r # NoDoc /\ Admit(p, r, player, sessions)
          \/ /\ r # NoDoc
             /\ \E v \in Slots :
                  Admit(p, r, Closed(player, v), SessionClosed(sessions, player, v))
    BY <1>6 DEF KillDuplicate, Rivals
  <2>2. player[p].login # 0 BY <1>6 DEF KillDuplicate
  <2>3. CASE r # NoDoc /\ Admit(p, r, player, sessions)
    <3>1. r \in Records BY <2>3, ReadNameType
    <3> QED BY <1>a, <2>2, <2>3, <3>1
  <2>4. ASSUME r # NoDoc, NEW v \in Slots,
               Admit(p, r, Closed(player, v), SessionClosed(sessions, player, v))
        PROVE  Goal
    <3>1. r \in Records BY <2>4, ReadNameType
    <3>2. Closed(player, v) \in PlayerArrays BY <1>0, ClosedType
    <3>3. \A s \in Slots \ {p} : player'[s].login # 0 => Closed(player, v)[s].login # 0
      BY <2>4, <3>1, <3>2, AdmitConnects
    <3> QED BY <1>0, <2>2, <3>3, ClosedConnects
  <2> QED BY <1>p, <2>1, <2>3, <2>4
<1>7. ASSUME NEW n \in Names, JoinTable(p, n) PROVE Goal
  <2>1. PICK r \in ReadName(player[p].name) :
          \/ UNCHANGED player
          \/ /\ r # NoDoc
             /\ \/ player' = Refreshed(p, r)
                \/ \E t \in TablesOf(n) : player' = Joined(Refreshed(p, r), p, t)
    BY <1>7 DEF JoinTable
  <2>2. ASSUME r # NoDoc, NEW t \in TablesOf(n), player' = Joined(Refreshed(p, r), p, t)
        PROVE  Goal
    <3> DEFINE pl == Refreshed(p, r)
    <3>1. r \in Records BY <2>2, ReadNameType
    <3>2. pl \in PlayerArrays /\ \A s \in Slots : pl[s].login = player[s].login
      BY <3>1, RefreshedSound DEF Inv, Sound
    <3>3. \A s \in Slots : pl[s] \in Players BY <3>2 DEF PlayerArrays
    <3> HIDE DEF pl
    <3>4. player' = Joined(pl, p, t) BY <2>2 DEF pl
    <3> QED BY <3>2, <3>3, <3>4 DEF Joined, Players
  <2>3. ASSUME r # NoDoc, player' = Refreshed(p, r) PROVE Goal
    BY <1>f, <2>3, ReadNameType
  <2> QED BY <1>u, <2>1, <2>2, <2>3
<1>8. ASSUME NEW n \in Names, LookUp(p, n) \/ Kick(p, n) PROVE Goal
  <2>1. CASE LookUp(p, n) BY <1>u, <2>1 DEF LookUp
  <2>2. CASE Kick(p, n) BY <1>0, <2>2, ClosedConnects DEF Kick, FoundUser
  <2> QED BY <1>8, <2>1, <2>2
<1>9. ASSUME CheckOpen(p) PROVE Goal
  BY <1>f, <1>u, <1>9, ReadNameType DEF CheckOpen
<1>10. ASSUME OpenTable(p) PROVE Goal
  <2>1. PICK r \in ReadName(player[p].name) :
          LET pl == IF r = NoDoc THEN player ELSE Refreshed(p, r)
          IN  \/ player' = pl
              \/ player' = [Cleared(Unseated(pl, p), p) EXCEPT ![p].serv = 1]
    BY <1>10 DEF OpenTable
  <2> DEFINE pl == IF r = NoDoc THEN player ELSE Refreshed(p, r)
  <2>2. pl \in PlayerArrays /\ \A s \in Slots : pl[s].login = player[s].login
    BY <1>0, ReadNameType, RefreshedSound DEF Inv, Sound
  <2>3. player' = pl \/ player' = [Cleared(Unseated(pl, p), p) EXCEPT ![p].serv = 1]
    BY <2>1
  <2> HIDE DEF pl
  <2>4. \A s \in Slots : pl[s] \in Players BY <2>2 DEF PlayerArrays
  <2>5. Unseated(pl, p) \in PlayerArrays BY <2>2, UnseatedType
  <2>6. \A s \in Slots : Unseated(pl, p)[s].login = pl[s].login
    BY <2>4 DEF Unseated, Players
  <2>7. \A s \in Slots : Unseated(pl, p)[s] \in Players BY <2>5 DEF PlayerArrays
  <2>8. \A s \in Slots : [Cleared(Unseated(pl, p), p) EXCEPT ![p].serv = 1][s].login
                           = Unseated(pl, p)[s].login
    BY <2>7 DEF Cleared, Players
  <2> QED BY <2>2, <2>3, <2>6, <2>8
<1>11. ASSUME LeaveTable(p) PROVE Goal
  BY <1>0, <1>11 DEF LeaveTable, Cleared, Unseated, Players
<1>12. ASSUME NEW i \in Ids, NEW m \in Reported, WinGame(p, i, m) PROVE Goal
  <2>1. player' = [s \in Slots |-> IF IsFirst(s, PlayingAs(i))
                                   THEN [player[s] EXCEPT !.money = m]
                                   ELSE player[s]]
    BY <1>12 DEF WinGame
  <2> QED BY <1>0, <2>1 DEF Players
<1>13. ASSUME NEW pw \in Passwords, ChangePassword(p, pw) PROVE Goal
  BY <1>u, <1>13 DEF ChangePassword
<1> HIDE DEF Goal
<1>14. Goal
  BY <1>1, <1>2, <1>3, <1>4, <1>5, <1>6, <1>7, <1>8, <1>9, <1>10, <1>11, <1>12, <1>13
  DEF Dialogue, Command
<1> QED BY <1>14 DEF Goal

\* While the limit is below the last slot and no connection is exempt from it,
\* accept() never finds the array full, where it would take a slot beyond its
\* end: only accept() uses a free slot, and it gives back those above the limit.
THEOREM SlotsAlwaysSuffice ==
  ASSUME LoginLimit < MaxPlayer - 1, MayExempt = FALSE
  PROVE  Spec => []SlotsSuffice
<1>1. Init => LimitHeld BY DEF Init, LimitHeld, FreeSlot
<1>2. Inv /\ LimitHeld /\ [Next]_vars => LimitHeld'
  <2> SUFFICES ASSUME Inv, LimitHeld, [Next]_vars PROVE LimitHeld' OBVIOUS
  <2>1. CASE UNCHANGED vars BY <2>1 DEF vars, LimitHeld
  <2>2. CASE Accept
    <3>1. PICK p \in Slots :
            player' = IF p > LoginLimit
                      THEN Closed([player EXCEPT ![p].login = 1], p)
                      ELSE [player EXCEPT ![p].login = 1]
      BY <2>2 DEF Accept
    <3> DEFINE q == [player EXCEPT ![p].login = 1]
    <3>2. player \in PlayerArrays /\ \A s \in Slots : player[s] \in Players
      BY DEF Inv, TypeOK, PlayerArrays
    <3>3. [player[p] EXCEPT !.login = 1] \in Players BY <3>2 DEF Players
    <3>4. q \in PlayerArrays BY <3>2, <3>3 DEF PlayerArrays
    <3>5. \A s \in Slots \ {p} : q[s].login = player[s].login
      BY <3>2 DEF PlayerArrays
    <3>6. player' = IF p > LoginLimit THEN Closed(q, p) ELSE q BY <3>1
    <3> HIDE DEF q
    <3>7. CASE p > LoginLimit
      <4>1. \A s \in Slots : q[s] \in Players BY <3>4 DEF PlayerArrays
      <4>2. player'[p].login = 0 BY <3>6, <3>7, <4>1 DEF Closed, Players
      <4>3. \A s \in Slots \ {p} : player'[s].login = q[s].login
        BY <3>6, <3>7, <4>1 DEF Closed, Players
      <4> QED BY <3>5, <4>2, <4>3 DEF LimitHeld
    <3>8. CASE ~ p > LoginLimit BY <3>5, <3>6, <3>8 DEF LimitHeld
    <3> QED BY <3>7, <3>8
  <2>3. ASSUME NEW p \in Slots, Dialogue(p) \/ Command(p) PROVE LimitHeld'
    BY <2>3, OnlyAcceptConnects DEF LimitHeld
  <2>4. CASE Restart BY <2>4 DEF Restart, LimitHeld, FreeSlot
  <2> QED BY <2>1, <2>2, <2>3, <2>4 DEF Next
<1>3. LimitHeld => SlotsSuffice
  <2>1. MaxPlayer - 1 \in Slots /\ MaxPlayer - 1 > LoginLimit
    BY LobbyAssumption DEF Slots
  <2> QED BY <2>1 DEF LimitHeld, SlotsSuffice, FreeSlots
<1> QED BY <1>1, <1>2, <1>3, InvHolds, PTL DEF Spec

-----------------------------------------------------------------------------
(* Head-counts.                                                             *)

\* The count of an open table is that of its host and the guests linked to it.
Exact(pl) ==
  \A t \in Slots : pl[t].serv > 0 => pl[t].serv = 1 + Cardinality(GuestsIn(pl, t))

LEMMA SameExact ==
  ASSUME NEW pl, NEW q, Exact(pl),
         \A s \in Slots : q[s].serv = pl[s].serv /\ q[s].join = pl[s].join
  PROVE  Exact(q)
<1>1. \A t \in Slots : GuestsIn(q, t) = GuestsIn(pl, t) BY DEF GuestsIn
<1> QED BY <1>1 DEF Exact

\* close_connection(): a head less where a link less.
LEMMA ClosedExact ==
  ASSUME NEW pl \in PlayerArrays, NEW c \in Slots, Exact(pl)
  PROVE  Exact(Closed(pl, c))
<1> DEFINE q == Closed(pl, c)
<1>1. \A s \in Slots : pl[s] \in Players BY DEF PlayerArrays
<1>2. /\ q[c].serv = 0 /\ q[c].join = 0
      /\ \A s \in Slots \ {c} : q[s].join = pl[s].join
      /\ \A s \in Slots \ {c} :
           q[s].serv = IF s = pl[c].join /\ pl[s].serv > 0 THEN pl[s].serv - 1 ELSE pl[s].serv
  BY <1>1 DEF Closed, Players
<1>3. \A t \in Slots : pl[t].serv \in Nat BY <1>1 DEF Players
<1> HIDE DEF q
<1>4. ASSUME NEW t \in Slots, q[t].serv > 0
      PROVE  q[t].serv = 1 + Cardinality(GuestsIn(q, t))
  <2>1. t # c /\ pl[t].serv > 0 BY <1>2, <1>3, <1>4
  <2>2. t # 0 BY DEF Slots
  <2>3. GuestsIn(q, t) = GuestsIn(pl, t) \ {c} BY <1>2, <2>2 DEF GuestsIn
  <2>4. Cardinality(GuestsIn(q, t)) =
          IF c \in GuestsIn(pl, t) THEN Cardinality(GuestsIn(pl, t)) - 1
                                   ELSE Cardinality(GuestsIn(pl, t))
    BY <2>3, GuestsFinite, OneLess
  <2>5. Cardinality(GuestsIn(pl, t)) \in Nat BY GuestsFinite
  <2>6. pl[t].serv = 1 + Cardinality(GuestsIn(pl, t)) BY <2>1 DEF Exact
  <2>7. c \in GuestsIn(pl, t) <=> t = pl[c].join BY DEF GuestsIn
  <2> QED BY <1>2, <1>3, <2>1, <2>4, <2>5, <2>6, <2>7
<1> QED BY <1>4 DEF Exact, q

LEMMA UnseatedExact ==
  ASSUME NEW pl \in PlayerArrays, NEW p \in Slots, Exact(pl), pl[p].serv = 0 \/ pl[p].join # p
  PROVE  Exact(Unseated(pl, p))
<1> DEFINE q == Unseated(pl, p)
<1>1. \A s \in Slots : pl[s] \in Players BY DEF PlayerArrays
<1>2. /\ q[p].serv = pl[p].serv /\ q[p].join = 0
      /\ \A s \in Slots \ {p} : q[s].join = pl[s].join
      /\ \A s \in Slots \ {p} :
           q[s].serv = IF s = pl[p].join /\ pl[s].serv > 0 THEN pl[s].serv - 1 ELSE pl[s].serv
  BY <1>1 DEF Unseated, Players
<1>3. \A t \in Slots : pl[t].serv \in Nat BY <1>1 DEF Players
<1> HIDE DEF q
<1>4. ASSUME NEW t \in Slots, q[t].serv > 0
      PROVE  q[t].serv = 1 + Cardinality(GuestsIn(q, t))
  <2>1. pl[t].serv > 0 BY <1>2, <1>3, <1>4
  <2>2. t # 0 BY DEF Slots
  <2>3. GuestsIn(q, t) = GuestsIn(pl, t) \ {p} BY <1>2, <2>2 DEF GuestsIn
  <2>4. Cardinality(GuestsIn(q, t)) =
          IF p \in GuestsIn(pl, t) THEN Cardinality(GuestsIn(pl, t)) - 1
                                   ELSE Cardinality(GuestsIn(pl, t))
    BY <2>3, GuestsFinite, OneLess
  <2>5. Cardinality(GuestsIn(pl, t)) \in Nat BY GuestsFinite
  <2>6. pl[t].serv = 1 + Cardinality(GuestsIn(pl, t)) BY <2>1 DEF Exact
  <2>7. p \in GuestsIn(pl, t) <=> t = pl[p].join BY DEF GuestsIn
  <2>8. CASE t = p BY <1>2, <2>1, <2>4, <2>6, <2>7, <2>8
  <2>9. CASE t # p BY <1>2, <1>3, <2>1, <2>4, <2>5, <2>6, <2>7, <2>9
  <2> QED BY <2>8, <2>9
<1> QED BY <1>4 DEF Exact, q

\* MSG_OPEN_TABLE (n = 1) and the host's MSG_LEAVE_TABLE_GPS (n = 0).
LEMMA OpenedExact ==
  ASSUME NEW pl \in PlayerArrays, NEW p \in Slots, Exact(pl), NEW n \in {0, 1},
         NEW q, \A s \in Slots : /\ q[s].join = Cleared(pl, p)[s].join
                                 /\ q[s].serv = IF s = p THEN n ELSE pl[s].serv
  PROVE  Exact(q)
<1>1. \A s \in Slots : pl[s] \in Players BY DEF PlayerArrays
<1>2. \A s \in Slots : q[s].join = IF pl[s].join = p THEN 0 ELSE pl[s].join
  BY <1>1 DEF Cleared, Players
<1> SUFFICES ASSUME NEW t \in Slots, q[t].serv > 0
             PROVE  q[t].serv = 1 + Cardinality(GuestsIn(q, t))
  BY DEF Exact
<1>3. t # 0 BY DEF Slots
<1>4. CASE t = p
  <2>1. GuestsIn(q, t) = {} BY <1>2, <1>3, <1>4 DEF GuestsIn
  <2>2. Cardinality(GuestsIn(q, t)) = 0 BY <2>1, FS_EmptySet
  <2>3. q[t].serv = 1 BY <1>4
  <2> QED BY <2>2, <2>3
<1>5. CASE t # p
  <2>1. GuestsIn(q, t) = GuestsIn(pl, t) BY <1>2, <1>3, <1>5 DEF GuestsIn
  <2> QED BY <1>5, <2>1 DEF Exact
<1> QED BY <1>4, <1>5

\* MSG_JOIN_TABLE of a slot that is linked to no table.
LEMMA JoinedExact ==
  ASSUME NEW pl \in PlayerArrays, NEW p \in Slots, NEW t \in Slots, Exact(pl),
         pl[p].serv = 0, pl[p].join = 0, pl[t].serv > 0
  PROVE  Exact(Joined(pl, p, t))
<1> DEFINE q == Joined(pl, p, t)
<1>1. \A s \in Slots : pl[s] \in Players BY DEF PlayerArrays
<1>2. p # t /\ t # 0 BY DEF Slots
<1>3. /\ q[p].serv = 0 /\ q[p].join = t
      /\ q[t].serv = pl[t].serv + 1
      /\ \A s \in Slots \ {p} : q[s].join = pl[s].join
      /\ \A s \in Slots \ {t} : q[s].serv = pl[s].serv
  BY <1>1, <1>2 DEF Joined, Players
<1> HIDE DEF q
<1>4. ASSUME NEW s \in Slots, q[s].serv > 0
      PROVE  q[s].serv = 1 + Cardinality(GuestsIn(q, s))
  <2>1. Cardinality(GuestsIn(pl, s)) \in Nat BY GuestsFinite
  <2>2. s # 0 /\ p \notin GuestsIn(pl, s) BY DEF Slots, GuestsIn
  <2>3. CASE s = t
    <3>1. GuestsIn(q, s) = GuestsIn(pl, s) \cup {p} BY <1>3, <2>3 DEF GuestsIn
    <3>2. Cardinality(GuestsIn(q, s)) = Cardinality(GuestsIn(pl, s)) + 1
      BY <3>1, <2>2, GuestsFinite, OneMore
    <3>3. pl[s].serv = 1 + Cardinality(GuestsIn(pl, s)) BY <2>3 DEF Exact
    <3> QED BY <1>3, <2>1, <2>3, <3>2, <3>3
  <2>4. CASE s # t
    <3>1. GuestsIn(q, s) = GuestsIn(pl, s) BY <1>3, <2>2, <2>4 DEF GuestsIn
    <3> QED BY <1>3, <1>4, <2>4, <3>1 DEF Exact
  <2> QED BY <2>3, <2>4
<1> QED BY <1>4 DEF Exact, q

\* Where a login ends, the tables are as they were, or as after close_connection().
LEMMA AdmitExact ==
  ASSUME NEW pl \in PlayerArrays, NEW p \in Slots, NEW r, NEW ss, Exact(pl), Admit(p, r, pl, ss)
  PROVE  Exact(player')
<1>1. player' = Closed(pl, p) \/ player' = Welcomed(pl, p, r) BY DEF Admit
<1>2. ASSUME player' = Welcomed(pl, p, r) PROVE Exact(player')
  <2>1. \A s \in Slots : pl[s] \in Players BY DEF PlayerArrays
  <2>2. \A s \in Slots : player'[s].serv = pl[s].serv /\ player'[s].join = pl[s].join
    BY <1>2, <2>1 DEF Welcomed, Players, PlayerArrays
  <2> QED BY <2>2, SameExact
<1> QED BY <1>1, <1>2, ClosedExact

LEMMA DialogueExact ==
  ASSUME Inv, Exact(player), NEW p \in Slots, Dialogue(p)
  PROVE  Exact(player')
<1>0. player \in PlayerArrays /\ \A s \in Slots : player[s] \in Players
  BY DEF Inv, TypeOK, PlayerArrays
<1>s. ASSUME \A s \in Slots : player'[s].serv = player[s].serv /\ player'[s].join = player[s].join
      PROVE  Exact(player')
  BY <1>s, SameExact
<1>p. ASSUME NEW q, player' = Prompted(p, q) PROVE Exact(player')
  BY <1>0, <1>s, <1>p DEF Prompted, Players, PlayerArrays
<1>1. CASE Disconnect(p) BY <1>0, <1>1, ClosedExact DEF Disconnect
<1>2. ASSUME NEW v \in Versions, CheckVersion(p, v) PROVE Exact(player')
  <2>1. player' = [player EXCEPT ![p].current = v, ![p].prompt = "name"] BY <1>2 DEF CheckVersion
  <2> QED BY <1>0, <1>s, <2>1 DEF Players, PlayerArrays
<1>3. ASSUME NEW n \in Names, Login(p, n) PROVE Exact(player')
  <2>1. PICK r : player' = [player EXCEPT
                       ![p].name   = n,
                       ![p].prompt = IF r = NoDoc THEN "create" ELSE "password"]
    BY <1>3 DEF Login
  <2> QED BY <1>0, <1>s, <2>1 DEF Players, PlayerArrays
<1>4. ASSUME NEW pw \in Passwords, CheckPassword(p, pw) PROVE Exact(player')
  <2>1. \/ player' = Prompted(p, "silence") \/ player' = Prompted(p, "name")
        \/ player' = [player EXCEPT ![p].login = 3, ![p].prompt = "duplicate"]
        \/ \E r : Admit(p, r, player, sessions)
    BY <1>4 DEF CheckPassword
  <2>2. ASSUME player' = [player EXCEPT ![p].login = 3, ![p].prompt = "duplicate"]
        PROVE  Exact(player')
    BY <1>0, <1>s, <2>2 DEF Players, PlayerArrays
  <2> QED BY <1>0, <1>p, <2>1, <2>2, AdmitExact
<1>5. ASSUME NEW pw \in Passwords, CreateAccount(p, pw) PROVE Exact(player')
  <2>1. \/ player' = Closed(player, p)
        \/ \E r : player' = Welcomed(player, p, r)
    BY <1>5 DEF CreateAccount
  <2>2. ASSUME NEW r, player' = Welcomed(player, p, r) PROVE Exact(player')
    BY <1>0, <1>s, <2>2 DEF Welcomed, Players, PlayerArrays
  <2> QED BY <1>0, <2>1, <2>2, ClosedExact
<1>6. ASSUME KillDuplicate(p) PROVE Exact(player')
  <2>1. \/ player' = Prompted(p, "silence")
        \/ \E r : Admit(p, r, player, sessions)
        \/ \E r : \E v \in Slots :
             Admit(p, r, Closed(player, v), SessionClosed(sessions, player, v))
    BY <1>6 DEF KillDuplicate, Rivals
  <2>2. ASSUME NEW r, NEW v \in Slots,
               Admit(p, r, Closed(player, v), SessionClosed(sessions, player, v))
        PROVE  Exact(player')
    <3>1. Closed(player, v) \in PlayerArrays /\ Exact(Closed(player, v))
      BY <1>0, ClosedType, ClosedExact
    <3> QED BY <2>2, <3>1, AdmitExact
  <2> QED BY <1>0, <1>p, <2>1, <2>2, AdmitExact
<1> QED BY <1>1, <1>2, <1>3, <1>4, <1>5, <1>6 DEF Dialogue

LEMMA CommandExact ==
  ASSUME ~MayRejoin, Inv, Exact(player), NEW p \in Slots, Command(p)
  PROVE  Exact(player')
<1>0. player \in PlayerArrays /\ \A s \in Slots : player[s] \in Players
  BY DEF Inv, TypeOK, PlayerArrays
<1>s. ASSUME \A s \in Slots : player'[s].serv = player[s].serv /\ player'[s].join = player[s].join
      PROVE  Exact(player')
  BY <1>s, SameExact
<1>r. ASSUME NEW r \in ReadName(player[p].name), r # NoDoc
      PROVE  /\ Refreshed(p, r) \in PlayerArrays /\ Exact(Refreshed(p, r))
             /\ \A s \in Slots : /\ Refreshed(p, r)[s].serv = player[s].serv
                                 /\ Refreshed(p, r)[s].join = player[s].join
  <2>1. r \in Records BY <1>r, ReadNameType
  <2> QED BY <2>1, RefreshedSound, SameExact DEF Inv, Sound
<1>h. \A s \in Slots : player[s].serv > 0 => player[s].join = 0 BY DEF Inv, Orderly
<1>1. ASSUME NEW n \in Names, JoinTable(p, n) PROVE Exact(player')
  <2>1. player[p].serv = 0 /\ player[p].join = 0 BY <1>1 DEF JoinTable
  <2>2. PICK r \in ReadName(player[p].name) :
          \/ UNCHANGED player
          \/ /\ r # NoDoc
             /\ \/ player' = Refreshed(p, r)
                \/ \E t \in TablesOf(n) : player' = Joined(Refreshed(p, r), p, t)
    BY <1>1 DEF JoinTable
  <2>3. ASSUME r # NoDoc, NEW t \in TablesOf(n), player' = Joined(Refreshed(p, r), p, t)
        PROVE  Exact(player')
    <3>1. t \in Slots /\ player[t].serv > 0 BY DEF TablesOf
    <3> QED BY <1>r, <2>1, <2>3, <3>1, JoinedExact
  <2> QED BY <1>r, <2>2, <2>3
<1>2. ASSUME NEW n \in Names, LookUp(p, n) PROVE Exact(player') BY <1>2 DEF LookUp
<1>3. ASSUME NEW n \in Names, Kick(p, n) PROVE Exact(player')
  <2>1. PICK v \in Slots : player' = Closed(player, v) BY <1>3 DEF Kick, FoundUser
  <2> QED BY <1>0, <2>1, ClosedExact
<1>4. ASSUME CheckOpen(p) PROVE Exact(player')
  <2>1. PICK r \in ReadName(player[p].name) :
          player' = IF r = NoDoc THEN player ELSE Refreshed(p, r)
    BY <1>4 DEF CheckOpen
  <2> QED BY <1>r, <2>1
<1>5. ASSUME OpenTable(p) PROVE Exact(player')
  <2>1. PICK r \in ReadName(player[p].name) :
          \/ UNCHANGED player
          \/ r # NoDoc /\ player' = Refreshed(p, r)
          \/ /\ r # NoDoc
             /\ player' = [Cleared(Unseated(Refreshed(p, r), p), p) EXCEPT ![p].serv = 1]
    BY <1>5 DEF OpenTable
  <2>2. ASSUME r # NoDoc,
               player' = [Cleared(Unseated(Refreshed(p, r), p), p) EXCEPT ![p].serv = 1]
        PROVE  Exact(player')
    <3> DEFINE pl == Refreshed(p, r)
               un == Unseated(pl, p)
    <3>1. pl \in PlayerArrays /\ Exact(pl) /\ (pl[p].serv = 0 \/ pl[p].join # p)
      <4>1. player[p].serv = 0 \/ player[p].join # p
        <5>1. player[p].serv \in Nat BY <1>0 DEF Players
        <5>2. p # 0 BY DEF Slots
        <5> QED BY <1>h, <5>1, <5>2
      <4> QED BY <1>r, <2>2, <4>1
    <3> HIDE DEF pl
    <3>2. un \in PlayerArrays /\ Exact(un) BY <3>1, UnseatedType, UnseatedExact
    <3> HIDE DEF un
    <3>3. Cleared(un, p) \in PlayerArrays BY <3>2, ClearedType
    <3>4. player' = [Cleared(un, p) EXCEPT ![p].serv = 1] BY <2>2 DEF un, pl
    <3>5. \A s \in Slots : un[s] \in Players /\ Cleared(un, p)[s] \in Players
      BY <3>2, <3>3 DEF PlayerArrays
    <3>6. \A s \in Slots : Cleared(un, p)[s].serv = un[s].serv BY <3>5 DEF Cleared, Players
    <3>7. \A s \in Slots : /\ player'[s].join = Cleared(un, p)[s].join
                           /\ player'[s].serv = IF s = p THEN 1 ELSE un[s].serv
      BY <3>3, <3>4, <3>5, <3>6 DEF PlayerArrays, Players
    <3> QED BY <3>2, <3>7, OpenedExact
  <2> QED BY <1>r, <2>1, <2>2
<1>6. ASSUME LeaveTable(p) PROVE Exact(player')
  <2>1. CASE player[p].serv > 0
    <3>1. player' = [Cleared(player, p) EXCEPT ![p].serv = 0, ![p].join = 0]
      BY <1>6, <2>1 DEF LeaveTable
    <3>2. Cleared(player, p) \in PlayerArrays BY <1>0, ClearedType
    <3>3. \A s \in Slots : Cleared(player, p)[s] \in Players BY <3>2 DEF PlayerArrays
    <3>4. Cleared(player, p)[p].join = 0 BY <1>0, <1>h, <2>1 DEF Cleared, Players
    <3>5. \A s \in Slots : Cleared(player, p)[s].serv = player[s].serv
      BY <1>0 DEF Cleared, Players
    <3>6. \A s \in Slots : /\ player'[s].join = Cleared(player, p)[s].join
                           /\ player'[s].serv = IF s = p THEN 0 ELSE player[s].serv
      BY <3>1, <3>2, <3>3, <3>4, <3>5 DEF PlayerArrays, Players
    <3> QED BY <1>0, <3>6, OpenedExact
  <2>2. CASE ~(player[p].serv > 0)
    <3>1. player' = Unseated(player, p) BY <1>6, <2>2 DEF LeaveTable
    <3>2. player[p].serv = 0 BY <1>0, <2>2 DEF Players
    <3> QED BY <1>0, <3>1, <3>2, UnseatedExact
  <2> QED BY <2>1, <2>2
<1>7. ASSUME NEW i \in Ids, NEW m \in Reported, WinGame(p, i, m) PROVE Exact(player')
  <2>1. player' = [s \in Slots |-> IF IsFirst(s, PlayingAs(i))
                                   THEN [player[s] EXCEPT !.money = m] ELSE player[s]]
    BY <1>7 DEF WinGame
  <2> QED BY <1>0, <1>s, <2>1 DEF Players
<1>8. ASSUME NEW pw \in Passwords, ChangePassword(p, pw) PROVE Exact(player')
  BY <1>8 DEF ChangePassword
<1> QED BY <1>1, <1>2, <1>3, <1>4, <1>5, <1>6, <1>7, <1>8 DEF Command

(* The head-count that list_table() shows, and that MSG_JOIN_TABLE admits by,  *)
(* is the number of players at the table, whatever way connections end and     *)
(* slots are used again, as long as no client joins from a seat.               *)
THEOREM HeadCountIsExact ==
  ASSUME ~MayRejoin
  PROVE  Spec => []HeadCountExact
<1>1. Init => Exact(player) BY DEF Init, FreeSlot, Exact
<1>2. Inv /\ Exact(player) /\ [Next]_vars => Exact(player')
  <2> SUFFICES ASSUME Inv, Exact(player), [Next]_vars PROVE Exact(player') OBVIOUS
  <2>0. player \in PlayerArrays /\ \A s \in Slots : player[s] \in Players
    BY DEF Inv, TypeOK, PlayerArrays
  <2>1. CASE Accept
    <3>1. PICK p \in Slots : \/ player' = Closed([player EXCEPT ![p].login = 1], p)
                             \/ player' = [player EXCEPT ![p].login = 1]
      BY <2>1 DEF Accept
    <3> DEFINE q == [player EXCEPT ![p].login = 1]
    <3>2. [player[p] EXCEPT !.login = 1] \in Players BY <2>0 DEF Players
    <3>3. q \in PlayerArrays BY <2>0, <3>2 DEF PlayerArrays
    <3>4. \A s \in Slots : q[s].serv = player[s].serv /\ q[s].join = player[s].join
      BY <2>0 DEF PlayerArrays, Players
    <3> HIDE DEF q
    <3>5. Exact(q) BY <3>4, SameExact
    <3> QED BY <3>1, <3>3, <3>5, ClosedExact DEF q
  <2>2. CASE Restart BY <2>2 DEF Restart, FreeSlot, Exact
  <2>3. CASE UNCHANGED vars BY <2>3 DEF vars
  <2> QED BY <2>1, <2>2, <2>3, DialogueExact, CommandExact DEF Next
<1>3. Exact(player) => HeadCountExact BY DEF Exact, HeadCountExact, Guests, GuestsIn
<1>4. Spec => []Inv BY InvHolds
<1>5. Exact(player') => Exact(player)' BY DEF Exact, GuestsIn
<1>6. Inv /\ Exact(player) /\ [Next]_vars => Exact(player)' BY <1>2, <1>5
<1> QED BY <1>1, <1>3, <1>4, <1>6, PTL DEF Spec

-----------------------------------------------------------------------------
(* Logins, sessions and money.                                              *)

\* The numbers of accounts.
Numbered == Ids \ {0}

\* Everybody has an account, and there are no others; the database answers, and
\* the server runs on.
Settled ==
  /\ Registered = Names /\ Cardinality(Registered) = MaxAccount
  /\ ~DbMayFail /\ ~MayRestart

\* An account of its own for each nickname.
Population(us) ==
  /\ us[0] = NoDoc
  /\ \A i \in Numbered : us[i] # NoDoc /\ us[i].id = i /\ us[i].name \in Names
  /\ \A i, j \in Numbered : us[i].name = us[j].name => i = j
  /\ \A n \in Names : \E i \in Numbered : us[i].name = n

\* Who is online, or about to be, has a nickname; nobody is online twice, and
\* at most one connection waits to evict another.
Distinct(pl) ==
  /\ \A s \in Slots : pl[s].login \in {2, 3} \/ pl[s].prompt = "password" => pl[s].name \in Names
  /\ \A s, t \in Slots : pl[s].login = 2 /\ pl[t].login = 2 /\ pl[s].name = pl[t].name => s = t
  /\ \A s, t \in Slots : pl[s].login = 3 /\ pl[t].login = 3 => s = t

Matched(pl, ss) ==
  \A n \in Names :
    ss[n] # NoSession <=> \E s \in Slots : pl[s].login = 2 /\ pl[s].name = n

\* A slot in use holds the number and the money of the account of its nickname.
Solvent(pl, us) ==
  \A s \in Slots : pl[s].login = 2 =>
    /\ pl[s].id \in Numbered
    /\ us[pl[s].id].name = pl[s].name /\ us[pl[s].id].money = pl[s].money

Good(pl, ss, us) == Distinct(pl) /\ Matched(pl, ss) /\ Solvent(pl, us)

LoginInv == Good(player, sessions, users) /\ Population(users) /\ nextId = MaxAccount

SessionMaps == [Names -> Moneys \cup {NoSession}]

\* A query by a nickname finds its account.
LEMMA FoundOwn ==
  ASSUME ~DbMayFail, Population(users), NEW n \in Names, NEW r \in ReadName(n)
  PROVE  r # NoDoc /\ r.id \in Numbered /\ r.name = n /\ users[r.id] = r /\ Recall(r) = r
<1>1. PICK k \in Numbered : users[k].name = n BY DEF Population
<1>2. k \in Ids /\ users[k] # NoDoc /\ users[k].name = n BY <1>1 DEF Population, Numbered
<1>3. PICK i \in Ids : users[i] # NoDoc /\ users[i].name = n /\ r = users[i]
  BY <1>2 DEF ReadName, Found
<1>4. i \in Numbered BY <1>3 DEF Population, Numbered
<1> QED BY <1>3, <1>4 DEF Population, Recall

\* A change of slots that are not online.
LEMMA StillGood ==
  ASSUME NEW pl, NEW ss, NEW us, NEW q, Good(pl, ss, us),
         \A s \in Slots :
           /\ q[s].login \in {2, 3} \/ q[s].prompt = "password" => q[s].name \in Names
           /\ q[s].login = 2 <=> pl[s].login = 2
           /\ q[s].login = 3 => pl[s].login = 3
           /\ q[s].login = 2 => q[s].name = pl[s].name /\ q[s].id = pl[s].id
                                /\ q[s].money = pl[s].money
  PROVE  Good(q, ss, us)
<1>1. Distinct(q) BY DEF Good, Distinct
<1>2. Matched(q, ss) BY DEF Good, Matched
<1>3. Solvent(q, us) BY DEF Good, Solvent
<1> QED BY <1>1, <1>2, <1>3 DEF Good

\* The fields that tables do not touch.
SameUsers(pl, q) ==
  \A s \in Slots : /\ q[s].login = pl[s].login /\ q[s].prompt = pl[s].prompt
                   /\ q[s].name = pl[s].name /\ q[s].id = pl[s].id /\ q[s].money = pl[s].money

LEMMA SameGood ==
  ASSUME NEW pl, NEW ss, NEW us, NEW q, Good(pl, ss, us), SameUsers(pl, q)
  PROVE  Good(q, ss, us)
BY StillGood DEF SameUsers, Good, Distinct

LEMMA TablesKeepUsers ==
  ASSUME NEW pl \in PlayerArrays, NEW p \in Slots
  PROVE  /\ SameUsers(pl, Unseated(pl, p)) /\ SameUsers(pl, Cleared(pl, p))
         /\ \A t \in Slots : SameUsers(pl, Joined(pl, p, t))
<1>1. \A s \in Slots : pl[s] \in Players BY DEF PlayerArrays
<1>2. SameUsers(pl, Unseated(pl, p)) BY <1>1 DEF SameUsers, Unseated, Players
<1>3. SameUsers(pl, Cleared(pl, p)) BY <1>1 DEF SameUsers, Cleared, Players
<1>4. \A t \in Slots : SameUsers(pl, Joined(pl, p, t)) BY <1>1 DEF SameUsers, Joined, Players
<1> QED BY <1>2, <1>3, <1>4

\* close_connection() with session_destroy().
LEMMA ClosedGood ==
  ASSUME NEW pl \in PlayerArrays, NEW ss \in SessionMaps, NEW us, NEW c \in Slots,
         Good(pl, ss, us)
  PROVE  Good(Closed(pl, c), SessionClosed(ss, pl, c), us)
<1> DEFINE q == Closed(pl, c)
<1>1. \A s \in Slots : pl[s] \in Players BY DEF PlayerArrays
<1>2. /\ q[c].login = 0 /\ q[c].prompt = "version"
      /\ \A s \in Slots \ {c} :
           /\ q[s].login = pl[s].login /\ q[s].prompt = pl[s].prompt /\ q[s].name = pl[s].name
           /\ q[s].id = pl[s].id /\ q[s].money = pl[s].money
  BY <1>1 DEF Closed, Players
<1> HIDE DEF q
<1>3. Distinct(q) BY <1>2 DEF Good, Distinct
<1>4. Solvent(q, us) BY <1>2 DEF Good, Solvent
<1>5. Matched(q, SessionClosed(ss, pl, c))
  <2>1. CASE pl[c].login # 2
    <3>1. \A s \in Slots : q[s].login = 2 <=> pl[s].login = 2 BY <1>2, <2>1
    <3> QED BY <1>2, <2>1, <3>1 DEF Good, Matched, SessionClosed
  <2>2. CASE pl[c].login = 2
    <3>1. pl[c].name \in Names BY <2>2 DEF Good, Distinct
    <3>2. SessionClosed(ss, pl, c) = [ss EXCEPT ![pl[c].name] = NoSession]
      BY <2>2 DEF SessionClosed
    <3>3. \A s \in Slots \ {c} : pl[s].login = 2 => pl[s].name # pl[c].name
      BY <2>2 DEF Good, Distinct
    <3>4. ASSUME NEW n \in Names
          PROVE  [ss EXCEPT ![pl[c].name] = NoSession][n] # NoSession
                   <=> \E s \in Slots : q[s].login = 2 /\ q[s].name = n
      <4>1. CASE n = pl[c].name BY <1>2, <3>3, <4>1 DEF SessionMaps
      <4>2. CASE n # pl[c].name
        <5>1. [ss EXCEPT ![pl[c].name] = NoSession][n] = ss[n] BY <4>2 DEF SessionMaps
        <5>2. (\E s \in Slots : q[s].login = 2 /\ q[s].name = n)
                <=> \E s \in Slots : pl[s].login = 2 /\ pl[s].name = n
          BY <1>2, <4>2
        <5> QED BY <5>1, <5>2 DEF Good, Matched
      <4> QED BY <4>1, <4>2
    <3> QED BY <3>2, <3>4 DEF Matched
  <2> QED BY <2>1, <2>2
<1> QED BY <1>3, <1>4, <1>5 DEF Good, q

\* welcome_user() with session_create(), where nobody else is online by the nickname.
LEMMA WelcomedGood ==
  ASSUME NEW pl \in PlayerArrays, NEW ss \in SessionMaps, NEW us, NEW p \in Slots,
         NEW r \in Records, Good(pl, ss, us), pl[p].login \in {1, 3}, pl[p].name \in Names,
         \A s \in Slots \ {p} : ~(pl[s].login = 2 /\ pl[s].name = pl[p].name),
         r.id \in Numbered, us[r.id] = r, r.name = pl[p].name
  PROVE  Good(Welcomed(pl, p, r), SessionOpened(ss, pl, p, r), us)
<1> DEFINE q == Welcomed(pl, p, r)
<1>1. \A s \in Slots : pl[s] \in Players BY DEF PlayerArrays
<1>2. \A s \in Slots \ {p} : q[s] = pl[s] BY DEF Welcomed, PlayerArrays
<1>3. CASE pl[p].current
  <2>1. /\ q[p].login = 2 /\ q[p].prompt = "lobby" /\ q[p].id = r.id /\ q[p].money = r.money
        /\ q[p].name = pl[p].name
    BY <1>1, <1>3 DEF Welcomed, PlayerArrays, Players
  <2>2. SessionOpened(ss, pl, p, r) = [ss EXCEPT ![pl[p].name] = r.money]
    BY <1>3 DEF SessionOpened
  <2>3. r.money # NoSession BY LobbyAssumption DEF Records
  <2> HIDE DEF q
  <2>4. Distinct(q)
    <3>1. \A s \in Slots : q[s].login \in {2, 3} \/ q[s].prompt = "password" => q[s].name \in Names
      BY <1>2, <2>1 DEF Good, Distinct
    <3>2. \A s, t \in Slots : q[s].login = 2 /\ q[t].login = 2 /\ q[s].name = q[t].name => s = t
      BY <1>2, <2>1 DEF Good, Distinct
    <3>3. \A s, t \in Slots : q[s].login = 3 /\ q[t].login = 3 => s = t
      BY <1>2, <2>1 DEF Good, Distinct
    <3> QED BY <3>1, <3>2, <3>3 DEF Distinct
  <2>5. Solvent(q, us) BY <1>2, <2>1 DEF Good, Solvent
  <2>6. ASSUME NEW n \in Names
        PROVE  [ss EXCEPT ![pl[p].name] = r.money][n] # NoSession
                 <=> \E s \in Slots : q[s].login = 2 /\ q[s].name = n
    <3>1. CASE n = pl[p].name BY <2>1, <2>3, <3>1 DEF SessionMaps
    <3>2. CASE n # pl[p].name
      <4>1. [ss EXCEPT ![pl[p].name] = r.money][n] = ss[n] BY <3>2 DEF SessionMaps
      <4>2. (\E s \in Slots : q[s].login = 2 /\ q[s].name = n)
              <=> \E s \in Slots : pl[s].login = 2 /\ pl[s].name = n
        BY <1>2, <2>1, <3>2
      <4> QED BY <4>1, <4>2 DEF Good, Matched
    <3> QED BY <3>1, <3>2
  <2> QED BY <2>2, <2>4, <2>5, <2>6 DEF Good, Matched, q
<1>4. CASE ~pl[p].current
  <2>1. /\ q[p].login = pl[p].login /\ q[p].prompt = "silence" /\ q[p].name = pl[p].name
    BY <1>1, <1>4 DEF Welcomed, PlayerArrays, Players
  <2>2. SessionOpened(ss, pl, p, r) = ss BY <1>4 DEF SessionOpened
  <2> HIDE DEF q
  <2>3. Good(q, ss, us)
    <3>1. \A s \in Slots : q[s].login \in {2, 3} \/ q[s].prompt = "password" => q[s].name \in Names
      BY <1>2, <2>1 DEF Good, Distinct
    <3>2. \A s \in Slots : /\ q[s].login = pl[s].login
                           /\ q[s].login = 2 => q[s] = pl[s]
      BY <1>2, <2>1
    <3> QED BY <3>1, <3>2, StillGood
  <2> QED BY <2>2, <2>3 DEF q
<1> QED BY <1>3, <1>4

\* The end of MSG_CHECK_PASSWORD and MSG_KILL_DUPLICATE.
LEMMA AdmitGood ==
  ASSUME NEW pl \in PlayerArrays, NEW ss \in SessionMaps, NEW us, NEW p \in Slots,
         NEW r \in Records, Good(pl, ss, us), pl[p].login \in {1, 3}, pl[p].name \in Names,
         \A s \in Slots \ {p} : ~(pl[s].login = 2 /\ pl[s].name = pl[p].name),
         r.id \in Numbered, us[r.id] = r, r.name = pl[p].name, Admit(p, r, pl, ss)
  PROVE  Good(player', sessions', us)
<1>1. \/ player' = Closed(pl, p) /\ sessions' = SessionClosed(ss, pl, p)
      \/ player' = Welcomed(pl, p, r) /\ sessions' = SessionOpened(ss, pl, p, r)
  BY DEF Admit
<1> QED BY <1>1, ClosedGood, WelcomedGood

\* write_record() of a record as it was read.
LEMMA WrittenBack ==
  ASSUME Inv, NEW r, r.id \in Ids, users[r.id] = r, Write(r)
  PROVE  users' = users
BY DEF Inv, TypeOK, Write

LEMMA DialogueGood ==
  ASSUME Settled, MaxPending <= 1, Inv, LoginInv, NEW p \in Slots, Dialogue(p)
  PROVE  Good(player', sessions', users') /\ users' = users /\ nextId' = nextId
<1>0. player \in PlayerArrays /\ sessions \in SessionMaps /\ \A s \in Slots : player[s] \in Players
  BY DEF Inv, TypeOK, PlayerArrays, SessionMaps
<1>g. Good(player, sessions, users) /\ Population(users) /\ nextId = MaxAccount /\ ~DbMayFail
  BY DEF LoginInv, Settled
<1>s. ASSUME UNCHANGED sessions,
             \A s \in Slots \ {p} : player'[s] = player[s],
             player[p].login # 2, player'[p].login # 2, player'[p].login = 3 => player[p].login = 3,
             player'[p].login = 3 \/ player'[p].prompt = "password" => player'[p].name \in Names
      PROVE  Good(player', sessions', users)
  <2>1. \A s \in Slots : player'[s].login \in {2, 3} \/ player'[s].prompt = "password" =>
                           player'[s].name \in Names
    BY <1>g, <1>s DEF Good, Distinct
  <2>2. \A s \in Slots : /\ player'[s].login = 2 <=> player[s].login = 2
                         /\ player'[s].login = 3 => player[s].login = 3
                         /\ player'[s].login = 2 => player'[s] = player[s]
    BY <1>s
  <2> QED BY <1>g, <1>s, <2>1, <2>2, StillGood
<1>p. ASSUME NEW q, q # "password", player' = Prompted(p, q), player[p].login \in {1, 3}, UNCHANGED sessions
      PROVE  Good(player', sessions', users)
  <2>1. player'[p].login = player[p].login /\ player'[p].prompt = q /\ player'[p].name = player[p].name
    BY <1>0, <1>p DEF Prompted, PlayerArrays, Players
  <2>2. \A s \in Slots \ {p} : player'[s] = player[s] BY <1>0, <1>p DEF Prompted, PlayerArrays
  <2>3. player[p].login = 3 => player[p].name \in Names BY <1>g DEF Good, Distinct
  <2> QED BY <1>p, <1>s, <2>1, <2>2, <2>3
<1>r. ASSUME NEW n \in Names, NEW r \in ReadName(n)
      PROVE  /\ r # NoDoc /\ r.id \in Numbered /\ r.id \in Ids /\ r.name = n /\ users[r.id] = r
             /\ r \in Records
  BY <1>g, <1>r, FoundOwn, ReadNameType DEF Numbered
<1>1. CASE Disconnect(p) BY <1>0, <1>1, <1>g, ClosedGood DEF Disconnect
<1>2. ASSUME NEW v \in Versions, CheckVersion(p, v)
      PROVE  Good(player', sessions', users') /\ users' = users /\ nextId' = nextId
  <2>1. player' = [player EXCEPT ![p].current = v, ![p].prompt = "name"] /\ player[p].login = 1
    BY <1>2 DEF CheckVersion
  <2>2. /\ player'[p].login = 1 /\ player'[p].prompt = "name"
        /\ \A s \in Slots \ {p} : player'[s] = player[s]
    BY <1>0, <2>1 DEF Players, PlayerArrays
  <2>3. UNCHANGED <<users, nextId, sessions>> BY <1>2 DEF CheckVersion
  <2>4. /\ player'[p].login # 2 /\ player'[p].login # 3 /\ player'[p].prompt # "password"
        /\ player[p].login # 2
    BY <2>1, <2>2
  <2>5. Good(player', sessions', users) BY <1>s, <2>2, <2>3, <2>4
  <2> QED BY <2>3, <2>5
<1>3. ASSUME NEW n \in Names, Login(p, n)
      PROVE  Good(player', sessions', users') /\ users' = users /\ nextId' = nextId
  <2>1. PICK r : player' = [player EXCEPT
                       ![p].name   = n,
                       ![p].prompt = IF r = NoDoc THEN "create" ELSE "password"]
    BY <1>3 DEF Login
  <2>2. player[p].login = 1 BY <1>3 DEF Login
  <2>3. /\ player'[p].login = 1 /\ player'[p].name = n
        /\ \A s \in Slots \ {p} : player'[s] = player[s]
    BY <1>0, <2>1, <2>2 DEF Players, PlayerArrays
  <2>4. UNCHANGED <<users, nextId, sessions>> BY <1>3 DEF Login
  <2>5. Good(player', sessions', users) BY <1>s, <2>2, <2>3, <2>4
  <2> QED BY <2>4, <2>5
<1>4. ASSUME NEW pw \in Passwords, CheckPassword(p, pw)
      PROVE  Good(player', sessions', users') /\ users' = users /\ nextId' = nextId
  <2>1. player[p].login = 1 /\ player[p].prompt = "password" /\ nextId' = nextId
    BY <1>4 DEF CheckPassword
  <2>2. player[p].name \in Names BY <1>g, <2>1 DEF Good, Distinct
  <2>3. PICK r \in ReadName(player[p].name) :
          \/ player' = Prompted(p, "silence") /\ UNCHANGED <<users, sessions>>
          \/ player' = Prompted(p, "name") /\ UNCHANGED <<users, sessions>>
          \/ /\ Cardinality({i \in Slots : player[i].login = 3}) < MaxPending
             /\ player' = [player EXCEPT ![p].login = 3, ![p].prompt = "duplicate"]
             /\ UNCHANGED <<users, sessions>>
          \/ /\ Rivals(p) = {} /\ Write(r) /\ Admit(p, r, player, sessions)
    BY <1>4 DEF CheckPassword
  <2>4. CASE player' = Prompted(p, "silence") /\ UNCHANGED <<users, sessions>>
    BY <1>p, <2>1, <2>4
  <2>5. CASE player' = Prompted(p, "name") /\ UNCHANGED <<users, sessions>>
    BY <1>p, <2>1, <2>5
  <2>6. CASE /\ Cardinality({i \in Slots : player[i].login = 3}) < MaxPending
             /\ player' = [player EXCEPT ![p].login = 3, ![p].prompt = "duplicate"]
             /\ UNCHANGED <<users, sessions>>
    <3> DEFINE W == {i \in Slots : player[i].login = 3}
    <3>1. IsFiniteSet(W)
      <4>1. IsFiniteSet(Slots) BY LobbyAssumption, FS_Interval DEF Slots
      <4> QED BY <4>1, FS_Subset
    <3>2. Cardinality(W) \in Nat BY <3>1, FS_CardinalityType
    <3> HIDE DEF W
    <3>3. Cardinality(W) = 0 BY <2>6, <3>2, LobbyAssumption DEF W
    <3>4. W = {} BY <3>1, <3>3, FS_EmptySet
    <3>5. \A s \in Slots : player[s].login # 3 BY <3>4 DEF W
    <3>6. /\ player'[p].login = 3 /\ player'[p].name = player[p].name
          /\ \A s \in Slots \ {p} : player'[s] = player[s]
      BY <1>0, <2>6 DEF Players, PlayerArrays
    <3>7. Distinct(player') BY <1>g, <2>2, <3>5, <3>6 DEF Good, Distinct
    <3>8. \A s \in Slots : /\ player'[s].login = 2 <=> player[s].login = 2
                           /\ player'[s].login = 2 => player'[s] = player[s]
      BY <2>1, <3>6
    <3>9. Matched(player', sessions) BY <1>g, <3>8 DEF Good, Matched
    <3>10. Solvent(player', users) BY <1>g, <3>8 DEF Good, Solvent
    <3> QED BY <2>1, <2>6, <3>7, <3>9, <3>10 DEF Good
  <2>7. CASE Rivals(p) = {} /\ Write(r) /\ Admit(p, r, player, sessions)
    <3>1. /\ r.id \in Numbered /\ r.id \in Ids /\ r.name = player[p].name /\ users[r.id] = r
          /\ r \in Records
      BY <1>r, <2>2
    <3>2. users' = users BY <2>7, <3>1, WrittenBack
    <3>3. \A s \in Slots \ {p} : ~(player[s].login = 2 /\ player[s].name = player[p].name)
      BY <2>7 DEF Rivals
    <3>4. Good(player', sessions', users) BY <1>0, <1>g, <2>1, <2>2, <2>7, <3>1, <3>3, AdmitGood
    <3> QED BY <2>1, <3>2, <3>4
  <2> QED BY <2>1, <2>3, <2>4, <2>5, <2>6, <2>7
<1>5. ASSUME NEW pw \in Passwords, CreateAccount(p, pw) PROVE FALSE
  BY <1>5, <1>g, LobbyAssumption DEF CreateAccount
<1>6. ASSUME KillDuplicate(p)
      PROVE  Good(player', sessions', users') /\ users' = users /\ nextId' = nextId
  <2>1. player[p].login = 3 /\ nextId' = nextId BY <1>6 DEF KillDuplicate
  <2>2. player[p].name \in Names BY <1>g, <2>1 DEF Good, Distinct
  <2>3. PICK r \in ReadName(player[p].name) :
          \/ r = NoDoc
          \/ /\ Rivals(p) = {} /\ Write(r) /\ Admit(p, r, player, sessions)
          \/ /\ Write(r)
             /\ \E v \in Rivals(p) :
                  Admit(p, r, Closed(player, v), SessionClosed(sessions, player, v))
    BY <1>6 DEF KillDuplicate
  <2>4. /\ r.id \in Numbered /\ r.id \in Ids /\ r.name = player[p].name /\ users[r.id] = r
        /\ r \in Records /\ r # NoDoc
    BY <1>r, <2>2
  <2>5. users' = users BY <2>3, <2>4, WrittenBack
  <2>6. CASE Rivals(p) = {} /\ Admit(p, r, player, sessions)
    <3>1. \A s \in Slots \ {p} : ~(player[s].login = 2 /\ player[s].name = player[p].name)
      BY <2>6 DEF Rivals
    <3>2. Good(player', sessions', users) BY <1>0, <1>g, <2>1, <2>2, <2>4, <2>6, <3>1, AdmitGood
    <3> QED BY <2>1, <2>5, <3>2
  <2>7. ASSUME NEW v \in Rivals(p),
               Admit(p, r, Closed(player, v), SessionClosed(sessions, player, v))
        PROVE  Good(player', sessions', users') /\ users' = users /\ nextId' = nextId
    <3> DEFINE pl == Closed(player, v)
               ss == SessionClosed(sessions, player, v)
    <3>1. v \in Slots /\ v # p /\ player[v].login \in {2, 3} /\ player[v].name = player[p].name
      BY DEF Rivals
    <3>2. player[v].login = 2 BY <1>g, <2>1, <3>1 DEF Good, Distinct
    <3>3. pl \in PlayerArrays /\ Good(pl, ss, users) BY <1>0, <1>g, <3>1, ClosedType, ClosedGood
    <3>4. ss \in SessionMaps BY <1>0, <3>1, SessionTypes DEF SessionMaps
    <3>5. /\ pl[v].login = 0
          /\ \A s \in Slots \ {v} : pl[s].login = player[s].login /\ pl[s].name = player[s].name
      BY <1>0, <3>1 DEF Closed, Players
    <3> HIDE DEF pl, ss
    <3>6. ASSUME NEW s \in Slots \ {p} PROVE ~(pl[s].login = 2 /\ pl[s].name = pl[p].name)
      BY <1>g, <3>1, <3>2, <3>5 DEF Good, Distinct
    <3>7. pl[p].login = 3 /\ pl[p].name = player[p].name BY <2>1, <3>1, <3>5
    <3>8. Admit(p, r, pl, ss) BY <2>7 DEF pl, ss
    <3>9. Good(player', sessions', users) BY <2>2, <2>4, <3>3, <3>4, <3>6, <3>7, <3>8, AdmitGood
    <3> QED BY <2>1, <2>5, <3>9
  <2> QED BY <2>3, <2>4, <2>6, <2>7
<1> QED BY <1>1, <1>2, <1>3, <1>4, <1>5, <1>6, <1>g DEF Dialogue, Disconnect

\* read_user_name_update() of a player's own account changes nothing that matters.
LEMMA RefreshedSame ==
  ASSUME Inv, LoginInv, NEW p \in Slots, player[p].login = 2, ~DbMayFail,
         NEW r \in ReadName(player[p].name)
  PROVE  /\ Refreshed(p, r) \in PlayerArrays /\ SameUsers(player, Refreshed(p, r))
         /\ player[p].name \in Names
<1>0. player \in PlayerArrays /\ \A s \in Slots : player[s] \in Players
  BY DEF Inv, TypeOK, PlayerArrays
<1>1. player[p].name \in Names BY DEF LoginInv, Good, Distinct
<1>2. Population(users) /\ Solvent(player, users) BY DEF LoginInv, Good
<1>3. r # NoDoc /\ r.id \in Numbered /\ r.name = player[p].name /\ users[r.id] = r
  BY <1>1, <1>2, FoundOwn
<1>4. player[p].id \in Numbered /\ users[player[p].id].name = player[p].name
      /\ users[player[p].id].money = player[p].money
  BY <1>2 DEF Solvent
<1>5. r.money = player[p].money BY <1>2, <1>3, <1>4 DEF Population
<1>6. r.money \in Moneys BY <1>0, <1>5 DEF Players
<1>7. SameUsers(player, Refreshed(p, r))
  <2>1. \A s \in Slots \ {p} : Refreshed(p, r)[s] = player[s] BY <1>0 DEF Refreshed, PlayerArrays
  <2>2. Refreshed(p, r)[p] = [player[p] EXCEPT !.money = player[p].money]
    BY <1>0, <1>5 DEF Refreshed, PlayerArrays
  <2>3. SameUsers(player, Refreshed(p, r)) BY <1>0, <2>1, <2>2 DEF SameUsers, Players
  <2> QED BY <2>3
<1>8. Refreshed(p, r) \in PlayerArrays BY <1>0, <1>6 DEF Refreshed, PlayerArrays, Players
<1> QED BY <1>1, <1>7, <1>8

LEMMA CommandGood ==
  ASSUME Settled, Inv, LoginInv, NEW p \in Slots, Command(p)
  PROVE  Good(player', sessions', users') /\ Population(users') /\ nextId' = nextId
<1>0. player \in PlayerArrays /\ sessions \in SessionMaps /\ \A s \in Slots : player[s] \in Players
  BY DEF Inv, TypeOK, PlayerArrays, SessionMaps
<1>g. Good(player, sessions, users) /\ Population(users) /\ nextId = MaxAccount /\ ~DbMayFail
  BY DEF LoginInv, Settled
<1>u. users \in [Ids -> Records \cup {NoDoc}] BY DEF Inv, TypeOK
<1>s. ASSUME SameUsers(player, player'), UNCHANGED <<users, nextId, sessions>>
      PROVE  Good(player', sessions', users') /\ Population(users') /\ nextId' = nextId
  <2>1. Good(player', sessions, users) BY <1>g, <1>s, SameGood
  <2> QED BY <1>g, <1>s, <2>1
<1>t. ASSUME NEW q, NEW z, SameUsers(player, q), SameUsers(q, z) PROVE SameUsers(player, z)
  BY <1>t DEF SameUsers
<1>i. SameUsers(player, player) BY DEF SameUsers
<1>1. ASSUME NEW n \in Names, JoinTable(p, n)
      PROVE  Good(player', sessions', users') /\ Population(users') /\ nextId' = nextId
  <2>1. player[p].login = 2 /\ UNCHANGED <<users, nextId, sessions>>
    BY <1>1 DEF JoinTable, LoggedIn
  <2>2. PICK r \in ReadName(player[p].name) :
          \/ player' = player
          \/ player' = Refreshed(p, r)
          \/ \E t \in Slots : player' = Joined(Refreshed(p, r), p, t)
    BY <1>1 DEF JoinTable, TablesOf
  <2>3. Refreshed(p, r) \in PlayerArrays /\ SameUsers(player, Refreshed(p, r))
    BY <1>g, <2>1, RefreshedSame
  <2>4. \A t \in Slots : SameUsers(Refreshed(p, r), Joined(Refreshed(p, r), p, t))
    BY <2>3, TablesKeepUsers
  <2>5. SameUsers(player, player') BY <1>i, <1>t, <2>2, <2>3, <2>4
  <2> QED BY <1>s, <2>1, <2>5
<1>2. ASSUME NEW n \in Names, LookUp(p, n)
      PROVE  Good(player', sessions', users') /\ Population(users') /\ nextId' = nextId
  BY <1>2, <1>g DEF LookUp
<1>3. ASSUME NEW n \in Names, Kick(p, n)
      PROVE  Good(player', sessions', users') /\ Population(users') /\ nextId' = nextId
  <2>1. PICK v \in Slots : player' = Closed(player, v)
                           /\ sessions' = SessionClosed(sessions, player, v)
    BY <1>3 DEF Kick, FoundUser
  <2>2. Good(player', sessions', users) BY <1>0, <1>g, <2>1, ClosedGood
  <2>3. UNCHANGED <<users, nextId>> BY <1>3 DEF Kick
  <2> QED BY <1>g, <2>2, <2>3
<1>4. ASSUME CheckOpen(p)
      PROVE  Good(player', sessions', users') /\ Population(users') /\ nextId' = nextId
  <2>1. player[p].login = 2 /\ UNCHANGED <<users, nextId, sessions>>
    BY <1>4 DEF CheckOpen, LoggedIn
  <2>2. PICK r \in ReadName(player[p].name) : player' = player \/ player' = Refreshed(p, r)
    BY <1>4 DEF CheckOpen
  <2>3. SameUsers(player, player') BY <1>g, <1>i, <2>1, <2>2, RefreshedSame
  <2> QED BY <1>s, <2>1, <2>3
<1>5. ASSUME OpenTable(p)
      PROVE  Good(player', sessions', users') /\ Population(users') /\ nextId' = nextId
  <2>1. player[p].login = 2 /\ UNCHANGED <<users, nextId, sessions>>
    BY <1>5 DEF OpenTable, LoggedIn
  <2>2. PICK r \in ReadName(player[p].name) :
          \/ player' = player
          \/ player' = Refreshed(p, r)
          \/ r # NoDoc
             /\ player' = [Cleared(Unseated(Refreshed(p, r), p), p) EXCEPT ![p].serv = 1]
    BY <1>5 DEF OpenTable
  <2> DEFINE pl == Refreshed(p, r)
             un == Unseated(pl, p)
             cl == Cleared(un, p)
  <2>3. pl \in PlayerArrays /\ SameUsers(player, pl) BY <1>g, <2>1, RefreshedSame
  <2>q. \/ player' = player
        \/ player' = pl
        \/ player' = [cl EXCEPT ![p].serv = 1]
    BY <2>2
  <2> HIDE DEF pl
  <2>4. un \in PlayerArrays /\ SameUsers(pl, un) BY <2>3, UnseatedType, TablesKeepUsers
  <2> HIDE DEF un
  <2>5. cl \in PlayerArrays /\ SameUsers(un, cl) BY <2>4, ClearedType, TablesKeepUsers
  <2> HIDE DEF cl
  <2>6. \A s \in Slots : cl[s] \in Players BY <2>5 DEF PlayerArrays
  <2>7. SameUsers(cl, [cl EXCEPT ![p].serv = 1])
    BY <2>5, <2>6 DEF SameUsers, PlayerArrays, Players
  <2>8. SameUsers(player, cl) BY <1>t, <2>3, <2>4, <2>5
  <2>9. SameUsers(player, [cl EXCEPT ![p].serv = 1]) BY <1>t, <2>7, <2>8
  <2>10. SameUsers(player, player') BY <1>i, <2>3, <2>9, <2>q
  <2> QED BY <1>s, <2>1, <2>10
<1>6. ASSUME LeaveTable(p)
      PROVE  Good(player', sessions', users') /\ Population(users') /\ nextId' = nextId
  <2>1. UNCHANGED <<users, nextId, sessions>> BY <1>6 DEF LeaveTable
  <2> DEFINE cl == Cleared(player, p)
  <2>2. cl \in PlayerArrays /\ SameUsers(player, cl) BY <1>0, ClearedType, TablesKeepUsers
  <2>3. \/ player' = [cl EXCEPT ![p].serv = 0, ![p].join = 0]
        \/ player' = Unseated(player, p)
    BY <1>6 DEF LeaveTable
  <2> HIDE DEF cl
  <2>4. \A s \in Slots : cl[s] \in Players BY <2>2 DEF PlayerArrays
  <2>5. SameUsers(cl, [cl EXCEPT ![p].serv = 0, ![p].join = 0])
    BY <2>2, <2>4 DEF SameUsers, PlayerArrays, Players
  <2>6. SameUsers(player, [cl EXCEPT ![p].serv = 0, ![p].join = 0]) BY <1>t, <2>2, <2>5
  <2>7. SameUsers(player, player') BY <1>0, <2>3, <2>6, TablesKeepUsers
  <2> QED BY <1>s, <2>1, <2>7
<1>7. ASSUME NEW i \in Ids \ {0}, NEW m \in Reported, WinGame(p, i, m)
      PROVE  Good(player', sessions', users') /\ Population(users') /\ nextId' = nextId
  <2>1. i \in Numbered /\ i \in Ids /\ users[i] # NoDoc /\ users[i].id = i /\ users[i] \in Records
    BY <1>g, <1>u DEF Population, Numbered
  <2>2. UNCHANGED <<nextId, sessions>>
        /\ player' = [s \in Slots |-> IF IsFirst(s, PlayingAs(i))
                                      THEN [player[s] EXCEPT !.money = m] ELSE player[s]]
    BY <1>7 DEF WinGame
  <2> DEFINE w == [users[i] EXCEPT !.money = m]
  <2>3. Write(w)
    <3>1. PICK r \in ReadId(i) : Write([Recall(r) EXCEPT !.money = m]) BY <1>7 DEF WinGame
    <3>2. r = users[i] BY <1>g DEF ReadId
    <3> QED BY <2>1, <3>1, <3>2 DEF Recall
  <2>4. w.id = i /\ w.name = users[i].name /\ w.money = m /\ w # NoDoc
    <3>1. w \in Records BY <2>1, LobbyAssumption DEF Records
    <3> QED BY <2>1, <3>1, RecordAssumption DEF Records
  <2> HIDE DEF w
  <2>5. users'[i] = w /\ \A j \in Ids \ {i} : users'[j] = users[j]
    BY <1>u, <2>1, <2>3, <2>4 DEF Write
  <2>6. \A s \in Slots :
          /\ player'[s].login = player[s].login /\ player'[s].prompt = player[s].prompt
          /\ player'[s].name = player[s].name /\ player'[s].id = player[s].id
          /\ player'[s].money = IF IsFirst(s, PlayingAs(i)) THEN m ELSE player[s].money
    BY <1>0, <2>2 DEF Players
  <2>7. Distinct(player') BY <1>g, <2>6 DEF Good, Distinct
  <2>8. Matched(player', sessions) BY <1>g, <2>6 DEF Good, Matched
  <2>9. Population(users')
    <3>1. 0 \in Ids /\ i # 0 BY LobbyAssumption DEF Ids
    <3>2. \A j \in Numbered : /\ users'[j].name = users[j].name /\ users'[j].id = users[j].id
                              /\ users'[j] # NoDoc
      BY <1>g, <2>1, <2>4, <2>5 DEF Population, Numbered
    <3> QED BY <1>g, <2>5, <3>1, <3>2 DEF Population
  <2>10. ASSUME NEW s \in Slots, player'[s].login = 2
         PROVE  /\ player'[s].id \in Numbered
                /\ users'[player'[s].id].name = player'[s].name
                /\ users'[player'[s].id].money = player'[s].money
    <3>1. /\ player[s].login = 2 /\ player[s].id \in Numbered /\ player[s].id \in Ids
          /\ users[player[s].id].name = player[s].name
          /\ users[player[s].id].money = player[s].money
      BY <1>g, <2>6, <2>10 DEF Good, Solvent, Numbered
    <3>2. CASE player[s].id = i
      <4>1. \A t \in PlayingAs(i) : t = s
        BY <1>g, <3>1, <3>2 DEF PlayingAs, LoggedIn, Good, Solvent, Distinct
      <4>2. s \in PlayingAs(i) BY <3>1, <3>2 DEF PlayingAs, LoggedIn
      <4>3. s <= s BY DEF Slots
      <4>4. IsFirst(s, PlayingAs(i)) BY <4>1, <4>2, <4>3 DEF IsFirst
      <4> QED BY <2>4, <2>5, <2>6, <3>1, <3>2, <4>4
    <3>3. CASE player[s].id # i
      <4>1. ~IsFirst(s, PlayingAs(i)) BY <3>3 DEF IsFirst, PlayingAs
      <4> QED BY <2>5, <2>6, <3>1, <3>3, <4>1
    <3> QED BY <3>2, <3>3
  <2>11. Solvent(player', users') BY <2>10 DEF Solvent
  <2> QED BY <2>2, <2>7, <2>8, <2>9, <2>11 DEF Good
<1>8. ASSUME NEW pw \in Passwords, ChangePassword(p, pw)
      PROVE  Good(player', sessions', users') /\ Population(users') /\ nextId' = nextId
  <2>1. player[p].login = 2 /\ UNCHANGED <<player, nextId, sessions>>
    BY <1>8 DEF ChangePassword, LoggedIn
  <2>2. player[p].name \in Names BY <1>g, <2>1 DEF Good, Distinct
  <2>3. PICK r \in ReadName(player[p].name) : Write([Recall(r) EXCEPT !.pw = pw])
    BY <1>8 DEF ChangePassword
  <2>4. r \in Records /\ r.id \in Numbered /\ r.id \in Ids /\ users[r.id] = r /\ Recall(r) = r
    BY <1>g, <1>u, <2>2, <2>3, FoundOwn, ReadNameType DEF Numbered
  <2> DEFINE w == [r EXCEPT !.pw = pw]
  <2>5. w.id = r.id /\ w.name = r.name /\ w.money = r.money /\ w # NoDoc
    <3>1. w \in Records BY <2>4 DEF Records
    <3> QED BY <2>4, <3>1, RecordAssumption DEF Records
  <2>6. Write(w) BY <2>3, <2>4
  <2> HIDE DEF w
  <2>7. users'[r.id] = w /\ \A j \in Ids \ {r.id} : users'[j] = users[j]
    BY <1>u, <2>4, <2>5, <2>6 DEF Write
  <2>8. \A j \in Numbered : /\ users'[j].name = users[j].name /\ users'[j].id = users[j].id
                            /\ users'[j].money = users[j].money /\ users'[j] # NoDoc
    BY <1>g, <2>4, <2>5, <2>7 DEF Population, Numbered
  <2>9. Population(users')
    <3>1. 0 \in Ids /\ r.id # 0 BY <2>4, LobbyAssumption DEF Ids, Numbered
    <3> QED BY <1>g, <2>7, <2>8, <3>1 DEF Population
  <2>10. Solvent(player', users') BY <1>g, <2>1, <2>8 DEF Good, Solvent
  <2> QED BY <1>g, <2>1, <2>9, <2>10 DEF Good
<1> QED BY <1>1, <1>2, <1>3, <1>4, <1>5, <1>6, <1>7, <1>8 DEF Command

\* Where everybody has an account, every number is somebody's.
LEMMA NumbersUsed ==
  ASSUME Settled, NEW idOf \in [Registered -> 1 .. MaxAccount],
         \A m, n \in Registered : idOf[m] = idOf[n] => m = n
  PROVE  \A i \in Numbered : \E n \in Registered : idOf[n] = i
<1>1. idOf \in Injection(Registered, 1 .. MaxAccount) BY DEF Injection, IsInjective
<1>2. IsFiniteSet(1 .. MaxAccount) /\ Cardinality(1 .. MaxAccount) = MaxAccount
  <2>1. MaxAccount \in Nat BY LobbyAssumption
  <2>2. /\ IsFiniteSet(1 .. MaxAccount)
        /\ Cardinality(1 .. MaxAccount) = IF 1 > MaxAccount THEN 0 ELSE MaxAccount - 1 + 1
    BY <2>1, FS_Interval
  <2> QED BY <2>1, <2>2
<1>3. Cardinality(Registered) = MaxAccount BY DEF Settled
<1>4. idOf \in Surjection(Registered, 1 .. MaxAccount) BY <1>1, <1>2, <1>3, FS_Injection
<1>5. \A i \in Numbered : i \in 1 .. MaxAccount BY LobbyAssumption DEF Numbered, Ids
<1> QED BY <1>4, <1>5 DEF Surjection

LEMMA InitGood ==
  ASSUME Settled, Init
  PROVE  LoginInv
<1>1. nextId = MaxAccount BY DEF Init, Settled
<1>2. PICK idOf \in [Registered -> 1 .. MaxAccount], pw \in Passwords :
        /\ \A m, n \in Registered : idOf[m] = idOf[n] => m = n
        /\ users = [i \in Ids |->
                     IF \E n \in Registered : idOf[n] = i
                     THEN [id |-> i, name |-> CHOOSE n \in Registered : idOf[n] = i,
                           pw |-> pw, money |-> DefaultMoney]
                     ELSE NoDoc]
  BY <1>1 DEF Init
<1>3. \A i \in Numbered : \E n \in Registered : idOf[n] = i BY <1>2, NumbersUsed
<1> DEFINE NameOf(i) == CHOOSE n \in Registered : idOf[n] = i
<1>4. \A i \in Numbered : NameOf(i) \in Names /\ idOf[NameOf(i)] = i BY <1>3, LobbyAssumption
<1>5. \A i \in Numbered :
        users[i] = [id |-> i, name |-> NameOf(i), pw |-> pw, money |-> DefaultMoney]
  BY <1>2, <1>3 DEF Numbered
<1> HIDE DEF NameOf
<1>6. \A i \in Numbered : users[i] # NoDoc
  <2>1. ASSUME NEW i \in Numbered PROVE users[i] \in Records
    <3>1. i \in Ids BY DEF Numbered
    <3>2. NameOf(i) \in Names BY <1>4
    <3>3. users[i] = [id |-> i, name |-> NameOf(i), pw |-> pw, money |-> DefaultMoney] BY <1>5
    <3>4. pw \in Passwords /\ DefaultMoney \in Moneys BY LobbyAssumption
    <3> QED BY <3>1, <3>2, <3>3, <3>4 DEF Records
  <2> QED BY <2>1, RecordAssumption
<1>7. \A i \in Numbered : users[i].id = i /\ users[i].name = NameOf(i)
  <2>1. ASSUME NEW i \in Numbered PROVE users[i].id = i /\ users[i].name = NameOf(i)
    <3>1. users[i] = [id |-> i, name |-> NameOf(i), pw |-> pw, money |-> DefaultMoney] BY <1>5
    <3> QED BY <3>1
  <2> QED BY <2>1
<1>8. users[0] = NoDoc
  <2>1. 0 \in Ids /\ 0 \notin 1 .. MaxAccount BY LobbyAssumption DEF Ids
  <2> QED BY <1>2, <2>1
<1>9. \A n \in Names : \E i \in Numbered : users[i].name = n
  <2>1. ASSUME NEW n \in Names PROVE users[idOf[n]].name = n /\ idOf[n] \in Numbered
    <3>1. n \in Registered BY DEF Settled
    <3>2. idOf[n] \in Numbered BY <3>1, LobbyAssumption DEF Numbered, Ids
    <3>3. NameOf(idOf[n]) \in Registered BY <1>3, <3>2 DEF NameOf
    <3>4. NameOf(idOf[n]) = n BY <1>2, <1>4, <3>1, <3>2, <3>3
    <3> QED BY <1>7, <3>2, <3>4
  <2> QED BY <2>1
<1>10. Population(users)
  <2>1. \A i, j \in Numbered : users[i].name = users[j].name => i = j BY <1>4, <1>7
  <2> QED BY <1>4, <1>6, <1>7, <1>8, <1>9, <2>1 DEF Population
<1>11. \A s \in Slots : player[s].login = 0 /\ player[s].prompt = "version"
  BY DEF Init, FreeSlot
<1>12. \A n \in Names : sessions[n] = NoSession BY DEF Init
<1>13. Good(player, sessions, users)
  <2>1. Distinct(player) BY <1>11 DEF Distinct
  <2>2. Matched(player, sessions) BY <1>11, <1>12 DEF Matched
  <2>3. Solvent(player, users) BY <1>11 DEF Solvent
  <2> QED BY <2>1, <2>2, <2>3 DEF Good
<1> QED BY <1>1, <1>10, <1>13 DEF LoginInv

LEMMA AcceptGood ==
  ASSUME Inv, LoginInv, Accept
  PROVE  Good(player', sessions', users')
<1>0. player \in PlayerArrays /\ sessions \in SessionMaps /\ \A s \in Slots : player[s] \in Players
  BY DEF Inv, TypeOK, PlayerArrays, SessionMaps
<1>1. PICK p \in Slots : /\ player[p].login = 0
                         /\ \/ player' = Closed([player EXCEPT ![p].login = 1], p)
                            \/ player' = [player EXCEPT ![p].login = 1]
  BY DEF Accept, IsFirst, FreeSlots
<1>2. UNCHANGED <<users, sessions>> BY DEF Accept
<1> DEFINE q == [player EXCEPT ![p].login = 1]
<1>3. [player[p] EXCEPT !.login = 1] \in Players BY <1>0 DEF Players
<1>4. q \in PlayerArrays BY <1>0, <1>3 DEF PlayerArrays
<1>5. /\ q[p].login = 1 /\ q[p].prompt = player[p].prompt /\ q[p].name = player[p].name
      /\ \A s \in Slots \ {p} : q[s] = player[s]
  BY <1>0 DEF PlayerArrays, Players
<1>q. player' = Closed(q, p) \/ player' = q BY <1>1
<1> HIDE DEF q
<1>6. Good(q, sessions, users)
  <2>1. Good(player, sessions, users) BY DEF LoginInv
  <2>2. \A s \in Slots : q[s].login \in {2, 3} \/ q[s].prompt = "password" => q[s].name \in Names
    BY <1>5, <2>1 DEF Good, Distinct
  <2>3. \A s \in Slots : /\ q[s].login = 2 <=> player[s].login = 2
                         /\ q[s].login = 3 => player[s].login = 3
                         /\ q[s].login = 2 => q[s] = player[s]
    BY <1>1, <1>5
  <2> QED BY <2>1, <2>2, <2>3, StillGood
<1>7. Good(Closed(q, p), SessionClosed(sessions, q, p), users) BY <1>0, <1>4, <1>6, ClosedGood
<1>8. SessionClosed(sessions, q, p) = sessions BY <1>5 DEF SessionClosed
<1> QED BY <1>2, <1>6, <1>7, <1>8, <1>q

LEMMA LoginInvHolds ==
  ASSUME Settled, MaxPending <= 1
  PROVE  Spec => []LoginInv
<1>1. Init => LoginInv BY InitGood
<1>2. Inv /\ LoginInv /\ [Next]_vars
        => Good(player', sessions', users') /\ Population(users') /\ nextId' = MaxAccount
  <2> SUFFICES ASSUME Inv, LoginInv, [Next]_vars
               PROVE  Good(player', sessions', users') /\ Population(users') /\ nextId' = MaxAccount
    OBVIOUS
  <2>0. Good(player, sessions, users) /\ Population(users) /\ nextId = MaxAccount BY DEF LoginInv
  <2>1. CASE Accept
    <3>1. users' = users /\ nextId' = nextId BY <2>1 DEF Accept
    <3> QED BY <2>0, <2>1, <3>1, AcceptGood
  <2>2. ASSUME NEW p \in Slots, Dialogue(p)
        PROVE  Good(player', sessions', users') /\ Population(users') /\ nextId' = MaxAccount
    BY <2>0, <2>2, DialogueGood
  <2>3. ASSUME NEW p \in Slots, Command(p)
        PROVE  Good(player', sessions', users') /\ Population(users') /\ nextId' = MaxAccount
    BY <2>0, <2>3, CommandGood
  <2>4. ~Restart BY DEF Restart, Settled
  <2>5. CASE UNCHANGED vars BY <2>0, <2>5 DEF vars
  <2> QED BY <2>1, <2>2, <2>3, <2>4, <2>5 DEF Next
<1>3. Good(player', sessions', users') /\ Population(users') /\ nextId' = MaxAccount => LoginInv'
  BY DEF LoginInv, Good, Distinct, Matched, Solvent, Population
<1>4. Inv /\ LoginInv /\ [Next]_vars => LoginInv' BY <1>2, <1>3
<1>5. Spec => []Inv BY InvHolds
<1> QED BY <1>1, <1>4, <1>5, PTL DEF Spec

(* A nickname is online once, and has a session exactly while it is online,    *)
(* through duplicate logins, MSG_KILL_DUPLICATE, MSG_KICK_USER, bans and lost  *)
(* connections in any order: where the database answers, everybody has an      *)
(* account, and at most one connection at a time waits to evict another.       *)
THEOREM LoginsAgree ==
  ASSUME Settled, MaxPending <= 1
  PROVE  Spec => []LoginsMatch
<1>1. LoginInv => LoginsMatch
  <2> SUFFICES ASSUME LoginInv PROVE LoginsMatch OBVIOUS
  <2>1. OneOnlinePerName
    <3>1. ASSUME NEW n \in Names PROVE Cardinality(OnlineAs(n)) <= 1
      <4>1. CASE OnlineAs(n) = {} BY <4>1, FS_EmptySet
      <4>2. ASSUME NEW s \in OnlineAs(n) PROVE Cardinality(OnlineAs(n)) = 1
        <5>1. OnlineAs(n) = {s}
          BY <4>2 DEF LoginInv, Good, Distinct, OnlineAs, LoggedIn
        <5> QED BY <5>1, FS_Singleton
      <4> QED BY <4>1, <4>2
    <3> QED BY <3>1 DEF OneOnlinePerName
  <2>2. SessionsMatchOnline
    BY DEF LoginInv, Good, Matched, SessionsMatchOnline, OnlineAs, LoggedIn
  <2> QED BY <2>1, <2>2 DEF LoginsMatch
<1> QED BY <1>1, LoginInvHolds, PTL

(* The money that admits a player to a table is that of the player's account,  *)
(* though it is cached at login and both copies are written by hosts' reports  *)
(* (MSG_WIN_GAME), in the same circumstances.                                  *)
THEOREM CachedMoneyIsCurrent ==
  ASSUME Settled, MaxPending <= 1
  PROVE  Spec => []CachedMoneyCurrent
<1>1. LoginInv => CachedMoneyCurrent
  BY DEF LoginInv, Good, Solvent, Population, CachedMoneyCurrent, LoggedIn
<1> QED BY <1>1, LoginInvHolds, PTL

\* What a step may do to the accounts.
AccountsKept ==
  \A i \in Accounts :
    /\ users'[i].name = users[i].name
    /\ users'[i].money # users[i].money => \E p \in Slots, m \in Reported : WinGame(p, i, m)
    /\ users'[i].pw # users[i].pw =>
         \E p \in OnlineAs(users[i].name), pw \in Passwords : ChangePassword(p, pw)

(* All handlers write the account that the one global record holds.  Where the *)
(* reads find what they look for, an account keeps its nickname, its money     *)
(* changes only by a host's report on that very user (MSG_WIN_GAME), and its   *)
(* password only by a connection online under its nickname.                    *)
THEOREM AccountsAreWrittenByOwners ==
  ASSUME Settled, MaxPending <= 1
  PROVE  Spec => AccountWrites
<1>1. ASSUME Inv, LoginInv, [Next]_vars PROVE AccountsKept
  <2>0. Population(users) /\ ~DbMayFail /\ users \in [Ids -> Records \cup {NoDoc}]
    BY <1>1 DEF LoginInv, Settled, Inv, TypeOK
  <2>s. users' = users => AccountsKept BY DEF AccountsKept
  <2>1. CASE Accept BY <2>1, <2>s DEF Accept
  <2>2. ASSUME NEW p \in Slots, Dialogue(p) PROVE AccountsKept
    BY <1>1, <2>2, <2>s, DialogueGood
  <2>3. ASSUME NEW p \in Slots, NEW n \in Names, JoinTable(p, n) \/ LookUp(p, n) \/ Kick(p, n)
        PROVE  AccountsKept
    BY <2>3, <2>s DEF JoinTable, LookUp, Kick
  <2>4. ASSUME NEW p \in Slots, CheckOpen(p) \/ OpenTable(p) \/ LeaveTable(p) PROVE AccountsKept
    BY <2>4, <2>s DEF CheckOpen, OpenTable, LeaveTable
  <2>5. ASSUME NEW p \in Slots, NEW k \in Ids \ {0}, NEW m \in Reported, WinGame(p, k, m)
        PROVE  AccountsKept
    <3>1. k \in Ids /\ users[k] # NoDoc /\ users[k].id = k /\ users[k] \in Records
      BY <2>0 DEF Population, Numbered
    <3>2. PICK r \in ReadId(k) : Write([Recall(r) EXCEPT !.money = m]) BY <2>5 DEF WinGame
    <3>3. r = users[k] /\ Recall(r) = r BY <2>0, <3>1, <3>2 DEF ReadId, Recall
    <3> DEFINE w == [users[k] EXCEPT !.money = m]
    <3>4. w.id = k /\ w.name = users[k].name /\ w.pw = users[k].pw BY <3>1 DEF Records
    <3>5. Write(w) BY <3>2, <3>3
    <3> HIDE DEF w
    <3>6. users'[k] = w /\ \A i \in Ids \ {k} : users'[i] = users[i]
      BY <2>0, <3>1, <3>4, <3>5 DEF Write
    <3> QED BY <2>5, <3>4, <3>6 DEF AccountsKept, Accounts
  <2>6. ASSUME NEW p \in Slots, NEW pw \in Passwords, ChangePassword(p, pw) PROVE AccountsKept
    <3>1. player[p].login = 2 /\ p \in OnlineAs(player[p].name) /\ player[p].name \in Names
      BY <1>1, <2>6 DEF ChangePassword, OnlineAs, LoggedIn, LoginInv, Good, Distinct
    <3>2. PICK r \in ReadName(player[p].name) : Write([Recall(r) EXCEPT !.pw = pw])
      BY <2>6 DEF ChangePassword
    <3>3. /\ r \in Records /\ r.id \in Ids /\ users[r.id] = r /\ Recall(r) = r
          /\ r.name = player[p].name
      BY <1>1, <2>0, <3>1, <3>2, FoundOwn, ReadNameType DEF Numbered
    <3> DEFINE w == [r EXCEPT !.pw = pw]
    <3>4. w.id = r.id /\ w.name = r.name /\ w.money = r.money BY <3>3 DEF Records
    <3>5. Write(w) BY <3>2, <3>3
    <3> HIDE DEF w
    <3>6. users'[r.id] = w /\ \A i \in Ids \ {r.id} : users'[i] = users[i]
      BY <2>0, <3>3, <3>4, <3>5 DEF Write
    <3> QED BY <2>6, <3>1, <3>3, <3>4, <3>6 DEF AccountsKept, Accounts
  <2>7. CASE UNCHANGED vars BY <2>7, <2>s DEF vars
  <2>8. ~Restart BY DEF Restart, Settled
  <2> QED BY <1>1, <2>1, <2>2, <2>3, <2>4, <2>5, <2>6, <2>7, <2>8 DEF Next, Command
<1>2. AccountWrites <=> [][AccountsKept]_vars BY DEF AccountWrites, AccountsKept
<1>3. Inv /\ LoginInv /\ [Next]_vars => [AccountsKept]_vars BY <1>1
<1>4. Spec => []Inv BY InvHolds
<1> QED BY <1>2, <1>3, <1>4, LoginInvHolds, PTL DEF Spec

=============================================================================
