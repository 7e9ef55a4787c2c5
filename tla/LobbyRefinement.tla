-------------------------- MODULE LobbyRefinement --------------------------
(***************************************************************************)
(* The lobby implements the directory of tables, for every value of the    *)
(* constants.  The head-count of a table with a guest is at least two, so  *)
(* the decrements of close_connection() and MSG_OPEN_TABLE never close     *)
(* somebody else's table; the rest is what each helper does to the hosts   *)
(* and to the links to them.                                               *)
(***************************************************************************)
EXTENDS LobbyProofs

OpenIn(pl) == {t \in Slots : pl[t].serv > 0}
SeatsIn(pl) == [g \in Slots |-> IF pl[g].join \in OpenIn(pl) THEN pl[g].join ELSE 0]

\* What Tables!Vacated({p}) makes of the seats at.
VacatedIn(at, p) == [g \in Slots |-> IF g = p \/ at[g] = p THEN 0 ELSE at[g]]

\* A table somebody is linked to counts at least two.
LEMMA HostWithGuest ==
  ASSUME NEW pl, Sound(pl), NEW g \in Slots, NEW t \in Slots,
         pl[g].join = t, pl[t].serv > 0
  PROVE  pl[t].serv \in Nat /\ pl[t].serv >= 2
<1>1. pl \in PlayerArrays /\ Orderly(pl) BY DEF Sound
<1>2. pl[t].serv \in Nat BY <1>1 DEF PlayerArrays, Players
<1>3. g \in GuestsIn(pl, t) BY DEF GuestsIn
<1>4. IsFiniteSet(GuestsIn(pl, t)) /\ Cardinality(GuestsIn(pl, t)) \in Nat
  BY <1>1, GuestsFinite
<1>5. Cardinality(GuestsIn(pl, t)) # 0 BY <1>3, <1>4, FS_EmptySet
<1> QED BY <1>1, <1>2, <1>4, <1>5 DEF Orderly

\* Handlers that touch neither counts nor links do not change the directory.
LEMMA SameDirectory ==
  ASSUME NEW pl, NEW q,
         \A s \in Slots : q[s].serv = pl[s].serv /\ q[s].join = pl[s].join
  PROVE  OpenIn(q) = OpenIn(pl) /\ SeatsIn(q) = SeatsIn(pl)
<1>1. OpenIn(q) = OpenIn(pl) BY DEF OpenIn
<1> QED BY <1>1 DEF SeatsIn

\* When p is linked to nobody, links to p are gone or p hosts nothing, and the
\* other links and hosts are as they were, then p was vacated.
LEMMA VacatedSeats ==
  ASSUME NEW pl, NEW q, NEW p \in Slots,
         OpenIn(q) \ {p} = OpenIn(pl) \ {p},
         q[p].join = 0,
         \A g \in Slots \ {p} : IF pl[g].join = p
                                THEN q[g].join = 0 \/ (q[g].join = p /\ p \notin OpenIn(q))
                                ELSE q[g].join = pl[g].join
  PROVE  SeatsIn(q) = VacatedIn(SeatsIn(pl), p)
<1>1. p # 0 /\ 0 \notin OpenIn(q) BY DEF OpenIn, Slots
<1>2. ASSUME NEW g \in Slots
      PROVE  SeatsIn(q)[g] = VacatedIn(SeatsIn(pl), p)[g]
  <2>1. CASE g = p BY <1>1, <2>1 DEF SeatsIn, VacatedIn
  <2>2. CASE g # p /\ pl[g].join = p
    <3>1. SeatsIn(q)[g] = 0 BY <1>1, <2>2 DEF SeatsIn
    <3>2. SeatsIn(pl)[g] \in {0, p} BY <2>2 DEF SeatsIn
    <3> QED BY <3>1, <3>2 DEF VacatedIn
  <2>3. CASE g # p /\ pl[g].join # p
    <3>1. q[g].join = pl[g].join BY <2>3
    <3>2. pl[g].join \in OpenIn(q) <=> pl[g].join \in OpenIn(pl) BY <2>3
    <3>3. SeatsIn(pl)[g] # p BY <1>1, <2>3 DEF SeatsIn
    <3> QED BY <2>3, <3>1, <3>2, <3>3 DEF SeatsIn, VacatedIn
  <2> QED BY <2>1, <2>2, <2>3
<1> QED BY <1>2 DEF SeatsIn, VacatedIn

\* close_connection(c) is c's leaving.
LEMMA ClosedDirectory ==
  ASSUME NEW pl, NEW c \in Slots, Sound(pl)
  PROVE  /\ OpenIn(Closed(pl, c)) = OpenIn(pl) \ {c}
         /\ SeatsIn(Closed(pl, c)) = VacatedIn(SeatsIn(pl), c)
<1> DEFINE q == Closed(pl, c)
<1>1. \A s \in Slots : pl[s] \in Players BY DEF Sound, PlayerArrays
<1>2. /\ q[c].serv = 0 /\ q[c].join = 0
      /\ \A s \in Slots \ {c} : q[s].join = pl[s].join
      /\ \A s \in Slots \ {c} :
           q[s].serv = IF s = pl[c].join /\ pl[s].serv > 0 THEN pl[s].serv - 1 ELSE pl[s].serv
  BY <1>1 DEF Closed, Players
<1> HIDE DEF q
<1>3. \A s \in Slots \ {c} : q[s].serv > 0 <=> pl[s].serv > 0
  BY <1>2, HostWithGuest
<1>4. OpenIn(q) = OpenIn(pl) \ {c} BY <1>2, <1>3 DEF OpenIn
<1>5. SeatsIn(q) = VacatedIn(SeatsIn(pl), c) BY <1>2, <1>4, VacatedSeats
<1> QED BY <1>4, <1>5 DEF q

\* A guest's getting up is its leaving.
LEMMA UnseatedDirectory ==
  ASSUME NEW pl, NEW p \in Slots, Sound(pl)
  PROVE  /\ OpenIn(Unseated(pl, p)) = OpenIn(pl)
         /\ ~ pl[p].serv > 0 => SeatsIn(Unseated(pl, p)) = VacatedIn(SeatsIn(pl), p)
<1> DEFINE q == Unseated(pl, p)
<1>1. \A s \in Slots : pl[s] \in Players BY DEF Sound, PlayerArrays
<1>2. /\ q[p].serv = pl[p].serv /\ q[p].join = 0
      /\ \A s \in Slots \ {p} : q[s].join = pl[s].join
      /\ \A s \in Slots \ {p} :
           q[s].serv = IF s = pl[p].join /\ pl[s].serv > 0 THEN pl[s].serv - 1 ELSE pl[s].serv
  BY <1>1 DEF Unseated, Players
<1> HIDE DEF q
<1>3. \A s \in Slots : q[s].serv > 0 <=> pl[s].serv > 0
  BY <1>2, HostWithGuest
<1>4. OpenIn(q) = OpenIn(pl) BY <1>2, <1>3 DEF OpenIn
<1>5. ASSUME ~ pl[p].serv > 0
      PROVE  SeatsIn(q) = VacatedIn(SeatsIn(pl), p)
  <2>1. p \notin OpenIn(q) BY <1>4, <1>5 DEF OpenIn
  <2> QED BY <1>2, <1>4, <2>1, VacatedSeats
<1> QED BY <1>4, <1>5 DEF q

\* A table opened (n = 1) or closed (n = 0) by a slot linked to nobody, after
\* it cleared the links to itself.
LEMMA ClearedDirectory ==
  ASSUME NEW pl, NEW p \in Slots, Sound(pl), pl[p].join = 0, NEW n \in {0, 1}
  PROVE  LET q == [Cleared(pl, p) EXCEPT ![p].serv = n]
         IN  /\ OpenIn(q) = IF n = 1 THEN OpenIn(pl) \cup {p} ELSE OpenIn(pl) \ {p}
             /\ SeatsIn(q) = VacatedIn(SeatsIn(pl), p)
<1> DEFINE q == [Cleared(pl, p) EXCEPT ![p].serv = n]
<1>1. \A s \in Slots : pl[s] \in Players BY DEF Sound, PlayerArrays
<1>2. \A s \in Slots : /\ q[s].join = IF pl[s].join = p THEN 0 ELSE pl[s].join
                       /\ q[s].serv = IF s = p THEN n ELSE pl[s].serv
  BY <1>1 DEF Cleared, Players
<1> HIDE DEF q
<1>3. OpenIn(q) = IF n = 1 THEN OpenIn(pl) \cup {p} ELSE OpenIn(pl) \ {p}
  BY <1>2 DEF OpenIn
<1>4. OpenIn(q) \ {p} = OpenIn(pl) \ {p} BY <1>3
<1>5. p # 0 BY DEF Slots
<1>6. SeatsIn(q) = VacatedIn(SeatsIn(pl), p) BY <1>2, <1>4, <1>5, VacatedSeats
<1> QED BY <1>3, <1>6 DEF q

\* A guest's joining seats it, and the table had a free seat.
LEMMA JoinedDirectory ==
  ASSUME NEW pl, NEW p \in Slots, NEW t \in Slots, Sound(pl),
         pl[p].serv = 0, pl[t].serv > 0, ~ pl[t].serv >= TableSize
  PROVE  /\ OpenIn(Joined(pl, p, t)) = OpenIn(pl)
         /\ SeatsIn(Joined(pl, p, t)) = [SeatsIn(pl) EXCEPT ![p] = t]
         /\ t \in OpenIn(pl) /\ p \notin OpenIn(pl)
         /\ 1 + Cardinality({g \in Slots : SeatsIn(pl)[g] = t}) < TableSize
<1> DEFINE q == Joined(pl, p, t)
<1>1. pl \in PlayerArrays /\ Orderly(pl) /\ \A s \in Slots : pl[s] \in Players
  BY DEF Sound, PlayerArrays
<1>2. p # t /\ t # 0 BY DEF Slots
<1>3. /\ q[p].serv = 0 /\ q[p].join = t /\ q[t].serv = pl[t].serv + 1
      /\ \A s \in Slots \ {p} : q[s].join = pl[s].join
      /\ \A s \in Slots \ {t} : q[s].serv = pl[s].serv
  BY <1>1, <1>2 DEF Joined, Players
<1>4. pl[t].serv \in Nat BY <1>1 DEF Players
<1> HIDE DEF q
<1>5. OpenIn(q) = OpenIn(pl) BY <1>3, <1>4 DEF OpenIn
<1>6. t \in OpenIn(pl) /\ p \notin OpenIn(pl) BY DEF OpenIn
<1>7. SeatsIn(q) = [SeatsIn(pl) EXCEPT ![p] = t] BY <1>3, <1>5, <1>6 DEF SeatsIn
<1>8. {g \in Slots : SeatsIn(pl)[g] = t} = GuestsIn(pl, t)
  BY <1>2, <1>6 DEF SeatsIn, GuestsIn
<1>9. Cardinality(GuestsIn(pl, t)) \in Nat BY <1>1, GuestsFinite
<1>10. 1 + Cardinality(GuestsIn(pl, t)) < TableSize
  BY <1>1, <1>4, <1>9, LobbyAssumption DEF Orderly
<1> QED BY <1>5, <1>6, <1>7, <1>8, <1>10 DEF q

---------------------------------------------------------------------------
(* Every step of the server is a step of the directory or a stutter. *)

Kept    == OpenTables' = OpenTables /\ SeatedAt' = SeatedAt
Left(c) == OpenTables' = OpenTables \ {c} /\ SeatedAt' = VacatedIn(SeatedAt, c)

\* The refinement mapping is the hosts and links of the array player.
LEMMA Mapping ==
  /\ OpenTables = OpenIn(player) /\ SeatedAt = SeatsIn(player)
  /\ OpenTables' = OpenIn(player') /\ SeatedAt' = SeatsIn(player')
BY DEF OpenTables, SeatedAt, OpenIn, SeatsIn

\* The end of a login does not change the directory: the slot is not logged in
\* yet, so it hosts nothing and is linked to nobody.
LEMMA AdmitDirectory ==
  ASSUME NEW pl, Sound(pl), NEW p \in Slots, pl[p].login # 2, NEW r \in Records,
         NEW ss, Admit(p, r, pl, ss)
  PROVE  OpenIn(player') = OpenIn(pl) /\ SeatsIn(player') = SeatsIn(pl)
<1>1. pl \in PlayerArrays /\ \A s \in Slots : pl[s] \in Players
  BY DEF Sound, PlayerArrays
<1>2. player' = Closed(pl, p) \/ player' = Welcomed(pl, p, r) BY DEF Admit
<1>3. CASE player' = Closed(pl, p)
  <2>1. ~ pl[p].serv > 0 /\ pl[p].join = 0 BY DEF Sound, Orderly
  <2>2. p \notin OpenIn(pl) /\ 0 \notin OpenIn(pl) BY <2>1 DEF OpenIn, Slots
  <2>3. OpenIn(player') = OpenIn(pl) /\ SeatsIn(player') = VacatedIn(SeatsIn(pl), p)
    BY <1>3, <2>2, ClosedDirectory
  <2>4. p # 0 BY DEF Slots
  <2>5. \A g \in Slots : SeatsIn(pl)[g] # p BY <2>2, <2>4 DEF SeatsIn
  <2>6. SeatsIn(pl)[p] = 0 BY <2>1, <2>2 DEF SeatsIn
  <2>7. VacatedIn(SeatsIn(pl), p) = SeatsIn(pl) BY <2>5, <2>6 DEF VacatedIn, SeatsIn
  <2> QED BY <2>3, <2>7
<1>4. CASE player' = Welcomed(pl, p, r)
  <2>1. \A s \in Slots : player'[s].serv = pl[s].serv /\ player'[s].join = pl[s].join
    BY <1>1, <1>4 DEF Welcomed, PlayerArrays, Players
  <2> QED BY <2>1, SameDirectory
<1> QED BY <1>2, <1>3, <1>4

\* The steps of the login dialogue change no table, except that a connection
\* closed, as a duplicate or because it ended, leaves with what it hosted.
LEMMA DialogueSteps ==
  ASSUME Inv, NEW p \in Slots, Dialogue(p)
  PROVE  Kept \/ \E c \in Slots : Left(c)
<1> USE Mapping
<1>0. /\ Sound(player) /\ player \in PlayerArrays
      /\ \A s \in Slots : player[s] \in Players
  BY InvParts DEF Sound, PlayerArrays
<1>1. CASE Disconnect(p)
  BY <1>0, <1>1, ClosedDirectory DEF Disconnect, Left
<1>2. ASSUME NEW q, player' = Prompted(p, q) PROVE Kept
  <2>1. \A s \in Slots : /\ player'[s].serv = player[s].serv
                         /\ player'[s].join = player[s].join
    BY <1>0, <1>2 DEF Prompted, PlayerArrays, Players
  <2> QED BY <2>1, SameDirectory DEF Kept
<1>3. ASSUME NEW r \in Records, NEW ss, player[p].login # 2,
             Admit(p, r, player, ss)
      PROVE  Kept
  BY <1>0, <1>3, AdmitDirectory DEF Kept
<1>4. ASSUME NEW v \in Versions, CheckVersion(p, v) PROVE Kept
  <2>1. \A s \in Slots : /\ player'[s].serv = player[s].serv
                         /\ player'[s].join = player[s].join
    BY <1>0, <1>4 DEF CheckVersion, PlayerArrays, Players
  <2> QED BY <2>1, SameDirectory DEF Kept
<1>5. ASSUME NEW n \in Names, Login(p, n) PROVE Kept
  <2>1. PICK q : player' = [player EXCEPT ![p].name = n, ![p].prompt = q]
    BY <1>5 DEF Login
  <2>2. \A s \in Slots : /\ player'[s].serv = player[s].serv
                         /\ player'[s].join = player[s].join
    BY <1>0, <2>1 DEF PlayerArrays, Players
  <2> QED BY <2>2, SameDirectory DEF Kept
<1>6. ASSUME NEW pw \in Passwords, CheckPassword(p, pw) PROVE Kept
  <2>1. PICK r \in ReadName(player[p].name) :
          \/ player' = Prompted(p, "silence")
          \/ player' = Prompted(p, "name")
          \/ player' = [player EXCEPT ![p].login = 3, ![p].prompt = "duplicate"]
          \/ r # NoDoc /\ Admit(p, r, player, sessions)
    BY <1>6 DEF CheckPassword
  <2>2. CASE player' = [player EXCEPT ![p].login = 3, ![p].prompt = "duplicate"]
    <3>1. \A s \in Slots : /\ player'[s].serv = player[s].serv
                           /\ player'[s].join = player[s].join
      BY <1>0, <2>2 DEF PlayerArrays, Players
    <3> QED BY <3>1, SameDirectory DEF Kept
  <2>3. CASE r # NoDoc /\ Admit(p, r, player, sessions)
    <3>1. r \in Records BY <2>3, ReadNameType
    <3>2. player[p].login # 2 BY <1>6 DEF CheckPassword
    <3> QED BY <1>3, <2>3, <3>1, <3>2
  <2> QED BY <1>2, <2>1, <2>2, <2>3
<1>7. ASSUME NEW pw \in Passwords, CreateAccount(p, pw) PROVE Kept \/ Left(p)
  <2>1. \/ player' = Closed(player, p)
        \/ \E r : player' = Welcomed(player, p, r)
    BY <1>7 DEF CreateAccount
  <2>2. CASE player' = Closed(player, p)
    BY <1>0, <2>2, ClosedDirectory DEF Left
  <2>3. ASSUME NEW r, player' = Welcomed(player, p, r) PROVE Kept
    <3>1. \A s \in Slots : /\ player'[s].serv = player[s].serv
                           /\ player'[s].join = player[s].join
      BY <1>0, <2>3 DEF Welcomed, PlayerArrays, Players
    <3> QED BY <3>1, SameDirectory DEF Kept
  <2> QED BY <2>1, <2>2, <2>3
<1>8. ASSUME KillDuplicate(p) PROVE Kept \/ \E c \in Slots : Left(c)
  <2>1. PICK r \in ReadName(player[p].name) :
          \/ player' = Prompted(p, "silence")
          \/ r # NoDoc /\ Admit(p, r, player, sessions)
          \/ /\ r # NoDoc
             /\ \E v \in Rivals(p) :
                  Admit(p, r, Closed(player, v), SessionClosed(sessions, player, v))
    BY <1>8 DEF KillDuplicate
  <2>2. player[p].login # 2 BY <1>8 DEF KillDuplicate
  <2>3. CASE r # NoDoc /\ Admit(p, r, player, sessions)
    <3>1. r \in Records BY <2>3, ReadNameType
    <3> QED BY <1>3, <2>2, <2>3, <3>1
  <2>4. ASSUME NEW v \in Rivals(p), r # NoDoc,
               Admit(p, r, Closed(player, v), SessionClosed(sessions, player, v))
        PROVE  \E c \in Slots : Left(c)
    <3>1. r \in Records BY <2>4, ReadNameType
    <3>2. v \in Slots /\ v # p BY DEF Rivals
    <3>3. Sound(Closed(player, v)) BY <1>0, <3>2, ClosedSound
    <3>4. Closed(player, v)[p].login # 2 BY <1>0, <2>2, <3>2 DEF Closed, Players
    <3>5. /\ OpenIn(player') = OpenIn(Closed(player, v))
          /\ SeatsIn(player') = SeatsIn(Closed(player, v))
      BY <2>4, <3>1, <3>3, <3>4, AdmitDirectory
    <3>6. Left(v) BY <1>0, <3>2, <3>5, ClosedDirectory DEF Left
    <3> QED BY <3>2, <3>6
  <2> QED BY <1>2, <2>1, <2>3, <2>4
<1> QED BY <1>1, <1>4, <1>5, <1>6, <1>7, <1>8 DEF Dialogue

\* The steps of the commands.
LEMMA CommandSteps ==
  ASSUME Inv, NEW p \in Slots, Command(p)
  PROVE  \/ Kept
         \/ \E c \in Slots : Left(c)
         \/ OpenTables' = OpenTables \cup {p} /\ SeatedAt' = VacatedIn(SeatedAt, p)
         \/ \E t \in OpenTables :
              /\ OpenTables' = OpenTables /\ SeatedAt' = [SeatedAt EXCEPT ![p] = t]
              /\ p \notin OpenTables
              /\ 1 + Cardinality({g \in Slots : SeatedAt[g] = t}) < TableSize
<1> USE Mapping
<1>0. /\ Sound(player) /\ player \in PlayerArrays
      /\ \A s \in Slots : player[s] \in Players
  BY InvParts DEF Sound, PlayerArrays
<1>r. ASSUME NEW r \in ReadName(player[p].name), r # NoDoc
      PROVE  /\ Sound(Refreshed(p, r))
             /\ \A s \in Slots : /\ Refreshed(p, r)[s].serv = player[s].serv
                                 /\ Refreshed(p, r)[s].join = player[s].join
                                 /\ Refreshed(p, r)[s].login = player[s].login
             /\ OpenIn(Refreshed(p, r)) = OpenTables
             /\ SeatsIn(Refreshed(p, r)) = SeatedAt
  <2>1. r \in Records BY <1>r, ReadNameType
  <2> QED BY <2>1, RefreshedSound, SameDirectory DEF Inv
<1>1. ASSUME NEW n \in Names, JoinTable(p, n)
      PROVE  \/ Kept
             \/ \E t \in OpenTables :
                  /\ OpenTables' = OpenTables /\ SeatedAt' = [SeatedAt EXCEPT ![p] = t]
                  /\ p \notin OpenTables
                  /\ 1 + Cardinality({g \in Slots : SeatedAt[g] = t}) < TableSize
  <2>1. PICK r \in ReadName(player[p].name) :
          \/ UNCHANGED player
          \/ /\ r # NoDoc
             /\ LET pl == Refreshed(p, r)
                IN  \/ player' = pl
                    \/ \E t \in TablesOf(n) :
                         player' = IF Full(pl, t) THEN pl
                                   ELSE Joined(pl, p, t)
    BY <1>1 DEF JoinTable
  <2>2. CASE UNCHANGED player BY <2>2 DEF Kept, OpenTables, SeatedAt
  <2>3. ASSUME r # NoDoc, player' = Refreshed(p, r) PROVE Kept
    BY <1>r, <2>3 DEF Kept
  <2>4. ASSUME r # NoDoc, NEW t \in TablesOf(n),
               ~ Refreshed(p, r)[t].serv >= TableSize,
               player' = Joined(Refreshed(p, r), p, t)
        PROVE  /\ t \in OpenTables /\ p \notin OpenTables
               /\ OpenTables' = OpenTables /\ SeatedAt' = [SeatedAt EXCEPT ![p] = t]
               /\ 1 + Cardinality({g \in Slots : SeatedAt[g] = t}) < TableSize
    <3> DEFINE pl == Refreshed(p, r)
    <3>1. /\ Sound(pl) /\ OpenIn(pl) = OpenTables /\ SeatsIn(pl) = SeatedAt
          /\ \A s \in Slots : pl[s].serv = player[s].serv
      BY <1>r, <2>4
    <3>2. t \in Slots /\ player[t].serv > 0 BY DEF TablesOf
    <3>3. player[p].serv = 0 BY <1>1 DEF JoinTable
    <3>4. ~ pl[t].serv >= TableSize /\ player' = Joined(pl, p, t) BY <2>4
    <3> HIDE DEF pl
    <3>5. /\ OpenIn(Joined(pl, p, t)) = OpenIn(pl)
          /\ SeatsIn(Joined(pl, p, t)) = [SeatsIn(pl) EXCEPT ![p] = t]
          /\ t \in OpenIn(pl) /\ p \notin OpenIn(pl)
          /\ 1 + Cardinality({g \in Slots : SeatsIn(pl)[g] = t}) < TableSize
      BY <3>1, <3>2, <3>3, <3>4, JoinedDirectory
    <3> QED BY <3>1, <3>4, <3>5
  <2> QED BY <2>1, <2>2, <2>3, <2>4 DEF Full
<1>2. ASSUME NEW n \in Names, LookUp(p, n) PROVE Kept
  BY <1>2 DEF LookUp, Kept, OpenTables, SeatedAt
<1>3. ASSUME NEW n \in Names, Kick(p, n) PROVE \E c \in Slots : Left(c)
  <2>1. PICK v \in Slots : player' = Closed(player, v)
    BY <1>3 DEF Kick, FoundUser
  <2> QED BY <1>0, <2>1, ClosedDirectory DEF Left
<1>4. ASSUME CheckOpen(p) PROVE Kept
  <2>1. PICK r \in ReadName(player[p].name) :
          player' = IF r = NoDoc THEN player ELSE Refreshed(p, r)
    BY <1>4 DEF CheckOpen
  <2> QED BY <1>r, <2>1 DEF Kept
<1>5. ASSUME OpenTable(p)
      PROVE  \/ Kept
             \/ OpenTables' = OpenTables \cup {p} /\ SeatedAt' = VacatedIn(SeatedAt, p)
  <2>1. PICK r \in ReadName(player[p].name) :
          LET pl == IF r = NoDoc THEN player ELSE Refreshed(p, r)
          IN  player' = IF r = NoDoc \/ pl[p].money <= MinJoinMoney THEN pl
                        ELSE [Cleared(Unseated(pl, p), p) EXCEPT ![p].serv = 1]
    BY <1>5 DEF OpenTable
  <2>2. CASE r = NoDoc BY <2>1, <2>2 DEF Kept
  <2>3. CASE r # NoDoc
    <3> DEFINE pl == Refreshed(p, r)
               q  == Unseated(pl, p)
    <3>1. Sound(pl) /\ OpenIn(pl) = OpenTables /\ SeatsIn(pl) = SeatedAt
      BY <1>r, <2>3
    <3>2. player' = pl \/ player' = [Cleared(q, p) EXCEPT ![p].serv = 1]
      BY <2>1, <2>3
    <3> HIDE DEF pl
    <3>3. Sound(q) /\ OpenIn(q) = OpenIn(pl)
      BY <3>1, UnseatedSound, UnseatedDirectory
    <3>4. q[p].join = 0
      <4>1. pl[p] \in Players BY <3>1 DEF Sound, PlayerArrays
      <4> QED BY <4>1 DEF Unseated, Players
    <3>5. VacatedIn(SeatsIn(q), p) = VacatedIn(SeatsIn(pl), p)
      <4>1. CASE ~ pl[p].serv > 0
        BY <3>1, <4>1, UnseatedDirectory DEF VacatedIn
      <4>2. CASE pl[p].serv > 0
        <5>1. pl[p].join = 0 BY <3>1, <4>2 DEF Sound, Orderly
        <5>2. \A s \in Slots : q[s].serv = pl[s].serv /\ q[s].join = pl[s].join
          <6>1. \A s \in Slots : s # 0 /\ pl[s] \in Players
            BY <3>1 DEF Sound, PlayerArrays, Slots
          <6> QED BY <5>1, <6>1 DEF Unseated, Players
        <5> QED BY <5>2, SameDirectory
      <4> QED BY <4>1, <4>2
    <3> HIDE DEF q
    <3>6. ASSUME player' = [Cleared(q, p) EXCEPT ![p].serv = 1]
          PROVE  /\ OpenIn(player') = OpenIn(q) \cup {p}
                 /\ SeatsIn(player') = VacatedIn(SeatsIn(q), p)
      BY <3>3, <3>4, <3>6, ClearedDirectory
    <3> QED BY <3>1, <3>2, <3>3, <3>5, <3>6 DEF Kept
  <2> QED BY <2>2, <2>3
<1>6. ASSUME LeaveTable(p) PROVE Left(p)
  <2>1. CASE player[p].serv > 0
    <3>1. player[p].join = 0 BY <1>0, <2>1 DEF Sound, Orderly
    <3> DEFINE q == [Cleared(player, p) EXCEPT ![p].serv = 0]
    <3>2. OpenIn(q) = OpenTables \ {p} /\ SeatsIn(q) = VacatedIn(SeatedAt, p)
      <4>1. 0 \in {0, 1} /\ (0 = 1) = FALSE OBVIOUS
      <4>2. /\ OpenIn(q) = IF 0 = 1 THEN OpenIn(player) \cup {p} ELSE OpenIn(player) \ {p}
            /\ SeatsIn(q) = VacatedIn(SeatsIn(player), p)
        BY <1>0, <3>1, <4>1, ClearedDirectory
      <4> QED BY <4>1, <4>2
    <3>3. \A s \in Slots : player'[s].serv = q[s].serv /\ player'[s].join = q[s].join
      BY <1>0, <1>6, <2>1, <3>1 DEF LeaveTable, Cleared, Players
    <3> HIDE DEF q
    <3>4. OpenIn(player') = OpenIn(q) /\ SeatsIn(player') = SeatsIn(q)
      BY <3>3, SameDirectory
    <3> QED BY <3>2, <3>4 DEF Left
  <2>2. CASE ~ player[p].serv > 0
    <3>1. player' = Unseated(player, p) BY <1>6, <2>2 DEF LeaveTable
    <3>2. p \notin OpenTables BY <2>2 DEF OpenIn
    <3> QED BY <1>0, <2>2, <3>1, <3>2, UnseatedDirectory DEF Left
  <2> QED BY <2>1, <2>2
<1>7. ASSUME NEW i \in Ids, NEW m \in Reported, WinGame(p, i, m) PROVE Kept
  <2>1. player' = [s \in Slots |-> IF IsFirst(s, PlayingAs(i))
                                   THEN [player[s] EXCEPT !.money = m]
                                   ELSE player[s]]
    BY <1>7 DEF WinGame
  <2>2. \A s \in Slots : /\ player'[s].serv = player[s].serv
                         /\ player'[s].join = player[s].join
    BY <1>0, <2>1 DEF Players
  <2> QED BY <2>2, SameDirectory DEF Kept
<1>8. ASSUME NEW pw \in Passwords, ChangePassword(p, pw) PROVE Kept
  BY <1>8 DEF ChangePassword, Kept, OpenTables, SeatedAt
<1> QED BY <1>1, <1>2, <1>3, <1>4, <1>5, <1>6, <1>7, <1>8 DEF Command

\* A connection accepted in a slot, or turned away there, is at no table.
LEMMA AcceptSteps ==
  ASSUME Inv, Accept
  PROVE  Kept \/ \E c \in Slots : Left(c)
<1> USE Mapping
<1>0. /\ Sound(player) /\ player \in PlayerArrays
      /\ \A s \in Slots : player[s] \in Players
  BY InvParts DEF Sound, PlayerArrays
<1>1. PICK p \in Slots :
        /\ IsFirst(p, FreeSlots)
        /\ \/ player' = Closed([player EXCEPT ![p].login = 1], p)
           \/ player' = [player EXCEPT ![p].login = 1]
  BY DEF Accept
<1> DEFINE q == [player EXCEPT ![p].login = 1]
<1>2. player[p].login = 0 BY <1>1 DEF IsFirst, FreeSlots
<1>3. [player[p] EXCEPT !.login = 1] \in Players BY <1>0 DEF Players
<1>4. q \in PlayerArrays BY <1>0, <1>3 DEF PlayerArrays
<1>5. \A s \in Slots : /\ q[s].serv = player[s].serv /\ q[s].join = player[s].join
                       /\ player[s].login = 2 => q[s].login = 2
  BY <1>0, <1>2 DEF PlayerArrays, Players
<1>6. player' = q \/ player' = Closed(q, p) BY <1>1
<1> HIDE DEF q
<1>7. Sound(q) BY <1>0, <1>4, <1>5, SameTables
<1>8. OpenIn(q) = OpenTables /\ SeatsIn(q) = SeatedAt BY <1>5, SameDirectory
<1> QED BY <1>6, <1>7, <1>8, ClosedDirectory DEF Kept, Left

\* The lobby implements the directory of tables: for any number of slots and
\* any table size, every handler opens, joins or leaves a table, closes them
\* all, or changes no table, and a guest is seated only where a seat is free.
THEOREM LobbyImplementsDirectory == Spec => ImplementsDirectory
<1>1. Init => Tables!Init
  <2>1. Init => OpenTables = {} /\ SeatedAt = [g \in Slots |-> 0]
    BY DEF Init, FreeSlot, OpenTables, SeatedAt
  <2> QED BY <2>1 DEF Tables!Init
<1>2. Inv /\ [Next]_vars => [Tables!Next]_(Tables!vars)
  <2> SUFFICES ASSUME Inv, [Next]_vars PROVE [Tables!Next]_(Tables!vars) OBVIOUS
  <2>1. CASE UNCHANGED vars
    BY <2>1 DEF vars, Tables!vars, OpenTables, SeatedAt
  <2>2. ASSUME Kept PROVE UNCHANGED Tables!vars BY <2>2 DEF Kept, Tables!vars
  <2>3. ASSUME NEW c \in Slots, Left(c) PROVE Tables!Next
    BY <2>3 DEF Left, VacatedIn, Tables!Next, Tables!Leave, Tables!Vacated, SeatedAt
  <2>4. ASSUME NEW p \in Slots, OpenTables' = OpenTables \cup {p},
               SeatedAt' = VacatedIn(SeatedAt, p)
        PROVE  Tables!Next
    BY <2>4 DEF VacatedIn, Tables!Next, Tables!Open, Tables!Vacated
  <2>5. ASSUME NEW p \in Slots, NEW t \in OpenTables, OpenTables' = OpenTables,
               SeatedAt' = [SeatedAt EXCEPT ![p] = t], p \notin OpenTables,
               1 + Cardinality({g \in Slots : SeatedAt[g] = t}) < TableSize
        PROVE  Tables!Next
    <3>1. t \in Slots BY DEF OpenTables
    <3>2. Tables!Sit(p, t) BY <2>5 DEF Tables!Sit, Tables!GuestsAt, Cardinality, Tables!Cardinality
    <3> QED BY <3>1, <3>2 DEF Tables!Next
  <2>6. ASSUME Restart PROVE Tables!Next
    <3>1. OpenTables' = {} /\ SeatedAt' = [g \in Slots |-> 0]
      BY <2>6 DEF Restart, FreeSlot, OpenTables, SeatedAt
    <3>2. Tables!CloseAll BY <3>1 DEF Tables!CloseAll, Tables!Vacated
    <3> QED BY <3>2 DEF Tables!Next
  <2>7. CASE Accept BY <2>2, <2>3, <2>7, AcceptSteps
  <2>8. ASSUME NEW p \in Slots, Dialogue(p) PROVE [Tables!Next]_(Tables!vars)
    BY <2>2, <2>3, <2>8, DialogueSteps
  <2>9. ASSUME NEW p \in Slots, Command(p) PROVE [Tables!Next]_(Tables!vars)
    BY <2>2, <2>3, <2>4, <2>5, <2>9, CommandSteps
  <2> QED BY <2>1, <2>6, <2>7, <2>8, <2>9 DEF Next
<1> QED BY <1>1, <1>2, InvHolds, PTL DEF Spec, ImplementsDirectory, Tables!Spec
=============================================================================
