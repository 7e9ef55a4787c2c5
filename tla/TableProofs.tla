---------------------------- MODULE TableProofs ----------------------------
(***************************************************************************)
(* What TLAPS proves of Table, for any number of players, connections and  *)
(* seats.  Host, lobby and guests count the same players, whoever overlaps *)
(* whom and whatever breaks; that a newcomer gets the name, the money and  *)
(* the seat that are its own needs players who come one at a time.         *)
(***************************************************************************)
EXTENDS Table, FiniteSetTheorems, SequenceTheorems, TLAPS

-----------------------------------------------------------------------------
(* The inductive invariant: connections, what is on them, and head-counts.  *)

Msgs == [type : {"COMER", "GONE"}, count : Nat] \cup [type : {"INFO"}, sit : {0} \cup Seats]
          \cup [type : {"LEAVE", "EOF"}]

Seated(c) == \E i \in InTable(host) : host.slot[i].conn = c
Queued(c) == \E n \in DOMAIN backlog : backlog[n] = c
AtHost(c) == Seated(c) \/ Queued(c)

Has(d, t)   == \E n \in DOMAIN d : d[n].type = t
Ended(d)    == Has(d, "LEAVE") \/ Has(d, "EOF")
Counts(m)   == m.type \in {"COMER", "GONE"}

\* d ends without the host's farewell: the connection broke.
Broken(d) == \E n \in DOMAIN d : d[n].type = "EOF" /\ \A m \in DOMAIN d : m < n => d[m].type # "LEAVE"

\* Who has c players in mind and reads d has v in mind in the end; so for a seat.
Heeds(d, c, v) ==
  \/ c = v /\ \A n \in DOMAIN d : ~Counts(d[n])
  \/ \E n \in DOMAIN d : /\ Counts(d[n]) /\ d[n].count = v
                         /\ \A m \in DOMAIN d : m > n => ~Counts(d[m])
Sits(d, c, v) ==
  /\ \A n \in DOMAIN d : d[n].type = "INFO" => d[n].sit = v
  /\ c = v \/ Has(d, "INFO")

\* Who is at the table or in the backlog, each connection once.
Links ==
  /\ \A i \in InTable(host) : host.slot[i].conn \in Conns
  /\ \A i, j \in InTable(host) : host.slot[i].conn = host.slot[j].conn => i = j
  /\ \A m, n \in DOMAIN backlog : backlog[m] = backlog[n] => m = n
  /\ \A i \in InTable(host), n \in DOMAIN backlog : host.slot[i].conn # backlog[n]
  /\ \A j \in Joiners : client[j].at = "in" => client[j].conn \in Conns /\ by[client[j].conn] = j
  /\ \A j \in Joiners : client[j].at # "in" => client[j].conn = 0
  /\ host.count = 1 + Cardinality(InTable(host))

Called == {j \in Joiners : client[j].at = "called"}

\* Connections that the player has given up or that broke.
Parted == {c \in Conns : ~Held(c) \/ Has(down[c], "EOF")}

\* No more connections, and no more lost ones, than there may be.
Bounded ==
  /\ Len(by) + Cardinality(Called) <= MaxConns
  /\ lost <= Cardinality(Parted)

\* What connection c carries, by whether the host and the player still have it.
LineOK(c) ==
  /\ AtHost(c) /\ ~Held(c) => up[c] # <<>>
  /\ AtHost(c) /\ Held(c) => ~Has(down[c], "LEAVE") /\ (up[c] # <<>> <=> Has(down[c], "EOF"))
  /\ Held(c) /\ ~AtHost(c) => Ended(down[c])
  /\ Queued(c) /\ Held(c) => \A n \in DOMAIN down[c] : down[c][n].type = "EOF"
Lines == \A c \in Conns : LineOK(c)

\* A guest that can still hear knows, or will, its seat and the count.
Informed ==
  \A i \in InTable(host) :
    LET c == host.slot[i].conn IN
    Held(c) /\ ~Has(down[c], "EOF") =>
      /\ Heeds(down[c], client[by[c]].count, host.count)
      /\ Sits(down[c], client[by[c]].sit, host.slot[i].sit)

\* The players the lobby has counted and will be told of.
Present ==
  {j \in Joiners : \/ client[j].at = "called" \/ j \in leaving
                   \/ client[j].at = "in" /\ ~Broken(down[client[j].conn])}

\* The lobby's head-count lies between those linked to the table and those
\* present or lost; only the end of the table ends a link otherwise.
Heads ==
  /\ Has(toLobby, "LEAVE") => ~host.serving
  /\ ~host.serving => InTable(host) = {}
  /\ host.serving =>
       /\ 1 + Cardinality(lobby.linked) <= lobby.heads
       /\ lobby.heads <= 1 + Cardinality(Present) + lost
       /\ \A j \in Joiners : client[j].at # "idle" => j \in lobby.linked
       /\ leaving \subseteq lobby.linked
  /\ \A j \in leaving : client[j].at = "idle"

Inv == TypeOK /\ Links /\ Bounded /\ Lines /\ Informed /\ Heads

-----------------------------------------------------------------------------
(* One player at a time.                                                    *)

\* Player j is the only one to come.
Comes(j) ==
  \/ Called = {j} /\ backlog = <<>>
  \/ Called = {} /\ Len(backlog) = 1 /\ by[backlog[1]] = j

Announces(m) == m.type \in {"MONEY", "JOIN"}

\* How far the announcement of j has come: both messages, one, none.
Heralded(j) ==
  \/ ~host.coming /\ \E n \in DOMAIN news :
       /\ n + 1 \in DOMAIN news
       /\ news[n] = [type |-> "MONEY", who |-> j] /\ news[n + 1] = [type |-> "JOIN", who |-> j]
       /\ \A m \in DOMAIN news \ {n, n + 1} : ~Announces(news[m])
  \/ /\ ~host.coming /\ host.money = j
     /\ news # <<>> /\ news[1] = [type |-> "JOIN", who |-> j]
     /\ \A m \in DOMAIN news \ {1} : ~Announces(news[m])
  \/ /\ host.coming /\ host.money = j /\ host.name = j
     /\ \A m \in DOMAIN news : ~Announces(news[m])

Expected ==
  IF Coming = {} THEN ~host.coming /\ \A m \in DOMAIN news : ~Announces(news[m])
                 ELSE \E j \in Joiners : Comes(j) /\ Heralded(j)

\* There is room for who comes, and a seat for everybody.
Room == host.count + (IF Coming = {} THEN 0 ELSE 1) <= TableSize

SeatsHeld ==
  /\ host.table[1] = 1
  /\ \A i \in InTable(host) :
       host.slot[i].sit \in Seats \ {1} /\ host.table[host.slot[i].sit] = i
  /\ \A s \in Seats \ {1} : host.table[s] # 0 =>
       host.table[s] \in InTable(host) /\ host.slot[host.table[s]].sit = s

OrderlyInv == Inv /\ Expected /\ OwnNameAndMoney
SeatedInv  == OrderlyInv /\ Room /\ SeatsHeld

-----------------------------------------------------------------------------
(* What the operators on the host's globals change.                         *)

Globals(sv, c, t, s, w, n, m) ==
  [serving |-> sv, count |-> c, table |-> t, slot |-> s, coming |-> w, name |-> n, money |-> m]

LEMMA HostIsGlobals ==
  ASSUME NEW h \in Hosts
  PROVE  h = Globals(h.serving, h.count, h.table, h.slot, h.coming, h.name, h.money)
BY DEF Hosts, Globals

\* The assignments of close_client(), close_serv() and accept_new_client().
LEMMA CloseSets ==
  ASSUME NEW h \in Hosts, NEW c, NEW s, NEW t
  PROVE  [[[h EXCEPT !.count = c] EXCEPT !.slot = s] EXCEPT !.table = t]
           = Globals(h.serving, c, t, s, h.coming, h.name, h.money)
<1> DEFINE a == Globals(h.serving, h.count, h.table, h.slot, h.coming, h.name, h.money)
           b == Globals(h.serving, c, h.table, h.slot, h.coming, h.name, h.money)
           d == Globals(h.serving, c, h.table, s, h.coming, h.name, h.money)
           e == Globals(h.serving, c, t, s, h.coming, h.name, h.money)
<1>1. h = a BY HostIsGlobals
<1>2. [a EXCEPT !.count = c] = b BY DEF Globals
<1>3. [b EXCEPT !.slot = s] = d BY DEF Globals
<1>4. [d EXCEPT !.table = t] = e BY DEF Globals
<1>5. [h EXCEPT !.count = c] = b BY <1>1, <1>2
<1> QED BY <1>3, <1>4, <1>5

LEMMA EmptySets ==
  ASSUME NEW h \in Hosts, NEW c, NEW s, NEW t
  PROVE  [[[[h EXCEPT !.serving = FALSE] EXCEPT !.count = c] EXCEPT !.slot = s] EXCEPT !.table = t]
           = Globals(FALSE, c, t, s, h.coming, h.name, h.money)
<1> DEFINE z == Globals(h.serving, h.count, h.table, h.slot, h.coming, h.name, h.money)
           a == Globals(FALSE, h.count, h.table, h.slot, h.coming, h.name, h.money)
           b == Globals(FALSE, c, h.table, h.slot, h.coming, h.name, h.money)
           d == Globals(FALSE, c, h.table, s, h.coming, h.name, h.money)
           e == Globals(FALSE, c, t, s, h.coming, h.name, h.money)
<1>1. h = z BY HostIsGlobals
<1>2. \A v : [z EXCEPT !.serving = v] = Globals(v, h.count, h.table, h.slot, h.coming, h.name, h.money)
  BY DEF Globals
<1>3. [z EXCEPT !.serving = FALSE] = a BY <1>2
<1>4. [h EXCEPT !.serving = FALSE] = a BY <1>1, <1>3
<1>5. [a EXCEPT !.count = c] = b
  <2>1. \A v : [Globals(v, h.count, h.table, h.slot, h.coming, h.name, h.money) EXCEPT !.count = c]
                = Globals(v, c, h.table, h.slot, h.coming, h.name, h.money)
    BY DEF Globals
  <2> QED BY <2>1
<1>6. [b EXCEPT !.slot = s] = d
  <2>1. \A v : [Globals(v, c, h.table, h.slot, h.coming, h.name, h.money) EXCEPT !.slot = s]
                = Globals(v, c, h.table, s, h.coming, h.name, h.money)
    BY DEF Globals
  <2> QED BY <2>1
<1>7. [d EXCEPT !.table = t] = e
  <2>1. \A v : [Globals(v, c, h.table, s, h.coming, h.name, h.money) EXCEPT !.table = t]
                = Globals(v, c, t, s, h.coming, h.name, h.money)
    BY DEF Globals
  <2> QED BY <2>1
<1> QED BY <1>4, <1>5, <1>6, <1>7

LEMMA AcceptSets ==
  ASSUME NEW h \in Hosts, NEW c, NEW s, NEW t, NEW v
  PROVE  [[[[h EXCEPT !.slot = s] EXCEPT !.count = c] EXCEPT !.table = t] EXCEPT !.coming = v]
           = Globals(h.serving, c, t, s, v, h.name, h.money)
<1> DEFINE z == Globals(h.serving, h.count, h.table, h.slot, h.coming, h.name, h.money)
           a == Globals(h.serving, h.count, h.table, s, h.coming, h.name, h.money)
           b == Globals(h.serving, c, h.table, s, h.coming, h.name, h.money)
           d == Globals(h.serving, c, t, s, h.coming, h.name, h.money)
           e == Globals(h.serving, c, t, s, v, h.name, h.money)
<1>1. h = z BY HostIsGlobals
<1>2. [z EXCEPT !.slot = s] = a BY DEF Globals
<1>3. [a EXCEPT !.count = c] = b BY DEF Globals
<1>4. [b EXCEPT !.table = t] = d BY DEF Globals
<1>5. [d EXCEPT !.coming = v] = e BY DEF Globals
<1>6. [h EXCEPT !.slot = s] = a BY <1>1, <1>2
<1> QED BY <1>3, <1>4, <1>5, <1>6

LEMMA GlobalsFields ==
  ASSUME NEW sv, NEW c, NEW t, NEW s, NEW w, NEW n, NEW m
  PROVE  LET h == Globals(sv, c, t, s, w, n, m)
         IN  h.serving = sv /\ h.count = c /\ h.table = t /\ h.slot = s /\ h.coming = w
               /\ h.name = n /\ h.money = m
BY DEF Globals

LEMMA GlobalsType ==
  ASSUME NEW sv \in BOOLEAN, NEW c \in Nat, NEW t \in [Seats -> 0 .. MaxPlayer - 1],
         NEW s \in [Slots -> [conn : 0 .. MaxConns, sit : {0} \cup Seats, name : Names, money : Names]],
         NEW w \in BOOLEAN, NEW n \in Names, NEW m \in Names
  PROVE  Globals(sv, c, t, s, w, n, m) \in Hosts
BY DEF Globals, Hosts

LEMMA ClosedFacts ==
  ASSUME NEW h \in Hosts, NEW i \in InTable(h), h.count >= 1
  PROVE  /\ Closed(h, i) \in Hosts
         /\ InTable(Closed(h, i)) = InTable(h) \ {i}
         /\ \A x \in Slots \ {i} : Closed(h, i).slot[x] = h.slot[x]
         /\ Closed(h, i).count = h.count - 1
         /\ \A s \in Seats : Closed(h, i).table[s] = IF s = h.slot[i].sit THEN 0 ELSE h.table[s]
         /\ Closed(h, i).serving = h.serving /\ Closed(h, i).coming = h.coming
         /\ Closed(h, i).name = h.name /\ Closed(h, i).money = h.money
<1> DEFINE q == Closed(h, i)
<1>1. i \in Slots /\ h.slot[i].conn # 0 BY DEF InTable
<1>2. /\ q.count = h.count - 1
      /\ q.slot = [h.slot EXCEPT ![i] = [h.slot[i] EXCEPT !.conn = 0]]
      /\ q.table = [s \in Seats |-> IF s = h.slot[i].sit THEN 0 ELSE h.table[s]]
      /\ q.serving = h.serving /\ q.coming = h.coming
      /\ q.name = h.name /\ q.money = h.money
      /\ q = Globals(q.serving, q.count, q.table, q.slot, q.coming, q.name, q.money)
  <2> DEFINE c == h.count - 1
             s == [h.slot EXCEPT ![i] = [h.slot[i] EXCEPT !.conn = 0]]
             t == [s1 \in Seats |-> IF s1 = h.slot[i].sit THEN 0 ELSE h.table[s1]]
  <2>1. [h EXCEPT !.count = c].slot = h.slot BY DEF Hosts
  <2>2. q = [[[h EXCEPT !.count = c] EXCEPT !.slot = s] EXCEPT !.table = t] BY <2>1 DEF Closed
  <2> HIDE DEF c, s, t
  <2>3. [[[h EXCEPT !.count = c] EXCEPT !.slot = s] EXCEPT !.table = t]
          = Globals(h.serving, c, t, s, h.coming, h.name, h.money) BY CloseSets
  <2> HIDE DEF q
  <2>5. q = Globals(h.serving, c, t, s, h.coming, h.name, h.money) BY <2>2, <2>3
  <2> QED BY <2>5, GlobalsFields DEF c, s, t
<1>3. h.slot \in [Slots -> [conn : 0 .. MaxConns, sit : {0} \cup Seats, name : Names, money : Names]]
  BY DEF Hosts
<1>4. MaxConns \in Nat /\ MaxPlayer \in Nat BY TableAssumption
<1>5. [h.slot[i] EXCEPT !.conn = 0] \in [conn : 0 .. MaxConns, sit : {0} \cup Seats, name : Names, money : Names]
  <2>1. h.slot[i] \in [conn : 0 .. MaxConns, sit : {0} \cup Seats, name : Names, money : Names]
    BY <1>1, <1>3
  <2> QED BY <2>1, <1>4
<1>6. [h.slot[i] EXCEPT !.conn = 0].conn = 0 BY <1>1, <1>3
<1>7. q.slot \in [Slots -> [conn : 0 .. MaxConns, sit : {0} \cup Seats, name : Names, money : Names]]
  BY <1>1, <1>2, <1>3, <1>5
<1>8. q.table \in [Seats -> 0 .. MaxPlayer - 1]
  <2>1. h.table \in [Seats -> 0 .. MaxPlayer - 1] BY DEF Hosts
  <2>2. 0 \in 0 .. MaxPlayer - 1 BY TableAssumption
  <2> QED BY <1>2, <2>1, <2>2
<1>9. q.count \in Nat BY <1>2 DEF Hosts
<1>10. q.serving \in BOOLEAN /\ q.coming \in BOOLEAN /\ q.name \in Names /\ q.money \in Names
  BY <1>2 DEF Hosts
<1>11. \A x \in Slots : q.slot[x] = IF x = i THEN [h.slot[i] EXCEPT !.conn = 0] ELSE h.slot[x]
  BY <1>1, <1>2, <1>3
<1>12. \A s \in Seats : q.table[s] = IF s = h.slot[i].sit THEN 0 ELSE h.table[s]
  BY <1>2
<1> HIDE DEF q
<1>13. q \in Hosts
  <2>1. Globals(q.serving, q.count, q.table, q.slot, q.coming, q.name, q.money) \in Hosts
    BY <1>7, <1>8, <1>9, <1>10, GlobalsType
  <2> QED BY <1>2, <2>1
<1>14. InTable(q) = InTable(h) \ {i} BY <1>6, <1>11 DEF InTable
<1>15. \A x \in Slots \ {i} : q.slot[x] = h.slot[x] BY <1>11
<1> QED BY <1>2, <1>12, <1>13, <1>14, <1>15 DEF q

LEMMA EmptiedFacts ==
  ASSUME NEW h \in Hosts, h.count = 1 + Cardinality(InTable(h))
  PROVE  /\ Emptied(h) \in Hosts
         /\ InTable(Emptied(h)) = {}
         /\ Emptied(h).count = 1
         /\ \A s \in Seats :
              Emptied(h).table[s] = IF \E i \in InTable(h) : s = h.slot[i].sit THEN 0 ELSE h.table[s]
         /\ Emptied(h).serving = FALSE /\ Emptied(h).coming = h.coming
         /\ Emptied(h).name = h.name /\ Emptied(h).money = h.money
<1> DEFINE q == Emptied(h)
           SlotType == [conn : 0 .. MaxConns, sit : {0} \cup Seats, name : Names, money : Names]
<1>1. /\ q.count = h.count - Cardinality(InTable(h))
      /\ q.slot = [i \in Slots |-> [h.slot[i] EXCEPT !.conn = 0]]
      /\ q.table = [s \in Seats |-> IF \E i \in InTable(h) : s = h.slot[i].sit THEN 0 ELSE h.table[s]]
      /\ q.serving = FALSE /\ q.coming = h.coming
      /\ q.name = h.name /\ q.money = h.money
      /\ q = Globals(q.serving, q.count, q.table, q.slot, q.coming, q.name, q.money)
  <2> DEFINE c == h.count - Cardinality(InTable(h))
             s == [i \in Slots |-> [h.slot[i] EXCEPT !.conn = 0]]
             t == [s1 \in Seats |-> IF \E i \in InTable(h) : s1 = h.slot[i].sit THEN 0 ELSE h.table[s1]]
  <2>1. [h EXCEPT !.serving = FALSE].count = h.count BY DEF Hosts
  <2>2. q = [[[[h EXCEPT !.serving = FALSE] EXCEPT !.count = c] EXCEPT !.slot = s] EXCEPT !.table = t]
    <3>1. [[h EXCEPT !.serving = FALSE] EXCEPT !.count = c].slot = h.slot BY DEF Hosts
    <3>2. [[[h EXCEPT !.serving = FALSE] EXCEPT !.count = c] EXCEPT !.slot = s].table = h.table
      BY DEF Hosts
    <3> QED BY <2>1, <3>1, <3>2 DEF Emptied
  <2> HIDE DEF c, s, t
  <2>4. [[[[h EXCEPT !.serving = FALSE] EXCEPT !.count = c] EXCEPT !.slot = s] EXCEPT !.table = t]
           = Globals(FALSE, c, t, s, h.coming, h.name, h.money) BY EmptySets
  <2> HIDE DEF q
  <2>3. q = Globals(FALSE, c, t, s, h.coming, h.name, h.money) BY <2>2, <2>4
  <2>5. q.count = c /\ q.slot = s /\ q.table = t /\ q.name = h.name /\ q.money = h.money
    BY <2>3 DEF Globals
  <2>6. q.serving = FALSE BY <2>3 DEF Globals
  <2>7. q.coming = h.coming BY <2>3 DEF Globals
  <2>8. q = Globals(q.serving, q.count, q.table, q.slot, q.coming, q.name, q.money)
    BY <2>3, <2>5, <2>6, <2>7
  <2> QED BY <2>5, <2>6, <2>7, <2>8 DEF c, s, t
<1>2. h.slot \in [Slots -> SlotType] BY DEF Hosts
<1>3. MaxConns \in Nat /\ MaxPlayer \in Nat BY TableAssumption
<1>4. \A i \in Slots : [h.slot[i] EXCEPT !.conn = 0] \in SlotType /\ [h.slot[i] EXCEPT !.conn = 0].conn = 0
  <2>1. ASSUME NEW i \in Slots
        PROVE  [h.slot[i] EXCEPT !.conn = 0] \in SlotType /\ [h.slot[i] EXCEPT !.conn = 0].conn = 0
    <3>1. h.slot[i] \in SlotType BY <1>2
    <3> QED BY <1>3, <3>1
  <2> QED BY <2>1
<1>5. q.slot \in [Slots -> SlotType] BY <1>1, <1>4
<1>6. q.table \in [Seats -> 0 .. MaxPlayer - 1]
  <2>1. h.table \in [Seats -> 0 .. MaxPlayer - 1] BY DEF Hosts
  <2>2. 0 \in 0 .. MaxPlayer - 1 BY TableAssumption
  <2> QED BY <1>1, <2>1, <2>2
<1>7. q.count = 1
  <2>1. h.count \in Nat BY DEF Hosts
  <2>2. Cardinality(InTable(h)) \in Nat
    <3>1. IsFiniteSet(2 .. MaxPlayer - 1) BY <1>3, FS_Interval
    <3>2. InTable(h) \subseteq 2 .. MaxPlayer - 1 BY DEF InTable, Slots
    <3> QED BY <3>1, <3>2, FS_Subset, FS_CardinalityType
  <2> QED BY <1>1, <2>1, <2>2
<1>8. q.coming \in BOOLEAN /\ q.name \in Names /\ q.money \in Names BY <1>1 DEF Hosts
<1>9. \A i \in Slots : q.slot[i].conn = 0 BY <1>1, <1>4
<1>10. \A s \in Seats : q.table[s] = IF \E i \in InTable(h) : s = h.slot[i].sit THEN 0 ELSE h.table[s]
  BY <1>1
<1> HIDE DEF q
<1>11. q \in Hosts
  <2>1. q.slot \in [Slots -> [conn : 0 .. MaxConns, sit : {0} \cup Seats, name : Names, money : Names]]
    BY <1>5
  <2>2. q.count \in Nat BY <1>7
  <2>4. q.serving \in BOOLEAN BY <1>1
  <2>3. Globals(q.serving, q.count, q.table, q.slot, q.coming, q.name, q.money) \in Hosts
    BY <1>6, <1>8, <2>1, <2>2, <2>4, GlobalsType
  <2> QED BY <1>1, <2>3
<1>12. InTable(q) = {} BY <1>9 DEF InTable
<1> QED BY <1>1, <1>7, <1>10, <1>11, <1>12 DEF q

LEMMA LeastIsIn ==
  ASSUME NEW S \in SUBSET Nat, S # {}
  PROVE  Least(S) \in S
<1>1. PICK x \in S : \A y \in S : ~(y < x)
  <2>1. IsWellFoundedOn(OpToRel(<, Nat), Nat) BY NatLessThanWellFounded
  <2>2. PICK x \in S : \A y \in S : ~(<<y, x>> \in OpToRel(<, Nat))
    BY <2>1, WFMin
  <2> QED BY <2>2 DEF OpToRel
<1>2. \A y \in S : x <= y BY <1>1
<1>3. \E x1 \in S : \A y \in S : x1 <= y BY <1>2
<1> QED BY <1>3 DEF Least

LEMMA SlotsFinite ==
  /\ IsFiniteSet(Slots) /\ (Slots \in SUBSET Nat)
  /\ \A h : IsFiniteSet(InTable(h)) /\ Cardinality(InTable(h)) \in Nat
<1>1. MaxPlayer \in Nat BY TableAssumption
<1>2. IsFiniteSet(2 .. MaxPlayer - 1) BY <1>1, FS_Interval
<1>3. IsFiniteSet(Slots) /\ (Slots \in SUBSET Nat) BY <1>1, <1>2 DEF Slots
<1>4. ASSUME NEW h PROVE IsFiniteSet(InTable(h)) /\ Cardinality(InTable(h)) \in Nat
  <2>1. InTable(h) \in SUBSET Slots BY DEF InTable
  <2> QED BY <1>3, <2>1, FS_Subset, FS_CardinalityType
<1> QED BY <1>3, <1>4

\* Entries of the table differ in their connections, so a connection that is
\* not at the table finds a free entry.
LEMMA FreeSlot ==
  ASSUME TypeOK, Links, NEW k \in Conns, ~Seated(k)
  PROVE  Least(Slots \ InTable(host)) \in Slots \ InTable(host)
<1> DEFINE T == InTable(host)
           f == [i \in T |-> host.slot[i].conn]
<1>1. Conns = 1 .. Len(by) /\ Len(by) \in Nat /\ Len(by) <= MaxConns BY DEF TypeOK, Conns
<1>2. MaxPlayer \in Nat /\ MaxConns \in Nat /\ MaxConns <= MaxPlayer - 2 BY TableAssumption
<1>3. f \in [T -> Conns \ {k}] BY DEF Links, Seated
<1>4. \A x, y \in T : f[x] = f[y] => x = y BY DEF Links
<1>5. f \in Injection(T, Conns \ {k}) BY <1>3, <1>4 DEF Injection, IsInjective
<1>6. IsFiniteSet(Conns) /\ Cardinality(Conns) = Len(by)
  <2>1. IsFiniteSet(1 .. Len(by)) /\ Cardinality(1 .. Len(by)) = IF 1 > Len(by) THEN 0 ELSE Len(by) - 1 + 1
    BY <1>1, FS_Interval
  <2> QED BY <1>1, <2>1
<1>7. IsFiniteSet(Conns \ {k}) /\ Cardinality(Conns \ {k}) = Len(by) - 1
  BY <1>6, FS_RemoveElement
<1>8. Cardinality(T) <= Len(by) - 1 BY <1>5, <1>7, FS_Injection
<1>9. Cardinality(Slots) = MaxPlayer - 2
  <2>1. Cardinality(2 .. MaxPlayer - 1) = IF 2 > MaxPlayer - 1 THEN 0 ELSE MaxPlayer - 1 - 2 + 1
    BY <1>2, FS_Interval
  <2>2. MaxPlayer >= 3
    <3>1. MaxConns >= 1 BY TableAssumption
    <3> QED BY <1>2, <3>1
  <2> QED BY <1>2, <2>1, <2>2 DEF Slots
<1>10. T \subseteq Slots BY DEF InTable
<1>11. Slots \ T # {}
  <2>1. SUFFICES ASSUME Slots \ T = {} PROVE FALSE OBVIOUS
  <2>2. T = Slots BY <1>10, <2>1
  <2>3. Cardinality(T) = MaxPlayer - 2 BY <1>9, <2>2
  <2> QED BY <1>1, <1>2, <1>8, <2>3
<1> QED
  <2>1. Slots \ T \in SUBSET Nat BY SlotsFinite
  <2> QED BY <1>11, <2>1, LeastIsIn

LEMMA SeatForIn ==
  ASSUME TypeOK, NEW i \in Slots
  PROVE  /\ SeatFor(i) \in {0} \cup Seats
         /\ IsSeated => SeatFor(i) \in Seats /\ host.table[SeatFor(i)] = 0
         /\ ~IsSeated => SeatFor(i) = host.slot[i].sit
<1> DEFINE free == {s \in Seats : host.table[s] = 0}
<1>1. free \in SUBSET Nat BY DEF Seats
<1>2. free # {} => Least(free) \in free BY <1>1, LeastIsIn
<1>3. host.slot[i].sit \in {0} \cup Seats BY DEF TypeOK, Hosts
<1>4. IsSeated <=> (host.count + 1 <= PlayerNum /\ free # {}) BY DEF IsSeated
<1>5. SeatFor(i) = IF host.count + 1 <= PlayerNum /\ free # {} THEN Least(free) ELSE host.slot[i].sit
  BY DEF SeatFor
<1>6. CASE host.count + 1 <= PlayerNum /\ free # {}
  <2>1. SeatFor(i) = Least(free) BY <1>5, <1>6
  <2>2. Least(free) \in free BY <1>2, <1>6
  <2> QED BY <1>4, <1>6, <2>1, <2>2
<1>7. CASE ~(host.count + 1 <= PlayerNum /\ free # {})
  BY <1>3, <1>4, <1>5, <1>7
<1> QED BY <1>6, <1>7

LEMMA AcceptedFacts ==
  ASSUME TypeOK, Links, NEW k \in Conns, ~Seated(k), NEW i, i = Least(Slots \ InTable(host))
  PROVE  /\ i \in Slots \ InTable(host)
         /\ Accepted(k) \in Hosts
         /\ InTable(Accepted(k)) = InTable(host) \cup {i}
         /\ \A x \in Slots \ {i} : Accepted(k).slot[x] = host.slot[x]
         /\ Accepted(k).slot[i] = [conn |-> k, sit |-> SeatFor(i),
                                    name |-> host.name, money |-> host.money]
         /\ Accepted(k).count = host.count + 1
         /\ Accepted(k).serving = host.serving /\ Accepted(k).coming = FALSE
         /\ Accepted(k).name = host.name /\ Accepted(k).money = host.money
<1> DEFINE q == Accepted(k)
           SlotType == [conn : 0 .. MaxConns, sit : {0} \cup Seats, name : Names, money : Names]
           new == [conn |-> k, sit |-> SeatFor(i), name |-> host.name, money |-> host.money]
<1>1. i \in Slots \ InTable(host) BY FreeSlot
<1>2. host \in Hosts BY DEF TypeOK
<1>3. /\ q.count = host.count + 1
      /\ q.slot = [host.slot EXCEPT ![i] = new]
      /\ q.table = IF IsSeated THEN [host.table EXCEPT ![SeatFor(i)] = i] ELSE host.table
      /\ q.serving = host.serving /\ q.coming = FALSE
      /\ q.name = host.name /\ q.money = host.money
      /\ q = Globals(q.serving, q.count, q.table, q.slot, q.coming, q.name, q.money)
  <2> DEFINE c == host.count + 1
             s == [host.slot EXCEPT ![i] = new]
             t == IF IsSeated THEN [host.table EXCEPT ![SeatFor(i)] = i] ELSE host.table
             h == host
  <2>1. h \in Hosts BY <1>2
  <2>2. q = [[[[h EXCEPT !.slot = s] EXCEPT !.count = c] EXCEPT !.table = t] EXCEPT !.coming = FALSE]
    BY DEF Accepted
  <2> HIDE DEF c, s, t, h
  <2>4. [[[[h EXCEPT !.slot = s] EXCEPT !.count = c] EXCEPT !.table = t] EXCEPT !.coming = FALSE]
           = Globals(h.serving, c, t, s, FALSE, h.name, h.money) BY <2>1, AcceptSets
  <2> HIDE DEF q
  <2>3. q = Globals(h.serving, c, t, s, FALSE, h.name, h.money) BY <2>2, <2>4
  <2>5. q.count = c /\ q.slot = s /\ q.table = t /\ q.name = h.name /\ q.money = h.money
    BY <2>3 DEF Globals
  <2>6. q.serving = h.serving BY <2>3 DEF Globals
  <2>7. q.coming = FALSE BY <2>3 DEF Globals
  <2>8. q = Globals(q.serving, q.count, q.table, q.slot, q.coming, q.name, q.money)
    BY <2>3, <2>5, <2>6, <2>7
  <2> QED BY <2>5, <2>6, <2>7, <2>8 DEF c, s, t, h
<1>4. host.slot \in [Slots -> SlotType] BY <1>2 DEF Hosts
<1>5. new \in SlotType /\ k # 0
  <2>1. k \in 1 .. MaxConns
    <3>1. Len(by) \in Nat /\ Conns = 1 .. Len(by) /\ Len(by) <= MaxConns BY DEF TypeOK, Conns
    <3>2. MaxConns \in Nat BY TableAssumption
    <3> QED BY <3>1, <3>2
  <2>2. SeatFor(i) \in {0} \cup Seats BY <1>1, SeatForIn
  <2>3. host.name \in Names /\ host.money \in Names BY <1>2 DEF Hosts
  <2> QED BY <2>1, <2>2, <2>3
<1>6. q.slot \in [Slots -> SlotType] BY <1>1, <1>3, <1>4, <1>5
<1>7. q.table \in [Seats -> 0 .. MaxPlayer - 1]
  <2>1. host.table \in [Seats -> 0 .. MaxPlayer - 1] BY <1>2 DEF Hosts
  <2>2. i \in 0 .. MaxPlayer - 1
    <3>1. MaxPlayer \in Nat BY TableAssumption
    <3> QED BY <1>1, <3>1 DEF Slots
  <2> QED BY <1>3, <2>1, <2>2
<1>8. q.count \in Nat /\ q.serving \in BOOLEAN /\ q.coming \in BOOLEAN /\ q.name \in Names /\ q.money \in Names
  <2>1. host.count \in Nat /\ host.serving \in BOOLEAN /\ host.name \in Names /\ host.money \in Names
    BY <1>2 DEF Hosts
  <2> HIDE DEF q
  <2>2. q.count \in Nat /\ q.name \in Names /\ q.money \in Names BY <1>3, <2>1
  <2>3. q.serving \in BOOLEAN BY <1>3, <2>1
  <2>4. q.coming \in BOOLEAN BY <1>3
  <2> QED BY <2>2, <2>3, <2>4
<1>9. \A x \in Slots : q.slot[x] = IF x = i THEN new ELSE host.slot[x] BY <1>1, <1>3, <1>4
<1> HIDE DEF q
<1>10. q \in Hosts
  <2>1. q.slot \in [Slots -> [conn : 0 .. MaxConns, sit : {0} \cup Seats, name : Names, money : Names]]
    BY <1>6
  <2>2. Globals(q.serving, q.count, q.table, q.slot, q.coming, q.name, q.money) \in Hosts
    BY <1>7, <1>8, <2>1, GlobalsType
  <2> QED BY <1>3, <2>2
<1>11. InTable(q) = InTable(host) \cup {i}
  <2>1. q.slot[i].conn # 0 BY <1>1, <1>5, <1>9
  <2>2. \A x \in Slots : q.slot[x].conn # 0 <=> x = i \/ host.slot[x].conn # 0 BY <1>9, <2>1
  <2> HIDE DEF new
  <2> QED BY <1>1, <2>2 DEF InTable
<1>12. \A x \in Slots \ {i} : q.slot[x] = host.slot[x] BY <1>9
<1>13. q.slot[i] = new BY <1>1, <1>9
<1> QED BY <1>1, <1>3, <1>10, <1>11, <1>12, <1>13 DEF q

LEMMA AcceptedSeats ==
  ASSUME TypeOK, Links, NEW k \in Conns, ~Seated(k), NEW i, i = Least(Slots \ InTable(host))
  PROVE  /\ \A s \in Seats : s # SeatFor(i) => Accepted(k).table[s] = host.table[s]
         /\ IsSeated => Accepted(k).table[SeatFor(i)] = i
<1> DEFINE q == Accepted(k)
<1>1. i \in Slots BY FreeSlot
<1>2. host \in Hosts BY DEF TypeOK
<1>3. q.table = IF IsSeated THEN [host.table EXCEPT ![SeatFor(i)] = i] ELSE host.table
  <2> DEFINE c == host.count + 1
             s == [host.slot EXCEPT ![i] = [conn |-> k, sit |-> SeatFor(i),
                                            name |-> host.name, money |-> host.money]]
             t == IF IsSeated THEN [host.table EXCEPT ![SeatFor(i)] = i] ELSE host.table
             h == host
  <2>1. h \in Hosts BY <1>2
  <2>2. q = [[[[h EXCEPT !.slot = s] EXCEPT !.count = c] EXCEPT !.table = t] EXCEPT !.coming = FALSE]
    BY DEF Accepted
  <2> HIDE DEF c, s, t, h
  <2>3. [[[[h EXCEPT !.slot = s] EXCEPT !.count = c] EXCEPT !.table = t] EXCEPT !.coming = FALSE]
           = Globals(h.serving, c, t, s, FALSE, h.name, h.money) BY <2>1, AcceptSets
  <2> HIDE DEF q
  <2>4. q = Globals(h.serving, c, t, s, FALSE, h.name, h.money) BY <2>2, <2>3
  <2>5. q.table = t BY <2>4 DEF Globals
  <2> QED BY <2>5 DEF t
<1>4. host.table \in [Seats -> 0 .. MaxPlayer - 1] BY <1>2 DEF Hosts
<1>5. IsSeated => SeatFor(i) \in Seats BY <1>1, SeatForIn
<1> QED BY <1>3, <1>4, <1>5

-----------------------------------------------------------------------------
(* What is said of the messages on a connection, as messages come and go.   *)

LEMMA Joined ==
  ASSUME NEW d \in Seq(Msgs), NEW e \in Seq(Msgs)
  PROVE  /\ d \o e \in Seq(Msgs)
         /\ Len(d \o e) = Len(d) + Len(e) /\ Len(d) \in Nat /\ Len(e) \in Nat
         /\ DOMAIN d = 1 .. Len(d) /\ DOMAIN e = 1 .. Len(e) /\ DOMAIN (d \o e) = 1 .. Len(d) + Len(e)
         /\ \A n \in 1 .. Len(d) : (d \o e)[n] = d[n]
         /\ \A n \in 1 .. Len(e) : (d \o e)[Len(d) + n] = e[n]
         /\ \A n \in DOMAIN (d \o e) :
              n \in DOMAIN d \/ \E m \in DOMAIN e : n = Len(d) + m
<1>1. /\ d \o e \in Seq(Msgs)
      /\ Len(d \o e) = Len(d) + Len(e) /\ Len(d) \in Nat /\ Len(e) \in Nat
      /\ DOMAIN d = 1 .. Len(d) /\ DOMAIN e = 1 .. Len(e) /\ DOMAIN (d \o e) = 1 .. Len(d) + Len(e)
  OBVIOUS
<1>2. \A n \in 1 .. Len(d) : (d \o e)[n] = d[n] OBVIOUS
<1>3. \A n \in 1 .. Len(e) : (d \o e)[Len(d) + n] = e[n] OBVIOUS
<1>4. ASSUME NEW n \in DOMAIN (d \o e), n \notin DOMAIN d
      PROVE  \E m \in DOMAIN e : n = Len(d) + m
  <2>1. n - Len(d) \in 1 .. Len(e) /\ n = Len(d) + (n - Len(d)) BY <1>1, <1>4
  <2> QED BY <1>1, <2>1
<1> QED BY <1>1, <1>2, <1>3, <1>4

LEMMA Shifted ==
  ASSUME NEW d \in Seq(Msgs), d # <<>>
  PROVE  /\ Tail(d) \in Seq(Msgs) /\ Head(d) \in Msgs /\ Head(d) = d[1]
         /\ DOMAIN d = 1 .. Len(d) /\ DOMAIN Tail(d) = 1 .. Len(d) - 1 /\ Len(d) \in Nat /\ Len(d) >= 1
         /\ \A n \in DOMAIN Tail(d) : n + 1 \in DOMAIN d /\ Tail(d)[n] = d[n + 1]
         /\ \A n \in DOMAIN d : n # 1 => n - 1 \in DOMAIN Tail(d) /\ d[n] = Tail(d)[n - 1]
OBVIOUS

LEMMA HasJoined ==
  ASSUME NEW d \in Seq(Msgs), NEW e \in Seq(Msgs), NEW t
  PROVE  Has(d \o e, t) <=> Has(d, t) \/ Has(e, t)
<1> DEFINE f == d \o e
<1>1. /\ Len(d) \in Nat /\ Len(e) \in Nat
      /\ DOMAIN d = 1 .. Len(d) /\ DOMAIN e = 1 .. Len(e) /\ DOMAIN f = 1 .. Len(d) + Len(e)
      /\ \A n \in DOMAIN d : f[n] = d[n]
      /\ \A n \in DOMAIN e : f[Len(d) + n] = e[n]
      /\ \A n \in DOMAIN f : n \in DOMAIN d \/ \E m \in DOMAIN e : n = Len(d) + m
  BY Joined
<1> HIDE DEF f
<1>2. ASSUME NEW n \in DOMAIN d PROVE n \in DOMAIN f BY <1>1, <1>2
<1>3. ASSUME NEW n \in DOMAIN e PROVE Len(d) + n \in DOMAIN f BY <1>1, <1>3
<1>4. Has(f, t) <=> Has(d, t) \/ Has(e, t) BY <1>1, <1>2, <1>3 DEF Has
<1> QED BY <1>4 DEF f

LEMMA HasShifted ==
  ASSUME NEW d \in Seq(Msgs), d # <<>>, NEW t
  PROVE  Has(d, t) <=> Head(d).type = t \/ Has(Tail(d), t)
<1> DEFINE e == Tail(d)
<1>1. /\ Head(d) = d[1] /\ 1 \in DOMAIN d
      /\ \A n \in DOMAIN e : n + 1 \in DOMAIN d /\ e[n] = d[n + 1]
      /\ \A n \in DOMAIN d : n # 1 => n - 1 \in DOMAIN e /\ d[n] = e[n - 1]
  BY Shifted
<1> HIDE DEF e
<1>2. Has(d, t) <=> Head(d).type = t \/ Has(e, t) BY <1>1 DEF Has
<1> QED BY <1>2 DEF e

LEMMA BrokenJoined ==
  ASSUME NEW d \in Seq(Msgs), NEW e \in Seq(Msgs), ~Broken(e)
  PROVE  Broken(d \o e) => Broken(d)
<1> DEFINE f == d \o e
<1>1. /\ Len(d) \in Nat /\ Len(e) \in Nat
      /\ DOMAIN d = 1 .. Len(d) /\ DOMAIN e = 1 .. Len(e) /\ DOMAIN f = 1 .. Len(d) + Len(e)
      /\ \A n \in DOMAIN d : f[n] = d[n]
      /\ \A n \in DOMAIN e : f[Len(d) + n] = e[n]
      /\ \A n \in DOMAIN f : n \in DOMAIN d \/ \E m \in DOMAIN e : n = Len(d) + m
  BY Joined
<1> HIDE DEF f
<1>2. ASSUME NEW n \in DOMAIN d PROVE n \in DOMAIN f BY <1>1, <1>2
<1>3. ASSUME NEW n \in DOMAIN e PROVE Len(d) + n \in DOMAIN f BY <1>1, <1>3
<1>4. ASSUME Broken(f) PROVE Broken(d)
  <2>1. PICK n \in DOMAIN f : f[n].type = "EOF" /\ \A m \in DOMAIN f : m < n => f[m].type # "LEAVE"
    BY <1>4 DEF Broken
  <2>2. CASE n \in DOMAIN d BY <1>1, <1>2, <2>1, <2>2 DEF Broken
  <2>3. CASE n \notin DOMAIN d
    <3>1. PICK x \in DOMAIN e : n = Len(d) + x BY <1>1, <2>3
    <3>2. e[x].type = "EOF" BY <1>1, <2>1, <3>1
    <3>3. ASSUME NEW y \in DOMAIN e, y < x PROVE e[y].type # "LEAVE"
      <4>1. Len(d) + y \in DOMAIN f /\ Len(d) + y < n BY <1>1, <1>3, <3>1, <3>3
      <4> QED BY <1>1, <2>1, <4>1
    <3> QED BY <3>2, <3>3 DEF Broken
  <2> QED BY <2>2, <2>3
<1> QED BY <1>4 DEF f

LEMMA BrokenShifted ==
  ASSUME NEW d \in Seq(Msgs), d # <<>>
  PROVE  /\ Head(d).type # "LEAVE" /\ Broken(Tail(d)) => Broken(d)
         /\ Head(d).type = "EOF" => Broken(d)
<1> DEFINE e == Tail(d)
<1>1. /\ Head(d) = d[1] /\ 1 \in DOMAIN d /\ DOMAIN d = 1 .. Len(d) /\ Len(d) \in Nat
      /\ DOMAIN e = 1 .. Len(d) - 1
      /\ \A n \in DOMAIN e : n + 1 \in DOMAIN d /\ e[n] = d[n + 1]
      /\ \A n \in DOMAIN d : n # 1 => n - 1 \in DOMAIN e /\ d[n] = e[n - 1]
  BY Shifted
<1> HIDE DEF e
<1>2. ASSUME Head(d).type # "LEAVE", Broken(e) PROVE Broken(d)
  <2>1. PICK n \in DOMAIN e : e[n].type = "EOF" /\ \A m \in DOMAIN e : m < n => e[m].type # "LEAVE"
    BY <1>2 DEF Broken
  <2>2. n + 1 \in DOMAIN d /\ d[n + 1].type = "EOF" BY <1>1, <2>1
  <2>3. ASSUME NEW m \in DOMAIN d, m < n + 1 PROVE d[m].type # "LEAVE"
    <3>1. CASE m = 1 BY <1>1, <1>2, <3>1
    <3>2. CASE m # 1
      <4>1. m - 1 \in DOMAIN e /\ d[m] = e[m - 1] /\ m - 1 < n BY <1>1, <2>3, <3>2
      <4> QED BY <2>1, <4>1
    <3> QED BY <3>1, <3>2
  <2> QED BY <2>2, <2>3 DEF Broken
<1>3. ASSUME Head(d).type = "EOF" PROVE Broken(d)
  <2>1. \A m \in DOMAIN d : ~(m < 1) BY <1>1
  <2> QED BY <1>1, <1>3, <2>1 DEF Broken
<1> QED BY <1>2, <1>3 DEF e

\* The last count that is sent is the one that stays in mind.
LEMMA HeedsJoined ==
  ASSUME NEW d \in Seq(Msgs), NEW e \in Seq(Msgs), NEW c, NEW v, NEW x \in DOMAIN e,
         Counts(e[x]), e[x].count = v, \A y \in DOMAIN e : y > x => ~Counts(e[y])
  PROVE  Heeds(d \o e, c, v)
<1> DEFINE f == d \o e
<1>1. /\ Len(d) \in Nat /\ Len(e) \in Nat
      /\ DOMAIN d = 1 .. Len(d) /\ DOMAIN e = 1 .. Len(e) /\ DOMAIN f = 1 .. Len(d) + Len(e)
      /\ \A n \in DOMAIN d : f[n] = d[n]
      /\ \A n \in DOMAIN e : f[Len(d) + n] = e[n]
      /\ \A n \in DOMAIN f : n \in DOMAIN d \/ \E m \in DOMAIN e : n = Len(d) + m
  BY Joined
<1> HIDE DEF f
<1>2. Len(d) + x \in DOMAIN f /\ f[Len(d) + x] = e[x] BY <1>1
<1>3. ASSUME NEW m \in DOMAIN f, m > Len(d) + x PROVE ~Counts(f[m])
  <2>1. m \notin DOMAIN d BY <1>1, <1>3
  <2>2. PICK y \in DOMAIN e : m = Len(d) + y BY <1>1, <2>1
  <2>3. y > x BY <1>1, <1>3, <2>2
  <2>4. f[m] = e[y] BY <1>1, <2>2
  <2> QED BY <2>3, <2>4
<1>4. Heeds(f, c, v) BY <1>2, <1>3 DEF Heeds
<1> QED BY <1>4 DEF f

LEMMA HeedsShifted ==
  ASSUME NEW d \in Seq(Msgs), d # <<>>, NEW c, NEW v, Heeds(d, c, v)
  PROVE  /\ Counts(Head(d)) => Heeds(Tail(d), Head(d).count, v)
         /\ ~Counts(Head(d)) => Heeds(Tail(d), c, v)
<1> DEFINE e == Tail(d)
<1>1. /\ Head(d) = d[1] /\ 1 \in DOMAIN d /\ DOMAIN d = 1 .. Len(d) /\ Len(d) \in Nat
      /\ DOMAIN e = 1 .. Len(d) - 1
      /\ \A n \in DOMAIN e : n + 1 \in DOMAIN d /\ e[n] = d[n + 1]
      /\ \A n \in DOMAIN d : n # 1 => n - 1 \in DOMAIN e /\ d[n] = e[n - 1]
  BY Shifted
<1> HIDE DEF e
<1>2. CASE c = v /\ \A n \in DOMAIN d : ~Counts(d[n])
  <2>1. \A n \in DOMAIN e : ~Counts(e[n]) BY <1>1, <1>2
  <2>2. ~Counts(Head(d)) BY <1>1, <1>2
  <2> QED BY <1>2, <2>1, <2>2 DEF Heeds, e
<1>3. ASSUME NEW n \in DOMAIN d, Counts(d[n]), d[n].count = v, \A m \in DOMAIN d : m > n => ~Counts(d[m])
      PROVE  /\ Counts(Head(d)) => Heeds(e, Head(d).count, v)
             /\ ~Counts(Head(d)) => Heeds(e, c, v)
  <2>1. CASE n = 1
    <3>1. ASSUME NEW m \in DOMAIN e PROVE ~Counts(e[m])
      <4>1. m + 1 \in DOMAIN d /\ m + 1 > n /\ e[m] = d[m + 1] BY <1>1, <2>1
      <4> QED BY <1>3, <4>1
    <3> QED BY <1>1, <1>3, <2>1, <3>1 DEF Heeds
  <2>2. CASE n # 1
    <3>1. n - 1 \in DOMAIN e /\ e[n - 1] = d[n] BY <1>1, <2>2
    <3>2. ASSUME NEW m \in DOMAIN e, m > n - 1 PROVE ~Counts(e[m])
      <4>1. m + 1 \in DOMAIN d /\ m + 1 > n /\ e[m] = d[m + 1] BY <1>1, <3>2
      <4> QED BY <1>3, <4>1
    <3> QED BY <1>3, <3>1, <3>2 DEF Heeds
  <2> QED BY <2>1, <2>2
<1>4. (c = v /\ \A n \in DOMAIN d : ~Counts(d[n]))
      \/ \E n \in DOMAIN d : Counts(d[n]) /\ d[n].count = v /\ \A m \in DOMAIN d : m > n => ~Counts(d[m])
  BY DEF Heeds
<1> QED BY <1>2, <1>3, <1>4 DEF e

LEMMA SitsJoined ==
  ASSUME NEW d \in Seq(Msgs), NEW e \in Seq(Msgs), NEW c, NEW v, 
         \A n \in DOMAIN e : e[n].type = "INFO" => e[n].sit = v
  PROVE  /\ Sits(d, c, v) => Sits(d \o e, c, v)
         /\ ~Has(d, "INFO") /\ Has(e, "INFO") => Sits(d \o e, c, v)
<1> DEFINE f == d \o e
<1>1. /\ DOMAIN d = 1 .. Len(d) /\ DOMAIN e = 1 .. Len(e) /\ DOMAIN f = 1 .. Len(d) + Len(e)
      /\ \A n \in DOMAIN d : f[n] = d[n]
      /\ \A n \in DOMAIN e : f[Len(d) + n] = e[n]
      /\ \A n \in DOMAIN f : n \in DOMAIN d \/ \E m \in DOMAIN e : n = Len(d) + m
  BY Joined
<1>2. Has(f, "INFO") <=> Has(d, "INFO") \/ Has(e, "INFO") BY HasJoined
<1> HIDE DEF f
<1>3. ASSUME \A n \in DOMAIN d : d[n].type = "INFO" => d[n].sit = v
      PROVE  \A n \in DOMAIN f : f[n].type = "INFO" => f[n].sit = v
  BY <1>1, <1>3
<1>4. Sits(d, c, v) => Sits(f, c, v) BY <1>2, <1>3 DEF Sits
<1>5. ~Has(d, "INFO") /\ Has(e, "INFO") => Sits(f, c, v)
  <2>1. ~Has(d, "INFO") => \A n \in DOMAIN d : d[n].type = "INFO" => d[n].sit = v BY DEF Has
  <2> QED BY <1>2, <1>3, <2>1 DEF Sits
<1> QED BY <1>4, <1>5 DEF f

LEMMA SitsShifted ==
  ASSUME NEW d \in Seq(Msgs), d # <<>>, NEW c, NEW v, Sits(d, c, v)
  PROVE  /\ Head(d).type = "INFO" => Sits(Tail(d), Head(d).sit, v)
         /\ Head(d).type # "INFO" => Sits(Tail(d), c, v)
<1> DEFINE e == Tail(d)
<1>1. /\ Head(d) = d[1] /\ 1 \in DOMAIN d
      /\ \A n \in DOMAIN e : n + 1 \in DOMAIN d /\ e[n] = d[n + 1]
  BY Shifted
<1>2. Has(d, "INFO") <=> Head(d).type = "INFO" \/ Has(e, "INFO") BY HasShifted
<1> HIDE DEF e
<1>3. \A n \in DOMAIN e : e[n].type = "INFO" => e[n].sit = v BY <1>1 DEF Sits
<1>4. Head(d).type = "INFO" => Head(d).sit = v BY <1>1 DEF Sits
<1>5. c = v \/ Has(d, "INFO") BY DEF Sits
<1>6. Head(d).type = "INFO" => Sits(e, Head(d).sit, v) BY <1>3, <1>4 DEF Sits
<1>7. Head(d).type # "INFO" => Sits(e, c, v) BY <1>2, <1>3, <1>5 DEF Sits
<1> QED BY <1>6, <1>7 DEF e

-----------------------------------------------------------------------------
(* What the invariant says of a connection and of its player.               *)

LEMMA TypeFacts ==
  ASSUME TypeOK
  PROVE  /\ host \in Hosts /\ host.count \in Nat
         /\ Len(by) \in Nat /\ Conns = 1 .. Len(by) /\ 0 \notin Conns
         /\ by \in Seq(Joiners) /\ up \in Seq(Seq({"LEAVE", "EOF"})) /\ down \in Seq(Seq(Msgs))
         /\ DOMAIN up = Conns /\ DOMAIN down = Conns
         /\ \A c \in Conns : /\ c \in Nat \ {0} /\ by[c] \in Joiners
                             /\ up[c] \in Seq({"LEAVE", "EOF"}) /\ down[c] \in Seq(Msgs)
         /\ \A j \in Joiners : client[j] \in Clients
         /\ client \in [Joiners -> Clients]
         /\ lost \in Nat /\ lobby.heads \in Nat /\ lobby.linked \subseteq Joiners
<1>1. host \in Hosts /\ host.count \in Nat BY DEF TypeOK, Hosts
<1>2. by \in Seq(Joiners) /\ up \in Seq(Seq({"LEAVE", "EOF"})) /\ down \in Seq(Seq(Msgs))
      /\ Len(up) = Len(by) /\ Len(down) = Len(by)
  BY DEF TypeOK, Msgs
<1>3. Len(by) \in Nat /\ Conns = 1 .. Len(by) /\ DOMAIN up = 1 .. Len(by) /\ DOMAIN down = 1 .. Len(by)
  BY <1>2 DEF Conns
<1>4. ASSUME NEW c \in Conns
      PROVE  /\ c \in Nat \ {0} /\ by[c] \in Joiners
             /\ up[c] \in Seq({"LEAVE", "EOF"}) /\ down[c] \in Seq(Msgs)
  BY <1>2, <1>3
<1>5. client \in [Joiners -> Clients] BY DEF TypeOK
<1>6. lost \in Nat
  <2>1. MaxConns \in Nat BY TableAssumption
  <2> QED BY <2>1 DEF TypeOK
<1>7. lobby.heads \in Nat /\ lobby.linked \subseteq Joiners
  <2>1. TableSize \in Nat BY TableAssumption
  <2> QED BY <2>1 DEF TypeOK
<1> QED BY <1>1, <1>2, <1>3, <1>4, <1>5, <1>6, <1>7

LEMMA HeldFacts ==
  ASSUME TypeOK, Links
  PROVE  /\ \A c \in Conns : Held(c) => client[by[c]].at = "in" /\ client[by[c]].conn = c
         /\ \A j \in Joiners : client[j].at = "in" =>
              client[j].conn \in Conns /\ Held(client[j].conn) /\ by[client[j].conn] = j
<1>1. \A c \in Conns : by[c] \in Joiners /\ c # 0 BY TypeFacts
<1>2. \A j \in Joiners : client[j].at # "in" => client[j].conn = 0 BY DEF Links
<1>3. \A j \in Joiners : client[j].at = "in" => client[j].conn \in Conns /\ by[client[j].conn] = j
  BY DEF Links
<1> QED BY <1>1, <1>2, <1>3 DEF Held

LEMMA PresentFinite ==
  /\ Called \subseteq Joiners /\ IsFiniteSet(Called) /\ Cardinality(Called) \in Nat
  /\ Present \subseteq Joiners /\ IsFiniteSet(Present) /\ Cardinality(Present) \in Nat
<1>1. IsFiniteSet(Joiners) BY TableAssumption
<1>2. Called \subseteq Joiners /\ Present \subseteq Joiners BY DEF Called, Present
<1> QED BY <1>1, <1>2, FS_Subset, FS_CardinalityType

LEMMA PartOfConns ==
  ASSUME NEW n \in Nat, NEW S, NEW T, S \subseteq T, T \subseteq 1 .. n
  PROVE  /\ IsFiniteSet(S) /\ IsFiniteSet(T)
         /\ Cardinality(S) \in Nat /\ Cardinality(T) \in Nat
         /\ Cardinality(S) <= Cardinality(T) /\ Cardinality(T) <= n
<1>1. IsFiniteSet(1 .. n) /\ Cardinality(1 .. n) = IF 1 > n THEN 0 ELSE n - 1 + 1 BY FS_Interval
<1>2. Cardinality(1 .. n) = n BY <1>1
<1>3. IsFiniteSet(T) /\ Cardinality(T) <= Cardinality(1 .. n) BY <1>1, FS_Subset
<1>4. IsFiniteSet(S) /\ Cardinality(S) <= Cardinality(T) BY <1>3, FS_Subset
<1> QED BY <1>2, <1>3, <1>4, FS_CardinalityType

\* What only moves messages between the host and the lobby.
LEMMA SameAtTable ==
  ASSUME Links, Bounded, Lines, Informed,
         UNCHANGED <<client, by, up, down, backlog, lost>>,
         host'.slot = host.slot, host'.count = host.count
  PROVE  Links' /\ Bounded' /\ Lines' /\ Informed'
<1>1. InTable(host') = InTable(host) BY DEF InTable
<1>2. Conns' = Conns /\ \A c : Held(c)' <=> Held(c) BY DEF Conns, Held
<1>3. Links' BY <1>1, <1>2 DEF Links
<1>4. Bounded'
  <2>1. Called' = Called BY DEF Called
  <2>2. Parted' = Parted BY <1>2 DEF Parted
  <2> QED BY <2>1, <2>2 DEF Bounded
<1>5. Lines'
  <2>1. \A c : Seated(c)' <=> Seated(c) BY <1>1 DEF Seated
  <2>2. \A c : Queued(c)' <=> Queued(c) BY DEF Queued
  <2>3. \A c : LineOK(c)' <=> LineOK(c) BY <1>2, <2>1, <2>2 DEF LineOK, AtHost
  <2> QED BY <1>2, <2>3 DEF Lines
<1>6. Informed' BY <1>1, <1>2 DEF Informed
<1> QED BY <1>3, <1>4, <1>5, <1>6

\* What is left when the first message is taken.
LEMMA HeadTail ==
  ASSUME NEW S, NEW q \in Seq(S), q # <<>>
  PROVE  /\ Tail(q) \in Seq(S) /\ Head(q) \in S /\ Head(q) = q[1] /\ 1 \in DOMAIN q
         /\ Len(q) \in Nat /\ Len(q) >= 1 /\ Len(Tail(q)) = Len(q) - 1
         /\ DOMAIN q = 1 .. Len(q) /\ DOMAIN Tail(q) = 1 .. Len(q) - 1
         /\ \A n \in DOMAIN Tail(q) : n + 1 \in DOMAIN q /\ Tail(q)[n] = q[n + 1]
OBVIOUS

LEMMA OneChanged ==
  ASSUME NEW S, NEW q \in Seq(S), NEW k \in DOMAIN q, NEW u \in S
  PROVE  /\ [q EXCEPT ![k] = u] \in Seq(S) /\ Len([q EXCEPT ![k] = u]) = Len(q)
         /\ [q EXCEPT ![k] = u][k] = u
         /\ \A c \in DOMAIN q \ {k} : [q EXCEPT ![k] = u][c] = q[c]
OBVIOUS

LEMMA SeqOfFunction ==
  ASSUME NEW S, NEW n \in Nat, NEW f \in [1 .. n -> S]
  PROVE  f \in Seq(S) /\ Len(f) = n /\ DOMAIN f = 1 .. n
OBVIOUS

-----------------------------------------------------------------------------
(* One lemma per action.                                                    *)

LEMMA InitInv == Init => Inv
<1> SUFFICES ASSUME Init PROVE Inv OBVIOUS
<1> USE DEF Init
<1>1. by = <<>> /\ Conns = {} BY DEF Conns
<1>2. InTable(host) = {}
  <2>1. \A i \in Slots : host.slot[i].conn = 0 BY DEF Blank
  <2> QED BY <2>1 DEF InTable
<1>3. Cardinality(InTable(host)) = 0 BY <1>2, FS_EmptySet
<1>4. TypeOK
  <2>1. MaxPlayer \in Nat /\ MaxConns \in Nat /\ MaxPlayer >= 3 /\ TableSize \in 2 .. 4
    BY TableAssumption
  <2>2. Nobody \in Names /\ 1 \in Seats BY DEF Names, Seats
  <2>3. host \in Hosts
    <3>1. [i \in Slots |-> Blank] \in [Slots -> [conn : 0 .. MaxConns, sit : {0} \cup Seats, name : Names, money : Names]]
      BY <2>1, <2>2 DEF Blank
    <3>2. [s \in Seats |-> IF s = 1 THEN 1 ELSE 0] \in [Seats -> 0 .. MaxPlayer - 1] BY <2>1
    <3> QED BY <2>2, <3>1, <3>2 DEF Hosts
  <2>4. client \in [Joiners -> Clients] BY <2>1 DEF Idle, Clients
  <2>5. lobby \in [heads : 0 .. TableSize, linked : SUBSET Joiners] BY <2>1
  <2> QED BY <1>1, <2>1, <2>3, <2>4, <2>5 DEF TypeOK
<1>5. \A j \in Joiners : client[j].at = "idle" /\ client[j].conn = 0 BY DEF Idle
<1>6. Links BY <1>2, <1>3, <1>5 DEF Links
<1>7. Called = {} BY <1>5 DEF Called
<1>8. Bounded
  <2>1. Parted = {} BY <1>1 DEF Parted
  <2>2. MaxConns \in Nat BY TableAssumption
  <2> QED BY <1>1, <1>7, <2>1, <2>2, FS_EmptySet DEF Bounded
<1>9. Lines BY <1>1 DEF Lines
<1>10. Informed BY <1>2 DEF Informed
<1>11. Heads
  <2>1. ~Has(toLobby, "LEAVE") BY DEF Has
  <2>2. Present = {} BY <1>5 DEF Present
  <2> QED BY <1>2, <1>5, <2>1, <2>2, FS_EmptySet DEF Heads
<1> QED BY <1>4, <1>6, <1>8, <1>9, <1>10, <1>11 DEF Inv

LEMMA LobbyHearsLeaveStep ==
  ASSUME Inv, NEW j \in Joiners, LobbyHearsLeave(j)
  PROVE  Inv'
<1> USE DEF LobbyHearsLeave
<1>1. TypeOK /\ Links /\ Bounded /\ Lines /\ Informed /\ Heads BY DEF Inv
<1>2. lobby \in [heads : 0 .. TableSize, linked : SUBSET Joiners] /\ TableSize \in Nat
  BY <1>1, TableAssumption DEF TypeOK
<1>3. lobby' \in [heads : 0 .. TableSize, linked : SUBSET Joiners] BY <1>2
<1>4. TypeOK' BY <1>1, <1>3 DEF TypeOK, Conns
<1>5. Links' /\ Bounded' /\ Lines' /\ Informed' BY <1>1, SameAtTable
<1>6. Heads'
  <2>1. client[j].at = "idle" BY <1>1 DEF Heads
  <2>2. Present' = Present \ {j} /\ j \in Present BY <2>1 DEF Present
  <2>3. Cardinality(Present') = Cardinality(Present) - 1 /\ Cardinality(Present) \in Nat
    BY <2>2, PresentFinite, FS_RemoveElement
  <2>4. ASSUME host.serving
        PROVE  /\ 1 + Cardinality(lobby'.linked) <= lobby'.heads
               /\ lobby'.heads <= 1 + Cardinality(Present') + lost
               /\ lobby'.linked = lobby.linked \ {j}
    <3>1. j \in lobby.linked BY <1>1, <2>4 DEF Heads
    <3>2. IsFiniteSet(lobby.linked)
      <4>1. lobby.linked \in SUBSET Joiners BY <1>2
      <4> QED BY <4>1, TableAssumption, FS_Subset
    <3>3. Cardinality(lobby.linked \ {j}) = Cardinality(lobby.linked) - 1
          /\ Cardinality(lobby.linked) \in Nat /\ Cardinality(lobby.linked \ {j}) \in Nat
      BY <3>1, <3>2, FS_RemoveElement, FS_CardinalityType
    <3>4. 1 + Cardinality(lobby.linked) <= lobby.heads
          /\ lobby.heads <= 1 + Cardinality(Present) + lost
      BY <1>1, <2>4 DEF Heads
    <3>5. lobby.heads \in Nat /\ lost \in Nat BY <1>1, TypeFacts
    <3>6. lobby.heads > 0 BY <3>3, <3>4, <3>5
    <3>7. lobby'.heads = lobby.heads - 1 /\ lobby'.linked = lobby.linked \ {j}
      BY <3>1, <3>6
    <3> QED BY <2>3, <3>3, <3>4, <3>5, <3>7
  <2>5. \A x \in leaving' : client[x].at = "idle" BY <1>1 DEF Heads
  <2>6. leaving' = leaving \ {j} /\ host' = host /\ toLobby' = toLobby /\ client' = client /\ lost' = lost
    OBVIOUS
  <2>7. ASSUME host.serving
        PROVE  /\ \A x \in Joiners : client[x].at # "idle" => x \in lobby'.linked
               /\ leaving' \subseteq lobby'.linked
    <3>1. \A x \in Joiners : client[x].at # "idle" => x \in lobby.linked BY <1>1, <2>7 DEF Heads
    <3>2. leaving \subseteq lobby.linked BY <1>1, <2>7 DEF Heads
    <3> QED BY <2>1, <2>4, <2>6, <2>7, <3>1, <3>2
  <2>8. (Has(toLobby, "LEAVE") => ~host.serving) /\ (~host.serving => InTable(host) = {})
    BY <1>1 DEF Heads
  <2> QED BY <2>4, <2>5, <2>6, <2>7, <2>8 DEF Heads
<1> QED BY <1>4, <1>5, <1>6 DEF Inv

LEMMA LobbyHearsHostStep ==
  ASSUME Inv, LobbyHearsHost
  PROVE  Inv'
<1> USE DEF LobbyHearsHost
<1>1. TypeOK /\ Links /\ Bounded /\ Lines /\ Informed /\ Heads BY DEF Inv
<1>2. toLobby \in Seq([type : {"START", "LEAVE"}]) BY <1>1 DEF TypeOK
<1>3. /\ toLobby' \in Seq([type : {"START", "LEAVE"}])
      /\ Head(toLobby) \in [type : {"START", "LEAVE"}]
      /\ Head(toLobby) = toLobby[1] /\ 1 \in DOMAIN toLobby
      /\ \A n \in DOMAIN toLobby' : n + 1 \in DOMAIN toLobby /\ toLobby'[n] = toLobby[n + 1]
  <2> DEFINE T == [type : {"START", "LEAVE"}]
             q == toLobby
  <2>1. q # <<>> /\ toLobby' = Tail(q) /\ q \in Seq(T) BY <1>2
  <2> HIDE DEF T, q, LobbyHearsHost
  <2>2. /\ Tail(q) \in Seq(T) /\ Head(q) \in T /\ Head(q) = q[1] /\ 1 \in DOMAIN q
        /\ \A n \in DOMAIN Tail(q) : n + 1 \in DOMAIN q /\ Tail(q)[n] = q[n + 1]
    BY <2>1, HeadTail
  <2> QED BY <2>1, <2>2 DEF T, q
<1>4. lobby' \in [heads : 0 .. TableSize, linked : SUBSET Joiners]
  <2>1. lobby \in [heads : 0 .. TableSize, linked : SUBSET Joiners] BY <1>1 DEF TypeOK
  <2>2. TableSize \in Nat BY TableAssumption
  <2> QED BY <2>1, <2>2
<1>5. news' \in Seq([type : {"MONEY", "JOIN"}, who : Joiners] \cup [type : {"START"}])
  <2>1. news \in Seq([type : {"MONEY", "JOIN"}, who : Joiners] \cup [type : {"START"}])
    BY <1>1 DEF TypeOK
  <2> QED BY <2>1
<1>6. TypeOK' BY <1>1, <1>3, <1>4, <1>5 DEF TypeOK, Conns
<1>7. Links' /\ Bounded' /\ Lines' /\ Informed' BY <1>1, SameAtTable
<1>8. Heads'
  <2>1. Present' = Present BY DEF Present
  <2>2. Has(toLobby', "LEAVE") => Has(toLobby, "LEAVE") BY <1>3 DEF Has
  <2>3. Head(toLobby).type = "LEAVE" => Has(toLobby, "LEAVE") BY <1>3 DEF Has
  <2>4. host.serving => lobby' = lobby BY <1>1, <1>3, <2>3 DEF Heads
  <2>5. host' = host /\ client' = client /\ leaving' = leaving /\ lost' = lost OBVIOUS
  <2> QED BY <1>1, <2>1, <2>2, <2>4, <2>5 DEF Heads
<1> QED BY <1>6, <1>7, <1>8 DEF Inv

LEMMA HeardFacts ==
  ASSUME TypeOK, news # <<>>
  PROVE  /\ Heard \in Hosts
         /\ Heard.slot = host.slot /\ Heard.count = host.count /\ Heard.table = host.table
         /\ Heard.serving <=> host.serving
         /\ Head(news).type = "MONEY" =>
              Heard.money = Head(news).who /\ Heard.name = host.name /\ (Heard.coming <=> host.coming)
         /\ Head(news).type = "JOIN" =>
              Heard.money = host.money /\ Heard.name = Head(news).who /\ Heard.coming
         /\ Head(news).type \notin {"MONEY", "JOIN"} => Heard = host
<1> DEFINE m == Head(news)
           N == [type : {"MONEY", "JOIN"}, who : Joiners] \cup [type : {"START"}]
<1>1. m \in N
  <2>1. news \in Seq(N) BY DEF TypeOK
  <2> HIDE DEF N
  <2> QED BY <2>1, HeadTail
<1>2. host \in Hosts BY DEF TypeOK
<1>3. m.type \in {"MONEY", "JOIN"} => m.who \in Names BY <1>1 DEF Names
<1>4. Heard = CASE m.type = "MONEY" -> [host EXCEPT !.money = m.who]
                [] m.type = "JOIN"  -> [host EXCEPT !.name = m.who, !.coming = TRUE]
                [] OTHER            -> host
  BY DEF Heard
<1> HIDE DEF m
<1>5. CASE m.type = "MONEY"
  <2>1. Heard = [host EXCEPT !.money = m.who] BY <1>4, <1>5
  <2>2. m.who \in Names BY <1>3, <1>5
  <2> QED BY <1>2, <1>5, <2>1, <2>2 DEF Hosts, m
<1>6. CASE m.type = "JOIN"
  <2>1. Heard = [host EXCEPT !.name = m.who, !.coming = TRUE] BY <1>4, <1>6
  <2>2. m.who \in Names BY <1>3, <1>6
  <2>3. Heard \in Hosts BY <1>2, <2>1, <2>2 DEF Hosts
  <2>4. /\ Heard.slot = host.slot /\ Heard.count = host.count /\ Heard.table = host.table
        /\ Heard.money = host.money /\ Heard.name = m.who
    BY <1>2, <2>1 DEF Hosts
  <2>5. Heard.serving <=> host.serving BY <1>2, <2>1 DEF Hosts
  <2>6. Heard.coming BY <1>2, <2>1 DEF Hosts
  <2> QED BY <1>6, <2>3, <2>4, <2>5, <2>6 DEF m
<1>7. CASE m.type \notin {"MONEY", "JOIN"}
  <2>1. Heard = host BY <1>4, <1>7
  <2> QED BY <1>2, <1>7, <2>1 DEF m
<1> QED BY <1>5, <1>6, <1>7

LEMMA HearLobbyStep ==
  ASSUME Inv, HearLobby
  PROVE  Inv'
<1> USE DEF HearLobby
<1>1. TypeOK /\ Links /\ Bounded /\ Lines /\ Informed /\ Heads BY DEF Inv
<1>2. /\ host' \in Hosts /\ host'.slot = host.slot /\ host'.count = host.count
      /\ host'.serving <=> host.serving
  BY <1>1, HeardFacts
<1>3. news' \in Seq([type : {"MONEY", "JOIN"}, who : Joiners] \cup [type : {"START"}])
  <2> DEFINE N == [type : {"MONEY", "JOIN"}, who : Joiners] \cup [type : {"START"}]
  <2>1. news \in Seq(N) /\ news # <<>> /\ news' = Tail(news) BY <1>1 DEF TypeOK
  <2> HIDE DEF N, HearLobby
  <2>2. news' \in Seq(N) BY <2>1, HeadTail
  <2> QED BY <2>2 DEF N
<1>4. TypeOK' BY <1>1, <1>2, <1>3 DEF TypeOK, Conns
<1>5. Links' /\ Bounded' /\ Lines' /\ Informed' BY <1>1, <1>2, SameAtTable
<1>6. Heads'
  <2>1. Present' = Present BY DEF Present
  <2>2. InTable(host') = InTable(host) BY <1>2 DEF InTable
  <2> QED BY <1>1, <1>2, <2>1, <2>2 DEF Heads
<1> QED BY <1>4, <1>5, <1>6 DEF Inv

LEMMA CalledAreComing ==
  ASSUME TypeOK
  PROVE  /\ Called \subseteq Coming /\ Coming \subseteq Joiners
         /\ IsFiniteSet(Coming) /\ Cardinality(Called) <= Cardinality(Coming)
         /\ Cardinality(Coming) \in Nat
<1>1. Called \subseteq Coming BY DEF Called, Coming
<1>2. \A n \in DOMAIN backlog : backlog[n] \in Conns BY DEF TypeOK
<1>3. \A c \in Conns : by[c] \in Joiners BY TypeFacts
<1>4. Coming \subseteq Joiners BY <1>2, <1>3 DEF Coming
<1>5. IsFiniteSet(Coming) BY <1>4, TableAssumption, FS_Subset
<1> QED BY <1>1, <1>4, <1>5, FS_Subset, FS_CardinalityType

LEMMA JoinStep ==
  ASSUME Inv, NEW j \in Joiners, Join(j)
  PROVE  Inv'
<1>1. TypeOK /\ Links /\ Bounded /\ Lines /\ Informed /\ Heads BY DEF Inv
<1>2. /\ client[j].at = "idle" /\ j \notin leaving /\ client \in [Joiners -> Clients]
      /\ client' = [client EXCEPT ![j] = [Idle EXCEPT !.at = "called"]]
      /\ UNCHANGED <<host, leaving, toLobby, by, up, down, backlog, lost>>
      /\ news' = news \o <<[type |-> "MONEY", who |-> j], [type |-> "JOIN", who |-> j]>>
      /\ lobby.heads \in 1 .. TableSize - 1
      /\ lobby' = [heads |-> lobby.heads + 1, linked |-> lobby.linked \cup {j}]
  BY <1>1 DEF Join, TypeOK
<1>3. client[j].conn = 0 BY <1>1, <1>2 DEF Links
<1>4. /\ client'[j] = [at |-> "called", conn |-> 0, count |-> 0, sit |-> 0]
      /\ \A x \in Joiners \ {j} : client'[x] = client[x]
  BY <1>2 DEF Idle
<1>5. Conns' = Conns /\ \A c \in Conns : by[c] \in Joiners /\ c # 0 BY <1>1, <1>2, TypeFacts DEF Conns
<1>6. \A c \in Conns : (Held(c)' <=> Held(c)) /\ (Held(c) => client'[by[c]] = client[by[c]])
  BY <1>2, <1>3, <1>4, <1>5 DEF Held
<1>7. TypeOK'
  <2>1. client' \in [Joiners -> Clients]
    <3>1. [Idle EXCEPT !.at = "called"] \in Clients
      <4>1. MaxConns \in Nat BY TableAssumption
      <4> QED BY <4>1 DEF Idle, Clients
    <3> QED BY <1>2, <3>1
  <2>2. lobby' \in [heads : 0 .. TableSize, linked : SUBSET Joiners]
    <3>1. TableSize \in Nat BY TableAssumption
    <3>2. lobby.linked \subseteq Joiners BY <1>1, TypeFacts
    <3> QED BY <1>2, <3>1, <3>2
  <2>3. news' \in Seq([type : {"MONEY", "JOIN"}, who : Joiners] \cup [type : {"START"}])
    <3> DEFINE N == [type : {"MONEY", "JOIN"}, who : Joiners] \cup [type : {"START"}]
               p == <<[type |-> "MONEY", who |-> j], [type |-> "JOIN", who |-> j]>>
    <3>1. p \in Seq(N) OBVIOUS
    <3>2. news \in Seq(N) BY <1>1 DEF TypeOK
    <3> HIDE DEF N, p
    <3>3. news \o p \in Seq(N) BY <3>1, <3>2
    <3> QED BY <1>2, <3>3 DEF N, p
  <2> QED BY <1>1, <1>2, <1>5, <2>1, <2>2, <2>3 DEF TypeOK
<1>8. Links'
  <2>1. \A x \in Joiners : client'[x].at = "in" => client'[x].conn \in Conns /\ by[client'[x].conn] = x
    BY <1>1, <1>4 DEF Links
  <2>2. \A x \in Joiners : client'[x].at # "in" => client'[x].conn = 0
    BY <1>1, <1>4 DEF Links
  <2> QED BY <1>1, <1>2, <1>5, <2>1, <2>2 DEF Links
<1>9. Bounded'
  <2>1. Called' = Called \cup {j} /\ j \notin Called BY <1>2, <1>4 DEF Called
  <2>2. Cardinality(Called') = Cardinality(Called) + 1 /\ Cardinality(Called) \in Nat
    BY <2>1, PresentFinite, FS_AddElement
  <2>3. Len(by) + Cardinality(Coming) < MaxConns BY DEF Join
  <2>4. Cardinality(Called) <= Cardinality(Coming) /\ Cardinality(Coming) \in Nat
    BY <1>1, CalledAreComing
  <2>5. Len(by) \in Nat /\ MaxConns \in Nat BY <1>1, TypeFacts, TableAssumption
  <2>6. Len(by') + Cardinality(Called') <= MaxConns BY <1>2, <2>2, <2>3, <2>4, <2>5
  <2>7. Parted' = Parted BY <1>2, <1>5, <1>6 DEF Parted
  <2> QED BY <1>1, <1>2, <2>6, <2>7 DEF Bounded
<1>10. Lines'
  <2>1. \A c : (Seated(c)' <=> Seated(c)) /\ (Queued(c)' <=> Queued(c)) BY <1>2 DEF Seated, Queued
  <2>2. \A c \in Conns : LineOK(c) BY <1>1 DEF Lines
  <2>3. \A c \in Conns : LineOK(c)' BY <1>2, <1>6, <2>1, <2>2 DEF LineOK, AtHost
  <2> QED BY <1>5, <2>3 DEF Lines
<1>11. Informed'
  <2>1. \A i \in InTable(host) : host.slot[i].conn \in Conns BY <1>1 DEF Links
  <2> QED BY <1>1, <1>2, <1>6, <2>1 DEF Informed
<1>12. Heads'
  <2>1. Present' = Present \cup {j} /\ j \notin Present BY <1>2, <1>4 DEF Present
  <2>2. Cardinality(Present') = Cardinality(Present) + 1 /\ Cardinality(Present) \in Nat
    BY <2>1, PresentFinite, FS_AddElement
  <2>3. IsFiniteSet(lobby.linked)
    <3>1. lobby.linked \in SUBSET Joiners BY <1>1, TypeFacts
    <3> QED BY <3>1, TableAssumption, FS_Subset
  <2>4. Cardinality(lobby.linked) \in Nat
        /\ Cardinality(lobby.linked \cup {j}) \in Nat
        /\ Cardinality(lobby.linked \cup {j}) <= Cardinality(lobby.linked) + 1
    <3>1. Cardinality(lobby.linked) \in Nat BY <2>3, FS_CardinalityType
    <3>2. Cardinality(lobby.linked \cup {j}) =
            IF j \in lobby.linked THEN Cardinality(lobby.linked) ELSE Cardinality(lobby.linked) + 1
      BY <2>3, FS_AddElement
    <3> QED BY <3>1, <3>2
  <2>5. lobby'.heads = lobby.heads + 1 /\ lobby'.linked = lobby.linked \cup {j} /\ lobby.heads \in Nat
        /\ lost \in Nat
    BY <1>1, <1>2, TypeFacts
  <2>6. host.serving =>
          /\ 1 + Cardinality(lobby'.linked) <= lobby'.heads
          /\ lobby'.heads <= 1 + Cardinality(Present') + lost'
    <3>1. host.serving => 1 + Cardinality(lobby.linked) <= lobby.heads
                          /\ lobby.heads <= 1 + Cardinality(Present) + lost
      BY <1>1 DEF Heads
    <3>2. lost' = lost BY <1>2
    <3> QED BY <2>2, <2>4, <2>5, <3>1, <3>2
  <2>7. host.serving =>
          /\ \A x \in Joiners : client'[x].at # "idle" => x \in lobby'.linked
          /\ leaving' \subseteq lobby'.linked
    BY <1>1, <1>2, <1>4, <2>5 DEF Heads
  <2>8. \A x \in leaving' : client'[x].at = "idle"
    <3>1. leaving \subseteq Joiners BY <1>1 DEF TypeOK
    <3> QED BY <1>1, <1>2, <1>4, <3>1 DEF Heads
  <2>9. (Has(toLobby, "LEAVE") => ~host.serving) /\ (~host.serving => InTable(host) = {})
    BY <1>1 DEF Heads
  <2> QED BY <1>2, <2>6, <2>7, <2>8, <2>9 DEF Heads
<1> QED BY <1>7, <1>8, <1>9, <1>10, <1>11, <1>12 DEF Inv

LEMMA ConnectStep ==
  ASSUME Inv, NEW j \in Joiners, Connect(j)
  PROVE  Inv'
<1>0. PICK k : k = Len(by) + 1 OBVIOUS
<1>1. TypeOK /\ Links /\ Bounded /\ Lines /\ Informed /\ Heads BY DEF Inv
<1>2. /\ host \in Hosts /\ Len(by) \in Nat /\ Conns = 1 .. Len(by)
      /\ by \in Seq(Joiners) /\ up \in Seq(Seq({"LEAVE", "EOF"})) /\ down \in Seq(Seq(Msgs))
      /\ Len(up) = Len(by) /\ Len(down) = Len(by)
      /\ \A c \in Conns : by[c] \in Joiners /\ c # 0
      /\ client \in [Joiners -> Clients]
  BY <1>1, TypeFacts DEF TypeOK
<1>3. /\ client[j].at = "called"
      /\ by' = Append(by, j) /\ up' = Append(up, <<>>) /\ down' = Append(down, <<>>)
      /\ backlog' = Append(backlog, Len(by'))
      /\ client' = [client EXCEPT ![j].at = "in", ![j].conn = Len(by')]
      /\ UNCHANGED <<host, lobby, leaving, toLobby, news, lost>>
  BY DEF Connect
<1>4. k \in Nat /\ k \notin Conns /\ Len(by') = k BY <1>0, <1>2, <1>3
<1>5. /\ by' \in Seq(Joiners) /\ up' \in Seq(Seq({"LEAVE", "EOF"})) /\ down' \in Seq(Seq(Msgs))
      /\ Len(up') = k /\ Len(down') = k /\ Conns' = 1 .. k
      /\ by'[k] = j /\ up'[k] = <<>> /\ down'[k] = <<>>
      /\ \A c \in Conns : by'[c] = by[c] /\ up'[c] = up[c] /\ down'[c] = down[c]
  <2>1. by' \in Seq(Joiners) /\ DOMAIN by' = 1 .. k /\ by'[k] = j /\ \A c \in 1 .. Len(by) : by'[c] = by[c]
    BY <1>0, <1>2, <1>3, <1>4
  <2>2. /\ up' \in Seq(Seq({"LEAVE", "EOF"})) /\ Len(up') = k /\ up'[k] = <<>>
        /\ \A c \in 1 .. Len(by) : up'[c] = up[c]
    <3> DEFINE S == Seq({"LEAVE", "EOF"})
               q == up
    <3>1. <<>> \in S /\ q \in Seq(S) BY <1>2
    <3> HIDE DEF S, q
    <3>2. Append(q, <<>>) \in Seq(S) /\ Len(Append(q, <<>>)) = Len(q) + 1
          /\ Append(q, <<>>)[Len(q) + 1] = <<>>
          /\ \A c \in 1 .. Len(q) : Append(q, <<>>)[c] = q[c]
      BY <3>1
    <3> QED BY <1>0, <1>2, <1>3, <3>2 DEF S, q
  <2>3. /\ down' \in Seq(Seq(Msgs)) /\ Len(down') = k /\ down'[k] = <<>>
        /\ \A c \in 1 .. Len(by) : down'[c] = down[c]
    <3> DEFINE S == Seq(Msgs)
               q == down
    <3>1. <<>> \in S /\ q \in Seq(S) BY <1>2
    <3> HIDE DEF S, q
    <3>2. Append(q, <<>>) \in Seq(S) /\ Len(Append(q, <<>>)) = Len(q) + 1
          /\ Append(q, <<>>)[Len(q) + 1] = <<>>
          /\ \A c \in 1 .. Len(q) : Append(q, <<>>)[c] = q[c]
      BY <3>1
    <3> QED BY <1>0, <1>2, <1>3, <3>2 DEF S, q
  <2> QED BY <1>2, <2>1, <2>2, <2>3 DEF Conns
<1>6. Conns' = Conns \cup {k}
  <2>1. Conns = 1 .. Len(by) /\ Conns' = 1 .. k /\ Len(by) \in Nat BY <1>2, <1>5
  <2> QED BY <1>0, <2>1
<1>7. /\ client'[j].at = "in" /\ client'[j].conn = k
      /\ client'[j].count = client[j].count /\ client'[j].sit = client[j].sit
      /\ \A x \in Joiners \ {j} : client'[x] = client[x]
  BY <1>2, <1>3, <1>4 DEF Clients
<1>8. client[j].conn = 0 BY <1>1, <1>3 DEF Links
<1>9. /\ \A c \in Conns : (Held(c)' <=> Held(c)) /\ (Held(c) => client'[by[c]] = client[by[c]])
      /\ Held(k)'
  <2>1. \A c \in Conns : by[c] = j => client[by[c]].conn # c /\ client'[by[c]].conn # c
    BY <1>2, <1>4, <1>7, <1>8
  <2>2. \A c \in Conns : by[c] # j => client'[by[c]] = client[by[c]] BY <1>2, <1>7
  <2>3. \A c \in Conns : by'[c] = by[c] BY <1>5
  <2> QED BY <1>5, <1>7, <2>1, <2>2, <2>3 DEF Held
<1>10. /\ backlog \in Seq(Conns) /\ backlog' \in Seq(Conns')
       /\ DOMAIN backlog' = 1 .. Len(backlog) + 1 /\ DOMAIN backlog = 1 .. Len(backlog) /\ Len(backlog) \in Nat
       /\ backlog'[Len(backlog) + 1] = k
       /\ \A n \in DOMAIN backlog : backlog'[n] = backlog[n] /\ backlog[n] \in Conns
  <2>1. backlog \in Seq(Conns) BY <1>1 DEF TypeOK
  <2>2. backlog' = Append(backlog, k) BY <1>3, <1>4
  <2>3. \A n \in DOMAIN backlog' : backlog'[n] \in Conns' BY <1>6, <2>1, <2>2
  <2> QED BY <2>1, <2>2, <2>3
<1>11. /\ \A c : Seated(c)' <=> Seated(c)
       /\ \A c \in Conns : Queued(c)' <=> Queued(c)
       /\ Queued(k)' /\ ~Seated(k) /\ \A c : Seated(c) => c \in Conns
  <2>1. \A c : Seated(c)' <=> Seated(c) BY <1>3 DEF Seated
  <2>2. \A n \in DOMAIN backlog' : n = Len(backlog) + 1 \/ n \in DOMAIN backlog BY <1>10
  <2>3. \A n \in DOMAIN backlog : n \in DOMAIN backlog' BY <1>10
  <2>4. \A c \in Conns : Queued(c)' <=> Queued(c) BY <1>4, <1>10, <2>2, <2>3 DEF Queued
  <2>5. Len(backlog) + 1 \in DOMAIN backlog' BY <1>10
  <2>6. Queued(k)' BY <1>10, <2>5 DEF Queued
  <2>7. \A c : Seated(c) => c \in Conns BY <1>1 DEF Seated, Links
  <2> QED BY <1>4, <2>1, <2>4, <2>6, <2>7
<1>12. Called' = Called \ {j} /\ j \in Called BY <1>3, <1>7 DEF Called
<1>13. k + Cardinality(Called') <= MaxConns /\ Cardinality(Called') \in Nat /\ k <= MaxConns
  <2>1. Cardinality(Called') = Cardinality(Called) - 1 /\ Cardinality(Called) \in Nat
        /\ Cardinality(Called') \in Nat
    BY <1>12, PresentFinite, FS_RemoveElement, FS_CardinalityType
  <2>2. Len(by) + Cardinality(Called) <= MaxConns BY <1>1 DEF Bounded
  <2>3. MaxConns \in Nat BY TableAssumption
  <2> QED BY <1>0, <1>2, <2>1, <2>2, <2>3
<1>14. TypeOK'
  <2>1. client' \in [Joiners -> Clients]
    <3>1. k \in 0 .. MaxConns
      <4>1. MaxConns \in Nat BY TableAssumption
      <4> QED BY <1>4, <1>13, <4>1
    <3>2. Len(by') = k BY <1>4
    <3>3. client' = [client EXCEPT ![j] = [client[j] EXCEPT !.at = "in", !.conn = k]]
      BY <1>2, <1>3, <3>2
    <3>4. client[j] \in Clients BY <1>2
    <3>5. [client[j] EXCEPT !.at = "in", !.conn = k] \in Clients BY <3>1, <3>4 DEF Clients
    <3> QED BY <1>2, <3>3, <3>5
  <2> QED BY <1>1, <1>3, <1>4, <1>5, <1>10, <1>13, <2>1 DEF TypeOK, Msgs
<1>15. Links'
  <2>1. \A x \in Joiners : client'[x].at = "in" => client'[x].conn \in Conns' /\ by'[client'[x].conn] = x
    <3>1. \A x \in Joiners \ {j} : client'[x].at = "in" => client'[x].conn \in Conns /\ by[client'[x].conn] = x
      BY <1>1, <1>7 DEF Links
    <3>2. \A c \in Conns : by'[c] = by[c] /\ c \in Conns' BY <1>5, <1>6
    <3>3. k \in Conns' /\ by'[k] = j BY <1>5, <1>6
    <3> QED BY <1>7, <3>1, <3>2, <3>3
  <2>2. \A x \in Joiners : client'[x].at # "in" => client'[x].conn = 0
    BY <1>1, <1>7 DEF Links
  <2>3. \A m, n \in DOMAIN backlog' : backlog'[m] = backlog'[n] => m = n
    <3>1. \A m, n \in DOMAIN backlog : backlog[m] = backlog[n] => m = n BY <1>1 DEF Links
    <3>2. \A n \in DOMAIN backlog' : n = Len(backlog) + 1 \/ n \in DOMAIN backlog BY <1>10
    <3> QED BY <1>4, <1>10, <3>1, <3>2
  <2>4. \A i \in InTable(host), n \in DOMAIN backlog' : host.slot[i].conn # backlog'[n]
    <3>1. \A n \in DOMAIN backlog' : n = Len(backlog) + 1 \/ n \in DOMAIN backlog BY <1>10
    <3>2. \A i \in InTable(host) : host.slot[i].conn \in Conns BY <1>1 DEF Links
    <3>3. \A i \in InTable(host), n \in DOMAIN backlog : host.slot[i].conn # backlog[n] BY <1>1 DEF Links
    <3> QED BY <1>4, <1>10, <3>1, <3>2, <3>3
  <2>5. /\ \A i \in InTable(host) : host.slot[i].conn \in Conns'
        /\ \A x, y \in InTable(host) : host.slot[x].conn = host.slot[y].conn => x = y
        /\ host.count = 1 + Cardinality(InTable(host))
    BY <1>1, <1>6 DEF Links
  <2>6. host' = host BY <1>3
  <2>7. InTable(host') = InTable(host) BY <2>6
  <2> QED BY <2>1, <2>2, <2>3, <2>4, <2>5, <2>6, <2>7 DEF Links
<1>16. Bounded'
  <2>1. Parted' = Parted
    <3>1. ~Has(down'[k], "EOF") BY <1>5 DEF Has
    <3> QED BY <1>5, <1>6, <1>9, <3>1 DEF Parted
  <2> QED BY <1>1, <1>3, <1>4, <1>13, <2>1 DEF Bounded
<1>17. Lines'
  <2>1. \A c \in Conns : LineOK(c) BY <1>1 DEF Lines
  <2>2. \A c \in Conns : LineOK(c)'
    <3>1. \A c \in Conns : up'[c] = up[c] /\ down'[c] = down[c] BY <1>5
    <3> QED BY <1>9, <1>11, <2>1, <3>1 DEF LineOK, AtHost
  <2>3. LineOK(k)'
    <3>1. ~Has(down'[k], "EOF") /\ ~Has(down'[k], "LEAVE") BY <1>5 DEF Has
    <3>2. \A n \in DOMAIN down'[k] : down'[k][n].type = "EOF" BY <1>5
    <3> QED BY <1>5, <1>9, <1>11, <3>1, <3>2 DEF LineOK, AtHost
  <2> QED BY <1>6, <2>2, <2>3 DEF Lines
<1>18. Informed'
  <2>1. \A i \in InTable(host) : host.slot[i].conn \in Conns BY <1>1 DEF Links
  <2>2. \A c \in Conns : by'[c] = by[c] /\ down'[c] = down[c] BY <1>5
  <2>3. host' = host BY <1>3
  <2> QED BY <1>1, <1>9, <2>1, <2>2, <2>3 DEF Informed
<1>19. Heads'
  <2>1. Present' = Present
    <3>1. ~Broken(down'[k]) BY <1>5 DEF Broken
    <3>2. \A x \in Joiners \ {j} : client[x].at = "in" => down'[client[x].conn] = down[client[x].conn]
      BY <1>1, <1>5 DEF Links
    <3>3. \A x \in Joiners \ {j} : x \in Present' <=> x \in Present BY <1>3, <1>7, <3>2 DEF Present
    <3>4. j \in Present' /\ j \in Present BY <1>3, <1>7, <3>1 DEF Present
    <3> QED BY <3>3, <3>4 DEF Present
  <2>2. \A x \in Joiners : client'[x].at = "idle" <=> client[x].at = "idle" BY <1>3, <1>7
  <2>3. leaving \subseteq Joiners BY <1>1 DEF TypeOK
  <2> QED BY <1>1, <1>3, <2>1, <2>2, <2>3 DEF Heads
<1> QED BY <1>14, <1>15, <1>16, <1>17, <1>18, <1>19 DEF Inv

\* What happens on one connection leaves the others alone.
LEMMA OneLine ==
  ASSUME TypeOK, Links, Lines, Informed,
         NEW k \in Conns, NEW j \in Joiners, by[k] = j, Held(k),
         UNCHANGED <<host, by, backlog>>,
         \A c \in Conns \ {k} : up'[c] = up[c] /\ down'[c] = down[c],
         \A x \in Joiners \ {j} : client'[x] = client[x],
         \/ client'[j].at = "in" /\ client'[j].conn = k
         \/ client'[j].at = "idle" /\ client'[j].conn = 0,
         LineOK(k)',
         \A i \in InTable(host) : host.slot[i].conn = k /\ Held(k)' /\ ~Has(down'[k], "EOF") =>
           /\ Heeds(down'[k], client'[j].count, host.count)
           /\ Sits(down'[k], client'[j].sit, host.slot[i].sit)
  PROVE  /\ Links' /\ Lines' /\ Informed' /\ Conns' = Conns /\ Called' = Called
         /\ \A c \in Conns \ {k} : Held(c)' <=> Held(c)
         /\ \A x \in Joiners \ {j} : client[x].at = "in" =>
              client[x].conn \in Conns \ {k} /\ down'[client[x].conn] = down[client[x].conn]
<1>1. Conns' = Conns BY DEF Conns
<1>2. /\ \A c \in Conns : by[c] \in Joiners /\ c # 0
      /\ client[j].at = "in" /\ client[j].conn = k
  BY TypeFacts, HeldFacts
<1>3. \A c \in Conns \ {k} : (Held(c)' <=> Held(c)) /\ (Held(c) => client'[by[c]] = client[by[c]])
  <2>1. \A c \in Conns \ {k} : by[c] = j => client[by[c]].conn # c /\ client'[by[c]].conn # c
    BY <1>2
  <2>2. \A c \in Conns : by[c] # j => client'[by[c]] = client[by[c]] BY <1>2
  <2> QED BY <2>1, <2>2 DEF Held
<1>4. Links'
  <2>1. \A x \in Joiners : client'[x].at = "in" => client'[x].conn \in Conns /\ by[client'[x].conn] = x
    BY DEF Links
  <2>2. \A x \in Joiners : client'[x].at # "in" => client'[x].conn = 0
    BY DEF Links
  <2> QED BY <1>1, <2>1, <2>2 DEF Links
<1>5. Lines'
  <2>1. \A c : (Seated(c)' <=> Seated(c)) /\ (Queued(c)' <=> Queued(c)) BY DEF Seated, Queued
  <2>2. \A c \in Conns : LineOK(c) BY DEF Lines
  <2>3. \A c \in Conns \ {k} : LineOK(c)' BY <1>3, <2>1, <2>2 DEF LineOK, AtHost
  <2> QED BY <1>1, <2>3 DEF Lines
<1>6. Informed'
  <2>1. \A i \in InTable(host) : host.slot[i].conn \in Conns BY DEF Links
  <2>2. \A i \in InTable(host) : host.slot[i].conn # k /\ Held(host.slot[i].conn)
                                   /\ ~Has(down[host.slot[i].conn], "EOF") =>
          /\ Heeds(down[host.slot[i].conn], client[by[host.slot[i].conn]].count, host.count)
          /\ Sits(down[host.slot[i].conn], client[by[host.slot[i].conn]].sit, host.slot[i].sit)
    BY DEF Informed
  <2> QED BY <1>3, <2>1, <2>2 DEF Informed
<1>7. Called' = Called BY <1>2 DEF Called
<1>8. ASSUME NEW x \in Joiners \ {j}, client[x].at = "in"
      PROVE  client[x].conn \in Conns \ {k} /\ down'[client[x].conn] = down[client[x].conn]
  <2>1. client[x].conn \in Conns /\ by[client[x].conn] = x BY <1>8 DEF Links
  <2> QED BY <1>8, <2>1
<1> QED BY <1>1, <1>3, <1>4, <1>5, <1>6, <1>7, <1>8

\* Nobody is let in and no connection breaks.
LEMMA BoundedKept ==
  ASSUME TypeOK, Bounded, UNCHANGED <<by, lost>>, Called' = Called, Parted \subseteq Parted'
  PROVE  Bounded'
<1>1. Len(by) \in Nat /\ Conns = 1 .. Len(by) /\ lost \in Nat BY TypeFacts
<1>2. Conns' = Conns BY DEF Conns
<1>3. Parted' \subseteq 1 .. Len(by) BY <1>1, <1>2 DEF Parted
<1>4. Cardinality(Parted) <= Cardinality(Parted') /\ Cardinality(Parted) \in Nat /\ Cardinality(Parted') \in Nat
  BY <1>1, <1>3, PartOfConns
<1>5. lost <= Cardinality(Parted) /\ Len(by) + Cardinality(Called) <= MaxConns BY DEF Bounded
<1>6. lost <= Cardinality(Parted') BY <1>1, <1>4, <1>5
<1> QED BY <1>5, <1>6 DEF Bounded

LEMMA HeadsKept ==
  ASSUME TypeOK, Heads, UNCHANGED <<lobby, lost>>, host'.serving <=> host.serving,
         Has(toLobby', "LEAVE") => Has(toLobby, "LEAVE"),
         InTable(host) = {} => InTable(host') = {},
         Present \subseteq Present', leaving' \subseteq Joiners,
         \A x \in Joiners : client'[x].at # "idle" => client[x].at # "idle",
         \A x \in leaving' : client'[x].at = "idle" /\ (x \notin leaving => client[x].at # "idle")
  PROVE  Heads'
<1>1. Cardinality(Present) <= Cardinality(Present')
      /\ Cardinality(Present) \in Nat /\ Cardinality(Present') \in Nat
  <2>1. Present' \subseteq Joiners BY DEF Present
  <2>2. IsFiniteSet(Present') BY <2>1, TableAssumption, FS_Subset
  <2> QED BY <2>2, FS_Subset, FS_CardinalityType
<1>2. ASSUME host.serving
      PROVE  /\ 1 + Cardinality(lobby.linked) <= lobby.heads
             /\ lobby.heads <= 1 + Cardinality(Present') + lost
             /\ \A x \in Joiners : client'[x].at # "idle" => x \in lobby.linked
             /\ leaving' \subseteq lobby.linked
  <2>1. /\ 1 + Cardinality(lobby.linked) <= lobby.heads
        /\ lobby.heads <= 1 + Cardinality(Present) + lost
        /\ \A x \in Joiners : client[x].at # "idle" => x \in lobby.linked
        /\ leaving \subseteq lobby.linked
    BY <1>2 DEF Heads
  <2>2. lost \in Nat /\ lobby.heads \in Nat BY TypeFacts
  <2>3. lobby.heads <= 1 + Cardinality(Present') + lost BY <1>1, <2>1, <2>2
  <2>4. leaving' \subseteq lobby.linked BY <2>1
  <2> QED BY <2>1, <2>3, <2>4
<1>3. (Has(toLobby, "LEAVE") => ~host.serving) /\ (~host.serving => InTable(host) = {})
  BY DEF Heads
<1> QED BY <1>2, <1>3 DEF Heads

LEMMA LeaveStep ==
  ASSUME Inv, NEW j \in Joiners, Leave(j)
  PROVE  Inv'
<1>1. TypeOK /\ Links /\ Bounded /\ Lines /\ Informed /\ Heads BY DEF Inv
<1>2. PICK k \in Conns : k = client[j].conn /\ by[k] = j /\ Held(k)
  BY <1>1, HeldFacts DEF Leave
<1>3. /\ client[j].at = "in"
      /\ up' = [up EXCEPT ![k] = @ \o <<"LEAVE", "EOF">>]
      /\ down' = [down EXCEPT ![k] = <<>>]
      /\ client' = [client EXCEPT ![j] = Idle]
      /\ leaving' = leaving \cup {j}
      /\ UNCHANGED <<host, lobby, toLobby, news, by, backlog, lost>>
  BY <1>2 DEF Leave
<1>4. /\ host \in Hosts /\ Len(by) \in Nat /\ Conns = 1 .. Len(by)
      /\ up \in Seq(Seq({"LEAVE", "EOF"})) /\ down \in Seq(Seq(Msgs))
      /\ DOMAIN up = Conns /\ DOMAIN down = Conns
      /\ \A c \in Conns : by[c] \in Joiners /\ c # 0 /\ up[c] \in Seq({"LEAVE", "EOF"})
      /\ client \in [Joiners -> Clients]
  BY <1>1, TypeFacts
<1>5. up[k] \o <<"LEAVE", "EOF">> \in Seq({"LEAVE", "EOF"}) /\ up[k] \o <<"LEAVE", "EOF">> # <<>>
  <2>1. up[k] \in Seq({"LEAVE", "EOF"}) BY <1>4
  <2>2. <<"LEAVE", "EOF">> \in Seq({"LEAVE", "EOF"}) /\ Len(<<"LEAVE", "EOF">>) = 2 OBVIOUS
  <2>3. Len(up[k] \o <<"LEAVE", "EOF">>) = Len(up[k]) + 2 /\ Len(up[k]) \in Nat BY <2>1, <2>2
  <2> QED BY <2>1, <2>2, <2>3
<1>6. /\ up' \in Seq(Seq({"LEAVE", "EOF"})) /\ Len(up') = Len(up)
      /\ up'[k] # <<>> /\ \A c \in Conns \ {k} : up'[c] = up[c]
  <2> DEFINE S == Seq({"LEAVE", "EOF"})
             u == up[k] \o <<"LEAVE", "EOF">>
             q == up
  <2>1. u \in S /\ q \in Seq(S) /\ k \in DOMAIN q /\ up' = [q EXCEPT ![k] = u] /\ u # <<>>
        /\ DOMAIN q = Conns
    BY <1>3, <1>4, <1>5
  <2> HIDE DEF S, u, q
  <2>2. /\ up' \in Seq(S) /\ Len(up') = Len(q) /\ up'[k] = u
        /\ \A c \in Conns \ {k} : up'[c] = q[c]
    BY <2>1
  <2> QED BY <2>1, <2>2 DEF S, q
<1>7. /\ down' \in Seq(Seq(Msgs)) /\ Len(down') = Len(down)
      /\ down'[k] = <<>> /\ \A c \in Conns \ {k} : down'[c] = down[c]
  <2> DEFINE S == Seq(Msgs)
             q == down
  <2>1. <<>> \in S /\ q \in Seq(S) /\ k \in DOMAIN q /\ down' = [q EXCEPT ![k] = <<>>]
        /\ DOMAIN q = Conns
    BY <1>3, <1>4
  <2> HIDE DEF S, q
  <2>2. /\ down' \in Seq(S) /\ Len(down') = Len(q) /\ down'[k] = <<>>
        /\ \A c \in Conns \ {k} : down'[c] = q[c]
    BY <2>1
  <2> QED BY <2>1, <2>2 DEF S, q
<1>8. client'[j].at = "idle" /\ client'[j].conn = 0 /\ \A x \in Joiners \ {j} : client'[x] = client[x]
  BY <1>3, <1>4 DEF Idle
<1>9. ~Held(k)' /\ by'[k] = j BY <1>2, <1>3, <1>4, <1>8 DEF Held
<1>10. LineOK(k)' BY <1>6, <1>9 DEF LineOK
<1>11. /\ Links' /\ Lines' /\ Informed' /\ Conns' = Conns /\ Called' = Called
       /\ \A c \in Conns \ {k} : Held(c)' <=> Held(c)
       /\ \A x \in Joiners \ {j} : client[x].at = "in" =>
            client[x].conn \in Conns \ {k} /\ down'[client[x].conn] = down[client[x].conn]
  <2>1. UNCHANGED <<host, by, backlog>> BY <1>3
  <2>2. by[k] = j /\ Held(k) BY <1>2
  <2>3. \A c \in Conns \ {k} : up'[c] = up[c] /\ down'[c] = down[c] BY <1>6, <1>7
  <2>4. \A i \in InTable(host) : host.slot[i].conn = k /\ Held(k)' /\ ~Has(down'[k], "EOF") =>
           /\ Heeds(down'[k], client'[j].count, host.count)
           /\ Sits(down'[k], client'[j].sit, host.slot[i].sit)
    BY <1>9
  <2> QED BY <1>1, <1>8, <1>10, <2>1, <2>2, <2>3, <2>4, OneLine
<1>12. TypeOK'
  <2>1. client' \in [Joiners -> Clients]
    <3>1. Idle \in Clients
      <4>1. MaxConns \in Nat BY TableAssumption
      <4> QED BY <4>1 DEF Idle, Clients
    <3> QED BY <1>3, <1>4, <3>1
  <2>2. Len(up) = Len(by) /\ Len(down) = Len(by) BY <1>1 DEF TypeOK
  <2>3. UNCHANGED <<host, lobby, toLobby, news, by, backlog, lost>> /\ leaving' \subseteq Joiners
    BY <1>1, <1>3 DEF TypeOK
  <2> QED BY <1>1, <1>6, <1>7, <1>11, <2>1, <2>2, <2>3 DEF TypeOK, Msgs
<1>13. Bounded'
  <2>1. Parted \subseteq Parted' BY <1>7, <1>9, <1>11 DEF Parted
  <2> QED BY <1>1, <1>3, <1>11, <2>1, BoundedKept
<1>14. Heads'
  <2>1. Present \subseteq Present'
    <3>1. j \in Present' BY <1>3 DEF Present
    <3>2. ASSUME NEW x \in Joiners \ {j}, x \in Present PROVE x \in Present'
      <4>1. client'[x] = client[x] /\ leaving \subseteq leaving' BY <1>3, <1>8
      <4>2. client[x].at = "in" => down'[client[x].conn] = down[client[x].conn] BY <1>11
      <4>3. \/ client[x].at = "called" \/ x \in leaving
            \/ client[x].at = "in" /\ ~Broken(down[client[x].conn])
        BY <3>2 DEF Present
      <4> QED BY <4>1, <4>2, <4>3 DEF Present
    <3>3. Present \subseteq Joiners BY PresentFinite
    <3> QED BY <3>1, <3>2, <3>3
  <2>2. leaving \subseteq Joiners BY <1>1 DEF TypeOK
  <2>3. /\ leaving' \subseteq Joiners
        /\ \A x \in leaving' : client'[x].at = "idle" /\ (x \notin leaving => client[x].at # "idle")
        /\ \A x \in Joiners : client'[x].at # "idle" => client[x].at # "idle"
    BY <1>1, <1>3, <1>8, <2>2 DEF Heads
  <2>4. UNCHANGED <<host, lobby, toLobby, lost>> BY <1>3
  <2> QED BY <1>1, <2>1, <2>3, <2>4, HeadsKept
<1> QED BY <1>11, <1>12, <1>13, <1>14 DEF Inv

LEMMA LoseStep ==
  ASSUME Inv, NEW k \in Conns, Lose(k)
  PROVE  Inv'
<1>1. TypeOK /\ Links /\ Bounded /\ Lines /\ Informed /\ Heads BY DEF Inv
<1>2. /\ Held(k) /\ ~Has(down[k], "EOF")
      /\ up' = [up EXCEPT ![k] = <<"EOF">>]
      /\ down' = [down EXCEPT ![k] = <<[type |-> "EOF"]>>]
      /\ lost' = lost + 1
      /\ UNCHANGED <<host, lobby, client, leaving, toLobby, news, by, backlog>>
  BY DEF Lose, Has
<1>3. /\ host \in Hosts /\ Len(by) \in Nat /\ Conns = 1 .. Len(by)
      /\ up \in Seq(Seq({"LEAVE", "EOF"})) /\ down \in Seq(Seq(Msgs))
      /\ DOMAIN up = Conns /\ DOMAIN down = Conns
      /\ client \in [Joiners -> Clients] /\ lost \in Nat
  BY <1>1, TypeFacts
<1>4. PICK j \in Joiners : by[k] = j /\ client[j].at = "in" /\ client[j].conn = k
  BY <1>1, <1>2, TypeFacts, HeldFacts
<1>5. /\ up' \in Seq(Seq({"LEAVE", "EOF"})) /\ Len(up') = Len(up)
      /\ up'[k] # <<>> /\ \A c \in Conns \ {k} : up'[c] = up[c]
  <2> DEFINE S == Seq({"LEAVE", "EOF"})
             u == <<"EOF">>
             q == up
  <2>1. u \in S /\ q \in Seq(S) /\ k \in DOMAIN q /\ up' = [q EXCEPT ![k] = u] /\ u # <<>>
        /\ DOMAIN q = Conns
    BY <1>2, <1>3
  <2> HIDE DEF S, u, q
  <2>2. /\ up' \in Seq(S) /\ Len(up') = Len(q) /\ up'[k] = u
        /\ \A c \in Conns \ {k} : up'[c] = q[c]
    BY <2>1
  <2> QED BY <2>1, <2>2 DEF S, q
<1>6. /\ down' \in Seq(Seq(Msgs)) /\ Len(down') = Len(down)
      /\ down'[k] = <<[type |-> "EOF"]>> /\ \A c \in Conns \ {k} : down'[c] = down[c]
  <2> DEFINE S == Seq(Msgs)
             e == <<[type |-> "EOF"]>>
             q == down
  <2>1. e \in S BY DEF Msgs
  <2>2. q \in Seq(S) /\ k \in DOMAIN q /\ down' = [q EXCEPT ![k] = e] /\ DOMAIN q = Conns
    BY <1>2, <1>3
  <2> HIDE DEF S, e, q
  <2>3. /\ down' \in Seq(S) /\ Len(down') = Len(q) /\ down'[k] = e
        /\ \A c \in Conns \ {k} : down'[c] = q[c]
    BY <2>1, <2>2
  <2> QED BY <2>3 DEF S, q, e
<1>7. Has(down'[k], "EOF") /\ ~Has(down'[k], "LEAVE") /\ \A n \in DOMAIN down'[k] : down'[k][n].type = "EOF"
  BY <1>6 DEF Has
<1>8. Held(k)' BY <1>2 DEF Held
<1>9. LineOK(k)' BY <1>5, <1>7, <1>8 DEF LineOK, Ended
<1>10. /\ Links' /\ Lines' /\ Informed' /\ Conns' = Conns /\ Called' = Called
       /\ \A c \in Conns \ {k} : Held(c)' <=> Held(c)
       /\ \A x \in Joiners \ {j} : client[x].at = "in" =>
            client[x].conn \in Conns \ {k} /\ down'[client[x].conn] = down[client[x].conn]
  <2>1. UNCHANGED <<host, by, backlog>> /\ client' = client BY <1>2
  <2>2. \A c \in Conns \ {k} : up'[c] = up[c] /\ down'[c] = down[c] BY <1>5, <1>6
  <2>3. \A i \in InTable(host) : host.slot[i].conn = k /\ Held(k)' /\ ~Has(down'[k], "EOF") =>
           /\ Heeds(down'[k], client'[j].count, host.count)
           /\ Sits(down'[k], client'[j].sit, host.slot[i].sit)
    BY <1>7
  <2>4. client'[j].at = "in" /\ client'[j].conn = k BY <1>4, <2>1
  <2>5. \A x \in Joiners \ {j} : client'[x] = client[x] BY <2>1
  <2> QED BY <1>1, <1>2, <1>4, <1>9, <2>1, <2>2, <2>3, <2>4, <2>5, OneLine
<1>11. Parted' = Parted \cup {k} /\ k \notin Parted BY <1>2, <1>6, <1>7, <1>8, <1>10 DEF Parted
<1>12. lost' <= Cardinality(Parted') /\ Cardinality(Parted') <= Len(by) /\ Cardinality(Parted') \in Nat
  <2>1. Parted' \subseteq 1 .. Len(by) /\ Parted \subseteq Parted'
    BY <1>3, <1>10, <1>11 DEF Parted
  <2>2. /\ IsFiniteSet(Parted) /\ Cardinality(Parted) \in Nat
        /\ Cardinality(Parted') <= Len(by) /\ Cardinality(Parted') \in Nat
    BY <1>3, <2>1, PartOfConns
  <2>3. Cardinality(Parted') = Cardinality(Parted) + 1 BY <1>11, <2>2, FS_AddElement
  <2>4. lost <= Cardinality(Parted) BY <1>1 DEF Bounded
  <2> QED BY <1>2, <1>3, <2>2, <2>3, <2>4
<1>13. TypeOK'
  <2>1. Len(up) = Len(by) /\ Len(down) = Len(by) /\ Len(by) <= MaxConns BY <1>1 DEF TypeOK
  <2>2. lost' \in 0 .. MaxConns
    <3>1. MaxConns \in Nat BY TableAssumption
    <3>2. lost' \in Nat BY <1>2, <1>3
    <3> QED BY <1>3, <1>12, <2>1, <3>1, <3>2
  <2> QED BY <1>1, <1>2, <1>5, <1>6, <1>10, <2>1, <2>2 DEF TypeOK, Msgs
<1>14. Bounded' BY <1>1, <1>2, <1>10, <1>12 DEF Bounded
<1>15. Heads'
  <2>1. Present \subseteq Present' \cup {j}
    <3>1. ASSUME NEW x \in Joiners \ {j}, x \in Present PROVE x \in Present'
      <4>1. client[x].at = "in" => down'[client[x].conn] = down[client[x].conn] BY <1>10
      <4>2. \/ client[x].at = "called" \/ x \in leaving
            \/ client[x].at = "in" /\ ~Broken(down[client[x].conn])
        BY <3>1 DEF Present
      <4> QED BY <1>2, <4>1, <4>2 DEF Present
    <3>2. Present \subseteq Joiners BY PresentFinite
    <3> QED BY <3>1, <3>2
  <2>2. Cardinality(Present) <= Cardinality(Present') + 1
        /\ Cardinality(Present) \in Nat /\ Cardinality(Present') \in Nat
    <3>1. Present' \subseteq Joiners BY DEF Present
    <3>2. IsFiniteSet(Present') /\ Cardinality(Present') \in Nat
      BY <3>1, TableAssumption, FS_Subset, FS_CardinalityType
    <3>3. IsFiniteSet(Present' \cup {j}) /\ Cardinality(Present' \cup {j}) =
            IF j \in Present' THEN Cardinality(Present') ELSE Cardinality(Present') + 1
      BY <3>2, FS_AddElement
    <3>4. Cardinality(Present) <= Cardinality(Present' \cup {j}) /\ Cardinality(Present) \in Nat
      BY <2>1, <3>3, FS_Subset, FS_CardinalityType
    <3> QED BY <3>2, <3>3, <3>4
  <2>3. host.serving => lobby.heads <= 1 + Cardinality(Present') + lost'
    <3>1. host.serving => lobby.heads <= 1 + Cardinality(Present) + lost BY <1>1 DEF Heads
    <3>2. PICK p \in Nat : p = Cardinality(Present) BY <2>2
    <3>3. PICK q \in Nat : q = Cardinality(Present') BY <2>2
    <3>4. p <= q + 1 BY <2>2, <3>2, <3>3
    <3>5. lobby.heads \in Nat /\ lost \in Nat /\ lost' = lost + 1 BY <1>1, <1>2, <1>3, TypeFacts
    <3>6. host.serving => lobby.heads <= 1 + p + lost BY <3>1, <3>2
    <3>7. host.serving => lobby.heads <= 1 + q + lost' BY <3>4, <3>5, <3>6
    <3> QED BY <3>3, <3>7
  <2>4. UNCHANGED <<host, lobby, client, leaving, toLobby>> BY <1>2
  <2> QED BY <1>1, <2>3, <2>4 DEF Heads, InTable
<1> QED BY <1>10, <1>13, <1>14, <1>15 DEF Inv

LEMMA GuestHearsStep ==
  ASSUME Inv, NEW j \in Joiners, GuestHears(j)
  PROVE  Inv'
<1>1. TypeOK /\ Links /\ Bounded /\ Lines /\ Informed /\ Heads BY DEF Inv
<1>2. PICK k \in Conns : k = client[j].conn /\ by[k] = j /\ Held(k)
  BY <1>1, HeldFacts DEF GuestHears
<1>3. PICK m : m = Head(down[k]) OBVIOUS
<1>4. /\ client[j].at = "in" /\ down[k] # <<>>
      /\ m.type \in {"COMER", "GONE"} => client' = [client EXCEPT ![j].count = m.count]
      /\ m.type = "INFO" => client' = [client EXCEPT ![j].sit = m.sit]
      /\ m.type \in {"LEAVE", "EOF"} => client' = [client EXCEPT ![j] = Idle]
      /\ down' = [down EXCEPT ![k] = IF m.type \in {"LEAVE", "EOF"} THEN <<>> ELSE Tail(down[k])]
      /\ leaving' = IF m.type = "LEAVE" THEN leaving \cup {j} ELSE leaving
      /\ UNCHANGED <<host, lobby, toLobby, news, by, up, backlog, lost>>
  <2>1. k = client[j].conn BY <1>2
  <2> QED BY <1>3, <2>1 DEF GuestHears, Tells
<1>5. /\ host \in Hosts /\ Len(by) \in Nat /\ Conns = 1 .. Len(by)
      /\ down \in Seq(Seq(Msgs)) /\ down[k] \in Seq(Msgs)
      /\ DOMAIN up = Conns /\ DOMAIN down = Conns
      /\ client \in [Joiners -> Clients] /\ lost \in Nat
  BY <1>1, TypeFacts
<1>6. m \in Msgs /\ Tail(down[k]) \in Seq(Msgs) BY <1>3, <1>4, <1>5, Shifted
<1>7. PICK d \in Seq(Msgs) : d = IF m.type \in {"LEAVE", "EOF"} THEN <<>> ELSE Tail(down[k])
  <2>1. <<>> \in Seq(Msgs) OBVIOUS
  <2> QED BY <1>6, <2>1
<1>8. /\ down' \in Seq(Seq(Msgs)) /\ Len(down') = Len(down)
      /\ down'[k] = d /\ \A c \in Conns \ {k} : down'[c] = down[c]
  <2> DEFINE S == Seq(Msgs)
             q == down
  <2>1. d \in S /\ q \in Seq(S) /\ k \in DOMAIN q /\ down' = [q EXCEPT ![k] = d] /\ DOMAIN q = Conns
    BY <1>4, <1>5, <1>7
  <2> HIDE DEF S, q
  <2>2. /\ down' \in Seq(S) /\ Len(down') = Len(q) /\ down'[k] = d
        /\ \A c \in Conns \ {k} : down'[c] = q[c]
    BY <2>1
  <2> QED BY <2>2 DEF S, q
<1>9. m.type \in {"COMER", "GONE", "INFO", "LEAVE", "EOF"}
      /\ (m.type \in {"COMER", "GONE"} => m.count \in Nat)
      /\ (m.type = "INFO" => m.sit \in {0} \cup Seats)
  BY <1>6 DEF Msgs
<1>10. client' \in [Joiners -> Clients] /\ \A x \in Joiners \ {j} : client'[x] = client[x]
  <2>1. Idle \in Clients
    <3>1. MaxConns \in Nat BY TableAssumption
    <3> QED BY <3>1 DEF Idle, Clients
  <2>2. CASE m.type \in {"COMER", "GONE"}
    <3>1. client' = [client EXCEPT ![j] = [client[j] EXCEPT !.count = m.count]] BY <1>4, <2>2
    <3>2. client[j] \in Clients /\ m.count \in Nat BY <1>5, <1>9, <2>2
    <3>3. [client[j] EXCEPT !.count = m.count] \in Clients BY <3>2 DEF Clients
    <3> QED BY <1>5, <3>1, <3>3
  <2>3. CASE m.type = "INFO"
    <3>1. client' = [client EXCEPT ![j] = [client[j] EXCEPT !.sit = m.sit]] BY <1>4, <2>3
    <3>2. client[j] \in Clients /\ m.sit \in {0} \cup Seats BY <1>5, <1>9, <2>3
    <3>3. [client[j] EXCEPT !.sit = m.sit] \in Clients BY <3>2 DEF Clients
    <3> QED BY <1>5, <3>1, <3>3
  <2>4. CASE m.type \in {"LEAVE", "EOF"} BY <1>4, <1>5, <2>1, <2>4
  <2> QED BY <1>9, <2>2, <2>3, <2>4
<1>11. /\ Has(down[k], "LEAVE") <=> m.type = "LEAVE" \/ Has(Tail(down[k]), "LEAVE")
       /\ Has(down[k], "EOF") <=> m.type = "EOF" \/ Has(Tail(down[k]), "EOF")
       /\ m.type # "LEAVE" /\ Broken(Tail(down[k])) => Broken(down[k])
       /\ m.type = "EOF" => Broken(down[k])
  <2>1. /\ Has(down[k], "LEAVE") <=> Head(down[k]).type = "LEAVE" \/ Has(Tail(down[k]), "LEAVE")
        /\ Has(down[k], "EOF") <=> Head(down[k]).type = "EOF" \/ Has(Tail(down[k]), "EOF")
    BY <1>4, <1>5, HasShifted
  <2>2. /\ Head(down[k]).type # "LEAVE" /\ Broken(Tail(down[k])) => Broken(down[k])
        /\ Head(down[k]).type = "EOF" => Broken(down[k])
    BY <1>4, <1>5, BrokenShifted
  <2> QED BY <1>3, <2>1, <2>2
<1>12. LineOK(k) BY <1>1 DEF Lines
<1>13. /\ UNCHANGED <<host, by, backlog>> /\ up' = up
       /\ (Seated(k)' <=> Seated(k)) /\ (Queued(k)' <=> Queued(k))
  BY <1>4 DEF Seated, Queued
<1>14. CASE m.type \in {"LEAVE", "EOF"}
  <2>1. client'[j].at = "idle" /\ client'[j].conn = 0 BY <1>4, <1>5, <1>14 DEF Idle
  <2>2. ~Held(k)'
    <3>1. k # 0 BY <1>5
    <3> QED BY <1>2, <1>13, <2>1, <3>1 DEF Held
  <2>3. AtHost(k) => up[k] # <<>>
    <3>1. AtHost(k) => ~Has(down[k], "LEAVE") /\ (up[k] # <<>> <=> Has(down[k], "EOF"))
      BY <1>2, <1>12 DEF LineOK
    <3> QED BY <1>11, <1>14, <3>1
  <2>4. LineOK(k)' BY <1>13, <2>2, <2>3 DEF LineOK, AtHost
  <2>5. /\ Links' /\ Lines' /\ Informed' /\ Conns' = Conns /\ Called' = Called
        /\ \A c \in Conns \ {k} : Held(c)' <=> Held(c)
        /\ \A x \in Joiners \ {j} : client[x].at = "in" =>
             client[x].conn \in Conns \ {k} /\ down'[client[x].conn] = down[client[x].conn]
    <3>1. by[k] = j /\ Held(k) BY <1>2
    <3>2. \A c \in Conns \ {k} : up'[c] = up[c] /\ down'[c] = down[c] BY <1>8, <1>13
    <3>3. \A i \in InTable(host) : host.slot[i].conn = k /\ Held(k)' /\ ~Has(down'[k], "EOF") =>
             /\ Heeds(down'[k], client'[j].count, host.count)
             /\ Sits(down'[k], client'[j].sit, host.slot[i].sit)
      BY <2>2
    <3> QED BY <1>1, <1>10, <1>13, <2>1, <2>4, <3>1, <3>2, <3>3, OneLine
  <2>6. Parted \subseteq Parted' BY <1>8, <2>2, <2>5 DEF Parted
  <2>7. Present \subseteq Present'
    <3>1. j \notin leaving BY <1>1, <1>4 DEF Heads
    <3>2. j \in Present => j \in Present'
      <4>1. m.type = "LEAVE" => j \in Present' BY <1>4 DEF Present
      <4>2. m.type = "EOF" => j \notin Present BY <1>2, <1>4, <1>11, <3>1 DEF Present
      <4> QED BY <1>14, <4>1, <4>2
    <3>3. ASSUME NEW x \in Joiners \ {j}, x \in Present PROVE x \in Present'
      <4>1. client'[x] = client[x] /\ leaving \subseteq leaving' BY <1>4, <1>10
      <4>2. client[x].at = "in" => down'[client[x].conn] = down[client[x].conn] BY <2>5
      <4>3. \/ client[x].at = "called" \/ x \in leaving
            \/ client[x].at = "in" /\ ~Broken(down[client[x].conn])
        BY <3>3 DEF Present
      <4> QED BY <4>1, <4>2, <4>3 DEF Present
    <3>4. Present \subseteq Joiners BY PresentFinite
    <3> QED BY <3>2, <3>3, <3>4
  <2>8. /\ leaving' \subseteq Joiners
        /\ \A x \in leaving' : client'[x].at = "idle" /\ (x \notin leaving => client[x].at # "idle")
        /\ \A x \in Joiners : client'[x].at # "idle" => client[x].at # "idle"
    <3>1. leaving \subseteq Joiners /\ \A x \in leaving : client[x].at = "idle"
      BY <1>1 DEF TypeOK, Heads
    <3> QED BY <1>4, <1>10, <2>1, <3>1
  <2>9. Bounded'
    <3>1. UNCHANGED <<by, lost>> BY <1>4
    <3> QED BY <1>1, <2>5, <2>6, <3>1, BoundedKept
  <2>10. Heads'
    <3>1. UNCHANGED <<host, lobby, toLobby, lost>> BY <1>4
    <3> QED BY <1>1, <2>7, <2>8, <3>1, HeadsKept
  <2>11. TypeOK'
    <3>1. Len(up) = Len(by) /\ Len(down) = Len(by) BY <1>1 DEF TypeOK
    <3> QED BY <1>1, <1>4, <1>8, <1>10, <2>5, <2>8, <3>1 DEF TypeOK, Msgs
  <2> QED BY <2>5, <2>9, <2>10, <2>11 DEF Inv
<1>15. CASE m.type \notin {"LEAVE", "EOF"}
  <2>1. /\ client'[j].at = "in" /\ client'[j].conn = k
        /\ client'[j].count = IF Counts(m) THEN m.count ELSE client[j].count
        /\ client'[j].sit = IF m.type = "INFO" THEN m.sit ELSE client[j].sit
    <3>1. client[j] \in Clients BY <1>5
    <3>2. CASE m.type \in {"COMER", "GONE"} BY <1>2, <1>4, <1>5, <3>1, <3>2 DEF Clients, Counts
    <3>3. CASE m.type = "INFO" BY <1>2, <1>4, <1>5, <3>1, <3>3 DEF Clients, Counts
    <3> QED BY <1>9, <1>15, <3>2, <3>3
  <2>2. d = Tail(down[k]) BY <1>7, <1>15
  <2>3. Held(k)' BY <1>2, <1>13, <2>1 DEF Held
  <2>4. /\ Has(d, "LEAVE") <=> Has(down[k], "LEAVE")
        /\ Has(d, "EOF") <=> Has(down[k], "EOF")
        /\ Broken(d) => Broken(down[k])
    BY <1>11, <1>15, <2>2
  <2>5. LineOK(k)'
    <3>1. ~Queued(k)
      <4>1. Queued(k) => down[k][1].type = "EOF" /\ m = down[k][1]
        <5>1. 1 \in DOMAIN down[k] /\ m = down[k][1] BY <1>3, <1>4, <1>5, HeadTail
        <5> QED BY <1>2, <1>12, <5>1 DEF LineOK
      <4> QED BY <1>15, <4>1
    <3> QED BY <1>2, <1>8, <1>12, <1>13, <2>3, <2>4, <3>1 DEF LineOK, AtHost, Ended
  <2>6. \A i \in InTable(host) : host.slot[i].conn = k /\ Held(k)' /\ ~Has(down'[k], "EOF") =>
           /\ Heeds(down'[k], client'[j].count, host.count)
           /\ Sits(down'[k], client'[j].sit, host.slot[i].sit)
    <3>1. SUFFICES ASSUME NEW i \in InTable(host), host.slot[i].conn = k, ~Has(d, "EOF")
                   PROVE  /\ Heeds(d, client'[j].count, host.count)
                          /\ Sits(d, client'[j].sit, host.slot[i].sit)
      BY <1>8
    <3>2. /\ Heeds(down[k], client[j].count, host.count)
          /\ Sits(down[k], client[j].sit, host.slot[i].sit)
      BY <1>1, <1>2, <2>4, <3>1 DEF Informed
    <3>3. /\ Counts(m) => Heeds(d, m.count, host.count)
          /\ ~Counts(m) => Heeds(d, client[j].count, host.count)
      BY <1>3, <1>4, <1>5, <2>2, <3>2, HeedsShifted
    <3>4. /\ m.type = "INFO" => Sits(d, m.sit, host.slot[i].sit)
          /\ m.type # "INFO" => Sits(d, client[j].sit, host.slot[i].sit)
      BY <1>3, <1>4, <1>5, <2>2, <3>2, SitsShifted
    <3> QED BY <2>1, <3>3, <3>4
  <2>7. /\ Links' /\ Lines' /\ Informed' /\ Conns' = Conns /\ Called' = Called
        /\ \A c \in Conns \ {k} : Held(c)' <=> Held(c)
        /\ \A x \in Joiners \ {j} : client[x].at = "in" =>
             client[x].conn \in Conns \ {k} /\ down'[client[x].conn] = down[client[x].conn]
    <3>1. by[k] = j /\ Held(k) BY <1>2
    <3>2. \A c \in Conns \ {k} : up'[c] = up[c] /\ down'[c] = down[c] BY <1>8, <1>13
    <3> QED BY <1>1, <1>10, <1>13, <2>1, <2>5, <2>6, <3>1, <3>2, OneLine
  <2>8. Parted \subseteq Parted' BY <1>2, <1>8, <2>4, <2>7 DEF Parted
  <2>9. Present \subseteq Present'
    <3>1. leaving' = leaving BY <1>4, <1>15
    <3>2. j \in Present => j \in Present' BY <1>2, <1>4, <1>8, <2>1, <2>4, <3>1 DEF Present
    <3>3. ASSUME NEW x \in Joiners \ {j}, x \in Present PROVE x \in Present'
      <4>1. client'[x] = client[x] BY <1>10
      <4>2. client[x].at = "in" => down'[client[x].conn] = down[client[x].conn] BY <2>7
      <4>3. \/ client[x].at = "called" \/ x \in leaving
            \/ client[x].at = "in" /\ ~Broken(down[client[x].conn])
        BY <3>3 DEF Present
      <4> QED BY <3>1, <4>1, <4>2, <4>3 DEF Present
    <3>4. Present \subseteq Joiners BY PresentFinite
    <3> QED BY <3>2, <3>3, <3>4
  <2>10. /\ leaving' = leaving /\ leaving \subseteq Joiners
         /\ \A x \in leaving' : client'[x].at = "idle"
         /\ \A x \in Joiners : client'[x].at # "idle" => client[x].at # "idle"
    <3>1. leaving \subseteq Joiners /\ \A x \in leaving : client[x].at = "idle"
      BY <1>1 DEF TypeOK, Heads
    <3>2. j \notin leaving BY <1>4, <3>1
    <3> QED BY <1>4, <1>10, <1>15, <3>1, <3>2
  <2>11. Bounded'
    <3>1. UNCHANGED <<by, lost>> BY <1>4
    <3> QED BY <1>1, <2>7, <2>8, <3>1, BoundedKept
  <2>12. Heads'
    <3>1. UNCHANGED <<host, lobby, toLobby, lost>> BY <1>4
    <3> QED BY <1>1, <2>9, <2>10, <3>1, HeadsKept
  <2>13. TypeOK'
    <3>1. Len(up) = Len(by) /\ Len(down) = Len(by) BY <1>1 DEF TypeOK
    <3> QED BY <1>1, <1>4, <1>8, <1>10, <2>7, <2>10, <3>1 DEF TypeOK, Msgs
  <2> QED BY <2>7, <2>11, <2>12, <2>13 DEF Inv
<1> QED BY <1>14, <1>15

\* What a notice to the players changes on a connection.
LEMMA Notice ==
  ASSUME NEW d \in Seq(Msgs), NEW n \in Nat, NEW m, m = Gone(n) \/ m = Comer(n)
  PROVE  /\ d \o <<m>> \in Seq(Msgs)
         /\ Has(d \o <<m>>, "LEAVE") <=> Has(d, "LEAVE")
         /\ Has(d \o <<m>>, "EOF") <=> Has(d, "EOF")
         /\ Broken(d \o <<m>>) => Broken(d)
         /\ \A c : Heeds(d \o <<m>>, c, n)
         /\ \A c, v : Sits(d, c, v) => Sits(d \o <<m>>, c, v)
<1>1. PICK e : e = <<m>> OBVIOUS
<1>2. m \in Msgs /\ m.type \in {"COMER", "GONE"} /\ m.count = n BY DEF Gone, Comer, Msgs
<1>3. e \in Seq(Msgs) /\ DOMAIN e = {1} /\ e[1] = m BY <1>1, <1>2
<1>4. ~Has(e, "LEAVE") /\ ~Has(e, "EOF") BY <1>2, <1>3 DEF Has
<1>5. ~Broken(e) BY <1>4 DEF Broken, Has
<1>6. d \o e \in Seq(Msgs) BY <1>3
<1>7. /\ Has(d \o e, "LEAVE") <=> Has(d, "LEAVE")
      /\ Has(d \o e, "EOF") <=> Has(d, "EOF")
  BY <1>3, <1>4, HasJoined
<1>8. Broken(d \o e) => Broken(d) BY <1>3, <1>5, BrokenJoined
<1>9. ASSUME NEW c PROVE Heeds(d \o e, c, n)
  <2>1. 1 \in DOMAIN e /\ Counts(e[1]) /\ e[1].count = n /\ \A y \in DOMAIN e : y > 1 => ~Counts(e[y])
    BY <1>2, <1>3 DEF Counts
  <2> QED BY <1>3, <2>1, HeedsJoined
<1>10. ASSUME NEW c, NEW v PROVE Sits(d, c, v) => Sits(d \o e, c, v)
  <2>1. \A x \in DOMAIN e : e[x].type = "INFO" => e[x].sit = v BY <1>2, <1>3
  <2> QED BY <1>3, <2>1, SitsJoined
<1> QED BY <1>1, <1>6, <1>7, <1>8, <1>9, <1>10

\* So for the two messages to a newcomer.
LEMMA Welcome ==
  ASSUME NEW d \in Seq(Msgs), NEW n \in Nat, NEW s \in {0} \cup Seats,
         NEW e, e = <<Comer(n), [type |-> "INFO", sit |-> s]>>
  PROVE  /\ d \o e \in Seq(Msgs)
         /\ Has(d \o e, "LEAVE") <=> Has(d, "LEAVE")
         /\ Has(d \o e, "EOF") <=> Has(d, "EOF")
         /\ Broken(d \o e) => Broken(d)
         /\ \A c : Heeds(d \o e, c, n)
         /\ ~Has(d, "INFO") => \A c : Sits(d \o e, c, s)
<1>1. PICK m : m = Comer(n) OBVIOUS
<1>2. PICK i : i = [type |-> "INFO", sit |-> s] OBVIOUS
<1>3. /\ m \in Msgs /\ m.type \in {"COMER", "GONE"} /\ m.count = n
      /\ i \in Msgs /\ i.type = "INFO" /\ i.sit = s
  BY <1>1, <1>2 DEF Comer, Msgs
<1>4. e \in Seq(Msgs) /\ DOMAIN e = {1, 2} /\ e[1] = m /\ e[2] = i
  <2>1. e = <<m, i>> BY <1>1, <1>2
  <2> QED BY <1>3, <2>1
<1>5. ~Has(e, "LEAVE") /\ ~Has(e, "EOF") /\ Has(e, "INFO") BY <1>3, <1>4 DEF Has
<1>6. ~Broken(e) BY <1>5 DEF Broken, Has
<1>7. d \o e \in Seq(Msgs) BY <1>4
<1>8. /\ Has(d \o e, "LEAVE") <=> Has(d, "LEAVE")
      /\ Has(d \o e, "EOF") <=> Has(d, "EOF")
  BY <1>4, <1>5, HasJoined
<1>9. Broken(d \o e) => Broken(d) BY <1>4, <1>6, BrokenJoined
<1>10. ASSUME NEW c PROVE Heeds(d \o e, c, n)
  <2>1. 1 \in DOMAIN e /\ Counts(e[1]) /\ e[1].count = n /\ \A y \in DOMAIN e : y > 1 => ~Counts(e[y])
    BY <1>3, <1>4 DEF Counts
  <2> QED BY <1>4, <2>1, HeedsJoined
<1>11. ASSUME ~Has(d, "INFO"), NEW c PROVE Sits(d \o e, c, s)
  <2>1. \A x \in DOMAIN e : e[x].type = "INFO" => e[x].sit = s BY <1>3, <1>4
  <2> QED BY <1>4, <1>5, <1>11, <2>1, SitsJoined
<1> QED BY <1>7, <1>8, <1>9, <1>10, <1>11

\* And for the farewell.
LEMMA Farewell ==
  ASSUME NEW d \in Seq(Msgs)
  PROVE  /\ d \o <<[type |-> "LEAVE"], [type |-> "EOF"]>> \in Seq(Msgs)
         /\ Has(d \o <<[type |-> "LEAVE"], [type |-> "EOF"]>>, "EOF")
         /\ Broken(d \o <<[type |-> "LEAVE"], [type |-> "EOF"]>>) => Broken(d)
<1>1. PICK m : m = [type |-> "LEAVE"] OBVIOUS
<1>2. PICK i : i = [type |-> "EOF"] OBVIOUS
<1>3. m \in Msgs /\ i \in Msgs /\ m.type = "LEAVE" /\ i.type = "EOF" BY <1>1, <1>2 DEF Msgs
<1>4. PICK e : e = <<m, i>> OBVIOUS
<1>5. e \in Seq(Msgs) /\ DOMAIN e = {1, 2} /\ e[1] = m /\ e[2] = i BY <1>3, <1>4
<1>6. Has(e, "EOF") BY <1>3, <1>5 DEF Has
<1>7. ~Broken(e)
  <2>1. \A n \in DOMAIN e : e[n].type = "EOF" => n = 2 BY <1>3, <1>5
  <2>2. 1 \in DOMAIN e /\ 1 < 2 /\ e[1].type = "LEAVE" BY <1>3, <1>5
  <2> QED BY <2>1, <2>2 DEF Broken
<1>8. d \o e \in Seq(Msgs) BY <1>5
<1>9. Has(d \o e, "EOF") BY <1>5, <1>6, HasJoined
<1>10. Broken(d \o e) => Broken(d) BY <1>5, <1>7, BrokenJoined
<1>11. <<m, i>> = <<[type |-> "LEAVE"], [type |-> "EOF"]>> BY <1>1, <1>2
<1> QED BY <1>4, <1>8, <1>9, <1>10, <1>11

LEMMA UpEmptied ==
  ASSUME NEW q \in Seq(Seq({"LEAVE", "EOF"})), NEW k \in DOMAIN q, NEW p, p = [q EXCEPT ![k] = <<>>]
  PROVE  /\ p \in Seq(Seq({"LEAVE", "EOF"})) /\ Len(p) = Len(q)
         /\ \A c \in DOMAIN q \ {k} : p[c] = q[c]
<1> DEFINE S == Seq({"LEAVE", "EOF"})
           u == <<>>
<1>1. u \in S /\ q \in Seq(S) /\ p = [q EXCEPT ![k] = u] OBVIOUS
<1> HIDE DEF S, u
<1>2. p \in Seq(S) /\ Len(p) = Len(q) /\ \A c \in DOMAIN q \ {k} : p[c] = q[c]
  BY <1>1, OneChanged
<1> QED BY <1>2 DEF S

LEMMA DownTyped ==
  ASSUME NEW n \in Nat, NEW f \in [1 .. n -> Seq(Msgs)]
  PROVE  f \in Seq(Seq(Msgs)) /\ Len(f) = n
<1> DEFINE S == Seq(Msgs)
<1>1. f \in [1 .. n -> S] OBVIOUS
<1> HIDE DEF S
<1>2. f \in Seq(S) /\ Len(f) = n BY <1>1, SeqOfFunction
<1> QED BY <1>2 DEF S

\* close_client(): the others are told; the player keeps, if it still listens,
\* messages d that end the connection.
LEMMA SendOff ==
  ASSUME Inv, NEW i \in InTable(host), NEW k, k = host.slot[i].conn, NEW d \in Seq(Msgs),
         host' = Closed(host, i),
         up' = [up EXCEPT ![k] = <<>>],
         down' = [c \in Conns |-> down'[c]],
         \A c \in Conns \ {k} :
           down'[c] = IF Held(c) /\ \E x \in InTable(host') : host'.slot[x].conn = c
                      THEN down[c] \o <<Gone(host'.count)>> ELSE down[c],
         down'[k] = IF Held(k) THEN d ELSE <<>>, Has(d, "EOF"),
         Held(k) /\ Broken(d) => Broken(down[k]),
         UNCHANGED <<lobby, client, leaving, toLobby, news, by, backlog, lost>>
  PROVE  Inv'
<1>1. TypeOK /\ Links /\ Bounded /\ Lines /\ Informed /\ Heads BY DEF Inv
<1>2. /\ host \in Hosts /\ host.count \in Nat /\ Len(by) \in Nat /\ Conns = 1 .. Len(by)
      /\ up \in Seq(Seq({"LEAVE", "EOF"})) /\ down \in Seq(Seq(Msgs))
      /\ DOMAIN up = Conns /\ DOMAIN down = Conns
      /\ \A c \in Conns : down[c] \in Seq(Msgs)
  BY <1>1, TypeFacts
<1>3. k \in Conns /\ i \in Slots BY <1>1 DEF Links, InTable
<1>4. host.count = 1 + Cardinality(InTable(host)) BY <1>1 DEF Links
<1>5. host.count >= 1 /\ host.count - 1 = 1 + Cardinality(InTable(host) \ {i})
  <2>1. Cardinality(InTable(host) \ {i}) = Cardinality(InTable(host)) - 1
        /\ Cardinality(InTable(host)) \in Nat
    BY SlotsFinite, FS_RemoveElement
  <2>2. PICK n \in Nat : n = Cardinality(InTable(host)) BY <2>1
  <2>3. Cardinality(InTable(host) \ {i}) = n - 1 /\ host.count = 1 + n BY <1>4, <2>1, <2>2
  <2>4. host.count >= 1 /\ host.count - 1 = 1 + (n - 1) BY <2>3
  <2> QED BY <2>3, <2>4
<1>6. /\ host' \in Hosts
      /\ InTable(host') = InTable(host) \ {i}
      /\ \A x \in Slots \ {i} : host'.slot[x] = host.slot[x]
      /\ host'.count = host.count - 1
      /\ host'.serving = host.serving
  BY <1>2, <1>5, ClosedFacts
<1>7. host'.count \in Nat BY <1>2, <1>5, <1>6
<1>8. \A x \in InTable(host') : x \in InTable(host) /\ x # i /\ host'.slot[x] = host.slot[x]
  <2>1. \A x \in InTable(host) : x \in Slots BY DEF InTable
  <2> QED BY <1>6, <2>1
<1>9. /\ \A c \in Conns : Seated(c)' <=> Seated(c) /\ c # k
      /\ \A c : Queued(c)' <=> Queued(c)
      /\ \A c \in Conns : Seated(c) => ~Queued(c)
      /\ Seated(k)
  <2>1. \A x \in InTable(host) : host.slot[x].conn = k => x = i BY <1>1 DEF Links
  <2>2. \A c \in Conns : Seated(c)' <=> Seated(c) /\ c # k BY <1>6, <1>8, <2>1 DEF Seated
  <2>3. \A c : Queued(c)' <=> Queued(c) BY DEF Queued
  <2>4. \A c \in Conns : Seated(c) => ~Queued(c) BY <1>1 DEF Links, Seated, Queued
  <2> QED BY <2>2, <2>3, <2>4 DEF Seated
<1>10. Conns' = Conns /\ \A c : Held(c)' <=> Held(c) BY DEF Conns, Held
<1>11. /\ up' \in Seq(Seq({"LEAVE", "EOF"})) /\ Len(up') = Len(up)
       /\ \A c \in Conns \ {k} : up'[c] = up[c]
  <2>1. k \in DOMAIN up /\ up \in Seq(Seq({"LEAVE", "EOF"})) BY <1>2, <1>3
  <2> QED BY <1>2, <2>1, UpEmptied
<1>12. down' \in Seq(Seq(Msgs)) /\ Len(down') = Len(by)
  <2>1. down' \in [1 .. Len(by) -> Seq(Msgs)] /\ Len(by) \in Nat
    <3>1. PICK n \in Nat : n = host'.count BY <1>7
    <3>2. ASSUME NEW c \in Conns \ {k} PROVE down'[c] \in Seq(Msgs)
      <4>1. down'[c] = down[c] \o <<Gone(n)>> \/ down'[c] = down[c] BY <3>1
      <4>2. down[c] \o <<Gone(n)>> \in Seq(Msgs) BY <1>2, Notice
      <4> QED BY <1>2, <4>1, <4>2
    <3>3. <<>> \in Seq(Msgs) OBVIOUS
    <3>4. down'[k] \in Seq(Msgs) BY <3>3
    <3>5. \A c \in Conns : down'[c] \in Seq(Msgs) BY <3>2, <3>4
    <3> QED BY <1>2, <3>5
  <2> QED BY <2>1, DownTyped
<1>13. \A c \in Conns \ {k} :
         /\ Has(down'[c], "LEAVE") <=> Has(down[c], "LEAVE")
         /\ Has(down'[c], "EOF") <=> Has(down[c], "EOF")
         /\ Broken(down'[c]) => Broken(down[c])
         /\ ~Seated(c)' => down'[c] = down[c]
         /\ Seated(c)' /\ Held(c) => \A a : Heeds(down'[c], a, host'.count)
         /\ Seated(c)' => \A a, v : Sits(down[c], a, v) => Sits(down'[c], a, v)
  <2>1. SUFFICES ASSUME NEW c \in Conns \ {k}
                 PROVE  /\ Has(down'[c], "LEAVE") <=> Has(down[c], "LEAVE")
                        /\ Has(down'[c], "EOF") <=> Has(down[c], "EOF")
                        /\ Broken(down'[c]) => Broken(down[c])
                        /\ ~Seated(c)' => down'[c] = down[c]
                        /\ Seated(c)' /\ Held(c) => \A a : Heeds(down'[c], a, host'.count)
                        /\ Seated(c)' => \A a, v : Sits(down[c], a, v) => Sits(down'[c], a, v)
    OBVIOUS
  <2>2. Seated(c)' <=> \E x \in InTable(host') : host'.slot[x].conn = c BY DEF Seated
  <2>3. CASE Held(c) /\ Seated(c)'
    <3>1. down'[c] = down[c] \o <<Gone(host'.count)>> BY <2>2, <2>3
    <3>2. down[c] \in Seq(Msgs) BY <1>2
    <3>3. PICK m : m = Gone(host'.count) OBVIOUS
    <3>4. PICK n \in Nat : n = host'.count BY <1>7
    <3>5. m = Gone(n) BY <3>3, <3>4
    <3>6. /\ Has(down[c] \o <<m>>, "LEAVE") <=> Has(down[c], "LEAVE")
          /\ Has(down[c] \o <<m>>, "EOF") <=> Has(down[c], "EOF")
          /\ Broken(down[c] \o <<m>>) => Broken(down[c])
          /\ \A a : Heeds(down[c] \o <<m>>, a, n)
          /\ \A a, v : Sits(down[c], a, v) => Sits(down[c] \o <<m>>, a, v)
      BY <3>2, <3>5, Notice
    <3> QED BY <2>3, <3>1, <3>3, <3>4, <3>6
  <2>4. CASE ~(Held(c) /\ Seated(c)')
    <3>1. down'[c] = down[c] BY <2>2, <2>4
    <3> QED BY <2>4, <3>1
  <2> QED BY <2>3, <2>4
<1>14. TypeOK'
  <2>1. Len(up) = Len(by) BY <1>1 DEF TypeOK
  <2> QED BY <1>1, <1>6, <1>10, <1>11, <1>12, <2>1 DEF TypeOK, Msgs
<1>15. Links'
  <2>1. /\ \A x \in InTable(host') : host'.slot[x].conn \in Conns
        /\ \A x, y \in InTable(host') : host'.slot[x].conn = host'.slot[y].conn => x = y
        /\ \A x \in InTable(host'), n \in DOMAIN backlog : host'.slot[x].conn # backlog[n]
    BY <1>1, <1>8 DEF Links
  <2>2. host'.count = 1 + Cardinality(InTable(host')) BY <1>5, <1>6
  <2> QED BY <1>1, <1>10, <2>1, <2>2 DEF Links
<1>16. Bounded'
  <2>1. Parted \subseteq Parted' BY <1>10, <1>13 DEF Parted
  <2>2. Called' = Called BY DEF Called
  <2>3. UNCHANGED <<by, lost>> OBVIOUS
  <2> QED BY <1>1, <2>1, <2>2, <2>3, BoundedKept
<1>17. Lines'
  <2>1. \A c \in Conns : LineOK(c) BY <1>1 DEF Lines
  <2>2. \A c \in Conns \ {k} : LineOK(c)'
    <3>1. \A c \in Conns \ {k} : (Ended(down[c]) => Ended(down'[c])) /\ (Queued(c) => down'[c] = down[c])
      BY <1>9, <1>13 DEF Ended
    <3>2. ASSUME NEW c \in Conns \ {k} PROVE LineOK(c)'
      <4>1. /\ AtHost(c)' <=> AtHost(c)
            /\ Queued(c)' <=> Queued(c)
            /\ Held(c)' <=> Held(c)
            /\ up'[c] = up[c]
            /\ Has(down'[c], "LEAVE") <=> Has(down[c], "LEAVE")
            /\ Has(down'[c], "EOF") <=> Has(down[c], "EOF")
            /\ Ended(down[c]) => Ended(down'[c])
            /\ Queued(c) => down'[c] = down[c]
        BY <1>9, <1>10, <1>11, <1>13, <3>1 DEF AtHost
      <4>2. LineOK(c) BY <2>1
      <4> QED BY <4>1, <4>2 DEF LineOK
    <3> QED BY <3>2
  <2>3. LineOK(k)'
    <3>1. Held(k) => Ended(down'[k]) BY DEF Ended
    <3> QED BY <1>3, <1>9, <1>10, <3>1 DEF LineOK, AtHost
  <2> QED BY <1>3, <1>10, <2>2, <2>3 DEF Lines
<1>18. Informed'
  <2>1. SUFFICES ASSUME NEW x \in InTable(host'), Held(host'.slot[x].conn),
                        ~Has(down'[host'.slot[x].conn], "EOF")
                 PROVE  /\ Heeds(down'[host'.slot[x].conn], client[by[host'.slot[x].conn]].count, host'.count)
                        /\ Sits(down'[host'.slot[x].conn], client[by[host'.slot[x].conn]].sit, host'.slot[x].sit)
    BY <1>10 DEF Informed
  <2>2. PICK c : c = host'.slot[x].conn OBVIOUS
  <2>3. x \in InTable(host) /\ x # i /\ host'.slot[x] = host.slot[x] BY <1>8
  <2>4. c \in Conns \ {k} /\ c = host.slot[x].conn BY <1>1, <2>2, <2>3 DEF Links
  <2>5. Seated(c)' BY <2>2 DEF Seated
  <2>6. Held(c) /\ ~Has(down[c], "EOF") BY <1>13, <2>1, <2>2, <2>4
  <2>7. Sits(down[c], client[by[c]].sit, host.slot[x].sit) BY <1>1, <2>3, <2>4, <2>6 DEF Informed
  <2>8. /\ Heeds(down'[c], client[by[c]].count, host'.count)
        /\ Sits(down'[c], client[by[c]].sit, host.slot[x].sit)
    BY <1>13, <2>4, <2>5, <2>6, <2>7
  <2> QED BY <2>2, <2>3, <2>8
<1>19. Heads'
  <2>1. Present \subseteq Present'
    <3>1. ASSUME NEW x \in Joiners, x \in Present PROVE x \in Present'
      <4>1. \/ client[x].at = "called" \/ x \in leaving
            \/ client[x].at = "in" /\ ~Broken(down[client[x].conn])
        BY <3>1 DEF Present
      <4>2. CASE client[x].at = "called" \/ x \in leaving BY <4>2 DEF Present
      <4>3. CASE client[x].at = "in" /\ ~Broken(down[client[x].conn])
        <5>1. client[x].conn \in Conns /\ Held(client[x].conn) BY <1>1, <4>3, HeldFacts
        <5>2. ~Broken(down'[client[x].conn]) BY <1>13, <4>3, <5>1
        <5> QED BY <4>3, <5>2 DEF Present
      <4> QED BY <4>1, <4>2, <4>3
    <3>2. Present \subseteq Joiners BY PresentFinite
    <3> QED BY <3>1, <3>2
  <2>2. leaving \subseteq Joiners /\ \A x \in leaving : client[x].at = "idle"
    BY <1>1 DEF TypeOK, Heads
  <2>3. UNCHANGED <<lobby, lost, toLobby, leaving, client>> OBVIOUS
  <2>4. InTable(host) = {} => InTable(host') = {} BY <1>6
  <2> QED BY <1>1, <1>6, <2>1, <2>2, <2>3, <2>4, HeadsKept
<1> QED BY <1>14, <1>15, <1>16, <1>17, <1>18, <1>19 DEF Inv

LEMMA HearGuestStep ==
  ASSUME Inv, NEW i \in Slots, HearGuest(i)
  PROVE  Inv'
<1>1. TypeOK /\ Links /\ Lines BY DEF Inv
<1>2. PICK k : k = host.slot[i].conn OBVIOUS
<1>3. /\ i \in InTable(host) /\ up[k] # <<>> /\ host' = Closed(host, i)
      /\ down' = [Told(host', LAMBDA c : <<Gone(host'.count)>>) EXCEPT
                    ![k] = IF Held(k) THEN <<[type |-> "EOF"]>> ELSE <<>>]
      /\ up' = [up EXCEPT ![k] = <<>>]
      /\ UNCHANGED <<lobby, client, leaving, toLobby, news, by, backlog, lost>>
  BY <1>2 DEF HearGuest
<1>4. k \in Conns /\ \A c \in Conns : down[c] \in Seq(Msgs) BY <1>1, <1>2, <1>3, TypeFacts DEF Links
<1>5. PICK d : d = <<[type |-> "EOF"]>> OBVIOUS
<1>6. d \in Seq(Msgs) /\ Has(d, "EOF")
  <2>1. PICK m : m = [type |-> "EOF"] OBVIOUS
  <2>2. m \in Msgs /\ m.type = "EOF" BY <2>1 DEF Msgs
  <2>3. d = <<m>> BY <1>5, <2>1
  <2> QED BY <2>2, <2>3 DEF Has
<1>8. \A c \in Conns \ {k} :
        down'[c] = IF Held(c) /\ \E x \in InTable(host') : host'.slot[x].conn = c
                   THEN down[c] \o <<Gone(host'.count)>> ELSE down[c]
  BY <1>3 DEF Told
<1>9. down'[k] = IF Held(k) THEN d ELSE <<>> BY <1>3, <1>4, <1>5 DEF Told
<1>10. down' = [c \in Conns |-> down'[c]] BY <1>3 DEF Told
<1>11. Held(k) => Broken(down[k])
  <2>1. LineOK(k) /\ AtHost(k) BY <1>1, <1>2, <1>3, <1>4 DEF Lines, AtHost, Seated
  <2>2. Held(k) => ~Has(down[k], "LEAVE") /\ Has(down[k], "EOF") BY <1>3, <2>1 DEF LineOK
  <2> QED BY <2>2 DEF Has, Broken
<1>12. \A x : Held(k) /\ Broken(x) => Broken(down[k]) BY <1>11
<1> QED
  <2>1. host' = Closed(host, i) /\ up' = [up EXCEPT ![k] = <<>>] /\ i \in InTable(host)
        /\ UNCHANGED <<lobby, client, leaving, toLobby, news, by, backlog, lost>>
    BY <1>3
  <2> QED BY <1>2, <1>6, <1>8, <1>9, <1>10, <1>12, <2>1, SendOff

LEMMA KickStep ==
  ASSUME Inv, NEW i \in Slots, Kick(i)
  PROVE  Inv'
<1>1. TypeOK /\ Links /\ Lines BY DEF Inv
<1>2. PICK k : k = host.slot[i].conn OBVIOUS
<1>3. /\ i \in InTable(host) /\ host' = Closed(host, i)
      /\ down' = [Told(host', LAMBDA c : <<Gone(host'.count)>>) EXCEPT
                    ![k] = IF Held(k) THEN @ \o <<[type |-> "LEAVE"], [type |-> "EOF"]>> ELSE <<>>]
      /\ up' = [up EXCEPT ![k] = <<>>]
      /\ UNCHANGED <<lobby, client, leaving, toLobby, news, by, backlog, lost>>
  BY <1>2 DEF Kick
<1>4. k \in Conns /\ \A c \in Conns : down[c] \in Seq(Msgs) BY <1>1, <1>2, <1>3, TypeFacts DEF Links
<1>5. PICK d : d = down[k] \o <<[type |-> "LEAVE"], [type |-> "EOF"]>> OBVIOUS
<1>6. d \in Seq(Msgs) /\ Has(d, "EOF") /\ (Broken(d) => Broken(down[k])) BY <1>4, <1>5, Farewell
<1>8. \A c \in Conns \ {k} :
        down'[c] = IF Held(c) /\ \E x \in InTable(host') : host'.slot[x].conn = c
                   THEN down[c] \o <<Gone(host'.count)>> ELSE down[c]
  BY <1>3 DEF Told
<1>9. down'[k] = IF Held(k) THEN d ELSE <<>>
  <2>1. ~ \E x \in InTable(host') : host'.slot[x].conn = k
    <3>1. host \in Hosts /\ host.count \in Nat BY <1>1, TypeFacts
    <3>2. host.count >= 1
      <4>1. host.count = 1 + Cardinality(InTable(host)) BY <1>1 DEF Links
      <4> QED BY <4>1, SlotsFinite
    <3>3. InTable(host') = InTable(host) \ {i} /\ \A x \in Slots \ {i} : host'.slot[x] = host.slot[x]
      BY <1>3, <3>1, <3>2, ClosedFacts
    <3>4. \A x \in InTable(host) : x \in Slots /\ (host.slot[x].conn = k => x = i)
      BY <1>1, <1>2, <1>3 DEF Links, InTable
    <3> QED BY <3>3, <3>4
  <2>2. Told(host', LAMBDA c : <<Gone(host'.count)>>)[k] = down[k] BY <1>4, <2>1 DEF Told
  <2>3. k \in DOMAIN Told(host', LAMBDA c : <<Gone(host'.count)>>) BY <1>4 DEF Told
  <2> QED BY <1>3, <1>5, <2>2, <2>3
<1>10. down' = [c \in Conns |-> down'[c]] BY <1>3 DEF Told
<1> QED
  <2>1. host' = Closed(host, i) /\ up' = [up EXCEPT ![k] = <<>>] /\ i \in InTable(host)
        /\ UNCHANGED <<lobby, client, leaving, toLobby, news, by, backlog, lost>>
    BY <1>3
  <2> QED BY <1>2, <1>6, <1>8, <1>9, <1>10, <2>1, SendOff

LEMMA Paired ==
  ASSUME NEW a, NEW b
  PROVE  <<a>> \o <<b>> = <<a, b>>
<1> DEFINE S == {a, b}
<1>1. <<a>> \in Seq(S) /\ <<b>> \in Seq(S) OBVIOUS
<1>2. Len(<<a>>) = 1 /\ Len(<<b>>) = 1 /\ <<a>>[1] = a /\ <<b>>[1] = b OBVIOUS
<1> DEFINE w == <<a>> \o <<b>>
<1>3. w \in Seq(S) /\ Len(w) = 2 /\ w[1] = a /\ w[2] = b BY <1>1, <1>2, ConcatProperties
<1> HIDE DEF w
<1>4. <<a, b>> \in Seq(S) /\ Len(<<a, b>>) = 2 /\ <<a, b>>[1] = a /\ <<a, b>>[2] = b OBVIOUS
<1>5. w = <<a, b>> BY <1>3, <1>4, SeqEqual
<1> QED BY <1>5 DEF w

LEMMA CloseTableStep ==
  ASSUME Inv, CloseTable
  PROVE  Inv'
<1> DEFINE Rank(c) == Cardinality({i \in InTable(host) : i < SlotOf(host, c)})
           gone(c) == [n \in 1 .. Rank(c) |-> Gone(host.count - n)]
<1>1. TypeOK /\ Links /\ Bounded /\ Lines /\ Informed /\ Heads BY DEF Inv
<1>2. /\ host' = Emptied(host)
      /\ down' = Told(host, LAMBDA c : gone(c) \o <<[type |-> "LEAVE"], [type |-> "EOF"]>>)
      /\ up' = [c \in Conns |-> IF \E i \in InTable(host) : host.slot[i].conn = c
                                THEN <<>> ELSE up[c]]
      /\ toLobby' = Append(toLobby, [type |-> "LEAVE"])
      /\ UNCHANGED <<lobby, client, leaving, news, by, backlog, lost>>
  BY DEF CloseTable
<1>3. /\ host \in Hosts /\ host.count \in Nat /\ Len(by) \in Nat /\ Conns = 1 .. Len(by)
      /\ DOMAIN up = Conns /\ DOMAIN down = Conns
      /\ \A c \in Conns : down[c] \in Seq(Msgs) /\ up[c] \in Seq({"LEAVE", "EOF"})
  BY <1>1, TypeFacts
<1>4. host.count = 1 + Cardinality(InTable(host)) BY <1>1 DEF Links
<1>5. /\ host' \in Hosts /\ InTable(host') = {} /\ host'.count = 1 /\ ~host'.serving
  BY <1>2, <1>3, <1>4, EmptiedFacts
<1>6. \A c \in Conns : gone(c) \in Seq(Msgs)
  <2>1. ASSUME NEW c \in Conns PROVE gone(c) \in Seq(Msgs)
    <3>1. PICK r : r = Rank(c) OBVIOUS
    <3>2. r \in Nat /\ r <= host.count - 1
      <4> DEFINE S == {i \in InTable(host) : i < SlotOf(host, c)}
      <4>1. S \subseteq InTable(host) OBVIOUS
      <4> HIDE DEF S
      <4>2. IsFiniteSet(S) /\ Cardinality(S) <= Cardinality(InTable(host)) /\ Cardinality(S) \in Nat
            /\ Cardinality(InTable(host)) \in Nat
        BY <4>1, SlotsFinite, FS_Subset, FS_CardinalityType
      <4>3. r = Cardinality(S) BY <3>1 DEF S
      <4> QED BY <1>4, <4>2, <4>3
    <3>3. PICK k \in Nat : k = host.count BY <1>3
    <3> HIDE DEF Rank
    <3>4. gone(c) = [n \in 1 .. r |-> Gone(k - n)] BY <3>1, <3>3
    <3>5. \A n \in 1 .. r : k - n \in Nat BY <3>2, <3>3
    <3>6. \A n \in 1 .. r : Gone(k - n) \in Msgs BY <3>5 DEF Gone, Msgs
    <3>7. [n \in 1 .. r |-> Gone(k - n)] \in [1 .. r -> Msgs] BY <3>6
    <3> HIDE DEF gone
    <3> QED BY <3>2, <3>4, <3>7, SeqOfFunction
  <2> QED BY <2>1
<1> HIDE DEF Rank
<1>7. /\ DOMAIN down' = Conns /\ down' = [c \in Conns |-> down'[c]]
      /\ \A c \in Conns :
           down'[c] = IF Held(c) /\ Seated(c)
                      THEN down[c] \o (gone(c) \o <<[type |-> "LEAVE"], [type |-> "EOF"]>>) ELSE down[c]
  BY <1>2 DEF Told, Seated
<1> HIDE DEF gone
<1>8. \A c \in Conns : down'[c] \in Seq(Msgs)
                       /\ (Held(c) /\ Seated(c) => Has(down'[c], "EOF"))
                       /\ (Has(down[c], "EOF") => Has(down'[c], "EOF"))
                       /\ (~Seated(c) => down'[c] = down[c])
  <2>1. SUFFICES ASSUME NEW c \in Conns
                 PROVE  /\ down'[c] \in Seq(Msgs)
                        /\ Held(c) /\ Seated(c) => Has(down'[c], "EOF")
                        /\ Has(down[c], "EOF") => Has(down'[c], "EOF")
                        /\ ~Seated(c) => down'[c] = down[c]
    OBVIOUS
  <2>2. CASE Held(c) /\ Seated(c)
    <3>1. PICK e : e = gone(c) \o <<[type |-> "LEAVE"], [type |-> "EOF"]>> OBVIOUS
    <3>2. e \in Seq(Msgs) /\ Has(e, "EOF") BY <1>6, <3>1, Farewell
    <3>3. down'[c] = down[c] \o e BY <1>7, <2>2, <3>1
    <3>4. down[c] \o e \in Seq(Msgs) /\ Has(down[c] \o e, "EOF") BY <1>3, <3>2, HasJoined
    <3> QED BY <2>2, <3>3, <3>4
  <2>3. CASE ~(Held(c) /\ Seated(c)) BY <1>3, <1>7, <2>3
  <2> QED BY <2>2, <2>3
<1>9. /\ \A c : ~Seated(c)'
      /\ \A c : Queued(c)' <=> Queued(c)
      /\ \A c \in Conns : Seated(c) => ~Queued(c)
  <2>1. \A c : ~Seated(c)' BY <1>5 DEF Seated
  <2>2. \A c : Queued(c)' <=> Queued(c) BY <1>2 DEF Queued
  <2>3. \A c \in Conns : Seated(c) => ~Queued(c) BY <1>1 DEF Links, Seated, Queued
  <2> QED BY <2>1, <2>2, <2>3
<1>10. Conns' = Conns /\ \A c : Held(c)' <=> Held(c) BY <1>2 DEF Conns, Held
<1>11. up' \in Seq(Seq({"LEAVE", "EOF"})) /\ Len(up') = Len(by)
       /\ \A c \in Conns : ~Seated(c) => up'[c] = up[c]
  <2>1. \A c \in Conns : ~Seated(c) => up'[c] = up[c] BY <1>2 DEF Seated
  <2>2. \A c \in Conns : up'[c] = <<>> \/ up'[c] = up[c] BY <1>2
  <2>3. <<>> \in Seq({"LEAVE", "EOF"}) OBVIOUS
  <2>4. \A c \in Conns : up'[c] \in Seq({"LEAVE", "EOF"}) BY <1>3, <2>2, <2>3
  <2> DEFINE S == Seq({"LEAVE", "EOF"})
  <2>5. up' = [c \in Conns |-> up'[c]] BY <1>2
  <2> HIDE DEF S
  <2>6. up' \in [1 .. Len(by) -> S] BY <1>3, <2>4, <2>5 DEF S
  <2>7. up' \in Seq(S) /\ Len(up') = Len(by) BY <1>3, <2>6, SeqOfFunction
  <2> QED BY <2>1, <2>7 DEF S
<1>12. down' \in Seq(Seq(Msgs)) /\ Len(down') = Len(by)
  <2>1. down' \in [1 .. Len(by) -> Seq(Msgs)] BY <1>3, <1>7, <1>8
  <2> QED BY <1>3, <2>1, DownTyped
<1>13. TypeOK'
  <2>1. toLobby' \in Seq([type : {"START", "LEAVE"}])
    <3> DEFINE T == [type : {"START", "LEAVE"}]
    <3>1. PICK m \in T : m = [type |-> "LEAVE"] OBVIOUS
    <3>2. toLobby \in Seq(T) /\ toLobby' = Append(toLobby, m) BY <1>1, <1>2, <3>1 DEF TypeOK
    <3> HIDE DEF T
    <3>3. toLobby' \in Seq(T) BY <3>2
    <3> QED BY <3>3 DEF T
  <2> QED BY <1>1, <1>2, <1>5, <1>10, <1>11, <1>12, <2>1 DEF TypeOK, Msgs
<1>14. Links'
  <2>1. host'.count = 1 + Cardinality(InTable(host')) BY <1>5, FS_EmptySet
  <2> QED BY <1>1, <1>2, <1>5, <1>10, <2>1 DEF Links
<1>15. Bounded'
  <2>1. Parted \subseteq Parted' BY <1>8, <1>10 DEF Parted
  <2>2. Called' = Called BY <1>2 DEF Called
  <2>3. UNCHANGED <<by, lost>> BY <1>2
  <2> QED BY <1>1, <2>1, <2>2, <2>3, BoundedKept
<1>16. Lines'
  <2>1. ASSUME NEW c \in Conns PROVE LineOK(c)'
    <3>1. LineOK(c) BY <1>1 DEF Lines
    <3>2. CASE Seated(c)
      <4>1. ~AtHost(c)' BY <1>9, <3>2 DEF AtHost
      <4>2. ~Queued(c)' BY <1>9, <3>2
      <4>3. Held(c)' => Ended(down'[c]) BY <1>8, <1>10, <3>2 DEF Ended
      <4> QED BY <4>1, <4>2, <4>3 DEF LineOK
    <3>3. CASE ~Seated(c)
      <4>1. /\ AtHost(c)' <=> AtHost(c)
            /\ Queued(c)' <=> Queued(c)
            /\ Held(c)' <=> Held(c)
            /\ up'[c] = up[c] /\ down'[c] = down[c]
        BY <1>8, <1>9, <1>10, <1>11, <3>3 DEF AtHost
      <4> QED BY <3>1, <4>1 DEF LineOK
    <3> QED BY <3>2, <3>3
  <2> QED BY <1>10, <2>1 DEF Lines
<1>17. Informed' BY <1>5 DEF Informed
<1>18. Heads'
  <2>1. \A x \in leaving' : client'[x].at = "idle" BY <1>1, <1>2 DEF Heads
  <2> QED BY <1>5, <2>1 DEF Heads
<1> QED BY <1>13, <1>14, <1>15, <1>16, <1>17, <1>18 DEF Inv

LEMMA AcceptStep ==
  ASSUME Inv, Accept
  PROVE  Inv'
<1>1. TypeOK /\ Links /\ Bounded /\ Lines /\ Informed /\ Heads BY DEF Inv
<1>2. backlog \in Seq(Conns) /\ backlog # <<>> BY <1>1 DEF TypeOK, Accept
<1>3. PICK k \in Conns : k = Head(backlog) BY <1>2
<1>4. /\ host.serving /\ host' = Accepted(k) /\ down' = Comers(Accepted(k), k)
      /\ toLobby' = StartAsked(Accepted(k).count) /\ backlog' = Tail(backlog)
      /\ UNCHANGED <<lobby, client, leaving, news, by, up, lost>>
  BY <1>3 DEF Accept
<1>5. /\ host \in Hosts /\ host.count \in Nat /\ Len(by) \in Nat /\ Conns = 1 .. Len(by)
      /\ DOMAIN up = Conns /\ DOMAIN down = Conns
      /\ \A c \in Conns : down[c] \in Seq(Msgs)
  BY <1>1, TypeFacts
<1>6. /\ Tail(backlog) \in Seq(Conns) /\ k = backlog[1] /\ 1 \in DOMAIN backlog
      /\ DOMAIN backlog = 1 .. Len(backlog) /\ Len(backlog) \in Nat
      /\ DOMAIN backlog' = 1 .. Len(backlog) - 1
      /\ \A n \in DOMAIN backlog' : n + 1 \in DOMAIN backlog /\ backlog'[n] = backlog[n + 1]
  BY <1>2, <1>3, <1>4, HeadTail
<1>7. Queued(k) /\ ~Seated(k) BY <1>1, <1>6 DEF Queued, Seated, Links
<1>8. PICK i : i = Least(Slots \ InTable(host)) OBVIOUS
<1>9. /\ i \in Slots \ InTable(host)
      /\ host' \in Hosts
      /\ InTable(host') = InTable(host) \cup {i}
      /\ \A x \in Slots \ {i} : host'.slot[x] = host.slot[x]
      /\ host'.slot[i].conn = k /\ host'.slot[i].sit = SeatFor(i)
      /\ host'.count = host.count + 1
      /\ host'.serving = host.serving
  <2>1. /\ i \in Slots \ InTable(host)
        /\ Accepted(k) \in Hosts
        /\ InTable(Accepted(k)) = InTable(host) \cup {i}
        /\ \A x \in Slots \ {i} : Accepted(k).slot[x] = host.slot[x]
        /\ Accepted(k).slot[i] = [conn |-> k, sit |-> SeatFor(i),
                                   name |-> host.name, money |-> host.money]
        /\ Accepted(k).count = host.count + 1
        /\ Accepted(k).serving = host.serving
    BY <1>1, <1>7, <1>8, AcceptedFacts
  <2> QED BY <1>4, <2>1
<1>10. SeatFor(i) \in {0} \cup Seats BY <1>1, <1>9, SeatForIn
<1>11. \A x \in InTable(host) : x \in Slots \ {i} /\ x \in InTable(host') /\ host'.slot[x] = host.slot[x]
  BY <1>9 DEF InTable
<1>12. \A x \in InTable(host') : x # i => x \in InTable(host) BY <1>9
<1>13. i \in InTable(host') BY <1>9
<1>14. /\ \A c \in Conns : Seated(c)' <=> Seated(c) \/ c = k
       /\ \A c \in Conns : Queued(c)' <=> Queued(c) /\ c # k
       /\ \A c \in Conns : Seated(c) => ~Queued(c)
  <2>1. \A c \in Conns : Seated(c)' <=> Seated(c) \/ c = k BY <1>9, <1>11, <1>12, <1>13 DEF Seated
  <2>2. ASSUME NEW c \in Conns PROVE Queued(c)' <=> Queued(c) /\ c # k
    <3>1. ASSUME Queued(c)' PROVE Queued(c) /\ c # k
      <4>1. PICK n \in DOMAIN backlog' : backlog'[n] = c BY <3>1 DEF Queued
      <4>2. n + 1 \in DOMAIN backlog /\ backlog[n + 1] = c /\ n + 1 # 1 BY <1>6, <4>1
      <4>3. c # k BY <1>1, <1>6, <4>2 DEF Links
      <4> QED BY <4>2, <4>3 DEF Queued
    <3>2. ASSUME Queued(c), c # k PROVE Queued(c)'
      <4>1. PICK n \in DOMAIN backlog : backlog[n] = c BY <3>2 DEF Queued
      <4>2. n # 1 BY <1>6, <3>2, <4>1
      <4>3. n - 1 \in DOMAIN backlog' /\ n - 1 + 1 = n BY <1>6, <4>1, <4>2
      <4>4. backlog'[n - 1] = c BY <1>6, <4>1, <4>3
      <4> QED BY <4>3, <4>4 DEF Queued
    <3> QED BY <3>1, <3>2
  <2>3. \A c \in Conns : Seated(c) => ~Queued(c) BY <1>1 DEF Links, Seated, Queued
  <2> QED BY <2>1, <2>2, <2>3
<1>15. Conns' = Conns /\ \A c : Held(c)' <=> Held(c) BY <1>4 DEF Conns, Held
<1>16. SlotOf(host', k) = i
  <2>1. \A x \in InTable(host') : host'.slot[x].conn = k => x = i
    <3>1. \A x \in InTable(host) : host.slot[x].conn # k BY <1>7 DEF Seated
    <3> QED BY <1>11, <1>12, <3>1
  <2> QED BY <1>9, <1>13, <2>1 DEF SlotOf
<1>17. PICK n \in Nat : n = host'.count BY <1>5, <1>9
<1>18. PICK w : w = <<Comer(n), [type |-> "INFO", sit |-> SeatFor(i)]>> OBVIOUS
<1>19. /\ down' = [c \in Conns |-> down'[c]]
       /\ \A c \in Conns :
            down'[c] = IF Held(c) /\ Seated(c)'
                       THEN IF c = k THEN down[c] \o w ELSE down[c] \o <<Comer(n)>>
                       ELSE down[c]
  <2>1. down' = [c \in Conns |->
                   IF Held(c) /\ \E x \in InTable(Accepted(k)) : Accepted(k).slot[x].conn = c
                   THEN down[c] \o (<<Comer(Accepted(k).count)>> \o
                      IF c = k THEN <<[type |-> "INFO", sit |-> Accepted(k).slot[SlotOf(Accepted(k), k)].sit]>>
                      ELSE <<>>)
                   ELSE down[c]]
    BY <1>4 DEF Comers, Told
  <2>2. \A c \in Conns :
          down'[c] = IF Held(c) /\ \E x \in InTable(host') : host'.slot[x].conn = c
                     THEN down[c] \o (<<Comer(host'.count)>> \o
                        IF c = k THEN <<[type |-> "INFO", sit |-> host'.slot[SlotOf(host', k)].sit]>>
                        ELSE <<>>)
                     ELSE down[c]
    BY <1>4, <2>1
  <2>3. down' = [c \in Conns |-> down'[c]] BY <2>1
  <2>4. <<Comer(host'.count)>> \o <<[type |-> "INFO", sit |-> host'.slot[SlotOf(host', k)].sit]>> = w
    <3>1. PICK a : a = Comer(n) OBVIOUS
    <3>2. PICK b : b = [type |-> "INFO", sit |-> SeatFor(i)] OBVIOUS
    <3>3. <<a>> \o <<b>> = <<a, b>> BY Paired
    <3>4. Comer(host'.count) = a /\ [type |-> "INFO", sit |-> host'.slot[SlotOf(host', k)].sit] = b
      BY <1>9, <1>16, <1>17, <3>1, <3>2
    <3> QED BY <1>18, <3>1, <3>2, <3>3, <3>4
  <2>5. <<Comer(host'.count)>> \o <<>> = <<Comer(n)>>
    <3>1. PICK a : a = Comer(n) OBVIOUS
    <3>2. <<a>> \o <<>> = <<a>> OBVIOUS
    <3> QED BY <1>17, <3>1, <3>2
  <2>6. \A c : Seated(c)' <=> \E x \in InTable(host') : host'.slot[x].conn = c BY DEF Seated
  <2> QED BY <2>2, <2>3, <2>4, <2>5, <2>6
<1>20. \A c \in Conns :
         /\ down'[c] \in Seq(Msgs)
         /\ Has(down'[c], "LEAVE") <=> Has(down[c], "LEAVE")
         /\ Has(down'[c], "EOF") <=> Has(down[c], "EOF")
         /\ Broken(down'[c]) => Broken(down[c])
         /\ ~Seated(c)' => down'[c] = down[c]
         /\ Seated(c)' /\ Held(c) => \A a : Heeds(down'[c], a, host'.count)
         /\ c # k /\ Seated(c)' => \A a, v : Sits(down[c], a, v) => Sits(down'[c], a, v)
         /\ c = k /\ Held(c) /\ ~Has(down[c], "INFO") => \A a : Sits(down'[c], a, SeatFor(i))
  <2>1. SUFFICES ASSUME NEW c \in Conns
          PROVE  /\ down'[c] \in Seq(Msgs)
                 /\ Has(down'[c], "LEAVE") <=> Has(down[c], "LEAVE")
                 /\ Has(down'[c], "EOF") <=> Has(down[c], "EOF")
                 /\ Broken(down'[c]) => Broken(down[c])
                 /\ ~Seated(c)' => down'[c] = down[c]
                 /\ Seated(c)' /\ Held(c) => \A a : Heeds(down'[c], a, host'.count)
                 /\ c # k /\ Seated(c)' => \A a, v : Sits(down[c], a, v) => Sits(down'[c], a, v)
                 /\ c = k /\ Held(c) /\ ~Has(down[c], "INFO") => \A a : Sits(down'[c], a, SeatFor(i))
    OBVIOUS
  <2>2. down[c] \in Seq(Msgs) BY <1>5
  <2>3. CASE Held(c) /\ Seated(c)' /\ c # k
    <3>1. PICK m : m = Comer(n) OBVIOUS
    <3>2. down'[c] = down[c] \o <<m>> BY <1>19, <2>3, <3>1
    <3>3. /\ down[c] \o <<m>> \in Seq(Msgs)
          /\ Has(down[c] \o <<m>>, "LEAVE") <=> Has(down[c], "LEAVE")
          /\ Has(down[c] \o <<m>>, "EOF") <=> Has(down[c], "EOF")
          /\ Broken(down[c] \o <<m>>) => Broken(down[c])
          /\ \A a : Heeds(down[c] \o <<m>>, a, n)
          /\ \A a, v : Sits(down[c], a, v) => Sits(down[c] \o <<m>>, a, v)
      BY <2>2, <3>1, Notice
    <3> QED BY <1>17, <2>3, <3>2, <3>3
  <2>4. CASE Held(c) /\ Seated(c)' /\ c = k
    <3>1. down'[c] = down[c] \o w BY <1>19, <2>4
    <3>2. PICK s \in {0} \cup Seats : s = SeatFor(i) BY <1>10
    <3>3. w = <<Comer(n), [type |-> "INFO", sit |-> s]>> BY <1>18, <3>2
    <3>4. /\ down[c] \o w \in Seq(Msgs)
          /\ Has(down[c] \o w, "LEAVE") <=> Has(down[c], "LEAVE")
          /\ Has(down[c] \o w, "EOF") <=> Has(down[c], "EOF")
          /\ Broken(down[c] \o w) => Broken(down[c])
          /\ \A a : Heeds(down[c] \o w, a, n)
          /\ ~Has(down[c], "INFO") => \A a : Sits(down[c] \o w, a, s)
      BY <2>2, <3>3, Welcome
    <3> QED BY <1>17, <2>4, <3>1, <3>2, <3>4
  <2>5. CASE ~(Held(c) /\ Seated(c)')
    <3>1. down'[c] = down[c] BY <1>19, <2>5
    <3>2. c = k => Seated(c)' BY <1>14
    <3> QED BY <2>2, <2>5, <3>1, <3>2
  <2> QED BY <2>3, <2>4, <2>5
<1>21. down' \in Seq(Seq(Msgs)) /\ Len(down') = Len(by)
  <2>1. down' \in [1 .. Len(by) -> Seq(Msgs)] BY <1>5, <1>19, <1>20
  <2> QED BY <1>5, <2>1, DownTyped
<1>22. toLobby' \in Seq([type : {"START", "LEAVE"}]) /\ (Has(toLobby', "LEAVE") => Has(toLobby, "LEAVE"))
  <2>1. toLobby \in Seq([type : {"START", "LEAVE"}]) BY <1>1 DEF TypeOK
  <2>2. toLobby' = toLobby \/ toLobby' = Append(toLobby, [type |-> "START"]) BY <1>4 DEF StartAsked
  <2>3. CASE toLobby' = Append(toLobby, [type |-> "START"])
    <3> DEFINE T == [type : {"START", "LEAVE"}]
    <3>1. PICK m \in T : m = [type |-> "START"] OBVIOUS
    <3>2. m.type # "LEAVE" BY <3>1
    <3>3. toLobby \in Seq(T) /\ toLobby' = Append(toLobby, m) BY <2>1, <2>3, <3>1
    <3> HIDE DEF T
    <3>4. toLobby' \in Seq(T) BY <3>3
    <3>5. DOMAIN toLobby' = 1 .. Len(toLobby) + 1 /\ toLobby'[Len(toLobby) + 1] = m
          /\ DOMAIN toLobby = 1 .. Len(toLobby) /\ Len(toLobby) \in Nat
          /\ \A x \in 1 .. Len(toLobby) : toLobby'[x] = toLobby[x]
      BY <3>3
    <3>6. Has(toLobby', "LEAVE") => Has(toLobby, "LEAVE")
      <4>1. \A x \in DOMAIN toLobby' : x = Len(toLobby) + 1 \/ x \in DOMAIN toLobby BY <3>5
      <4> QED BY <3>2, <3>5, <4>1 DEF Has
    <3> QED BY <3>4, <3>6 DEF T
  <2> QED BY <2>1, <2>2, <2>3
<1>23. TypeOK'
  <2>1. backlog' \in Seq(Conns') BY <1>4, <1>6, <1>15
  <2> QED BY <1>1, <1>4, <1>9, <1>15, <1>21, <1>22, <2>1 DEF TypeOK, Msgs
<1>24. Links'
  <2>1. \A x \in InTable(host') : host'.slot[x].conn \in Conns
    BY <1>1, <1>9, <1>11, <1>12 DEF Links
  <2>2. ASSUME NEW x \in InTable(host'), NEW y \in InTable(host'), host'.slot[x].conn = host'.slot[y].conn
        PROVE  x = y
    <3>1. \A z \in InTable(host) : host.slot[z].conn # k BY <1>7 DEF Seated
    <3>2. \A a, b \in InTable(host) : host.slot[a].conn = host.slot[b].conn => a = b BY <1>1 DEF Links
    <3> QED BY <1>9, <1>11, <1>12, <2>2, <3>1, <3>2
  <2>3. \A m, x \in DOMAIN backlog' : backlog'[m] = backlog'[x] => m = x
    <3>1. \A m, x \in DOMAIN backlog : backlog[m] = backlog[x] => m = x BY <1>1 DEF Links
    <3>2. \A m, x \in DOMAIN backlog' : m + 1 = x + 1 => m = x BY <1>6
    <3> QED BY <1>6, <3>1, <3>2
  <2>4. \A x \in InTable(host'), m \in DOMAIN backlog' : host'.slot[x].conn # backlog'[m]
    <3>1. \A m \in DOMAIN backlog' : backlog'[m] # k /\ \E y \in DOMAIN backlog : backlog'[m] = backlog[y]
      <4>1. ASSUME NEW m \in DOMAIN backlog' PROVE backlog'[m] # k
        <5>1. m + 1 \in DOMAIN backlog /\ m + 1 # 1 BY <1>6, <4>1
        <5>2. \A a, b \in DOMAIN backlog : backlog[a] = backlog[b] => a = b BY <1>1 DEF Links
        <5> QED BY <1>6, <5>1, <5>2
      <4> QED BY <1>6, <4>1
    <3>2. \A x \in InTable(host), y \in DOMAIN backlog : host.slot[x].conn # backlog[y] BY <1>1 DEF Links
    <3> QED BY <1>9, <1>11, <1>12, <3>1, <3>2
  <2>5. host'.count = 1 + Cardinality(InTable(host'))
    <3>1. Cardinality(InTable(host) \cup {i}) = Cardinality(InTable(host)) + 1
      BY <1>9, SlotsFinite, FS_AddElement
    <3>2. host.count = 1 + Cardinality(InTable(host)) /\ Cardinality(InTable(host)) \in Nat
      BY <1>1, SlotsFinite DEF Links
    <3> QED BY <1>9, <3>1, <3>2
  <2> QED BY <1>1, <1>4, <1>15, <2>1, <2>2, <2>3, <2>4, <2>5 DEF Links
<1>25. Bounded'
  <2>1. Parted \subseteq Parted' BY <1>15, <1>20 DEF Parted
  <2>2. Called' = Called BY <1>4 DEF Called
  <2>3. UNCHANGED <<by, lost>> BY <1>4
  <2> QED BY <1>1, <2>1, <2>2, <2>3, BoundedKept
<1>26. Lines'
  <2>1. ASSUME NEW c \in Conns PROVE LineOK(c)'
    <3>1. LineOK(c) BY <1>1 DEF Lines
    <3>2. /\ AtHost(c)' <=> AtHost(c)
          /\ Queued(c)' => Queued(c) /\ ~Seated(c)'
          /\ Held(c)' <=> Held(c)
          /\ up'[c] = up[c]
          /\ Has(down'[c], "LEAVE") <=> Has(down[c], "LEAVE")
          /\ Has(down'[c], "EOF") <=> Has(down[c], "EOF")
          /\ ~Seated(c)' => down'[c] = down[c]
      <4>1. AtHost(c)' <=> AtHost(c) BY <1>7, <1>14 DEF AtHost
      <4>2. Queued(c)' => Queued(c) /\ ~Seated(c)' BY <1>14
      <4>3. up' = up BY <1>4
      <4> QED BY <1>15, <1>20, <4>1, <4>2, <4>3
    <3> QED BY <3>1, <3>2 DEF LineOK, Ended
  <2> QED BY <1>15, <2>1 DEF Lines
<1>27. Informed'
  <2>1. SUFFICES ASSUME NEW x \in InTable(host'), Held(host'.slot[x].conn),
                        ~Has(down'[host'.slot[x].conn], "EOF")
                 PROVE  /\ Heeds(down'[host'.slot[x].conn], client[by[host'.slot[x].conn]].count, host'.count)
                        /\ Sits(down'[host'.slot[x].conn], client[by[host'.slot[x].conn]].sit, host'.slot[x].sit)
    BY <1>4, <1>15 DEF Informed
  <2>2. PICK c \in Conns : c = host'.slot[x].conn BY <1>1, <1>9, <1>11, <1>12 DEF Links
  <2>3. Seated(c)' BY <2>2 DEF Seated
  <2>4. Held(c) /\ ~Has(down[c], "EOF") BY <1>20, <2>1, <2>2
  <2>5. Heeds(down'[c], client[by[c]].count, host'.count) BY <1>20, <2>3, <2>4
  <2>6. CASE x = i
    <3>1. c = k BY <1>9, <2>2, <2>6
    <3>2. ~Has(down[c], "INFO")
      <4>1. \A m \in DOMAIN down[c] : down[c][m].type = "EOF" BY <1>1, <1>7, <2>4, <3>1 DEF Lines, LineOK
      <4> QED BY <4>1 DEF Has
    <3>3. Sits(down'[c], client[by[c]].sit, SeatFor(i)) BY <1>20, <2>4, <3>1, <3>2
    <3> QED BY <1>9, <2>2, <2>5, <2>6, <3>3
  <2>7. CASE x # i
    <3>1. x \in InTable(host) /\ host'.slot[x] = host.slot[x] BY <1>11, <1>12, <2>7
    <3>2. c # k BY <1>7, <2>2, <3>1 DEF Seated
    <3>3. Sits(down[c], client[by[c]].sit, host.slot[x].sit) BY <1>1, <2>2, <2>4, <3>1 DEF Informed
    <3>4. Sits(down'[c], client[by[c]].sit, host.slot[x].sit) BY <1>20, <2>3, <3>2, <3>3
    <3> QED BY <2>2, <2>5, <3>1, <3>4
  <2> QED BY <2>6, <2>7
<1>28. Heads'
  <2>1. Present \subseteq Present'
    <3>1. ASSUME NEW x \in Joiners, x \in Present PROVE x \in Present'
      <4>1. \/ client[x].at = "called" \/ x \in leaving
            \/ client[x].at = "in" /\ ~Broken(down[client[x].conn])
        BY <3>1 DEF Present
      <4>2. CASE client[x].at = "called" \/ x \in leaving BY <1>4, <4>2 DEF Present
      <4>3. CASE client[x].at = "in" /\ ~Broken(down[client[x].conn])
        <5>1. client[x].conn \in Conns BY <1>1, <4>3, HeldFacts
        <5>2. ~Broken(down'[client[x].conn]) BY <1>20, <4>3, <5>1
        <5> QED BY <1>4, <4>3, <5>2 DEF Present
      <4> QED BY <4>1, <4>2, <4>3
    <3>2. Present \subseteq Joiners BY PresentFinite
    <3> QED BY <3>1, <3>2
  <2>2. leaving \subseteq Joiners /\ \A x \in leaving : client[x].at = "idle"
    BY <1>1 DEF TypeOK, Heads
  <2>3. UNCHANGED <<lobby, lost, leaving, client>> BY <1>4
  <2>4. Heads /\ host.serving BY <1>1, <1>4
  <2>5. Cardinality(Present) <= Cardinality(Present')
        /\ Cardinality(Present) \in Nat /\ Cardinality(Present') \in Nat
    <3>1. Present' \subseteq Joiners BY DEF Present
    <3>2. IsFiniteSet(Present') BY <3>1, TableAssumption, FS_Subset
    <3> QED BY <2>1, <3>2, FS_Subset, FS_CardinalityType
  <2>6. lobby.heads <= 1 + Cardinality(Present') + lost
    <3>1. lobby.heads <= 1 + Cardinality(Present) + lost BY <2>4 DEF Heads
    <3>2. lobby.heads \in Nat /\ lost \in Nat BY <1>1, TypeFacts
    <3> QED BY <2>5, <3>1, <3>2
  <2> QED BY <1>9, <1>22, <2>2, <2>3, <2>4, <2>6 DEF Heads
<1> QED BY <1>23, <1>24, <1>25, <1>26, <1>27, <1>28 DEF Inv

LEMMA IdleStep ==
  ASSUME Inv, UNCHANGED vars
  PROVE  Inv'
<1>1. TypeOK' BY DEF Inv, TypeOK, vars, Hosts, Clients, Conns, Slots, Seats, Names
<1>2. Links' BY DEF Inv, Links, vars, InTable, Conns
<1>3. Bounded' BY DEF Inv, Bounded, vars, Called, Parted, Conns, Held, Has
<1>4. Lines' BY DEF Inv, Lines, LineOK, vars, Conns, AtHost, Seated, Queued, Held, InTable
<1>5. Informed' BY DEF Inv, Informed, vars, InTable, Held, Conns
<1>6. Heads' BY DEF Inv, Heads, vars, InTable, Present
<1> QED BY <1>1, <1>2, <1>3, <1>4, <1>5, <1>6 DEF Inv

\* Whatever the programs and the network do keeps the invariant.
THEOREM Inductive == Inv /\ [Next]_vars => Inv'
<1> SUFFICES ASSUME Inv, [Next]_vars PROVE Inv' OBVIOUS
<1>1. CASE \E j \in Joiners : Join(j) BY <1>1, JoinStep
<1>2. CASE \E j \in Joiners : Connect(j) BY <1>2, ConnectStep
<1>3. CASE \E j \in Joiners : Leave(j) BY <1>3, LeaveStep
<1>4. CASE \E j \in Joiners : LobbyHearsLeave(j) BY <1>4, LobbyHearsLeaveStep
<1>5. CASE \E j \in Joiners : GuestHears(j) BY <1>5, GuestHearsStep
<1>6. CASE \E k \in Conns : Lose(k) BY <1>6, LoseStep
<1>7. CASE \E i \in Slots : HearGuest(i) BY <1>7, HearGuestStep
<1>8. CASE \E i \in Slots : Kick(i) BY <1>8, KickStep
<1>9. CASE LobbyHearsHost BY <1>9, LobbyHearsHostStep
<1>10. CASE HearLobby BY <1>10, HearLobbyStep
<1>11. CASE Accept BY <1>11, AcceptStep
<1>12. CASE CloseTable BY <1>12, CloseTableStep
<1>13. CASE UNCHANGED vars BY <1>13, IdleStep
<1> QED BY <1>1, <1>2, <1>3, <1>4, <1>5, <1>6, <1>7, <1>8, <1>9, <1>10, <1>11, <1>12, <1>13 DEF Next

-----------------------------------------------------------------------------
(* The counts.                                                              *)

LEMMA GuestsAreTold ==
  ASSUME Inv
  PROVE  GuestsKnow
<1>1. SUFFICES ASSUME NEW i \in InTable(host), NEW c, c = host.slot[i].conn, Held(c), down[c] = <<>>
               PROVE  /\ client[by[c]].count = host.count
                      /\ client[by[c]].sit = host.slot[i].sit
  BY DEF GuestsKnow
<1>2. DOMAIN down[c] = {} BY <1>1
<1>3. ~Has(down[c], "EOF") /\ ~Has(down[c], "INFO") BY <1>2 DEF Has
<1>4. /\ Heeds(down[c], client[by[c]].count, host.count)
      /\ Sits(down[c], client[by[c]].sit, host.slot[i].sit)
  BY <1>1, <1>3 DEF Inv, Informed
<1>5. client[by[c]].count = host.count BY <1>2, <1>4 DEF Heeds
<1>6. client[by[c]].sit = host.slot[i].sit BY <1>3, <1>4 DEF Sits
<1> QED BY <1>5, <1>6

LEMMA HeadsAreCounted ==
  ASSUME Inv
  PROVE  HeadCountsAgree
<1> SUFFICES ASSUME Quiet, host.serving
             PROVE  host.count <= lobby.heads /\ lobby.heads <= host.count + lost
  BY DEF HeadCountsAgree
<1>1. TypeOK /\ Links /\ Lines /\ Heads BY DEF Inv
<1> DEFINE who(i) == by[host.slot[i].conn]
<1>2. \A c \in Conns : up[c] = <<>> /\ down[c] = <<>> BY DEF Quiet
<1>3. \A c \in Conns : Seated(c) => Held(c) BY <1>1, <1>2 DEF Lines, LineOK, AtHost
<1>4. \A i \in InTable(host) : /\ host.slot[i].conn \in Conns
                               /\ client[who(i)].conn = host.slot[i].conn
                               /\ who(i) \in Joiners
  <2>1. SUFFICES ASSUME NEW i \in InTable(host)
                 PROVE  /\ host.slot[i].conn \in Conns
                        /\ client[who(i)].conn = host.slot[i].conn
                        /\ who(i) \in Joiners
    OBVIOUS
  <2>2. PICK c \in Conns : c = host.slot[i].conn BY <1>1 DEF Links
  <2>3. Held(c) BY <1>3, <2>2 DEF Seated
  <2>4. by[c] \in Joiners BY <1>1 DEF TypeOK, Conns
  <2> QED BY <2>2, <2>3, <2>4 DEF Held
<1>5. \A i \in InTable(host) : client[who(i)].at = "in" /\ who(i) \in lobby.linked
  <2>1. \A c \in Conns : 0 # c BY <1>1, TypeFacts
  <2>2. \A i \in InTable(host) : client[who(i)].at = "in" BY <1>1, <1>4, <2>1 DEF Links
  <2> QED BY <1>1, <1>4, <2>2 DEF Heads
<1>6. \A i, j \in InTable(host) : who(i) = who(j) => i = j BY <1>1, <1>4 DEF Links
<1>7. Present \subseteq {who(i) : i \in InTable(host)}
  <2>1. SUFFICES ASSUME NEW j \in Present PROVE \E i \in InTable(host) : j = who(i) OBVIOUS
  <2>2. j \in Joiners /\ client[j].at = "in" BY DEF Present, Quiet
  <2>3. PICK c \in Conns : c = client[j].conn /\ by[c] = j BY <1>1, <2>2 DEF Links
  <2>4. Held(c) BY <2>3 DEF Held
  <2>5. AtHost(c)
    <3>1. ~Ended(down[c]) BY <1>2 DEF Ended, Has
    <3> QED BY <1>1, <2>4, <3>1 DEF Lines, LineOK
  <2>6. Seated(c) BY <2>5 DEF AtHost, Queued, Quiet
  <2> QED BY <2>3, <2>6 DEF Seated
<1>8. IsFiniteSet(InTable(host)) /\ Cardinality(InTable(host)) \in Nat BY SlotsFinite
<1> DEFINE W == {who(i) : i \in InTable(host)}
<1>9. IsFiniteSet(W) /\ Cardinality(W) = Cardinality(InTable(host))
  <2> DEFINE f == [i \in InTable(host) |-> who(i)]
  <2>1. f \in Bijection(InTable(host), W)
    <3>1. f \in [InTable(host) -> W] OBVIOUS
    <3>2. \A a, b \in InTable(host) : f[a] = f[b] => a = b BY <1>6
    <3>3. \A t \in W : \E s \in InTable(host) : f[s] = t OBVIOUS
    <3> HIDE DEF f
    <3> QED BY <3>1, <3>2, <3>3 DEF Bijection, Injection, Surjection, IsInjective
  <2>2. ExistsBijection(InTable(host), W) BY <2>1 DEF ExistsBijection
  <2> QED BY <1>8, <2>2, FS_Bijection
<1>10. W \subseteq lobby.linked BY <1>5
<1> HIDE DEF W
<1>11. IsFiniteSet(lobby.linked) BY <1>1, TableAssumption, FS_Subset DEF TypeOK
<1>12. Cardinality(W) <= Cardinality(lobby.linked) /\ Cardinality(lobby.linked) \in Nat
  BY <1>10, <1>11, FS_Subset, FS_CardinalityType
<1>13. Cardinality(Present) <= Cardinality(W) /\ Cardinality(Present) \in Nat
  BY <1>7, <1>9, FS_Subset, FS_CardinalityType DEF W
<1>14. host.count = 1 + Cardinality(InTable(host)) BY <1>1 DEF Links
<1>15. /\ 1 + Cardinality(lobby.linked) <= lobby.heads
       /\ lobby.heads <= 1 + Cardinality(Present) + lost
  BY <1>1 DEF Heads
<1>16. lobby.heads \in Nat /\ lost \in Nat BY <1>1, TypeFacts
<1> QED BY <1>8, <1>9, <1>12, <1>13, <1>14, <1>15, <1>16

(* Host, lobby and guests count the same players, whoever comes or goes while *)
(* others do, and whichever connections break: the lobby's count exceeds the  *)
(* host's by no more than the players it was not told of.                     *)
THEOREM TableCountsAgree == Spec => []CountsAgree
<1>1. Init => Inv BY InitInv
<1>2. Inv /\ [Next]_vars => Inv' BY Inductive
<1>3. Inv => CountsAgree BY GuestsAreTold, HeadsAreCounted DEF CountsAgree
<1> QED BY <1>1, <1>2, <1>3, PTL DEF Spec

-----------------------------------------------------------------------------
(* Names and money.                                                         *)

LEMMA ComingIs ==
  /\ Coming = Called \cup {by[backlog[n]] : n \in DOMAIN backlog}
  /\ Coming = {} => Called = {} /\ DOMAIN backlog = {}
BY DEF Coming, Called

\* Steps that neither announce nor admit anybody.
LEMMA ExpectedKept ==
  ASSUME Expected, OwnNameAndMoney, Called' = Called, UNCHANGED <<backlog, by, news>>,
         host'.coming <=> host.coming, host'.name = host.name, host'.money = host.money,
         \A i \in InTable(host') : i \in InTable(host) /\ host'.slot[i] = host.slot[i]
  PROVE  Expected' /\ OwnNameAndMoney' /\ Coming' = Coming
<1>1. Coming' = Coming
  <2>1. Coming' = Called' \cup {by'[backlog'[n]] : n \in DOMAIN backlog'} BY DEF Coming, Called
  <2> QED BY <2>1, ComingIs
<1>2. \A j : Comes(j) => Comes(j)' BY DEF Comes
<1>3. \A j : Heralded(j) => Heralded(j)'
  <2>1. SUFFICES ASSUME NEW j, Heralded(j) PROVE Heralded(j)' OBVIOUS
  <2>2. CASE ~host.coming /\ \E n \in DOMAIN news :
               /\ n + 1 \in DOMAIN news
               /\ news[n] = [type |-> "MONEY", who |-> j] /\ news[n + 1] = [type |-> "JOIN", who |-> j]
               /\ \A m \in DOMAIN news \ {n, n + 1} : ~Announces(news[m])
    BY <2>2 DEF Heralded, Announces
  <2>3. CASE /\ ~host.coming /\ host.money = j
             /\ news # <<>> /\ news[1] = [type |-> "JOIN", who |-> j]
             /\ \A m \in DOMAIN news \ {1} : ~Announces(news[m])
    BY <2>3 DEF Heralded, Announces
  <2>4. CASE /\ host.coming /\ host.money = j /\ host.name = j
             /\ \A m \in DOMAIN news : ~Announces(news[m])
    BY <2>4 DEF Heralded, Announces
  <2> QED BY <2>1, <2>2, <2>3, <2>4 DEF Heralded
<1>4. Expected'
  <2>1. CASE Coming = {} BY <1>1, <2>1 DEF Expected, Announces
  <2>2. CASE Coming # {} BY <1>1, <1>2, <1>3, <2>2 DEF Expected
  <2> QED BY <2>1, <2>2
<1>5. OwnNameAndMoney' BY DEF OwnNameAndMoney
<1> QED BY <1>1, <1>4, <1>5

LEMMA NewsFacts ==
  ASSUME TypeOK
  PROVE  /\ Len(news) \in Nat /\ DOMAIN news = 1 .. Len(news)
         /\ news # <<>> <=> 1 \in DOMAIN news
         /\ \A n \in DOMAIN news : ~Announces(news[n]) <=> news[n].type \notin {"MONEY", "JOIN"}
<1> DEFINE N == [type : {"MONEY", "JOIN"}, who : Joiners] \cup [type : {"START"}]
<1>1. news \in Seq(N) BY DEF TypeOK
<1> HIDE DEF N
<1> QED BY <1>1 DEF Announces

\* The answer to the host's request for the start comes after what was announced.
LEMMA StartExpected ==
  ASSUME Inv, Expected, OwnNameAndMoney, LobbyHearsHost
  PROVE  Expected' /\ OwnNameAndMoney' /\ Coming' = Coming
<1>1. TypeOK BY DEF Inv
<1>2. UNCHANGED <<host, client, by, backlog>> BY DEF LobbyHearsHost
<1>3. Called' = Called BY <1>2 DEF Called
<1>4. CASE news' = news BY <1>2, <1>3, <1>4, ExpectedKept
<1>5. CASE news' = Append(news, [type |-> "START"])
  <2> DEFINE N == [type : {"MONEY", "JOIN"}, who : Joiners] \cup [type : {"START"}]
  <2>1. PICK s \in N : s = [type |-> "START"] OBVIOUS
  <2>2. ~Announces(s) BY <2>1 DEF Announces
  <2>3. news \in Seq(N) /\ news' = Append(news, s) BY <1>1, <1>5, <2>1 DEF TypeOK
  <2> HIDE DEF N
  <2>4. /\ DOMAIN news' = 1 .. Len(news) + 1 /\ DOMAIN news = 1 .. Len(news) /\ Len(news) \in Nat
        /\ \A n \in DOMAIN news : news'[n] = news[n]
        /\ news'[Len(news) + 1] = s
    BY <2>3
  <2>5. /\ \A n \in DOMAIN news : n \in DOMAIN news'
        /\ \A n \in DOMAIN news' : n \notin DOMAIN news => news'[n] = s
    BY <2>4
  <2>6. news' # <<>> BY <2>4
  <2>7. \A S : (\A n \in DOMAIN news \ S : ~Announces(news[n]))
                 => \A n \in DOMAIN news' \ S : ~Announces(news'[n])
    BY <2>2, <2>4, <2>5
  <2>8. (\A n \in DOMAIN news : ~Announces(news[n])) => \A n \in DOMAIN news' : ~Announces(news'[n])
    BY <2>2, <2>4, <2>5
  <2>9. Coming' = Coming
    <3>1. Coming' = Called' \cup {by'[backlog'[n]] : n \in DOMAIN backlog'} BY DEF Coming, Called
    <3> QED BY <1>2, <1>3, <3>1, ComingIs
  <2>10. \A j : Comes(j) => Comes(j)' BY <1>2, <1>3 DEF Comes
  <2>11. \A j : Heralded(j) => Heralded(j)'
    <3>1. SUFFICES ASSUME NEW j, Heralded(j) PROVE Heralded(j)' OBVIOUS
    <3>2. CASE ~host.coming /\ \E n \in DOMAIN news :
                 /\ n + 1 \in DOMAIN news
                 /\ news[n] = [type |-> "MONEY", who |-> j] /\ news[n + 1] = [type |-> "JOIN", who |-> j]
                 /\ \A m \in DOMAIN news \ {n, n + 1} : ~Announces(news[m])
      <4>1. PICK n \in DOMAIN news :
                 /\ n + 1 \in DOMAIN news
                 /\ news[n] = [type |-> "MONEY", who |-> j] /\ news[n + 1] = [type |-> "JOIN", who |-> j]
                 /\ \A m \in DOMAIN news \ {n, n + 1} : ~Announces(news[m])
        BY <3>2
      <4>2. \A m \in DOMAIN news' \ {n, n + 1} : ~Announces(news'[m]) BY <2>7, <4>1
      <4>3. n \in DOMAIN news' /\ n + 1 \in DOMAIN news' /\ news'[n] = news[n] /\ news'[n + 1] = news[n + 1]
        BY <2>4, <2>5, <4>1
      <4> QED BY <1>2, <3>2, <4>1, <4>2, <4>3 DEF Heralded, Announces
    <3>3. CASE /\ ~host.coming /\ host.money = j
               /\ news # <<>> /\ news[1] = [type |-> "JOIN", who |-> j]
               /\ \A m \in DOMAIN news \ {1} : ~Announces(news[m])
      <4>1. \A m \in DOMAIN news' \ {1} : ~Announces(news'[m]) BY <2>7, <3>3
      <4>2. news'[1] = news[1] BY <1>1, <2>4, <3>3, NewsFacts
      <4> QED BY <1>2, <2>6, <3>3, <4>1, <4>2 DEF Heralded, Announces
    <3>4. CASE /\ host.coming /\ host.money = j /\ host.name = j
               /\ \A m \in DOMAIN news : ~Announces(news[m])
      BY <1>2, <2>8, <3>4 DEF Heralded, Announces
    <3> QED BY <3>1, <3>2, <3>3, <3>4 DEF Heralded
  <2>12. Expected'
    <3>1. CASE Coming = {} BY <1>2, <2>8, <2>9, <3>1 DEF Expected, Announces
    <3>2. CASE Coming # {} BY <2>9, <2>10, <2>11, <3>2 DEF Expected
    <3> QED BY <3>1, <3>2
  <2>13. OwnNameAndMoney' BY <1>2 DEF OwnNameAndMoney
  <2> QED BY <2>9, <2>12, <2>13
<1> QED BY <1>4, <1>5 DEF LobbyHearsHost

\* A message of the lobby brings the announcement one step further.
LEMMA HeardExpected ==
  ASSUME Inv, Expected, OwnNameAndMoney, HearLobby
  PROVE  Expected' /\ OwnNameAndMoney' /\ Coming' = Coming
<1>1. TypeOK BY DEF Inv
<1>2. news # <<>> /\ news' = Tail(news) /\ host' = Heard /\ UNCHANGED <<client, by, backlog>>
  BY DEF HearLobby
<1>3. host'.slot = host.slot /\ InTable(host') = InTable(host)
  BY <1>1, <1>2, HeardFacts DEF InTable
<1>4. OwnNameAndMoney' BY <1>2, <1>3 DEF OwnNameAndMoney
<1>5. Called' = Called BY <1>2 DEF Called
<1>6. Coming' = Coming
  <2>1. Coming' = Called' \cup {by'[backlog'[n]] : n \in DOMAIN backlog'} BY DEF Coming, Called
  <2> QED BY <1>2, <1>5, <2>1, ComingIs
<1>7. \A j : Comes(j) => Comes(j)' BY <1>2, <1>5 DEF Comes
<1>8. /\ Head(news) = news[1] /\ 1 \in DOMAIN news /\ Len(news) \in Nat /\ DOMAIN news = 1 .. Len(news)
      /\ DOMAIN news' = 1 .. Len(news) - 1
      /\ \A n \in DOMAIN news' : n + 1 \in DOMAIN news /\ news'[n] = news[n + 1]
  <2> DEFINE N == [type : {"MONEY", "JOIN"}, who : Joiners] \cup [type : {"START"}]
  <2>1. news \in Seq(N) BY <1>1 DEF TypeOK
  <2> HIDE DEF N
  <2> QED BY <1>2, <2>1, HeadTail
<1>9. ~Announces(news[1]) => host' = host BY <1>1, <1>2, <1>8, HeardFacts DEF Announces
<1>10. ASSUME \A n \in DOMAIN news \ {1} : ~Announces(news[n])
       PROVE  \A n \in DOMAIN news' : ~Announces(news'[n])
  <2>1. \A n \in DOMAIN news' : n + 1 \in DOMAIN news \ {1} BY <1>8
  <2> QED BY <1>8, <1>10, <2>1
<1>11. \A j \in Joiners : Heralded(j) => Heralded(j)'
  <2>1. SUFFICES ASSUME NEW j \in Joiners, Heralded(j) PROVE Heralded(j)' OBVIOUS
  <2>2. CASE ~host.coming /\ \E n \in DOMAIN news :
               /\ n + 1 \in DOMAIN news
               /\ news[n] = [type |-> "MONEY", who |-> j] /\ news[n + 1] = [type |-> "JOIN", who |-> j]
               /\ \A m \in DOMAIN news \ {n, n + 1} : ~Announces(news[m])
    <3>1. PICK n \in DOMAIN news :
               /\ n + 1 \in DOMAIN news
               /\ news[n] = [type |-> "MONEY", who |-> j] /\ news[n + 1] = [type |-> "JOIN", who |-> j]
               /\ \A m \in DOMAIN news \ {n, n + 1} : ~Announces(news[m])
      BY <2>2
    <3>2. CASE n = 1
      <4>1. Head(news) = [type |-> "MONEY", who |-> j] BY <1>8, <3>1, <3>2
      <4>2. host'.money = j /\ ~host'.coming BY <1>1, <1>2, <2>2, <4>1, HeardFacts
      <4>3. 1 \in DOMAIN news' /\ news'[1] = news[2] BY <1>8, <3>1, <3>2
      <4>4. news' # <<>> BY <4>3
      <4>5. news'[1] = [type |-> "JOIN", who |-> j] BY <3>1, <3>2, <4>3
      <4>6. \A m \in DOMAIN news' \ {1} : ~Announces(news'[m])
        <5>1. \A m \in DOMAIN news' \ {1} : m + 1 \in DOMAIN news \ {n, n + 1} BY <1>8, <3>2
        <5> QED BY <1>8, <3>1, <5>1
      <4> QED BY <4>2, <4>4, <4>5, <4>6 DEF Heralded, Announces
    <3>3. CASE n # 1
      <4>1. 1 \in DOMAIN news \ {n, n + 1} BY <1>8, <3>1, <3>3
      <4>2. host' = host BY <1>9, <3>1, <4>1
      <4>3. n - 1 \in DOMAIN news' /\ n - 1 + 1 \in DOMAIN news' /\ n - 1 + 1 = n BY <1>8, <3>1, <3>3
      <4>4. news'[n - 1] = news[n] /\ news'[n] = news[n + 1] BY <1>8, <4>3
      <4>5. \A m \in DOMAIN news' \ {n - 1, n - 1 + 1} : ~Announces(news'[m])
        <5>1. \A m \in DOMAIN news' \ {n - 1, n - 1 + 1} : m + 1 \in DOMAIN news \ {n, n + 1}
          BY <1>8, <3>1
        <5> QED BY <1>8, <3>1, <5>1
      <4>6. PICK x : x = n - 1 OBVIOUS
      <4>7. /\ x \in DOMAIN news' /\ x + 1 \in DOMAIN news'
            /\ news'[x] = [type |-> "MONEY", who |-> j] /\ news'[x + 1] = [type |-> "JOIN", who |-> j]
            /\ \A m \in DOMAIN news' \ {x, x + 1} : ~Announces(news'[m])
        BY <3>1, <4>3, <4>4, <4>5, <4>6
      <4> QED BY <2>2, <4>2, <4>7 DEF Heralded, Announces
    <3> QED BY <3>2, <3>3
  <2>3. CASE /\ ~host.coming /\ host.money = j
             /\ news # <<>> /\ news[1] = [type |-> "JOIN", who |-> j]
             /\ \A m \in DOMAIN news \ {1} : ~Announces(news[m])
    <3>1. Head(news) = [type |-> "JOIN", who |-> j] BY <1>8, <2>3
    <3>2. host'.money = j /\ host'.name = j /\ host'.coming BY <1>1, <1>2, <2>3, <3>1, HeardFacts
    <3>3. \A m \in DOMAIN news' : ~Announces(news'[m]) BY <1>10, <2>3
    <3> QED BY <3>2, <3>3 DEF Heralded, Announces
  <2>4. CASE /\ host.coming /\ host.money = j /\ host.name = j
             /\ \A m \in DOMAIN news : ~Announces(news[m])
    <3>1. host' = host BY <1>8, <1>9, <2>4
    <3>2. \A m \in DOMAIN news' : ~Announces(news'[m]) BY <1>10, <2>4
    <3> QED BY <2>4, <3>1, <3>2 DEF Heralded, Announces
  <2> QED BY <2>1, <2>2, <2>3, <2>4 DEF Heralded
<1>12. Expected'
  <2>1. CASE Coming = {}
    <3>1. ~host.coming /\ \A m \in DOMAIN news : ~Announces(news[m]) BY <2>1 DEF Expected
    <3>2. host' = host BY <1>8, <1>9, <3>1
    <3>3. \A m \in DOMAIN news' : ~Announces(news'[m]) BY <1>10, <3>1
    <3> QED BY <1>6, <2>1, <3>1, <3>2, <3>3 DEF Expected, Announces
  <2>2. CASE Coming # {} BY <1>6, <1>7, <1>11, <2>2 DEF Expected
  <2> QED BY <2>1, <2>2
<1> QED BY <1>4, <1>6, <1>12

LEMMA NobodyComing ==
  ASSUME TypeOK, Coming = {}
  PROVE  Called = {} /\ backlog = <<>>
<1>1. Called = {} /\ DOMAIN backlog = {} BY ComingIs
<1>2. backlog \in Seq(Conns) BY DEF TypeOK
<1>3. DOMAIN backlog = 1 .. Len(backlog) /\ Len(backlog) \in Nat BY <1>2
<1>4. backlog = <<>> BY <1>1, <1>2, <1>3
<1> QED BY <1>1, <1>4

LEMMA Chained ==
  ASSUME NEW S, NEW q \in Seq(S), NEW e \in Seq(S)
  PROVE  /\ Len(q) \in Nat /\ DOMAIN q = 1 .. Len(q)
         /\ DOMAIN (q \o e) = 1 .. Len(q) + Len(e)
         /\ \A n \in 1 .. Len(q) : (q \o e)[n] = q[n]
         /\ \A n \in 1 .. Len(e) : (q \o e)[Len(q) + n] = e[n]
<1>1. Len(q) \in Nat /\ DOMAIN q = 1 .. Len(q) /\ DOMAIN (q \o e) = 1 .. Len(q) + Len(e) OBVIOUS
<1>2. \A n \in 1 .. Len(q) : (q \o e)[n] = q[n] OBVIOUS
<1>3. \A n \in 1 .. Len(e) : (q \o e)[Len(q) + n] = e[n] OBVIOUS
<1> QED BY <1>1, <1>2, <1>3

LEMMA TwoMore ==
  ASSUME NEW S, NEW q \in Seq(S), NEW e \in Seq(S), Len(e) = 2
  PROVE  /\ Len(q) \in Nat /\ DOMAIN q = 1 .. Len(q) /\ DOMAIN (q \o e) = 1 .. Len(q) + 2
         /\ \A n \in DOMAIN q : (q \o e)[n] = q[n]
         /\ (q \o e)[Len(q) + 1] = e[1] /\ (q \o e)[Len(q) + 2] = e[2]
<1> DEFINE f == q \o e
<1>1. /\ Len(q) \in Nat /\ DOMAIN q = 1 .. Len(q)
      /\ DOMAIN f = 1 .. Len(q) + Len(e)
      /\ \A n \in 1 .. Len(q) : f[n] = q[n]
      /\ \A n \in 1 .. Len(e) : f[Len(q) + n] = e[n]
  BY Chained
<1> HIDE DEF f
<1>2. /\ Len(q) \in Nat /\ DOMAIN q = 1 .. Len(q) /\ DOMAIN f = 1 .. Len(q) + 2
      /\ \A n \in DOMAIN q : f[n] = q[n]
      /\ f[Len(q) + 1] = e[1] /\ f[Len(q) + 2] = e[2]
  BY <1>1
<1> QED BY <1>2 DEF f

\* The lobby announces the player, in two messages, when nobody else comes.
LEMMA JoinExpected ==
  ASSUME Inv, Expected, OwnNameAndMoney, NEW j \in Joiners, Join(j), Coming = {}
  PROVE  Expected' /\ OwnNameAndMoney'
<1>1. TypeOK BY DEF Inv
<1>2. /\ client \in [Joiners -> Clients]
      /\ client' = [client EXCEPT ![j] = [Idle EXCEPT !.at = "called"]]
      /\ UNCHANGED <<host, by, backlog>>
      /\ news' = news \o <<[type |-> "MONEY", who |-> j], [type |-> "JOIN", who |-> j]>>
  BY <1>1 DEF Join, TypeOK
<1>3. Called = {} /\ backlog = <<>> BY <1>1, NobodyComing
<1>4. client'[j].at = "called" /\ \A x \in Joiners \ {j} : client'[x].at = client[x].at
  BY <1>2 DEF Idle
<1>5. Called' = {j} BY <1>3, <1>4 DEF Called
<1>6. Coming' # {} BY <1>5 DEF Coming, Called
<1>7. Comes(j)' BY <1>2, <1>3, <1>5 DEF Comes
<1>8. ~host.coming /\ \A m \in DOMAIN news : ~Announces(news[m]) BY DEF Expected
<1>9. Heralded(j)'
  <2> DEFINE N == [type : {"MONEY", "JOIN"}, who : Joiners] \cup [type : {"START"}]
  <2>1. PICK a \in N : a = [type |-> "MONEY", who |-> j] OBVIOUS
  <2>2. PICK b \in N : b = [type |-> "JOIN", who |-> j] OBVIOUS
  <2>3. news \in Seq(N) BY <1>1 DEF TypeOK
  <2> HIDE DEF N
  <2>4. <<a, b>> \in Seq(N) /\ Len(<<a, b>>) = 2 /\ <<a, b>>[1] = a /\ <<a, b>>[2] = b OBVIOUS
  <2>5. PICK e \in Seq(N) : e = <<a, b>> BY <2>4
  <2>6. Len(e) = 2 /\ e[1] = a /\ e[2] = b BY <2>4, <2>5
  <2>7. news' = news \o e BY <1>2, <2>1, <2>2, <2>5
  <2>8. /\ Len(news) \in Nat /\ DOMAIN news = 1 .. Len(news) /\ DOMAIN news' = 1 .. Len(news) + 2
        /\ \A n \in DOMAIN news : news'[n] = news[n]
        /\ news'[Len(news) + 1] = a /\ news'[Len(news) + 2] = b
    BY <2>3, <2>6, <2>7, TwoMore
  <2>9. PICK x : x = Len(news) + 1 OBVIOUS
  <2>10. x \in DOMAIN news' /\ x + 1 \in DOMAIN news' /\ news'[x] = a /\ news'[x + 1] = b
    <3>1. x + 1 = Len(news) + 2 BY <2>8, <2>9
    <3> QED BY <2>8, <2>9, <3>1
  <2>11. \A m \in DOMAIN news' \ {x, x + 1} : ~Announces(news'[m])
    <3>1. \A m \in DOMAIN news' \ {x, x + 1} : m \in DOMAIN news BY <2>8, <2>9
    <3> QED BY <1>8, <2>8, <3>1
  <2> QED BY <1>2, <1>8, <2>1, <2>2, <2>10, <2>11 DEF Heralded, Announces
<1>10. Expected' BY <1>6, <1>7, <1>9 DEF Expected
<1>11. OwnNameAndMoney' BY <1>2 DEF OwnNameAndMoney
<1> QED BY <1>10, <1>11

\* The player that was announced connects.
LEMMA ConnectExpected ==
  ASSUME Inv, Expected, OwnNameAndMoney, NEW j \in Joiners, Connect(j)
  PROVE  Expected' /\ OwnNameAndMoney' /\ Coming # {} /\ Coming' # {}
<1>1. TypeOK /\ Links BY DEF Inv
<1>2. /\ client[j].at = "called" /\ client \in [Joiners -> Clients]
      /\ by' = Append(by, j) /\ backlog' = Append(backlog, Len(by'))
      /\ client' = [client EXCEPT ![j].at = "in", ![j].conn = Len(by')]
      /\ UNCHANGED <<host, news>>
  BY <1>1 DEF Connect, TypeOK
<1>3. j \in Called BY <1>2 DEF Called
<1>4. Coming # {} BY <1>3, ComingIs
<1>5. PICK x \in Joiners : Comes(x) /\ Heralded(x) BY <1>4 DEF Expected
<1>6. x = j /\ Called = {j} /\ backlog = <<>> BY <1>3, <1>5 DEF Comes
<1>7. by \in Seq(Joiners) BY <1>1 DEF TypeOK
<1>8. /\ Len(by) \in Nat /\ Conns = 1 .. Len(by) /\ Len(by') = Len(by) + 1
      /\ by'[Len(by')] = j /\ \A c \in Conns : by'[c] = by[c]
  BY <1>2, <1>7 DEF Conns
<1>9. Len(backlog') = 1 /\ backlog'[1] = Len(by') /\ DOMAIN backlog' = {1}
  <2>1. PICK k : k = Len(by') OBVIOUS
  <2>2. backlog' = <<k>> BY <1>2, <1>6, <2>1
  <2> QED BY <2>1, <2>2
<1>10. Called' = {}
  <2>1. client'[j].at = "in" /\ \A y \in Joiners \ {j} : client'[y].at = client[y].at BY <1>2 DEF Clients
  <2> QED BY <1>6, <2>1 DEF Called
<1>11. Comes(j)' BY <1>8, <1>9, <1>10 DEF Comes
<1>12. Heralded(j)'
  <2>1. CASE ~host.coming /\ \E n \in DOMAIN news :
               /\ n + 1 \in DOMAIN news
               /\ news[n] = [type |-> "MONEY", who |-> j] /\ news[n + 1] = [type |-> "JOIN", who |-> j]
               /\ \A m \in DOMAIN news \ {n, n + 1} : ~Announces(news[m])
    BY <1>2, <2>1 DEF Heralded, Announces
  <2>2. CASE /\ ~host.coming /\ host.money = j
             /\ news # <<>> /\ news[1] = [type |-> "JOIN", who |-> j]
             /\ \A m \in DOMAIN news \ {1} : ~Announces(news[m])
    BY <1>2, <2>2 DEF Heralded, Announces
  <2>3. CASE /\ host.coming /\ host.money = j /\ host.name = j
             /\ \A m \in DOMAIN news : ~Announces(news[m])
    BY <1>2, <2>3 DEF Heralded, Announces
  <2> QED BY <1>5, <1>6, <2>1, <2>2, <2>3 DEF Heralded
<1>13. Coming' # {}
  <2>1. Coming' = Called' \cup {by'[backlog'[n]] : n \in DOMAIN backlog'} BY DEF Coming, Called
  <2> QED BY <1>9, <2>1
<1>14. Expected' BY <1>11, <1>12, <1>13 DEF Expected
<1>15. OwnNameAndMoney'
  <2>1. \A i \in InTable(host) : host.slot[i].conn \in Conns BY <1>1 DEF Links
  <2> QED BY <1>2, <1>8, <2>1 DEF OwnNameAndMoney
<1> QED BY <1>4, <1>13, <1>14, <1>15

\* The host admits the player that was announced under its own name.
LEMMA AcceptExpected ==
  ASSUME Inv, Expected, OwnNameAndMoney, Accept
  PROVE  Expected' /\ OwnNameAndMoney' /\ Coming # {} /\ Coming' = {}
<1>1. TypeOK /\ Links BY DEF Inv
<1>2. /\ host.coming /\ backlog # <<>> /\ backlog \in Seq(Conns) /\ backlog' = Tail(backlog)
      /\ host' = Accepted(Head(backlog)) /\ UNCHANGED <<client, news, by>>
  BY <1>1 DEF Accept, TypeOK
<1>3. /\ Head(backlog) \in Conns /\ Head(backlog) = backlog[1] /\ 1 \in DOMAIN backlog
      /\ Len(backlog) \in Nat /\ DOMAIN backlog' = 1 .. Len(backlog) - 1
  BY <1>2, HeadTail
<1>4. by[backlog[1]] \in Coming BY <1>3, ComingIs
<1>5. PICK j \in Joiners : Comes(j) /\ Heralded(j) BY <1>4 DEF Expected
<1>6. Called = {} /\ Len(backlog) = 1 /\ by[backlog[1]] = j BY <1>2, <1>5 DEF Comes
<1>7. host.money = j /\ host.name = j /\ \A m \in DOMAIN news : ~Announces(news[m])
  BY <1>2, <1>5 DEF Heralded
<1>8. PICK k \in Conns : k = Head(backlog) BY <1>3
<1>9. ~Seated(k) BY <1>1, <1>3, <1>8 DEF Seated, Links
<1>10. PICK i : i = Least(Slots \ InTable(host)) OBVIOUS
<1>11. /\ InTable(Accepted(k)) = InTable(host) \cup {i}
       /\ \A x \in Slots \ {i} : Accepted(k).slot[x] = host.slot[x]
       /\ Accepted(k).slot[i] = [conn |-> k, sit |-> SeatFor(i), name |-> host.name, money |-> host.money]
       /\ Accepted(k).coming = FALSE /\ i \notin InTable(host)
  BY <1>1, <1>9, <1>10, AcceptedFacts
<1>12. /\ InTable(host') = InTable(host) \cup {i}
       /\ \A x \in InTable(host) : host'.slot[x] = host.slot[x]
       /\ host'.slot[i].conn = k /\ host'.slot[i].name = j /\ host'.slot[i].money = j
       /\ ~host'.coming
  <2>1. \A x \in InTable(host) : x \in Slots \ {i} BY <1>11 DEF InTable
  <2> QED BY <1>2, <1>7, <1>8, <1>11, <2>1
<1>13. OwnNameAndMoney' BY <1>2, <1>3, <1>6, <1>8, <1>12 DEF OwnNameAndMoney
<1>14. Coming' = {}
  <2>1. DOMAIN backlog' = {} BY <1>3, <1>6
  <2>2. Called' = {} BY <1>2, <1>6 DEF Called
  <2>3. Coming' = Called' \cup {by'[backlog'[n]] : n \in DOMAIN backlog'} BY DEF Coming, Called
  <2> QED BY <2>1, <2>2, <2>3
<1>15. Expected' BY <1>2, <1>7, <1>12, <1>14 DEF Expected, Announces
<1> QED BY <1>4, <1>13, <1>14, <1>15

\* Departures leave announcements, newcomers and the other players alone.
LEMMA PartingExpected ==
  ASSUME Inv, Expected, OwnNameAndMoney,
         \/ \E j \in Joiners : Leave(j) \/ LobbyHearsLeave(j) \/ GuestHears(j)
         \/ \E k \in Conns : Lose(k)
         \/ \E i \in Slots : HearGuest(i) \/ Kick(i)
         \/ CloseTable
         \/ UNCHANGED vars
  PROVE  Expected' /\ OwnNameAndMoney' /\ Coming' = Coming
<1>1. TypeOK /\ Links BY DEF Inv
<1>2. client \in [Joiners -> Clients] /\ host \in Hosts BY <1>1 DEF TypeOK
<1>3. ASSUME NEW j \in Joiners, client[j].at = "in", \A x \in Joiners \ {j} : client'[x] = client[x],
             client'[j].at # "called"
      PROVE  Called' = Called
  BY <1>3 DEF Called
<1>4. CASE UNCHANGED <<host, backlog, by, news>> /\ Called' = Called BY <1>4, ExpectedKept
<1>5. ASSUME NEW j \in Joiners, Leave(j) PROVE UNCHANGED <<host, backlog, by, news>> /\ Called' = Called
  <2>1. client'[j] = Idle /\ \A x \in Joiners \ {j} : client'[x] = client[x] BY <1>2, <1>5 DEF Leave
  <2>2. client'[j].at # "called" BY <2>1 DEF Idle
  <2>3. client[j].at = "in" /\ UNCHANGED <<host, backlog, by, news>> BY <1>5 DEF Leave
  <2>4. Called' = Called BY <1>3, <2>1, <2>2, <2>3
  <2> QED BY <2>3, <2>4
<1>6. ASSUME NEW j \in Joiners, LobbyHearsLeave(j) PROVE UNCHANGED <<host, backlog, by, news>> /\ Called' = Called
  BY <1>6 DEF LobbyHearsLeave, Called
<1>7. ASSUME NEW j \in Joiners, GuestHears(j) PROVE UNCHANGED <<host, backlog, by, news>> /\ Called' = Called
  <2>1. client[j].at = "in" /\ UNCHANGED <<host, backlog, by, news>> BY <1>7 DEF GuestHears
  <2>2. PICK m : m = Head(down[client[j].conn]) OBVIOUS
  <2>3. PICK k \in Conns : k = client[j].conn BY <1>1, <2>1 DEF Links
  <2>4. m.type \in {"COMER", "GONE", "INFO", "LEAVE", "EOF"}
    <3>1. down[k] \in Seq(Msgs) /\ down[k] # <<>> BY <1>1, <1>7, <2>3, TypeFacts DEF GuestHears
    <3>2. m \in Msgs BY <2>2, <2>3, <3>1, Shifted
    <3> QED BY <3>2 DEF Msgs
  <2>5. \/ client' = [client EXCEPT ![j].count = m.count]
        \/ client' = [client EXCEPT ![j].sit = m.sit]
        \/ client' = [client EXCEPT ![j] = Idle]
    <3>1. CASE m.type \in {"COMER", "GONE"} BY <1>7, <2>2, <3>1 DEF GuestHears
    <3>2. CASE m.type = "INFO" BY <1>7, <2>2, <3>2 DEF GuestHears
    <3>3. CASE m.type \in {"LEAVE", "EOF"} BY <1>7, <2>2, <3>3 DEF GuestHears
    <3> QED BY <2>4, <3>1, <3>2, <3>3
  <2>6. client'[j].at # "called" /\ \A x \in Joiners \ {j} : client'[x] = client[x]
    <3>1. client[j] \in Clients BY <1>2
    <3>2. CASE client' = [client EXCEPT ![j].count = m.count] BY <1>2, <2>1, <3>1, <3>2 DEF Clients
    <3>3. CASE client' = [client EXCEPT ![j].sit = m.sit] BY <1>2, <2>1, <3>1, <3>3 DEF Clients
    <3>4. CASE client' = [client EXCEPT ![j] = Idle] BY <1>2, <3>4 DEF Idle
    <3> QED BY <2>5, <3>2, <3>3, <3>4
  <2> QED BY <1>3, <2>1, <2>6
<1>8. ASSUME NEW k \in Conns, Lose(k) PROVE UNCHANGED <<host, backlog, by, news>> /\ Called' = Called
  BY <1>8 DEF Lose, Called
<1>9. ASSUME NEW i \in Slots, HearGuest(i) \/ Kick(i)
      PROVE  Expected' /\ OwnNameAndMoney' /\ Coming' = Coming
  <2>1. /\ i \in InTable(host) /\ host' = Closed(host, i)
        /\ UNCHANGED <<client, news, by, backlog>>
    BY <1>9 DEF HearGuest, Kick
  <2>2. host.count >= 1 BY <1>1, SlotsFinite DEF Links
  <2>3. /\ InTable(host') = InTable(host) \ {i}
        /\ \A x \in Slots \ {i} : host'.slot[x] = host.slot[x]
        /\ host'.coming = host.coming /\ host'.name = host.name /\ host'.money = host.money
    BY <1>2, <2>1, <2>2, ClosedFacts
  <2>4. \A x \in InTable(host') : x \in InTable(host) /\ host'.slot[x] = host.slot[x]
    BY <2>3 DEF InTable
  <2>5. host'.coming <=> host.coming BY <2>3
  <2>6. Called' = Called BY <2>1 DEF Called
  <2> QED BY <2>1, <2>3, <2>4, <2>5, <2>6, ExpectedKept
<1>10. ASSUME CloseTable PROVE Expected' /\ OwnNameAndMoney' /\ Coming' = Coming
  <2>1. host' = Emptied(host) /\ UNCHANGED <<client, news, by, backlog>> BY <1>10 DEF CloseTable
  <2>2. /\ InTable(host') = {}
        /\ host'.coming = host.coming /\ host'.name = host.name /\ host'.money = host.money
    BY <1>1, <1>2, <2>1, EmptiedFacts DEF Links
  <2>3. host'.coming <=> host.coming BY <2>2
  <2>4. Called' = Called BY <2>1 DEF Called
  <2> QED BY <2>1, <2>2, <2>3, <2>4, ExpectedKept
<1>11. ASSUME UNCHANGED vars PROVE UNCHANGED <<host, backlog, by, news>> /\ Called' = Called
  BY <1>11 DEF vars, Called
<1> QED BY <1>4, <1>5, <1>6, <1>7, <1>8, <1>9, <1>10, <1>11

LEMMA OrderlyStep ==
  ASSUME ~Overlap, OrderlyInv, [Next]_vars
  PROVE  OrderlyInv'
<1>1. Inv /\ Expected /\ OwnNameAndMoney BY DEF OrderlyInv
<1>2. Inv' BY <1>1, Inductive
<1>3. CASE \E j \in Joiners : Join(j)
  <2>1. PICK j \in Joiners : Join(j) BY <1>3
  <2>2. Coming = {} BY <2>1 DEF Join
  <2> QED BY <1>1, <1>2, <2>1, <2>2, JoinExpected DEF OrderlyInv
<1>4. CASE \E j \in Joiners : Connect(j) BY <1>1, <1>2, <1>4, ConnectExpected DEF OrderlyInv
<1>5. CASE Accept BY <1>1, <1>2, <1>5, AcceptExpected DEF OrderlyInv
<1>6. CASE HearLobby BY <1>1, <1>2, <1>6, HeardExpected DEF OrderlyInv
<1>7. CASE LobbyHearsHost BY <1>1, <1>2, <1>7, StartExpected DEF OrderlyInv
<1>8. CASE \/ \E j \in Joiners : Leave(j) \/ LobbyHearsLeave(j) \/ GuestHears(j)
           \/ \E k \in Conns : Lose(k)
           \/ \E i \in Slots : HearGuest(i) \/ Kick(i)
           \/ CloseTable
           \/ UNCHANGED vars
  <2>1. Expected' /\ OwnNameAndMoney' BY <1>1, <1>8, PartingExpected
  <2> QED BY <1>2, <2>1 DEF OrderlyInv
<1> QED BY <1>3, <1>4, <1>5, <1>6, <1>7, <1>8 DEF Next

LEMMA InitOrderly == Init => OrderlyInv
<1> SUFFICES ASSUME Init PROVE OrderlyInv OBVIOUS
<1>1. Inv BY InitInv
<1>2. InTable(host) = {} BY DEF Init, InTable, Blank
<1>3. Coming = {} BY DEF Init, Coming, Idle
<1>4. ~host.coming /\ DOMAIN news = {} BY DEF Init
<1>5. Expected BY <1>3, <1>4 DEF Expected
<1>6. OwnNameAndMoney BY <1>2 DEF OwnNameAndMoney
<1> QED BY <1>1, <1>5, <1>6 DEF OrderlyInv

(* A player at the table plays under its own name and for its own money, when *)
(* the lobby lets nobody in before the host has heard of who came and went.   *)
THEOREM NewcomersAreThemselves ==
  ASSUME ~Overlap
  PROVE  Spec => []OwnNameAndMoney
<1>1. Init => OrderlyInv BY InitOrderly
<1>2. OrderlyInv /\ [Next]_vars => OrderlyInv' BY OrderlyStep
<1>3. OrderlyInv => OwnNameAndMoney BY DEF OrderlyInv
<1> QED BY <1>1, <1>2, <1>3, PTL DEF Spec

-----------------------------------------------------------------------------
(* Seats.                                                                   *)

\* Among players that all hold their connection, the host counts no more than
\* the lobby does.
LEMMA SeatedAreLinked ==
  ASSUME Inv, host.serving, \A c \in Conns : Seated(c) => Held(c)
  PROVE  host.count <= lobby.heads
<1>1. TypeOK /\ Links /\ Heads BY DEF Inv
<1> DEFINE who(i) == by[host.slot[i].conn]
           f == [i \in InTable(host) |-> who(i)]
<1>2. ASSUME NEW i \in InTable(host)
      PROVE  /\ client[who(i)].conn = host.slot[i].conn
             /\ who(i) \in lobby.linked
  <2>1. PICK c \in Conns : c = host.slot[i].conn BY <1>1 DEF Links
  <2>2. Held(c) BY <2>1 DEF Seated
  <2>3. client[by[c]].at = "in" /\ client[by[c]].conn = c /\ by[c] \in Joiners
    BY <1>1, <2>2, HeldFacts, TypeFacts
  <2> QED BY <1>1, <2>1, <2>3 DEF Heads
<1>3. \A i, j \in InTable(host) : who(i) = who(j) => i = j BY <1>1, <1>2 DEF Links
<1>4. f \in [InTable(host) -> lobby.linked] BY <1>2
<1>5. \A i, j \in InTable(host) : f[i] = f[j] => i = j BY <1>3
<1> HIDE DEF f
<1>6. f \in Injection(InTable(host), lobby.linked) BY <1>4, <1>5 DEF Injection, IsInjective
<1>7. IsFiniteSet(lobby.linked) /\ Cardinality(lobby.linked) \in Nat
  BY <1>1, TableAssumption, FS_Subset, FS_CardinalityType DEF TypeOK
<1>8. Cardinality(InTable(host)) <= Cardinality(lobby.linked) /\ Cardinality(InTable(host)) \in Nat
  BY <1>6, <1>7, SlotsFinite, FS_Injection
<1>9. /\ host.count = 1 + Cardinality(InTable(host)) /\ 1 + Cardinality(lobby.linked) <= lobby.heads
      /\ lobby.heads \in Nat
  BY <1>1, TypeFacts DEF Links, Heads
<1> QED BY <1>7, <1>8, <1>9

\* The lobby lets a player in only where the host has room.
LEMMA JoinHasRoom ==
  ASSUME Inv, Coming = {}, ~Departing, lobby.heads \in 1 .. TableSize - 1
  PROVE  host.count + 1 <= TableSize
<1>1. TypeOK /\ Links /\ Lines /\ Heads BY DEF Inv
<1>2. TableSize \in Nat /\ TableSize >= 2 /\ host.count \in Nat /\ lobby.heads \in Nat
  BY <1>1, TypeFacts, TableAssumption
<1>3. CASE host.serving
  <2>1. ASSUME NEW c \in Conns, Seated(c) PROVE Held(c)
    <3>1. up[c] = <<>> BY <2>1 DEF Departing, Seated
    <3> QED BY <1>1, <2>1, <3>1 DEF Lines, LineOK, AtHost
  <2>2. host.count <= lobby.heads BY <1>3, <2>1, SeatedAreLinked
  <2> QED BY <1>2, <2>2
<1>4. CASE ~host.serving
  <2>1. InTable(host) = {} BY <1>1, <1>4 DEF Heads
  <2>2. host.count = 1 BY <1>1, <2>1, FS_EmptySet DEF Links
  <2> QED BY <1>2, <2>2
<1> QED BY <1>3, <1>4

LEMMA RoomKept ==
  ASSUME Room, Coming' = Coming, host'.count <= host.count, host.count \in Nat, host'.count \in Nat
  PROVE  Room'
<1>1. TableSize \in Nat BY TableAssumption
<1>2. PICK e \in Nat : e = IF Coming = {} THEN 0 ELSE 1 OBVIOUS
<1>3. host.count + e <= TableSize BY <1>2 DEF Room
<1>4. host'.count + e <= TableSize BY <1>1, <1>2, <1>3
<1> QED BY <1>2, <1>4 DEF Room

\* A table that is not full has a seat, and taking it takes it from nobody.
LEMMA SeatIsFree ==
  ASSUME TypeOK, Links, SeatsHeld, host.count + 1 <= PlayerNum
  PROVE  IsSeated
<1>1. SUFFICES ASSUME \A s \in Seats : host.table[s] # 0 PROVE FALSE BY DEF IsSeated
<1> DEFINE f == [s \in 2 .. 4 |-> host.table[s]]
<1>2. \A s \in 2 .. 4 : s \in Seats \ {1} BY DEF Seats
<1>3. \A s \in 2 .. 4 : host.table[s] \in InTable(host) /\ host.slot[host.table[s]].sit = s
  BY <1>1, <1>2 DEF SeatsHeld
<1>4. f \in [2 .. 4 -> InTable(host)] BY <1>3
<1>5. \A s, t \in 2 .. 4 : f[s] = f[t] => s = t BY <1>3
<1> HIDE DEF f
<1>6. f \in Injection(2 .. 4, InTable(host)) BY <1>4, <1>5 DEF Injection, IsInjective
<1>7. IsFiniteSet(2 .. 4) /\ Cardinality(2 .. 4) = 3
  <2>1. PICK a \in Int : a = 2 OBVIOUS
  <2>2. PICK b \in Int : b = 4 OBVIOUS
  <2>3. IsFiniteSet(a .. b) /\ Cardinality(a .. b) = IF a > b THEN 0 ELSE b - a + 1 BY FS_Interval
  <2>4. IsFiniteSet(a .. b) /\ Cardinality(a .. b) = 3 BY <2>1, <2>2, <2>3
  <2> QED BY <2>1, <2>2, <2>4
<1>8. 3 <= Cardinality(InTable(host)) BY <1>6, <1>7, SlotsFinite, FS_Injection
<1>9. host.count = 1 + Cardinality(InTable(host)) /\ Cardinality(InTable(host)) \in Nat BY SlotsFinite DEF Links
<1>10. PlayerNum \in Nat /\ PlayerNum <= 4 BY TableAssumption DEF Seats
<1> QED BY <1>8, <1>9, <1>10

LEMMA AcceptSeats ==
  ASSUME Inv, SeatsHeld, Accept, host.count + 1 <= PlayerNum
  PROVE  SeatsHeld'
<1>1. TypeOK /\ Links BY DEF Inv
<1>2. /\ backlog # <<>> /\ backlog \in Seq(Conns) /\ host' = Accepted(Head(backlog))
  BY <1>1 DEF Accept, TypeOK
<1>3. PICK k \in Conns : k = Head(backlog) BY <1>2, HeadTail
<1>4. k = backlog[1] /\ 1 \in DOMAIN backlog BY <1>2, <1>3, HeadTail
<1>5. ~Seated(k) BY <1>1, <1>4 DEF Seated, Links
<1>6. PICK i : i = Least(Slots \ InTable(host)) OBVIOUS
<1>7. /\ i \in Slots \ InTable(host)
      /\ InTable(Accepted(k)) = InTable(host) \cup {i}
      /\ \A x \in Slots \ {i} : Accepted(k).slot[x] = host.slot[x]
      /\ Accepted(k).slot[i] = [conn |-> k, sit |-> SeatFor(i), name |-> host.name, money |-> host.money]
      /\ \A s \in Seats : s # SeatFor(i) => Accepted(k).table[s] = host.table[s]
      /\ IsSeated => Accepted(k).table[SeatFor(i)] = i
  <2>1. /\ i \in Slots \ InTable(host)
        /\ InTable(Accepted(k)) = InTable(host) \cup {i}
        /\ \A x \in Slots \ {i} : Accepted(k).slot[x] = host.slot[x]
        /\ Accepted(k).slot[i] = [conn |-> k, sit |-> SeatFor(i), name |-> host.name, money |-> host.money]
    BY <1>1, <1>5, <1>6, AcceptedFacts
  <2>2. /\ \A s \in Seats : s # SeatFor(i) => Accepted(k).table[s] = host.table[s]
        /\ IsSeated => Accepted(k).table[SeatFor(i)] = i
    BY <1>1, <1>5, <1>6, AcceptedSeats
  <2> QED BY <2>1, <2>2
<1>8. IsSeated BY <1>1, SeatIsFree
<1>9. PICK t : t = SeatFor(i) OBVIOUS
<1>10. t \in Seats /\ host.table[t] = 0 BY <1>1, <1>7, <1>8, <1>9, SeatForIn
<1>11. /\ InTable(host') = InTable(host) \cup {i}
       /\ i \in Slots /\ \A x \in InTable(host) : x # i /\ host'.slot[x] = host.slot[x]
       /\ host'.slot[i].sit = t
       /\ host'.table[t] = i
       /\ \A s \in Seats : s # t => host'.table[s] = host.table[s]
  <2>1. \A x \in InTable(host) : x \in Slots \ {i} BY <1>7 DEF InTable
  <2>2. host' = Accepted(k) BY <1>2, <1>3
  <2>3. host'.slot[i].sit = t BY <1>7, <1>9, <2>2
  <2>4. host'.table[t] = i /\ \A s \in Seats : s # t => host'.table[s] = host.table[s]
    BY <1>7, <1>8, <1>9, <2>2
  <2> QED BY <1>7, <1>10, <2>1, <2>2, <2>3, <2>4
<1>12. 1 \in Seats /\ t # 1 BY <1>10 DEF SeatsHeld, Seats
<1>13. host'.table[1] = 1 BY <1>11, <1>12 DEF SeatsHeld
<1>14. ASSUME NEW x \in InTable(host')
       PROVE  host'.slot[x].sit \in Seats \ {1} /\ host'.table[host'.slot[x].sit] = x
  <2>1. CASE x = i BY <1>10, <1>11, <1>12, <2>1
  <2>2. CASE x # i
    <3>1. x \in InTable(host) /\ host'.slot[x] = host.slot[x] BY <1>11, <2>2
    <3>2. host.slot[x].sit \in Seats \ {1} /\ host.table[host.slot[x].sit] = x BY <3>1 DEF SeatsHeld
    <3>3. x # 0 BY <3>1, SlotsFinite DEF InTable, Slots
    <3>4. host.slot[x].sit # t BY <1>10, <3>2, <3>3
    <3> QED BY <1>11, <3>1, <3>2, <3>4
  <2> QED BY <2>1, <2>2
<1>15. ASSUME NEW s \in Seats \ {1}, host'.table[s] # 0
       PROVE  host'.table[s] \in InTable(host') /\ host'.slot[host'.table[s]].sit = s
  <2>1. CASE s = t BY <1>11, <2>1
  <2>2. CASE s # t
    <3>1. host'.table[s] = host.table[s] BY <1>11, <2>2
    <3>2. host.table[s] \in InTable(host) /\ host.slot[host.table[s]].sit = s BY <1>15, <3>1 DEF SeatsHeld
    <3> QED BY <1>11, <3>1, <3>2
  <2> QED BY <2>1, <2>2
<1> QED BY <1>13, <1>14, <1>15 DEF SeatsHeld

\* close_client() frees the seat of the player that goes, and no other.
LEMMA CloseSeats ==
  ASSUME Inv, SeatsHeld, NEW i \in InTable(host), host' = Closed(host, i)
  PROVE  SeatsHeld'
<1>1. /\ host \in Hosts /\ host.count >= 1
  BY SlotsFinite DEF Inv, TypeOK, Links
<1>2. /\ InTable(host') = InTable(host) \ {i}
      /\ \A x \in Slots \ {i} : host'.slot[x] = host.slot[x]
      /\ \A s \in Seats : host'.table[s] = IF s = host.slot[i].sit THEN 0 ELSE host.table[s]
  BY <1>1, ClosedFacts
<1>3. \A x \in InTable(host') : x \in InTable(host) /\ x # i /\ host'.slot[x] = host.slot[x]
  BY <1>2 DEF InTable
<1>4. host.slot[i].sit \in Seats \ {1} /\ host.table[host.slot[i].sit] = i BY DEF SeatsHeld
<1>5. host'.table[1] = 1
  <2>1. 1 \in Seats BY DEF Seats
  <2> QED BY <1>2, <1>4, <2>1 DEF SeatsHeld
<1>6. ASSUME NEW x \in InTable(host')
      PROVE  host'.slot[x].sit \in Seats \ {1} /\ host'.table[host'.slot[x].sit] = x
  <2>1. host.slot[x].sit \in Seats \ {1} /\ host.table[host.slot[x].sit] = x BY <1>3, <1>6 DEF SeatsHeld
  <2>2. host.slot[x].sit # host.slot[i].sit BY <1>3, <1>4, <1>6, <2>1
  <2> QED BY <1>2, <1>3, <1>6, <2>1, <2>2
<1>7. ASSUME NEW s \in Seats \ {1}, host'.table[s] # 0
      PROVE  host'.table[s] \in InTable(host') /\ host'.slot[host'.table[s]].sit = s
  <2>1. s # host.slot[i].sit /\ host'.table[s] = host.table[s] BY <1>2, <1>7
  <2>2. host.table[s] \in InTable(host) /\ host.slot[host.table[s]].sit = s BY <1>7, <2>1 DEF SeatsHeld
  <2>3. host.table[s] # i BY <2>1, <2>2
  <2>4. host.table[s] \in InTable(host') BY <1>2, <2>2, <2>3
  <2> QED BY <1>3, <2>1, <2>2, <2>4
<1> QED BY <1>5, <1>6, <1>7 DEF SeatsHeld

LEMMA EmptySeats ==
  ASSUME Inv, SeatsHeld, host' = Emptied(host)
  PROVE  SeatsHeld'
<1>1. /\ InTable(host') = {}
      /\ \A s \in Seats : host'.table[s] = IF \E i \in InTable(host) : s = host.slot[i].sit
                                            THEN 0 ELSE host.table[s]
  BY EmptiedFacts DEF Inv, TypeOK, Links
<1>2. host'.table[1] = 1
  <2>1. 1 \in Seats BY DEF Seats
  <2>2. \A i \in InTable(host) : host.slot[i].sit # 1 BY DEF SeatsHeld
  <2> QED BY <1>1, <2>1, <2>2 DEF SeatsHeld
<1>3. \A s \in Seats \ {1} : host'.table[s] = 0
  <2>1. ASSUME NEW s \in Seats \ {1} PROVE host'.table[s] = 0
    <3>1. CASE host.table[s] = 0 BY <1>1, <3>1
    <3>2. CASE host.table[s] # 0
      <4>1. host.table[s] \in InTable(host) /\ host.slot[host.table[s]].sit = s BY <3>2 DEF SeatsHeld
      <4> QED BY <1>1, <4>1
    <3> QED BY <3>1, <3>2
  <2> QED BY <2>1
<1> QED BY <1>1, <1>2, <1>3 DEF SeatsHeld

LEMMA SameSeats ==
  ASSUME SeatsHeld, host'.slot = host.slot, host'.table = host.table
  PROVE  SeatsHeld'
BY DEF SeatsHeld, InTable

LEMMA SeatedStep ==
  ASSUME ~Overlap, TableSize <= PlayerNum, SeatedInv, [Next]_vars
  PROVE  SeatedInv'
<1>1. OrderlyInv /\ Inv /\ Expected /\ OwnNameAndMoney /\ Room /\ SeatsHeld /\ TypeOK
  BY DEF SeatedInv, OrderlyInv, Inv
<1>2. OrderlyInv' /\ Inv' /\ TypeOK' BY <1>1, OrderlyStep DEF OrderlyInv, Inv
<1>3. host \in Hosts /\ host' \in Hosts /\ host.count \in Nat /\ host'.count \in Nat
  BY <1>1, <1>2 DEF TypeOK, Hosts
<1>4. TableSize \in Nat /\ PlayerNum \in Nat BY TableAssumption DEF Seats
<1>5. SUFFICES Room' /\ SeatsHeld' BY <1>2 DEF SeatedInv
<1>6. ASSUME UNCHANGED host, Coming' = Coming PROVE Room' /\ SeatsHeld'
  BY <1>1, <1>3, <1>6, RoomKept, SameSeats
<1>7. CASE \E j \in Joiners : Join(j)
  <2>1. PICK j \in Joiners : Join(j) BY <1>7
  <2>2. /\ Coming = {} /\ ~Departing /\ lobby.heads \in 1 .. TableSize - 1 /\ UNCHANGED host
    BY <2>1 DEF Join
  <2>3. host.count + 1 <= TableSize BY <1>1, <2>2, JoinHasRoom
  <2>4. Room' BY <1>3, <1>4, <2>2, <2>3 DEF Room
  <2> QED BY <1>1, <2>2, <2>4, SameSeats
<1>8. CASE \E j \in Joiners : Connect(j)
  <2>1. Coming # {} /\ Coming' # {} BY <1>1, <1>8, ConnectExpected
  <2>2. UNCHANGED host BY <1>8 DEF Connect
  <2>3. Room' BY <1>1, <2>1, <2>2 DEF Room
  <2> QED BY <1>1, <2>2, <2>3, SameSeats
<1>9. CASE Accept
  <2>1. Coming # {} /\ Coming' = {} BY <1>1, <1>9, AcceptExpected
  <2>2. host.count + 1 <= TableSize BY <1>1, <2>1 DEF Room
  <2>3. SeatsHeld' BY <1>1, <1>3, <1>4, <1>9, <2>2, AcceptSeats
  <2>4. host'.count = host.count + 1
    <3>1. backlog # <<>> /\ backlog \in Seq(Conns) /\ host' = Accepted(Head(backlog))
      BY <1>1, <1>9 DEF Accept, TypeOK
    <3>2. PICK k \in Conns : k = Head(backlog) BY <3>1, HeadTail
    <3>3. ~Seated(k) BY <1>1, <3>1, <3>2, HeadTail DEF Seated, Inv, Links
    <3> QED BY <1>1, <3>1, <3>2, <3>3, AcceptedFacts DEF Inv
  <2>5. Room' BY <1>3, <1>4, <2>1, <2>2, <2>4 DEF Room
  <2> QED BY <2>3, <2>5
<1>10. CASE HearLobby
  <2>1. Coming' = Coming BY <1>1, <1>10, HeardExpected
  <2>2. host'.slot = host.slot /\ host'.table = host.table /\ host'.count = host.count
    BY <1>1, <1>10, HeardFacts DEF HearLobby
  <2> QED BY <1>1, <1>3, <2>1, <2>2, RoomKept, SameSeats
<1>11. CASE LobbyHearsHost
  <2>1. Coming' = Coming BY <1>1, <1>11, StartExpected
  <2> QED BY <1>6, <1>11, <2>1 DEF LobbyHearsHost
<1>12. CASE \E i \in Slots : HearGuest(i) \/ Kick(i)
  <2>1. Coming' = Coming BY <1>1, <1>12, PartingExpected
  <2>2. PICK i \in InTable(host) : host' = Closed(host, i) BY <1>12 DEF HearGuest, Kick
  <2>3. host.count >= 1 BY <1>1, SlotsFinite DEF Inv, Links
  <2>4. host'.count = host.count - 1 BY <1>3, <2>2, <2>3, ClosedFacts
  <2>5. host'.count <= host.count BY <1>3, <2>4
  <2> QED BY <1>1, <1>3, <2>1, <2>2, <2>5, RoomKept, CloseSeats
<1>13. CASE CloseTable
  <2>1. Coming' = Coming BY <1>1, <1>13, PartingExpected
  <2>2. host' = Emptied(host) BY <1>13 DEF CloseTable
  <2>3. host.count = 1 + Cardinality(InTable(host)) /\ Cardinality(InTable(host)) \in Nat
    BY <1>1, SlotsFinite DEF Inv, Links
  <2>4. host'.count = 1 BY <1>3, <2>2, <2>3, EmptiedFacts
  <2>5. host'.count <= host.count BY <2>3, <2>4
  <2> QED BY <1>1, <1>3, <2>1, <2>2, <2>5, RoomKept, EmptySeats
<1>14. CASE \/ \E j \in Joiners : Leave(j) \/ LobbyHearsLeave(j) \/ GuestHears(j)
            \/ \E k \in Conns : Lose(k)
            \/ UNCHANGED vars
  <2>1. Coming' = Coming BY <1>1, <1>14, PartingExpected
  <2>2. UNCHANGED host BY <1>14 DEF Leave, LobbyHearsLeave, GuestHears, Lose, vars
  <2> QED BY <1>6, <2>1, <2>2
<1> QED BY <1>7, <1>8, <1>9, <1>10, <1>11, <1>12, <1>13, <1>14 DEF Next

LEMMA InitSeated == Init => SeatedInv
<1> SUFFICES ASSUME Init PROVE SeatedInv OBVIOUS
<1>1. OrderlyInv BY InitOrderly
<1>2. InTable(host) = {} BY DEF Init, InTable, Blank
<1>3. Coming = {} BY DEF Init, Coming, Idle
<1>4. host.count = 1 /\ host.table[1] = 1 /\ \A s \in Seats \ {1} : host.table[s] = 0
  BY DEF Init, Seats
<1>5. Room BY <1>3, <1>4, TableAssumption DEF Room
<1>6. SeatsHeld BY <1>2, <1>4 DEF SeatsHeld
<1> QED BY <1>1, <1>5, <1>6 DEF SeatedInv

(* Everybody at the table has a seat of its own and nobody sits where nobody  *)
(* is, when the lobby lets in no more players than play, and nobody before    *)
(* the host has heard of who came and went.                                   *)
THEOREM SeatsAreSound ==
  ASSUME ~Overlap, TableSize <= PlayerNum
  PROVE  Spec => []SeatsSound
<1>1. Init => SeatedInv BY InitSeated
<1>2. SeatedInv /\ [Next]_vars => SeatedInv' BY SeatedStep
<1>3. SeatedInv => SeatsSound
  <2> SUFFICES ASSUME SeatedInv PROVE SeatsSound OBVIOUS
  <2>1. TypeOK /\ Links /\ SeatsHeld BY DEF SeatedInv, OrderlyInv, Inv
  <2>2. \A i \in InTable(host) : host.slot[i].sit # 0 /\ host.table[host.slot[i].sit] = i
    BY <2>1 DEF SeatsHeld, Seats
  <2> QED BY <2>1, <2>2 DEF SeatsSound, EverySeatHeld, SeatsHeld, Links
<1> QED BY <1>1, <1>2, <1>3, PTL DEF Spec
=============================================================================
