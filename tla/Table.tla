------------------------------- MODULE Table -------------------------------
(***************************************************************************)
(* How players come to a table and leave it.  A player asks the lobby; the *)
(* lobby announces it to the host of the table, in two messages, and tells *)
(* it the host's address; it connects; the host accepts the connection,    *)
(* gives it a seat and the name and money that were announced last, and    *)
(* asks the lobby for the start of the game when the table is full.        *)
(* Players leave by themselves, are kicked, or lose their connection; the  *)
(* host may close the table.  Three programs talk over five kinds of       *)
(* channel, and nothing orders the messages of one against another's.      *)
(*                                                                         *)
(* One table is modelled from MSG_OPEN_OK on.  The lobby is cut down to    *)
(* what Lobby.tla has for one table; the game played at it is Round.tla.   *)
(***************************************************************************)
EXTENDS Integers, Sequences, FiniteSets

CONSTANTS
  Joiners,    \* the players who may come to the table
  Nobody,     \* no player
  MaxPlayer,  \* player[] has the entries 1 .. MaxPlayer - 1; 50 in the code
  TableSize,  \* players the lobby lets in, the host among them: 4 in the code
  PlayerNum,  \* players who get a seat, the host among them: /NUM, 4 if not set
  MaxConns,   \* bound: connections made to the host
  MaxLost,    \* bound: connections that break
  Overlap     \* BOOLEAN: does a player come while the host has still to accept
              \* another, or to hear of a departure?

Slots == 2 .. MaxPlayer - 1
Seats == 1 .. 4

ASSUME TableAssumption ==
  /\ MaxPlayer \in Nat /\ MaxConns \in 1 .. MaxPlayer - 2
  /\ TableSize \in 2 .. 4 /\ PlayerNum \in Seats
  /\ IsFiniteSet(Joiners) /\ Nobody \notin Joiners
  /\ MaxLost \in Nat /\ Overlap \in BOOLEAN

VARIABLES
  host,     \* the globals of the host, see Hosts
  lobby,    \* what the lobby keeps of the table: serv, and who is linked to it
  client,   \* client[j]: the program of player j, see Clients
  leaving,  \* players whose MSG_LEAVE_TABLE_GPS is under way to the lobby
  toLobby,  \* messages from the host to the lobby
  news,     \* messages from the lobby to the host
  by,       \* by[k]: the player who made the k-th connection
  up,       \* up[k]: messages from the player to the host on connection k
  down,     \* down[k]: messages from the host to the player
  backlog,  \* connections made and not accepted
  lost      \* connections that broke: not in the code

vars == <<host, lobby, client, leaving, toLobby, news, by, up, down, backlog, lost>>

Conns == DOMAIN by
Names == Joiners \cup {Nobody}

Hosts ==
  [serving : BOOLEAN,                          \* in_serv
   count : Nat,                                \* player_in_table
   table : [Seats -> 0 .. MaxPlayer - 1],      \* table[]
   slot : [Slots -> [conn : 0 .. MaxConns,     \* sockfd, 0 if not in_table
                     sit : {0} \cup Seats, name : Names, money : Names]],
   coming : BOOLEAN,                           \* new_client
   name : Names, money : Names]                \* new_client_name, .._id, .._money

Clients ==
  [at : {"idle", "called", "in"},              \* "called": told the address
   conn : 0 .. MaxConns, count : Nat, sit : {0} \cup Seats]

Idle  == [at |-> "idle", conn |-> 0, count |-> 0, sit |-> 0]
Blank == [conn |-> 0, sit |-> 0, name |-> Nobody, money |-> Nobody]

-----------------------------------------------------------------------------
(* Players at the host.                                                     *)

InTable(h) == {i \in Slots : h.slot[i].conn # 0}
SlotOf(h, k) == CHOOSE i \in InTable(h) : h.slot[i].conn = k
Least(S) == CHOOSE i \in S : \A j \in S : i <= j

\* A player's end of connection k is open.
Held(k) == client[by[k]].conn = k

\* down[] with the messages ms(k) added for the players at the table of h.
Told(h, ms(_)) ==
  [k \in Conns |-> IF Held(k) /\ \E i \in InTable(h) : h.slot[i].conn = k
                   THEN down[k] \o ms(k) ELSE down[k]]

Comer(n) == [type |-> "COMER", count |-> n]
Gone(n)  == [type |-> "GONE", count |-> n]

\* The first empty seat, for as many players as play; others keep the number
\* that the last user of the slot had.
SeatFor(i) ==
  LET free == {s \in Seats : host.table[s] = 0}
  IN  IF host.count + 1 <= PlayerNum /\ free # {} THEN Least(free) ELSE host.slot[i].sit

IsSeated == host.count + 1 <= PlayerNum /\ \E s \in Seats : host.table[s] = 0

\* Mutant: new_client is not reset.
AcceptedStillComing(k) ==
  LET i == Least(Slots \ InTable(host)) IN
  [host EXCEPT !.slot[i] = [conn |-> k, sit |-> SeatFor(i),
                            name |-> host.name, money |-> host.money],
               !.count = @ + 1,
               !.table = IF IsSeated THEN [@ EXCEPT ![SeatFor(i)] = i] ELSE @]

\* The host after accept() of connection k, in the first free entry of player[].
Accepted(k) ==
  LET i == Least(Slots \ InTable(host)) IN
  [host EXCEPT !.slot[i] = [conn |-> k, sit |-> SeatFor(i),
                            name |-> host.name, money |-> host.money],
               !.count = @ + 1,
               !.table = IF IsSeated THEN [@ EXCEPT ![SeatFor(i)] = i] ELSE @,
               !.coming = FALSE]

\* Mutant: the seat stays taken.
ClosedNotSeat(h, i) == [h EXCEPT !.count = @ - 1, !.slot[i].conn = 0]

\* close_client(): player[] keeps what it had of the player but in_table.
Closed(h, i) ==
  [h EXCEPT !.count = @ - 1, !.slot[i].conn = 0,
            !.table = [s \in Seats |-> IF s = h.slot[i].sit THEN 0 ELSE @[s]]]

\* close_serv(): close_client() of every player.
Emptied(h) ==
  [h EXCEPT !.serving = FALSE, !.count = @ - Cardinality(InTable(h)),
            !.slot = [i \in Slots |-> [@[i] EXCEPT !.conn = 0]],
            !.table = [s \in Seats |->
                         IF \E i \in InTable(h) : s = h.slot[i].sit THEN 0 ELSE @[s]]]

-----------------------------------------------------------------------------
(* Players and the lobby.                                                   *)

\* Players announced and not yet accepted, and a departure not yet known to the
\* host.
Coming    == {j \in Joiners : client[j].at = "called"} \cup {by[backlog[n]] : n \in DOMAIN backlog}
Departing ==
  \E k \in Conns : /\ up[k] # <<>>
                    /\ \/ \E i \in InTable(host) : host.slot[i].conn = k
                       \/ \E n \in DOMAIN backlog : backlog[n] = k

\* MSG_JOIN_TABLE at the lobby: the host hears of the player, the player of
\* the host.
Join(j) ==
  /\ client[j].at = "idle" /\ j \notin leaving
  /\ lobby.heads \in 1 .. TableSize - 1
  /\ Overlap \/ (Coming = {} /\ ~Departing)
  /\ Len(by) + Cardinality(Coming) < MaxConns
  /\ lobby' = [heads |-> lobby.heads + 1, linked |-> lobby.linked \cup {j}]
  /\ news' = news \o <<[type |-> "MONEY", who |-> j], [type |-> "JOIN", who |-> j]>>
  /\ client' = [client EXCEPT ![j] = [Idle EXCEPT !.at = "called"]]
  /\ UNCHANGED <<host, leaving, toLobby, by, up, down, backlog, lost>>

\* MSG_JOIN_INFO: the player connects.  The host's port listens even when the
\* table has been closed meanwhile.
Connect(j) ==
  /\ client[j].at = "called"
  /\ by' = Append(by, j) /\ up' = Append(up, <<>>) /\ down' = Append(down, <<>>)
  /\ backlog' = Append(backlog, Len(by'))
  /\ client' = [client EXCEPT ![j].at = "in", ![j].conn = Len(by')]
  /\ UNCHANGED <<host, lobby, leaving, toLobby, news, lost>>

\* /LEAVE of a player: the host and the lobby are told.
Leave(j) ==
  /\ client[j].at = "in"
  /\ LET k == client[j].conn IN
       /\ up' = [up EXCEPT ![k] = @ \o <<"LEAVE", "EOF">>]
       /\ down' = [down EXCEPT ![k] = <<>>]
  /\ client' = [client EXCEPT ![j] = Idle]
  /\ leaving' = leaving \cup {j}
  /\ UNCHANGED <<host, lobby, toLobby, news, by, backlog, lost>>

\* Connection k breaks: what was under way is lost.
Lose(k) ==
  /\ lost < MaxLost /\ Held(k)
  /\ \A n \in DOMAIN down[k] : down[k][n].type # "EOF"
  /\ up' = [up EXCEPT ![k] = <<"EOF">>]
  /\ down' = [down EXCEPT ![k] = <<[type |-> "EOF"]>>]
  /\ lost' = lost + 1
  /\ UNCHANGED <<host, lobby, client, leaving, toLobby, news, by, backlog>>

\* MSG_LEAVE_TABLE_GPS of a guest, at the lobby.
LobbyHearsLeave(j) ==
  /\ j \in leaving
  /\ leaving' = leaving \ {j}
  /\ lobby' = IF j \notin lobby.linked THEN lobby
              ELSE [heads |-> IF lobby.heads > 0 THEN lobby.heads - 1 ELSE 0,
                    linked |-> lobby.linked \ {j}]
  /\ UNCHANGED <<host, client, toLobby, news, by, up, down, backlog, lost>>

\* MSG_GAME_START_REQ and the host's MSG_LEAVE_TABLE_GPS, at the lobby.
LobbyHearsHost ==
  /\ toLobby # <<>> /\ toLobby' = Tail(toLobby)
  /\ IF Head(toLobby).type = "START"
     THEN news' = Append(news, [type |-> "START"]) /\ UNCHANGED lobby
     ELSE lobby' = [heads |-> 0, linked |-> {}] /\ UNCHANGED news
  /\ UNCHANGED <<host, client, leaving, by, up, down, backlog, lost>>

-----------------------------------------------------------------------------
(* The host.                                                                *)

\* A newcomer that completes the table lets the host ask for the start.
StartAsked(n) ==
  IF n = PlayerNum THEN Append(toLobby, [type |-> "START"]) ELSE toLobby

\* Mutant: the newcomer alone is told how many there are.
ComersOne(h, k) ==
  Told(h, LAMBDA c : IF c = k THEN <<Comer(h.count), [type |-> "INFO", sit |-> h.slot[SlotOf(h, k)].sit]>>
                     ELSE <<>>)

\* Everybody hears of the newcomer, which also hears where it sits.
Comers(h, k) ==
  Told(h, LAMBDA c : <<Comer(h.count)>> \o
                     IF c = k THEN <<[type |-> "INFO", sit |-> h.slot[SlotOf(h, k)].sit]>>
                     ELSE <<>>)

\* accept_new_client(), in an iteration that finds new_client set.
Accept ==
  /\ host.serving /\ host.coming /\ backlog # <<>>
  /\ LET k == Head(backlog)
         h == Accepted(k)
     IN  /\ host' = h
         /\ down' = Comers(h, k)
         /\ toLobby' = StartAsked(h.count)
  /\ backlog' = Tail(backlog)
  /\ UNCHANGED <<lobby, client, leaving, news, by, up, lost>>

\* Mutant: a /JOIN notice does not announce anybody.
HearMoneyOnly ==
  LET m == Head(news) IN
  CASE m.type = "MONEY" -> [host EXCEPT !.money = m.who]
    [] m.type = "JOIN"  -> [host EXCEPT !.name = m.who]
    [] OTHER            -> host

\* The host after a message of the lobby: the newcomer's account and money, its
\* name, or the start of the game, which changes nothing here.
Heard ==
  LET m == Head(news) IN
  CASE m.type = "MONEY" -> [host EXCEPT !.money = m.who]
    [] m.type = "JOIN"  -> [host EXCEPT !.name = m.who, !.coming = TRUE]
    [] OTHER            -> host

HearLobby ==
  /\ news # <<>> /\ news' = Tail(news)
  /\ host' = Heard
  /\ UNCHANGED <<lobby, client, leaving, toLobby, by, up, down, backlog, lost>>

\* A guest left or its connection ended.
HearGuest(i) ==
  /\ host.serving /\ i \in InTable(host)
  /\ LET k == host.slot[i].conn IN
       /\ up[k] # <<>>
       /\ host' = Closed(host, i)
       /\ down' = [Told(host', LAMBDA c : <<Gone(host'.count)>>) EXCEPT
                     ![k] = IF Held(k) THEN <<[type |-> "EOF"]>> ELSE <<>>]
       /\ up' = [up EXCEPT ![k] = <<>>]
  /\ UNCHANGED <<lobby, client, leaving, toLobby, news, by, backlog, lost>>

\* /KICK.
Kick(i) ==
  /\ host.serving /\ i \in InTable(host)
  /\ LET k == host.slot[i].conn IN
       /\ host' = Closed(host, i)
       /\ down' = [Told(host', LAMBDA c : <<Gone(host'.count)>>) EXCEPT
                     ![k] = IF Held(k) THEN @ \o <<[type |-> "LEAVE"], [type |-> "EOF"]>> ELSE <<>>]
       /\ up' = [up EXCEPT ![k] = <<>>]
  /\ UNCHANGED <<lobby, client, leaving, toLobby, news, by, backlog, lost>>

\* /LEAVE of the host: close_serv(), player after player.  SIGPIPE, which a
\* write to a player that is gone may raise at any time, does the same and ends
\* the program.
CloseTable ==
  LET Rank(k) == Cardinality({i \in InTable(host) : i < SlotOf(host, k)})
  IN
  /\ host.serving
  /\ host' = Emptied(host)
  /\ down' = Told(host, LAMBDA k : [n \in 1 .. Rank(k) |-> Gone(host.count - n)]
                                   \o <<[type |-> "LEAVE"], [type |-> "EOF"]>>)
  /\ up' = [k \in Conns |-> IF \E i \in InTable(host) : host.slot[i].conn = k
                            THEN <<>> ELSE up[k]]
  /\ toLobby' = Append(toLobby, [type |-> "LEAVE"])
  /\ UNCHANGED <<lobby, client, leaving, news, by, backlog, lost>>

-----------------------------------------------------------------------------
(* handle_serv_message() and the end of the connection, at a guest.         *)

\* A guest that is sent away tells the lobby so; one that finds its
\* connection ended does not.
Tells(m) == m.type = "LEAVE"

GuestHears(j) ==
  LET k == client[j].conn
      m == Head(down[k])
  IN
  /\ client[j].at = "in" /\ down[k] # <<>>
  /\ CASE m.type \in {"COMER", "GONE"} -> client' = [client EXCEPT ![j].count = m.count]
       [] m.type = "INFO" -> client' = [client EXCEPT ![j].sit = m.sit]
       [] m.type \in {"LEAVE", "EOF"} -> client' = [client EXCEPT ![j] = Idle]
  /\ down' = [down EXCEPT ![k] = IF m.type \in {"LEAVE", "EOF"} THEN <<>> ELSE Tail(@)]
  /\ leaving' = IF Tells(m) THEN leaving \cup {j} ELSE leaving
  /\ UNCHANGED <<host, lobby, toLobby, news, by, up, backlog, lost>>

-----------------------------------------------------------------------------
(* The specification.                                                       *)

\* MSG_OPEN_OK has been handled: the host sits at seat 1.
Init ==
  /\ host = [serving |-> TRUE, count |-> 1,
             table |-> [s \in Seats |-> IF s = 1 THEN 1 ELSE 0],
             slot |-> [i \in Slots |-> Blank], coming |-> FALSE,
             name |-> Nobody, money |-> Nobody]
  /\ lobby = [heads |-> 1, linked |-> {}]
  /\ client = [j \in Joiners |-> Idle]
  /\ leaving = {} /\ toLobby = <<>> /\ news = <<>>
  /\ by = <<>> /\ up = <<>> /\ down = <<>> /\ backlog = <<>>
  /\ lost = 0

Next ==
  \/ \E j \in Joiners : Join(j) \/ Connect(j) \/ Leave(j) \/ LobbyHearsLeave(j) \/ GuestHears(j)
  \/ \E k \in Conns : Lose(k)
  \/ \E i \in Slots : HearGuest(i) \/ Kick(i)
  \/ LobbyHearsHost \/ HearLobby \/ Accept \/ CloseTable

\* Programs react to what they are sent; nobody has to come, go or be kicked.
Fairness ==
  /\ WF_vars(Accept) /\ WF_vars(HearLobby) /\ WF_vars(LobbyHearsHost)
  /\ \A j \in Joiners : /\ WF_vars(Connect(j)) /\ WF_vars(GuestHears(j))
                        /\ WF_vars(LobbyHearsLeave(j))
  /\ \A i \in Slots : WF_vars(HearGuest(i))

Spec == Init /\ [][Next]_vars /\ Fairness
-----------------------------------------------------------------------------
(* Properties.                                                              *)

TypeOK ==
  /\ host \in Hosts
  /\ lobby \in [heads : 0 .. TableSize, linked : SUBSET Joiners]
  /\ client \in [Joiners -> Clients]
  /\ leaving \subseteq Joiners
  /\ toLobby \in Seq([type : {"START", "LEAVE"}])
  /\ news \in Seq([type : {"MONEY", "JOIN"}, who : Joiners] \cup [type : {"START"}])
  /\ by \in Seq(Joiners) /\ Len(by) <= MaxConns
  /\ up \in Seq(Seq({"LEAVE", "EOF"})) /\ Len(up) = Len(by)
  /\ down \in Seq(Seq([type : {"COMER", "GONE"}, count : Nat] \cup [type : {"INFO"}, sit : {0} \cup Seats]
                      \cup [type : {"LEAVE", "EOF"}])) /\ Len(down) = Len(by)
  /\ backlog \in Seq(Conns)
  /\ lost \in 0 .. MaxConns

(* A player at the table has the name and the money that the lobby announced  *)
(* for it, however the announcements, the connections and departures cross:   *)
(* the money won is reported for the account that sits there.                 *)
OwnNameAndMoney ==
  \A i \in InTable(host) :
    LET p == host.slot[i] IN p.name = by[p.conn] /\ p.money = by[p.conn]

(* player_in_table counts the players, and as many as may play have a seat of *)
(* their own: table[] and the seats in player[] agree.                        *)
EverySeatHeld ==
  /\ host.count = 1 + Cardinality(InTable(host))
  /\ \A i \in InTable(host) : host.count <= PlayerNum =>
       host.slot[i].sit # 0 /\ host.table[host.slot[i].sit] = i
  /\ \A s \in Seats \ {1} : host.table[s] # 0 =>
       host.table[s] \in InTable(host) /\ host.slot[host.table[s]].sit = s

\* Nothing is under way.
Quiet ==
  /\ leaving = {} /\ toLobby = <<>> /\ news = <<>> /\ backlog = <<>>
  /\ \A j \in Joiners : client[j].at # "called"
  /\ \A k \in Conns : up[k] = <<>> /\ down[k] = <<>>

(* The seats are well-formed and held.                                        *)
SeatsSound == TypeOK /\ EverySeatHeld

(* The lobby's head-count and the host's come to agree once nothing is under  *)
(* way, but for the players whose connection broke: the lobby is not told.    *)
HeadCountsAgree ==
  Quiet /\ host.serving =>
    host.count <= lobby.heads /\ lobby.heads <= host.count + lost

(* A guest knows where the host has put it and how many players there are, as *)
(* soon as it has read what it was sent.                                      *)
GuestsKnow ==
  \A i \in InTable(host) :
    LET p == host.slot[i] IN
    Held(p.conn) /\ down[p.conn] = <<>> =>
      /\ client[by[p.conn]].count = host.count
      /\ client[by[p.conn]].sit = p.sit

(* Host, lobby and guests count the same players.                             *)
CountsAgree == HeadCountsAgree /\ GuestsKnow

(* The game starts, when the lobby's answer comes, at a table where every seat *)
(* that plays is taken, as it was when the answer was asked for.  It may not  *)
(* be: nobody looks again when the answer has come, and no run checks this.   *)
StartsFull ==
  [][ news # <<>> /\ Head(news).type = "START" /\ news' = Tail(news)
      => Cardinality({s \in Seats : host.table[s] # 0}) = PlayerNum ]_vars

(* Whoever the lobby lets in is at the table in the end, unless it goes, or   *)
(* the table is closed: no connection waits for ever to be accepted.          *)
JoinersGetIn ==
  \A j \in Joiners :
    client[j].at = "called" ~>
      \/ client[j].at = "idle" \/ ~host.serving
      \/ client[j].at = "in" /\ \E i \in InTable(host) : host.slot[i].conn = client[j].conn
=============================================================================
