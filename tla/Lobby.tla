------------------------------- MODULE Lobby -------------------------------
(***************************************************************************)
(* The lobby server ("GPS" server) of QKMJ: qkmjserver/mjgps.c with the    *)
(* session layer of qkmjserver/session_manager.c on top of MongoDB.        *)
(*                                                                         *)
(* The server is one thread: gps_processing() selects on every socket and  *)
(* runs the handler of one message to its end before it looks at the next  *)
(* one.  Every action below is one such handler, for the connection held   *)
(* by slot p of the array player[].  What the clients may send is limited  *)
(* as the client program limits it: the login dialogue answers one prompt  *)
(* at a time, every other command waits for MSG_WELCOME, and a client that *)
(* hosts a table does not send /JOIN.                                      *)
(***************************************************************************)
EXTENDS Integers, FiniteSets

CONSTANTS
  MaxPlayer,     \* size of player[]; slot 0 is never given to a connection
  LoginLimit,    \* connections in slots above this are turned away
  TableSize,     \* 4: head-count at which a table is full
  MinJoinMoney,  \* a player needs more than this to open or join a table
  DefaultMoney,  \* money of a new account
  Moneys,        \* the amounts of money an account can hold
  Reported,      \* the amounts hosts report for a player after a round
  Names,         \* nicknames
  NoName,        \* the empty nickname of a slot nobody named
  Admin,         \* nickname that may use the administrator's commands
  Passwords,
  NoPassword,    \* the password of a record never read nor written
  MaxAccount,    \* bound on the user ids handed out
  Registered,    \* nicknames with an account when the server starts
  DbMayFail,     \* BOOLEAN: a read of the users collection may return nothing
  MayBan,        \* BOOLEAN: the badusers collection may match a player
  MayRestart,    \* BOOLEAN: the server process may die and be started again
  MayRejoin,     \* BOOLEAN: a client may /JOIN while its slot is at a table
  MayExempt,     \* BOOLEAN: a connection may come from the exempt host
  Versions,      \* subset of BOOLEAN: is a client's version 093 or later
  MaxPending,    \* bound on connections that wait to evict a duplicate
  NoDoc,         \* result of a query that matches nothing
  NoSession      \* no document in active_sessions

ASSUME LobbyAssumption ==
  /\ MaxPlayer \in Nat /\ LoginLimit \in Nat /\ TableSize \in Nat \ {0}
  /\ MaxAccount \in Nat /\ MaxPending \in Nat
  /\ MinJoinMoney \in Int /\ Reported \subseteq Moneys /\ Moneys \subseteq Int
  /\ DefaultMoney \in Moneys /\ 0 \in Moneys
  /\ NoName \notin Names /\ NoPassword \notin Passwords
  /\ Registered \subseteq Names /\ IsFiniteSet(Registered)
  /\ NoSession \notin Moneys
  /\ {DbMayFail, MayBan, MayRestart, MayRejoin, MayExempt} \subseteq BOOLEAN
  /\ Versions \subseteq BOOLEAN

Slots == 1 .. MaxPlayer - 1
Ids   == 0 .. MaxAccount

\* struct player_record, the fields some handler's control depends on.
Records == [id    : Ids,
            name  : Names \cup {NoName},
            pw    : Passwords \cup {NoPassword},
            money : Moneys]

\* The record before any read: a zero-initialised global.
BlankRecord == [id |-> 0, name |-> NoName, pw |-> NoPassword, money |-> 0]

ASSUME RecordAssumption == NoDoc \notin Records

\* The last question the server's reply puts to the client.
Prompts == {"version", "name", "password", "create", "duplicate", "lobby", "silence"}

\* struct player_info, and what the client behind the socket answers next.
Players == [login   : 0 .. 3,   \* 0 free, 1 connected, 2 logged in,
                                \* 3 waits to evict a duplicate
            current : BOOLEAN,  \* version is 093 or later
            prompt  : Prompts,
            name    : Names \cup {NoName},
            id      : Ids,
            money   : Moneys,
            serv    : Nat,              \* head-count of the table it hosts
            join    : Slots \cup {0}]   \* slot of the host it is guest of

FreeSlot == [login |-> 0, current |-> FALSE, prompt |-> "version",
             name |-> NoName, id |-> 0, money |-> 0, serv |-> 0, join |-> 0]

VARIABLES
  player,    \* player[1 .. MAX_PLAYER - 1]
  record,    \* the global record: last account read or written
  users,     \* the users collection, by user_id
  nextId,    \* last user id the database's counter handed out
  sessions   \* active_sessions: nickname -> cached money

vars == <<player, record, users, nextId, sessions>>

---------------------------------------------------------------------------
(* Database access. *)

Accounts == {i \in Ids : users[i] # NoDoc}

\* What a query for nickname n may find in the collection us: the first
\* document with that name, or nothing when there is none or the query fails.
Found(us, n) ==
  LET named == {i \in Ids : us[i] # NoDoc /\ us[i].name = n}
  IN  {us[i] : i \in {j \in named : \A k \in named : j <= k}}
        \cup (IF named = {} \/ DbMayFail THEN {NoDoc} ELSE {})

ReadName(n) == Found(users, n)

\* Mutant of ReadId: the query has lost its filter.
ReadAnyId(i) == {users[j] : j \in {k \in Accounts : \A l \in Accounts : k <= l}}

ReadId(i) == {users[i]} \cup (IF DbMayFail THEN {NoDoc} ELSE {})

\* The global record after a read: a query that returns nothing leaves it.
Recall(r) == IF r = NoDoc THEN record ELSE r

\* write_record(): replace, or insert, the document with the record's id.
Write(r) == users' = [users EXCEPT ![r.id] = r]

\* check_user() finds the player among the bad users.
Banned == IF MayBan THEN BOOLEAN ELSE {FALSE}

---------------------------------------------------------------------------
(* The array of slots pl after the server's helpers. *)

\* Mutant of Closed: the count is lowered without a look at it.
ClosedUnchecked(pl, c) ==
  [s \in Slots |->
     IF s = c THEN [FreeSlot EXCEPT !.id = pl[c].id, !.money = pl[c].money]
     ELSE IF s = pl[c].join THEN [pl[s] EXCEPT !.serv = @ - 1] ELSE pl[s]]

\* close_connection(c): the table c sits at loses a head, the slot is freed;
\* its id and money stay, and so does every guest's link to the slot.
Closed(pl, c) ==
  [s \in Slots |->
     IF s = c THEN [pl[c] EXCEPT !.login = 0, !.current = FALSE,
                                 !.prompt = "version", !.name = NoName,
                                 !.serv = 0, !.join = 0]
     ELSE IF s = pl[c].join /\ pl[s].serv > 0
          THEN [pl[s] EXCEPT !.serv = @ - 1]
          ELSE pl[s]]

\* welcome_user(p) with the record r.  A client of an old version is turned
\* away: it will leave.
Welcomed(pl, p, r) ==
  [pl EXCEPT ![p] =
     IF @.current
     THEN [@ EXCEPT !.login = 2, !.prompt = "lobby", !.id = r.id, !.money = r.money]
     ELSE [@ EXCEPT !.prompt = "silence"]]

\* Mutant of Unseated: the count stays.
UnseatedStillCounted(pl, p) == [pl EXCEPT ![p].join = 0]

\* Slot p stops being a guest: its host's head-count drops.
Unseated(pl, p) ==
  [s \in Slots |->
     IF s = p THEN [pl[p] EXCEPT !.join = 0]
     ELSE IF s = pl[p].join /\ pl[s].serv > 0
          THEN [pl[s] EXCEPT !.serv = @ - 1]
          ELSE pl[s]]

\* Mutant of Cleared: the loop is left out.
ClearedNobody(pl, p) == pl

\* "clear all client": nobody is a guest of slot p any more.
Cleared(pl, p) ==
  [s \in Slots |-> IF pl[s].join = p THEN [pl[s] EXCEPT !.join = 0] ELSE pl[s]]

\* Mutant of SessionClosed: whoever gave the nickname ends its session.
SessionClosedAnyway(ss, pl, c) == [ss EXCEPT ![pl[c].name] = NoSession]

SessionClosed(ss, pl, c) ==
  IF pl[c].login = 2 THEN [ss EXCEPT ![pl[c].name] = NoSession] ELSE ss

SessionOpened(ss, pl, p, r) ==
  IF pl[p].current THEN [ss EXCEPT ![pl[p].name] = r.money] ELSE ss

Prompted(p, q) == [player EXCEPT ![p].prompt = q]

---------------------------------------------------------------------------
(* Connections and the login dialogue. *)

FreeSlots == {s \in Slots : player[s].login = 0}
IsFirst(s, S) == s \in S /\ \A t \in S : s <= t

\* Mutant of Accept: nobody is turned away.
AcceptAll ==
  \E p \in Slots :
    /\ IsFirst(p, FreeSlots)
    /\ player' = [player EXCEPT ![p].login = 1]
    /\ UNCHANGED <<record, users, nextId, sessions>>

\* A new connection takes the first free slot; one above the limit is told
\* the server is full and closed again, unless it comes from the exempt host.
Accept ==
  \E p \in Slots, exempt \in IF MayExempt THEN BOOLEAN ELSE {FALSE} :
    /\ IsFirst(p, FreeSlots)
    /\ player' = IF p > LoginLimit /\ ~exempt
                 THEN Closed([player EXCEPT ![p].login = 1], p)
                 ELSE [player EXCEPT ![p].login = 1]
    /\ UNCHANGED <<record, users, nextId, sessions>>

\* recv_json() fails, MSG_LEAVE, or a message id the server does not know.
Disconnect(p) ==
  /\ player[p].login # 0
  /\ player'   = Closed(player, p)
  /\ sessions' = SessionClosed(sessions, player, p)
  /\ UNCHANGED <<record, users, nextId>>

CheckVersion(p, v) ==
  /\ player[p].login = 1 /\ player[p].prompt = "version"
  /\ player' = [player EXCEPT ![p].current = v, ![p].prompt = "name"]
  /\ UNCHANGED <<record, users, nextId, sessions>>

Login(p, n) ==
  /\ player[p].login = 1 /\ player[p].prompt = "name"
  /\ \E r \in ReadName(n) :
       /\ record' = Recall(r)
       /\ player' = [player EXCEPT
                       ![p].name   = n,
                       ![p].prompt = IF r = NoDoc THEN "create" ELSE "password"]
  /\ UNCHANGED <<users, nextId, sessions>>

\* Slots other than p that are logged in, or wait to be, under p's nickname.
Rivals(p) ==
  {i \in Slots \ {p} : player[i].login \in {2, 3} /\ player[i].name = player[p].name}

\* The end of MSG_CHECK_PASSWORD and MSG_KILL_DUPLICATE for a client whose
\* record r was read, pl and ss being the slots and sessions so far.
Admit(p, r, pl, ss) ==
  \E banned \in Banned :
    IF banned
    THEN /\ player'   = Closed(pl, p)
         /\ sessions' = SessionClosed(ss, pl, p)
    ELSE /\ player'   = Welcomed(pl, p, r)
         /\ sessions' = SessionOpened(ss, pl, p, r)

CheckPassword(p, pw) ==
  /\ player[p].login = 1 /\ player[p].prompt = "password"
  /\ \E r \in ReadName(player[p].name) :
       /\ record' = Recall(r)
       /\ \/ /\ r = NoDoc                               \* no reply at all
             /\ player' = Prompted(p, "silence")
             /\ UNCHANGED <<users, sessions>>
          \/ /\ r # NoDoc /\ r.pw # pw                  \* MSG_PASSWORD_FAIL
             /\ player' = Prompted(p, "name")
             /\ UNCHANGED <<users, sessions>>
          \/ /\ r # NoDoc /\ r.pw = pw /\ Rivals(p) # {} \* MSG_DUPLICATE_LOGIN
             /\ Cardinality({i \in Slots : player[i].login = 3}) < MaxPending
             /\ player' = [player EXCEPT ![p].login = 3, ![p].prompt = "duplicate"]
             /\ UNCHANGED <<users, sessions>>
          \/ /\ r # NoDoc /\ r.pw = pw /\ Rivals(p) = {}
             /\ Write(r)
             /\ Admit(p, r, player, sessions)
  /\ UNCHANGED nextId

\* add_user(): an unused id (when there is none to be had the connection is
\* closed, as by Disconnect), the bad-user check, and only then the document.
\* welcome_user() ends in list_stat(), which reads the nickname again and may
\* find another document of that name.
CreateAccount(p, pw) ==
  /\ player[p].login = 1 /\ player[p].prompt = "create"
  /\ nextId < MaxAccount
  /\ nextId' = nextId + 1
  /\ LET r == [id |-> nextId + 1, name |-> player[p].name,
               pw |-> pw, money |-> DefaultMoney]
         us == [users EXCEPT ![r.id] = r]
     IN  \E banned \in Banned :
           IF banned
           THEN /\ record' = r
                /\ player' = Closed(player, p)
                /\ UNCHANGED <<users, sessions>>
           ELSE /\ \E d \in IF player[p].current THEN Found(us, r.name) ELSE {NoDoc} :
                     record' = IF d = NoDoc THEN r ELSE d
                /\ users'    = us
                /\ player'   = Welcomed(player, p, r)
                /\ sessions' = SessionOpened(sessions, player, p, r)

\* The client at p answers that the other connection is to be closed: the
\* first slot with the same nickname that is logged in, or waits like p.
KillDuplicate(p) ==
  /\ player[p].login = 3
  /\ \E r \in ReadName(player[p].name) :
       /\ record' = Recall(r)
       /\ \/ /\ r = NoDoc
             /\ player' = Prompted(p, "silence")
             /\ UNCHANGED <<users, sessions>>
          \/ /\ r # NoDoc /\ Rivals(p) = {}
             /\ Write(r)
             /\ Admit(p, r, player, sessions)
          \/ /\ r # NoDoc
             /\ Write(r)
             /\ \E v \in Rivals(p) :
                  /\ IsFirst(v, Rivals(p))
                  /\ Admit(p, r, Closed(player, v), SessionClosed(sessions, player, v))
  /\ UNCHANGED nextId

---------------------------------------------------------------------------
(* Commands of a logged-in client. *)

LoggedIn(p) == player[p].login = 2

\* read_user_name_update(): p's money follows the database, when the account
\* found under p's nickname is p's.
Refreshed(p, r) ==
  [player EXCEPT ![p].money = IF player[p].id = r.id THEN r.money ELSE @]

\* Mutant of TablesOf: does not ask whether there is a table.
TablesOrNot(n) == {i \in Slots : LoggedIn(i) /\ player[i].name = n}

\* Tables open under nickname n.
TablesOf(n) ==
  {i \in Slots : LoggedIn(i) /\ player[i].serv > 0 /\ player[i].name = n}

Full(pl, t) == pl[t].serv >= TableSize

\* Guest p moves to the table of slot t: the count of a table it was at before
\* stays, and p's own table, if any, is no longer one.
Joined(pl, p, t) ==
  [s \in Slots |->
     IF s = p THEN [pl[p] EXCEPT !.join = t, !.serv = IF t = p THEN 1 ELSE 0]
     ELSE IF s = t THEN [pl[s] EXCEPT !.serv = @ + 1]
     ELSE pl[s]]

\* MSG_JOIN_TABLE.  /JOIN is refused by a client that hosts a table or sits at
\* one; MayRejoin admits the ways a client can be at a table in the server's
\* eyes only: it lost its host's socket, or sent a second /JOIN in time.
JoinTable(p, n) ==
  /\ LoggedIn(p)
  /\ player[p].serv = 0
  /\ MayRejoin \/ player[p].join = 0
  /\ \E r \in ReadName(player[p].name) :
       /\ record' = Recall(r)
       /\ \/ r = NoDoc /\ UNCHANGED player
          \/ /\ r # NoDoc
             /\ LET pl == Refreshed(p, r)
                IN  \/ /\ \/ pl[p].money <= MinJoinMoney
                          \/ TablesOf(n) = {}
                       /\ player' = pl
                    \/ /\ pl[p].money > MinJoinMoney
                       /\ \E t \in TablesOf(n) :
                            /\ IsFirst(t, TablesOf(n))
                            /\ player' = IF Full(pl, t) THEN pl
                                         ELSE Joined(pl, p, t)
  /\ UNCHANGED <<users, nextId, sessions>>

\* MSG_CHECK_OPEN: the reply alone depends on the money.
CheckOpen(p) ==
  /\ LoggedIn(p)
  /\ \E r \in ReadName(player[p].name) :
       /\ record' = Recall(r)
       /\ player' = IF r = NoDoc THEN player ELSE Refreshed(p, r)
  /\ UNCHANGED <<users, nextId, sessions>>

\* MSG_OPEN_TABLE: leaves the table p is guest of, empties its own, opens it.
OpenTable(p) ==
  /\ LoggedIn(p)
  /\ \E r \in ReadName(player[p].name) :
       /\ record' = Recall(r)
       /\ LET pl == IF r = NoDoc THEN player ELSE Refreshed(p, r)
          IN  player' = IF r = NoDoc \/ pl[p].money <= MinJoinMoney THEN pl
                        ELSE [Cleared(Unseated(pl, p), p) EXCEPT ![p].serv = 1]
  /\ UNCHANGED <<users, nextId, sessions>>

\* MSG_LEAVE_TABLE_GPS: a host closes its table, a guest leaves its host's.
LeaveTable(p) ==
  /\ LoggedIn(p)
  /\ player' = IF player[p].serv > 0
               THEN [Cleared(player, p) EXCEPT ![p].serv = 0, ![p].join = 0]
               ELSE Unseated(player, p)
  /\ UNCHANGED <<record, users, nextId, sessions>>

\* Mutant of PlayingAs: slots that are not in use count too.
PlayedAs(i) == {s \in Slots : player[s].id = i}

\* Slots of the connections that play, or wait to play, as user i.
PlayingAs(i) == {s \in Slots : LoggedIn(s) /\ player[s].id = i}

\* MSG_WIN_GAME: the host of a table reports the money m user i is left with.
\* The outcome of the read is not looked at.
WinGame(p, i, m) ==
  /\ LoggedIn(p) /\ player[p].serv > 0
  /\ \E r \in ReadId(i) :
       LET w == [Recall(r) EXCEPT !.money = m]
       IN  record' = w /\ Write(w)
  /\ player' = [s \in Slots |-> IF IsFirst(s, PlayingAs(i))
                                THEN [player[s] EXCEPT !.money = m]
                                ELSE player[s]]
  /\ UNCHANGED <<nextId, sessions>>

\* MSG_CHANGE_PASSWORD: here too the outcome of the read is not looked at.
ChangePassword(p, pw) ==
  /\ LoggedIn(p)
  /\ \E r \in ReadName(player[p].name) :
       LET w == [Recall(r) EXCEPT !.pw = pw]
       IN  record' = w /\ Write(w)
  /\ UNCHANGED <<player, nextId, sessions>>

\* MSG_USER_INFO and MSG_FIND_USER of nickname n, and MSG_STATUS of p's own:
\* answers about an account, which also replace the global record (find_user()
\* does not read the account of a player it finds online: no change at all).
LookUp(p, n) ==
  /\ LoggedIn(p)
  /\ \E r \in ReadName(n) : record' = Recall(r)
  /\ UNCHANGED <<player, users, nextId, sessions>>

\* find_user_name(n): the first slot somebody named n, logged in or not.
FoundUser(n) == {v \in Slots : IsFirst(v, {s \in Slots : player[s].name = n})}

\* MSG_KICK_USER.
Kick(p, n) ==
  /\ LoggedIn(p) /\ player[p].name = Admin
  /\ \E v \in FoundUser(n) :
       /\ player'   = Closed(player, v)
       /\ sessions' = SessionClosed(sessions, player, v)
  /\ UNCHANGED <<record, users, nextId>>

\* The process ends, by a crash or by MSG_SHUTDOWN, and is started again: the
\* database is all that is left.
Restart ==
  /\ MayRestart
  /\ player' = [s \in Slots |-> FreeSlot]
  /\ record' = BlankRecord
  /\ UNCHANGED <<users, nextId, sessions>>

---------------------------------------------------------------------------

\* An account per registered nickname, each with the default money.
Init ==
  /\ player   = [s \in Slots |-> FreeSlot]
  /\ record   = BlankRecord
  /\ sessions = [n \in Names |-> NoSession]
  /\ nextId   = Cardinality(Registered)
  /\ \E idOf \in [Registered -> 1 .. nextId], pw \in Passwords :
       /\ \A m, n \in Registered : idOf[m] = idOf[n] => m = n
       /\ users = [i \in Ids |->
                     IF \E n \in Registered : idOf[n] = i
                     THEN [id |-> i, name |-> CHOOSE n \in Registered : idOf[n] = i,
                           pw |-> pw, money |-> DefaultMoney]
                     ELSE NoDoc]

Dialogue(p) ==
  \/ Disconnect(p)
  \/ \E v \in Versions : CheckVersion(p, v)
  \/ \E n \in Names : Login(p, n)
  \/ \E pw \in Passwords : CheckPassword(p, pw) \/ CreateAccount(p, pw)
  \/ KillDuplicate(p)

Command(p) ==
  \/ \E n \in Names : JoinTable(p, n) \/ LookUp(p, n) \/ Kick(p, n)
  \/ CheckOpen(p)
  \/ OpenTable(p)
  \/ LeaveTable(p)
  \/ \E i \in Ids \ {0}, m \in Reported : WinGame(p, i, m)
  \/ \E pw \in Passwords : ChangePassword(p, pw)

Next ==
  \/ Accept
  \/ \E p \in Slots : Dialogue(p) \/ Command(p)
  \/ Restart

Spec == Init /\ [][Next]_vars

---------------------------------------------------------------------------
(* Properties. *)

\* Type correctness of the server's tables and of the database.
TypeOK ==
  /\ player \in [Slots -> Players]
  /\ record \in Records
  /\ users \in [Ids -> Records \cup {NoDoc}]
  /\ nextId \in Nat
  /\ sessions \in [Names -> Moneys \cup {NoSession}]

Guests(t) == {g \in Slots : player[g].join = t}

\* The head-count of an open table is never below its host and the guests
\* linked to it.  MSG_JOIN_TABLE admits on the count alone, so this is what
\* keeps a fifth player out.  Slots are reused while links to them are still
\* around (close_connection() leaves its guests' join alone): only the
\* "clear all client" loop of MSG_OPEN_TABLE keeps the old guests out.
HeadCountCovers ==
  \A t \in Slots : player[t].serv > 0 => player[t].serv >= 1 + Cardinality(Guests(t))

\* The head-count is at most the size of a table: the branch of list_table()
\* that closes a host ("LIST TABLE ERROR!") is never taken.
ServBound == \A t \in Slots : player[t].serv <= TableSize

\* Nobody is at two tables: the host of one is not the guest of another.
HostIsNoGuest == \A s \in Slots : player[s].serv > 0 => player[s].join = 0

\* Only a logged-in player hosts a table or is linked to one: list_table() and
\* who() name nobody else, whatever way a connection ended.
OnlyOnlineSeated ==
  \A s \in Slots : player[s].serv > 0 \/ player[s].join # 0 => LoggedIn(s)

\* The tables are in order whatever connections, reads and restarts did to them:
\* nobody is let into a full table, or listed at two or while offline.
TablesOrderly == HeadCountCovers /\ ServBound /\ HostIsNoGuest /\ OnlyOnlineSeated

\* The head-count shown by list_table() is the number of players at the table.
HeadCountExact ==
  \A t \in Slots : player[t].serv > 0 => player[t].serv = 1 + Cardinality(Guests(t))

\* accept() never runs out of slots: the limit closes the connection in the
\* highest slots before the next one comes.
SlotsSuffice == FreeSlots # {}

OnlineAs(n) == {s \in Slots : LoggedIn(s) /\ player[s].name = n}

\* A nickname is online once: MSG_KILL_DUPLICATE closes the other connection
\* before it admits the new one.
OneOnlinePerName == \A n \in Names : Cardinality(OnlineAs(n)) <= 1

\* Every login and logout is reflected in active_sessions: a nickname has a
\* session exactly while it is online, whichever of two connections closed.
SessionsMatchOnline ==
  \A n \in Names : sessions[n] # NoSession <=> OnlineAs(n) # {}

\* Logins, accounts online and sessions match through duplicate logins, evictions
\* and lost connections in any order.
LoginsMatch == OneOnlinePerName /\ SessionsMatchOnline

\* The money that admits a player to a table is that of the player's account,
\* though it is cached at login and written by the hosts' reports.
CachedMoneyCurrent ==
  \A s \in Slots : LoggedIn(s) => users[player[s].id] # NoDoc
                                  /\ users[player[s].id].money = player[s].money

\* All handlers write through one global record.  Still an account keeps its
\* nickname, its money changes by a host's report on that very user, and its
\* password by a connection logged in under its nickname.
AccountWrites ==
  [][\A i \in Accounts :
       /\ users'[i].name = users[i].name
       /\ users'[i].money # users[i].money =>
            \E p \in Slots, m \in Reported : WinGame(p, i, m)
       /\ users'[i].pw # users[i].pw =>
            \E p \in OnlineAs(users[i].name), pw \in Passwords : ChangePassword(p, pw)]_vars

---------------------------------------------------------------------------
(* The promise about tables.  A link to a slot that hosts no table (its host *)
(* went away, and the slot may belong to somebody else) seats nobody.        *)

OpenTables == {t \in Slots : player[t].serv > 0}
SeatedAt == [g \in Slots |-> IF player[g].join \in OpenTables THEN player[g].join ELSE 0]

Tables == INSTANCE Directory
            WITH Places <- Slots, Nowhere <- 0, open <- OpenTables, at <- SeatedAt

\* The head-counts, links and loops over player[] implement the directory.
ImplementsDirectory == Tables!Spec
=============================================================================
