# QKMJ in TLA+

QKMJ is a networked sixteen-tile Taiwanese mahjong in C. A **lobby server** (the
"GPS" server, `qkmjserver/`) keeps accounts in MongoDB, the players who are
online and the tables they opened. A **client** (`qkmjclient/`) is a terminal
program; the client that opens a table becomes its **host**: it accepts the
other players' connections, deals, decides claims and reports the money to the
lobby. There are no other servers: the rules of a round run on the host.

This directory holds TLA+ models of the lobby, of the way to a table, of the round
engine, of hands, scores and payments, of the message framing and of the player that
plays by itself; the TLC runs that check them; and TLAPS proofs about all of them but
the hand. `PROJECT.json` names the source lines every definition stands for.

## Parts, state, operations, hazards

| part | state it keeps | operations | hard to test |
|---|---|---|---|
| lobby server (`mjgps.c`) | `player[]` (slot, login state, nickname, id, money, head-count `serv`, link `join`), one global `record` | accept, login dialogue, open/join/leave table, win report, password change, look-ups, kick, restart | slots reused while links to them remain; a global record shared by all handlers; duplicate logins; reads that fail |
| session layer (`session_manager.c`) | `active_sessions` in MongoDB | create at welcome, destroy at close | order of destroy and create; crash |
| database (`mongo.c`) | `users`, the id counter | find, replace, count, next id | an operation that fails |
| framing (`protocol.c`) | nothing; one call reads one message | `send_json`, `recv_json` | partial reads, time-outs |
| table host, seats (`socket.c`, `message.c`, `command.c`) | `player[]`, `table[]`, `new_client*`, `player_in_table` | join notify, accept, introductions, leave, kick | two joins at once, a reply that comes after a departure |
| table host, round (`qkmj.c`, `message.c`, `check.c`, `checkscr.c`, `input.c`) | `turn`, `card_owner`, `check_*`, `next_player_*`, `send_card_*`, `wait_hit`, wall and hands | deal, draw, discard, claim, compare claims, win, next round | claims, answers and discards of several players in flight; flags that outlive a round; departures |
| settlement (`checkscr.c`, `message.c`) | at every process: `card_owner`, `in_kang`, `first_round`, flowers, `info`, everybody's money | payments after a win, next dealer, reports to the lobby | each process settles alone, from flags that other handlers set; empty seats |
| hand and scoring rules (`chkmake.c`, `check.c`) | pure | can win, can claim, tai | boundaries of tile numbers; scores that contain each other; several readings of one hand |
| AI client (`ai_client.c`, hooks in `qkmj.c`, `checkscr.c`) | `ai_enabled`, token | ask the model service, retry, refresh the token, act for the player | the service and the person share one turn; calls that fail; decisions that do not fit |

How they interact: a client holds one connection to the lobby. `/OPEN` makes it
a host (MSG_OPEN_TABLE); `/JOIN` asks the lobby for a table, the lobby announces
the player to the host (MSG_JOIN_NOTIFY) and gives the player the host's address,
and the player connects to the host. The host asks the lobby for the start of the
game (MSG_GAME_START_REQ) and sends it the money after a win (MSG_WIN_GAME).
Every program is one thread around `select()`: concurrency is between
processes, and every channel is a TCP connection, first in, first out.

## What correct means, part by part

- **Lobby**: a nickname is online once; sessions follow logins; head-counts are
  never below the people who sit at a table and never above its size; a host is
  nobody's guest; an account is changed only by what is meant for it; there is
  a slot for the next connection.
- **Round**: the host waits for exactly the questions that are open; one player
  moves at a time and none while a discard can be claimed; a claim is not
  kept for a later tile; no tile is lost; every hand has its 16 or 17 tiles; the
  round ends and the next one starts.
- **Seats and joins**: whoever sits at a table sits under its own name and money; the
  host's seats and player count, the guests' numbers and the lobby's head-count agree when
  nothing is under way; whoever the lobby lets in gets in.
- **Framing**: a message arrives once, whole and in order, or the connection is
  closed; none is passed over; the lobby is never held up by one client.
- **Hands**: the host's copy of a guest's hand and the guest's own hold the same
  tiles; none is lost or doubled; what is offered is what the hand allows; a win is
  offered iff the hand splits into groups of three and a pair.
- **Scoring**: scores do not depend on what was claimed, unless they say so; a score is
  not counted beside one that contains it; every reading of the hand is considered.
- **Settlement**: payments sum to zero; all processes come to the same money,
  dealer and wind; the dealer's stake is paid once; the lobby's accounts follow.
- **AI client**: a question is answered once, by the person or the service; one
  move for each turn; calls end; the game goes on when the service fails.

## Modules

| module | what it is |
|---|---|
| `Lobby` | the lobby server: one action per handler of `gps_processing()`, plus connections, lost connections, restarts |
| `Directory` | what the lobby promises about tables: the abstract specification |
| `MCLobby` | symmetry of nicknames, for TLC |
| `LobbyProofs` | type correctness, the order of the tables, enough slots, exact head-counts, for every instance; logins, sessions, cached money and the writers of accounts, where the database answers |
| `LobbyRefinement` | every behaviour of `Lobby` is one of `Directory` |
| `Round` | the host's main loop, its message handlers, and the guests' |
| `MCRound` | sets of tiles and claims, for TLC |
| `RoundProofs` | questions, claims, turn, hands and tiles of a round, for every set of seats and tiles |
| `Winning` | `check_make()`: the search for groups, and the reference it is compared with |
| `Hand` | a guest's hand at the host and at the guest: draw, throw, claims |
| `MCHand` | sets of tiles, for TLC |
| `Table` | one table between lobby, host and joiners: announcements, connections, seats, departures |
| `TableProofs` | host, lobby and guests count the same players; names, money and seats, for every number of players |
| `Tai`, `MCTai` | `check_tai()` and `full_check()` over the readings of a won hand; families of hands for TLC |
| `TaiProofs` | no score beside one that contains it |
| `Settlement`, `MCSettlement` | what every process remembers for a win, the payments, the next dealer, the reports |
| `SettlementProofs` | the books: well-formed, summing up, equal, and followed by the accounts, kongs counted once, for every instance |
| `Framing` | `send_json()` and `recv_json()` over one direction of a connection |
| `FramingProofs` | once, in order, none passed over, for every length and size |
| `AiClient`, `MCAiClient` | the main loop of a player with the playing service, beside the keyboard |
| `AiClientProofs` | one answer, one move, only what was offered, whatever the service does |

How they fit: `Lobby` implements `Directory`; `Table` keeps of the lobby what `Lobby` has
for one table and adds the host and the connections; `Round` is the game at a table whose
seats are taken; `Hand` and `Settlement` take `Round`'s order of messages for granted and
look at what the processes hold; `Hand` and `Tai` extend `Winning`; `AiClient` is one
player of `Round` with its real keyboard, and `Framing` the connection that all others take
for a first-in-first-out queue.

### Lobby

`player` is the array `player[]`, `record` the global that all handlers read
and write accounts through, `users`, `nextId` and `sessions` the collections.
The server handles one message to its end before it looks at the next, so an
action is a whole handler. What a client may send is limited as the client
program limits it: the field `prompt` of a slot is the answer the client's login
dialogue owes, other commands come after MSG_WELCOME, and a client that hosts
a table sends no /JOIN. Data is cut to what control depends on: addresses,
notes and times are left out; money ranges over a few amounts; a password is
right or it is not.

Choices worth knowing: writes to the database succeed (the server does not look
at their result) while reads may find nothing (`DbMayFail`); a login with an
invalid name, and an account for which no id can be made, end the connection and
are the same as a lost connection; MSG_WIN_GAME comes from hosts; listings,
statistics and chat change nothing and are not there.

### Round

`host` holds the globals of the host's process under their C names (`turn`,
`owner` for `card_owner`, `wall` for 128 - `card_point`, `inCheck`, `checkFor`,
`nextReq`/`nextOn` for `next_player_request`/`_on`, `sendReq`/`sendOn` for
`send_card_request`/`_on`, `getting` for `getting_card`, `waiting`, `waitHit`).
`seat[s]` is what the process of the player at `s` knows: `play_mode`, whether it
is in CHECK_MODE, what it was offered, whether it holds a 17th tile. `toGuest`
and `toHost` are the connections. `pile` is not in the code: it counts the tiles
that went from hands to the table, for `TilesConserved`.

`loop` is the main loop. An iteration takes the keys typed at the host, then at
most one message per guest in the order of their numbers, then the four stages
in their order: the deal after everybody has seen a win, `compare_check()`,
`next_player()` or the sea bottom, `send_one_card()`. A stage is an action; the
loop goes straight to the next stage whose condition holds, since nothing but
stages changes the host between them. An iteration without work changes nothing
and is not modelled.

Tiles are abstract: a drawn tile is the set of things it is good for (`kang`: a
concealed kong, `added`: a fourth tile for a pong, `make`: a win, or it is a
flower), and a discard is an assignment of claims to seats, limited as the rules
of the deck and `check_eat()` limit it. What hands contain is `Hand`'s part. Messages that only draw on the screen are left out; MSG_NEW_ROUND stands
for MSG_INIT_SCREEN too, both being `opening()` on the guest. The host's
blocking `wait_a_key()` after a win is part of the action. Seats are 1..4 with the
host at seat 1; tables of fewer than four exist (`/NUM`).

Bounds: `Wall` (tiles drawn before the sea bottom), `Flowers`, `MaxMelds`, and

- `PlayOn`: without it the host stops after the deal that follows a sea bottom;
- `Hasty`: players discard before the verdict on their own call;
- `GuestDealt`: what the 17th tile of a guest that is dealer may offer;
- `DealtFlower`, `HostFlower`: flowers where the code mishandles them.

The last four exist because of the behaviours listed under *Where the code
disagrees*: the passing runs keep those out, and only those.

### Hand

The host decides every claim and every win of a guest from its own copy of that
guest's hand, `pool["host"]`; the guest plays from `pool["guest"]`. Only tile
numbers travel, and each side edits its array in place: claimed tiles are
overwritten by the last ones of the hand, then part of the array is sorted. The
guest does it in `process_epk()` and `action_throw_card()`, the host in its
cases for MSG_SHOW_EPK and MSG_THROW_CARD, with different indices and different
sorted parts; the model keeps both, place by place, and asks whether the
copies can part. `current` and `flag` are the tile the host last asked about and
what it found it good for; `gone` and `left`, the tiles on the table and
those not seen, are there for `TilesKept`.

Host and guest take each step together, since `Round` has the order of messages.
The guest is not the dealer: its hand starts with 16 tiles. Flowers have been
replaced; the model has the tiles with a rank. `Claim` covers the four claims with the
three ways to eat and the three kinds of kong; which one of its rows a guest
eats is its choice, which kind a kong is the host's. A claim that loses against
somebody else's is a `Pass`.

`Winning` holds the pure part. `Combinations` is the tree of `build_tree()` read
by `pretrav()`: a recursive function on bags of tiles, with the order of the
combinations, because `check_make()` looks at the first one only. `Splits` says
what it should decide, with arithmetic and no search.

Bounds: `Tile` and `Copies` (the deck), `HandSize` (16 in the code), `MaxTurns`
(draws and discards a behaviour sees).

### Table

`host` holds `player[]` (connection, seat, name and money of an entry), `table[]`,
`player_in_table` and `new_client` with the slot for the announced name and money;
`client[j]` is the program of a player who may come. Five kinds of channel: guest to lobby
(`leaving`), host to lobby and back, guest to host and back for each connection, and the
listen backlog. A player's own identity stands for its name, its money and its id, so
that `OwnNameAndMoney` can say whose they are. `lost` counts connections that broke.

The model starts with MSG_OPEN_OK, has one table, and the host opens no other one.
`PlayerNum` does not change. A joiner waits for its /JOIN to be answered before
it types another. The order in which the loop goes through `player[]` is left open.
`Overlap` says whether somebody may come while the host has still to accept
another or to hear of a departure (`Departing`: something to read on a connection that it still
has or will accept): see *Where the code disagrees*.
`Emptied` is the loop of `close_serv()` as a whole; what each player is sent on the way depends
on the order of the entries, and `CloseTable` has that order.

### Settlement

`knows[p]` is what the process of player `p` reads in `process_make()`: `card_owner`,
`in_kang`, `first_round`, the flower of the door, `info`, everybody's money. A move
changes it at every process, each as its own handler does: `AfterThrow`, for one, has
`action_throw_card()` at the thrower, MSG_THROW_CARD at the host, MSG_CARD_THROWN at the
others. The settlement itself happens at each process in its own time (`Settle(p)`), the
reports travel to the lobby, and the next deal waits for all. Money of an empty
seat is a share of `player[0].money`: payments are charged to it like any other.

What the tiles count is a number (`TileScores`), because it is `Tai`'s part. `replaced`
is not in the code: what the last tile was drawn in place of, for `KongCounted`. `Doors`
(whose flower of the door is in the deck) and `AddedWins` (may the hand that
just added a kong to a pong win, or a new one be dealt) exist because of the
disagreements below. Base and tai value are those of the host at every process,
though each reads them from its own `.qkmjrc` (`qkmj.c:1100`).

### Tai

A state is a won hand with its melds; a step claims one more of its groups, as
`process_epk()` would show it, so that the same tiles are scored with every set
of claimed groups. `Scores(c)` is the set of scores of one reading: the situation,
then the groups or tiles, then what the larger ones take back, which is what the
assignments of 0 in `check_tai32` to `check_tai47` come to. Some functions read
oddly and are modelled so: `check_tai36` asks `out_card[i][1] / 10 < 30`, which is
always true; `check_tai25` skips suits all of whose groups are melded; `check_tai24` asks
`turn == card_owner`, so that 平胡 is never scored (`chkmake.c:755`), and the part of it
that changes `pool_buf[]` is not reached. A suit has at most seven readings, so
`card_comb[20]` is large enough.

### Framing

One direction of one connection; a message is cut into pieces, and a piece stands
for bytes. `link` tells between players, towards the lobby, from the lobby: the
lobby's sockets do not wait (`FNDELAY`, `mjgps.c:796`), the others do. `recv_json()` looks
at up to `Peek` pieces, reads to the terminator, and gives up when there is no more, where
the socket does not wait. The sender may die in the middle of a message, the receiver may
stop at a prompt (`wait_a_key()`).

What the run shows is what the code gives, and not more: `send_json()`'s
result is looked at by nobody; a message of the lobby's that is cut short stays on an open
connection, glued to the next one, which is lost with it since `cJSON_Parse()` ignores what
follows a text; a player whose peer sends part of a message waits for the rest for ever.

### AiClient

One process, at a guest or at the host (`atHost`), with its main loop as stops
(`at`): keys, the three hooks, messages, verdict. `input` and `talking` are `input_mode`
(in TALK_MODE, `current_mode`), `offer` is `check_flag[my_sit]`; `call` is the call of
`ai_get_decision()` under way, with its failed attempts and whether the token was refused
in this one. A call blocks the loop while messages pile up. `table` is what the host keeps
about this player: whose move it is, `in_check[]`, `check_for[]`, `check_on`. `Decisions`
are the sorts of replies: an action, a pass, a tile the hand holds or does not, a row that
does not fit, and nothing.

Worth knowing: a failed call passes the claim, though "Switching to Manual Mode" is
shown (`ai_client.c:796`, `checkscr.c:73`); the hook for own draws does not look at
`check_flag[]` (`qkmj.c:836`); a guest's service is asked about its own draw
before the tile has come, with the previous discard as `current_card`; the service
does not play while the person is in the chat line. The question at the deal
(`qkmj.c:621`) is left out: there `in_check[]` is set before the service is asked.
`Careless` (the service eats with tiles the hand lacks) and `Hasty` are bounds, see below.

## Runs

Twelve runs: ten that hold, two that exhibit a disagreement.

| run | what it shows |
|---|---|
| `lobby_accounts` | two accounts, three connections, one pending duplicate login, bans: logins and sessions match, cached money, who changes accounts, exact head-counts, a free slot |
| `lobby_faults` | failing reads, old clients, the exempt host, kicks, re-joins and restarts, tables of two: the tables stay in order, and the lobby implements `Directory` |
| `round_three` | host and two guests, two draws before the sea bottom, all claims and kongs: questions, turn, claims, hands and tiles agree |
| `round_live` | host and two guests: every round ends; after a win everybody comes back |
| `hand_play` | all hands of seven from the end of one suit and three winds, two turns: the copies agree, tiles are kept, offers and wins are those of the hand |
| `table_join` | two joiners, three connections of which one may break, a table of three: own names, held seats, equal counts, and nobody who was let in stays outside |
| `scores` | won hands of five families with every set of claimed groups: scores are exact, not counted twice, and of every reading |
| `match` | two deals at a table of three: the books sum up and agree, the stake is paid once, a kong counts once, the accounts follow |
| `framing` | five messages of up to three pieces, a look of four, buffers of five: once, whole, in order, none passed over; senders come back, messages arrive |
| `ai_client` | a guest's and the host's process, three attempts, a token that expires: one answer, one move, only what was offered, and the game goes on |
| `hand_missed` | see below |
| `ai_host` | see below |

Why the bounds are enough. Lobby: two connections of one name and one more are
what a duplicate login needs, three players and tables of two make a full
table, a player left over, and a reused slot. Round: with two draws and one meld
each, every player can draw, be asked, claim before and after another, call a
kong and draw again, and a new deal can follow a round of any kind; two guests are
needed for answers that cross. In `round_three` host flowers and dealt flowers are off
(see below), in `round_live` on. Hand: seven tiles hold the two melds
that a second claim needs after a first has moved and re-sorted the array, and
tiles before, between and behind the melded ones; 7, 8, 9 are the tiles where a row
ends at the border of a suit, and the winds are those that must make none; two turns
contain a claim or a draw, a throw, and a claim or a draw on the changed array (a
kong added to a pong needs both). Suits are judged one by one, so one suit and one
sort of honours are all the sorts of suits there are. Table: three connections
let two players come, one go and come back, and an entry, a seat and a number be used
again; one that breaks does so before or after it is accepted, and beside one that is left;
five entries of `player[]` are as many as connections need. Scores: every family
is built around the scores that contain each other, in hands of the full seventeen tiles;
situations are independent of the tiles, so one each is combined with a family.
Match: an empty seat between taken ones, two deals for what outlives the first, and
accounts that all start at zero, so that money goes below it and above. Framing: a look is longer than the longest
message, and shorter than two; the buffer takes a message and a part of the next; so a
message can be cut at every place, glued to its neighbours, and found in one, two
or three looks. AiClient: three attempts as in the code; at most one question and one turn
are open at a time, which `Quiet` has from `Round`.

Deadlock is checked in the lobby's runs. The passing runs of the round stop after the
deal that follows a sea bottom, which is the bound `PlayOn`, so they do not check
it; that nothing else stops is what `RoundsEnd` and `WinsAreSeen` check. A hand
stops at a win and after `MaxTurns`, a match after its deals, the scores when all is
claimed, a stream when all is sent, a table when it is closed: no deadlock check there.
`ai_client` checks it.

### Fairness

The lobby has none: it only reacts, and no liveness is claimed for it. In the round
`Fairness` asks for: the host's loop and stages go on (a thread that runs); each
guest is heard again and again when it has something to say (`select()` reports
every readable socket and the loop goes through all of them: strong, because a
guest cannot be heard while stages run); messages are taken by the guest's loop (TCP
delivers, the guest's thread runs); and players answer, draw and discard, the
host's player between the host's messages (strong for the same reason). That
players act is an assumption about people; the code has no time limit for them.

`Table` asks that programs react to what they are sent (the host accepts and reads, the
lobby reads, a joiner connects), and of nobody that it comes, goes or is kicked. `Framing`
asks that `send_json()` and `recv_json()` go on when they can, and that a loop comes back to a
socket that has something to read, but not that a process that waits for a key gets one. `AiClient`
asks that the loop goes on (`select()` has a time-out of a second), that a request ends
(`CURLOPT_TIMEOUT`, 60 seconds), that the other end of a guest's connection reads and decides, and
that the person answers, plays and leaves the chat line if asked again and again: strong, as a
key that is typed during a call is read only in the next iteration.

### Where the code disagrees

- `hand_missed`: `check_make()` judges a suit by the first combination its search
  lists (`chkmake.c:374`). Rows come before pairs in the search, so a hand of
  one suit may list one with four pairs first: 11 2222 3333 4 555 666 is a pair and
  five groups, and no win is offered. `WinIffSplits` holds in `hand_play`,
  and in the model of this run with `HandSize = 10`.
- `ai_host`: the host puts a question to itself and marks itself as asked afterwards
  (`message.c:410`, `input.c:187`). With the AI on, the question is answered by then, the mark is
  never cleared, and the table stops.

Not given a run, found in the same models by changing a constant or two. Each was run once; the
passing runs keep the case out, and nothing else:

| change | what fails | the code |
|---|---|---|
| `lobby_accounts` with `DbMayFail = TRUE` | `AccountWrites` | MSG_WIN_GAME and MSG_CHANGE_PASSWORD write the global record although the read found nothing: another user's money or password changes (`mjgps.c:1099`, `910`) |
| `lobby_accounts` with `MayRejoin = TRUE` | `HeadCountExact` | a re-join leaves a phantom head at the first table (`mjgps.c:1019`) |
| `lobby_accounts` with `MaxPending = 2` | `LoginsMatch` | two of three connections of one user can stay (`mjgps.c:919`) |
| `round_three` with `GuestDealt <- WinDealt` | `AskedIffAwaited` | `open_deal()` tests `in_serv` instead of the dealer's seat: a remote dealer whose 17th tile gives a kong or a win is waited for and never asked (`qkmj.c:627`); docs/AI_PLAYER.md:24 says that it "Must discard one or declare Win (Tsumo) / Kang" |
| `round_three` with `PlayOn = TRUE` | `OneTurn` | `next_player_request` survives a drawn round: the next one opens with two players who may move (`qkmj.c:978`) |
| `round_three` with `HostFlower = TRUE` | `TilesConserved` | a flower drawn by the host costs the wall a second tile that nobody gets (`check.c:174`); docs/COMMANDS.md:106 has 補花, a replacement |
| `round_three` with `DealtFlower = TRUE` | `TilesConserved` | a flower dealt to a remote dealer is replaced twice (`qkmj.c:560`) |
| `round_three` with `Hasty = TRUE` | `OneMover` | a discard between an own call and its verdict (`input.c:367`) |
| `table_join` with `Overlap = TRUE` | `OwnNameAndMoney`, `SeatsSound`, `JoinersGetIn` | one slot for the announced name and money (`message.c:210`), and one `new_client` (set at `message.c:229`, cleared at `socket.c:184`): of two joins announced before the first connects, one sits under the other's account, or is not accepted; a player above the fourth keeps a stale seat number and frees it (`socket.c:123`, `241`) |
| `table_join` with `PlayerNum = 2` | `SeatsSound` | the lobby lets in four whatever /NUM says (`command.c:261`): who comes above the number gets no seat, nor one when a seated player leaves (`socket.c:123`) |
| `match` with `Doors = {3}` | `BooksAgree` | a flower is announced with `sit` and `card` (`check.c:131`) and read as `card` and `pos` (`message.c:456`, `869`): only its owner has it in the book; docs/COMMANDS.md:106, docs/PROTOCOL_MAPPING.md:96 |
| `match` with `AddedWins = TRUE` | `BooksAgree` | of a kong added to a pong the players who look on do not hear as a kong (`message.c:888`; the host does, `message.c:523`): their `in_kang` is not set |
| `ai_client` with `Hasty = TRUE` | `AnsweredOnce`, `MoveInOnePlace`, `AnswersSound` | the discard hook does not wait for the verdict on an own win or kong (`qkmj.c:852`) |
| `ai_client` with `Careless = TRUE` | `AnswersSound` | a row the service names is not compared with the hand (`checkscr.c:47`) |

Further, seen while modelling: `StartsFull` of `Table` does not hold, since a player may leave
between the request for the start and the lobby's answer, and nobody looks again
(`message.c:232`); two connections that create one nickname at once, or a read that fails at
MSG_LOGIN, make two accounts of one name; a restart leaves sessions behind; `in_kang` outlives a
round that ends with a kong, or /NEW, into the next deal; after a restart of the game the host begins
with dealer and wind anew (`screen.c:336`), guests that are still in the playing screen
do not (`message.c:718`).

## Proofs

TLAPS checks eight modules, for every value of the constants: any number of slots, accounts,
players, connections, messages, any money and stakes. Each rests on the named assumption of the
module it is about (`LobbyAssumption`, `TableAssumption`, ...), which says what the constants
are. Where a theorem has a hypothesis beyond that, it keeps out a case in which the code does
otherwise; the table above has the case, and the run of the same module makes the same choice.

| theorem | property | hypothesis |
|---|---|---|
| `LobbyProofs.TypeCorrect` | `TypeOK` | |
| `LobbyProofs.TablesAreOrderly` | `TablesOrderly` | |
| `LobbyProofs.SlotsAlwaysSuffice` | `SlotsSuffice` | `LoginLimit < MaxPlayer - 1`, `~MayExempt`; neither is checked by the code |
| `LobbyRefinement.LobbyImplementsDirectory` | `ImplementsDirectory` | |
| `LobbyProofs.HeadCountIsExact` | `HeadCountExact` | `~MayRejoin` |
| `LobbyProofs.LoginsAgree`, `CachedMoneyIsCurrent`, `AccountsAreWrittenByOwners` | `LoginsMatch`, `CachedMoneyCurrent`, `AccountWrites` | `Settled`, `MaxPending <= 1` |
| `RoundProofs.HandsSoundHolds`, `AskedIffAwaitedHolds`, `OneMoverHolds`, `OneTurnHolds`, `TurnNotLostHolds`, `ClaimsInTimeHolds` | `HandsSound`, `AskedIffAwaited`, `OneMover`, `OneTurn`, `TurnNotLost`, `ClaimsInTime` | `Plain` |
| `RoundProofs.TilesConservedHolds` | `TilesConserved` | `Plain`, `~DealtFlower`, `~HostFlower` |
| `TableProofs.TableCountsAgree` | `CountsAgree` | |
| `TableProofs.NewcomersAreThemselves` | `OwnNameAndMoney` | `~Overlap` |
| `TableProofs.SeatsAreSound` | `SeatsSound` | `~Overlap`, `TableSize <= PlayerNum` |
| `FramingProofs.StreamIsSound`, `NothingIsSkipped` | `StreamSound`, `NothingSkipped` | |
| `AiClientProofs.QuestionInOnePlace`, `MoveIsInOnePlace` | `AnsweredOnce`, `MoveInOnePlace` | `~Hasty` |
| `AiClientProofs.AnswersAreSound` | `AnswersSound` | `~Hasty`, `~Careless` |
| `SettlementProofs.TypeCorrect`, `NothingIsCreated`, `StakeIsPaidOnce`, `AccountsFollow` | `TypeOK`, `BooksSound`, `DealerStake`, `AccountsMatch` | |
| `SettlementProofs.BooksAlwaysAgree` | `BooksAgree` | `Doors = {}`, `~AddedWins` |
| `SettlementProofs.KongsCountOnce` | `KongCounted` | `~AddedWins` |
| `TaiProofs.NothingIsTwice` | `NothingTwice` | |

`Settled` is the circumstances of `lobby_accounts`: every nickname has its account, the
database answers, the lobby is not restarted (a restart keeps the sessions of who was online).
`Plain` is `~Hasty`, `~PlayOn` and `GuestDealt = {{}}`: the cases of the table above in which
these properties fail. Flowers drawn by the host or dealt to a guest are allowed, but for `TilesConserved`,
which they break.

### The arguments

**Lobby.** The invariant is `Inv == TypeOK /\ Orderly(player)`. `HeadCountCovers` is not
inductive alone: a host that goes away closes its table by clearing the links to it,
and a player whose link is stale may turn up in a slot that becomes a host
again; so `Orderly` says of every array at once that a head-count covers the host
and all guests, is at most the table's size, that a host has no link, and that
only logged-in slots have head-counts or links. Handlers build their array from a
few helpers (`Closed`, `Unseated`, `Cleared`, the welcome), so each helper is shown to
keep an *arbitrary* array orderly, and each handler to apply helpers. The
refinement needs the same invariant: the guard of a join counts guests by the
head-count, the abstract one by the links. `HeadCountIsExact` has the same shape, with
`Exact` for `Orderly`.

**Accounts.** `LoginsMatch` is not inductive: whether a login finds somebody to evict depends on
the slots, whether a session is left on the collection. `LoginInv` says that slots
online differ in nickname and id (`Distinct`), that sessions and slots online are
matched one to one (`Matched`), that a slot online has its account's money (`Solvent`), and that the
accounts are those of the nicknames (`Population`). The handlers write through one global
`record`, so the proof that an account is written by its owner is that every handler that writes
has filled `record` itself; it is the step where `~DbMayFail` is needed.

**Round.** None of the properties is inductive: each looks at the host's flags and at one kind of
message, while the next step depends on what else is under way. `Placed` says of every guest what
both its connections may hold, word by word, next to the host's flags: it is `Idle`; `Asked`
about a discard; `Served` with the tile it drew (and a question about it, or a flower and
the reply to it); a `Mover`, who draws or discards or has news of it on the way; `Deciding` on its own tile,
`Decided` with the answer not yet judged, or `Told` of a win. `HostPlaced` is the same for the
player at the host, which needs no messages. `PhasesApart` says which flags of the loop exclude each other,
`Checks` what `check_for[]` and `in_check[]` hold in a check on a discard and in one on a drawn tile,
`InLoop` which stage may be next, `CallsFit` and `MeldsFit` that what was called can still be
laid open. Each handler is a lemma: taking the first word of a queue, or adding a word to its end,
leads from a place to a place, whatever the other guests do; a stage moves the players it
concerns and leaves the rest where they are. That `NextTurn` ends at a taken seat and that
`compare_check()` picks somebody who called are lemmas on the seats 1 to 4. Each
property then follows from the places (`InvTells`), since a queue in a known place has known words.
`TilesConserved` is the sum of four weights, a seat's 17th tile and the tiles in its queue. A queue in a
known place has at most four messages, so its tiles are a sum of four numbers (`Counted`) that adds up when
messages are added (`JoinLoad`) and loses the first when it is taken (`TailLoad`). The places say that the hand a tile comes to
has room for it and the hand a meld is taken from has its 17th tile (`Fits`). So every handler but a deal
moves a tile between wall, queue, hand and table and keeps the total (`Balanced`), and a deal sets it to `Wall + 1`
(`DealsWeigh`).

**Table.** `CountsAgree` compares programs that talk over five kinds of channel, when all of
them are empty. So the invariant has to say what each channel holds when they are not. `Links`: who is at
the table or in the backlog, each connection once. `Lines`: what a connection carries, by which
of its ends has let go of it; a guest that the host no longer has will read that it was sent away.
`Informed`: the last count under way to a guest is the host's (`Heeds`), and so for its seat (`Sits`). `Heads`: the
lobby's count lies between the players linked to the table and those present (called, connected, or whose leave is under
way) or lost; `Bounded` bounds the lost ones by broken connections, so that the entries of
`player[]` suffice. Under `~Overlap`, `Expected` follows the one who comes through its two
messages (`Heralded`), its connection and the backlog (`Comes`) until `new_client` is cleared.
`SeatsAreSound` needs `Room`, that the lobby's count never falls behind the host's (from `Heads`), and
`SeatsHeld`, that `table[]` and `player[]` name each other; a newcomer then finds a free seat because taken
seats are different players.

**Framing.** The invariant looks at `buf \o stream`, what has been read of the current message and
what is still to be read, as one line of pieces: each follows the one before it in its message or begins
a later one (`InOrder`), the line fits what is still to be written (`Joint`), and every
message sent was received, is on the line, was given up with the connection, or came right after one that was
cut short (`Accounted`). `recv_json()` reads to the first terminator; that there is a first one is the only
induction, done by a least element.

**AI client.** Counting questions and moves is not inductive either: a guest reads one message in an
iteration and acts on old news meanwhile. The invariant says what may be under way together and in
which order (`InOrder`, `Drawn`, `Melded`, `Rounds`, `Thrown`): a question about a drawn tile comes before the tile,
a new round after whatever the old one left unread.

**Settlement.** The host's seat is taken, stakes
and scores are natural numbers, money is any integer. That `next_turn()` ends, at a seat that is taken, is a
lemma of its own (`NextTurnType`): the four seats are tried in turn. The four changes of a payment sum
to zero (`ChangeSum`), empty seats included; only `Settle` changes money. `BooksAgree` is not inductive: what is equal now
must have been computed from equal flags. `SameBooks` says that players of whom both or
neither has settled know the same of *everything*, but for `in_kang` right after an added kong
(`Forget`); `BooksAhead` that who has settled knows what the others will know when they have.
For the accounts, `Arriving` says of messages under way
that the last one that names a player carries the host's money of that player, or none names
it and the account has it; a report behind another one wins (`LastOfTwo`). `KongInv` relates
`in_kang` at every process to what the last tile was drawn in place of.

**Scores.** `Scores(c)` is built by taking back, so each pair of `Included` has a line of `TakesBack`
or is exclusive by what the scores say of the hand.

### Only model-checked

The hand: its sorted arrays are `SortSeq` of the
standard modules, and `Winning` a recursion on bags. `ReadingsSound` and `ScoresExact` of `Tai`, for the same recursion. Liveness under
fairness and ENABLED are out of the prover's reach, and so is induction over data by the library's
theorems, which take an operator as a parameter; where a proof needs induction on a number it
takes the least counterexample instead.

## Plan

In this order; what is done is marked.

1. **Lobby**, `Directory`, proofs and refinement. *Done.*
2. **Round**: engine and messages. *Done*, without departures.
3. `RoundProofs`: where every player is, and from it hands, questions, turn, claims and tiles for
   every set of seats. *Done.*
4. `Turns`, an abstract game (draw, discard, claim, next) with one mover, and
   `Round` implements it: host and connections read off as the abstract turn. *To come.*
5. `Table`: the join handshake, departures, kicks, the end of the table, and proofs. *Done*; to come:
   departures and /NEW composed with `Round`.
6. `Framing` and its proofs. *Done.*
7. `Winning`, `Hand`, `Tai`, `Settlement` and the proofs about the last two. *Done*; to come: that `MeldPong`,
   `MeldKong` and `MeldEat` keep the bag of tiles for every size of hand (proved).
8. `AiClient`: hooks, retries, token, keyboard, and proofs. *Done.*

## Not modelled

Screens, logs and `mjrec` (output only), the AI service and its answers, the web
page, deployment and tests. Of the modelled parts: chat and listings, what one player's
screen shows of another's hand, the host's own hand and a dealer's 17 tiles in
`Hand`; players who leave or come in the middle of a round, and messages of the old round that are
under way when /NEW deals again; /NEW while a win is being settled; a second table
opened by the same host, and /NUM typed while players come; the descriptor of a player
who was kicked and is still in the loop's set (`qkmj.c:935`); the end of a player's process by SIGPIPE beyond
the connection on which it was raised (`qkmj.c:1143`); registration of a session with the
service but for its result. The hazards without a property, or with one that does not reach
all of it, are listed with the reason in `PROJECT.json`.
