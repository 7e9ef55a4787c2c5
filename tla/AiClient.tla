------------------------------ MODULE AiClient ------------------------------
(***************************************************************************)
(* A player's process that plays by itself: the hooks of the main loop in  *)
(* qkmjclient/qkmj.c, the question of init_check_mode() and the calls of   *)
(* ai_client.c to a service that decides, beside a person at the keyboard  *)
(* who may answer first, chat, or switch the service on and off.  The      *)
(* process is a guest's or the table host's own; in both, what the host    *)
(* keeps about this one player is the record table.  The other players,    *)
(* the tiles and a round's deal are in Round.                              *)
(*                                                                         *)
(* A call blocks the loop: until it has ended nothing else happens in the  *)
(* process, though messages pile up.                                       *)
(***************************************************************************)
EXTENDS Naturals, Sequences, FiniteSets

CONSTANTS
  Places,    \* BOOLEAN values: may the process be the host's, or a guest's?
  Attempts,  \* max_retries: 3 in the code
  Engine,    \* BOOLEAN: is_reasoning_engine, a service that wants a token
  Claims,    \* what another's discard can be good for
  OwnClaims, \* what the player's own draw can be good for
  Careless,  \* BOOLEAN: does the service eat with tiles the hand lacks?
  Hasty      \* BOOLEAN: are tiles thrown before the verdict on an own call?

ASSUME AiAssumption ==
  /\ Places \subseteq BOOLEAN /\ Places # {}
  /\ Attempts \in Nat \ {0}
  /\ Claims \subseteq SUBSET {"eat", "pong", "kang", "make"} /\ {} \notin Claims
  /\ OwnClaims \subseteq SUBSET {"kang", "make"}
  /\ {Engine, Careless, Hasty} \subseteq BOOLEAN

Calls    == {"eat", "pong", "kang", "make"}
OwnCalls == {"kang", "make"}
Answers == Calls \cup {"pass", "unheld"}

\* What ai_parse_decision() makes of a reply: nothing, a tile to throw that is
\* in the hand or is not, a row that the tile does not fit, or one of tiles the
\* hand lacks.  An action it does not know counts as a pass.
Decisions == Calls \cup {"none", "pass", "discard", "stray", "misfit"}
               \cup IF Careless THEN {"unheld"} ELSE {}

VARIABLES
  atHost,  \* is the process the table host's?
  at,      \* where the main loop is
  input,   \* what the keys are for: input_mode, or talking_mode in TALK_MODE
  talking, \* input_mode is TALK_MODE
  play,    \* play_mode
  offer,   \* check_flag[my_sit] while a question is open, nothing otherwise
  ai,      \* ai_enabled
  token,   \* ai_auth_token
  call,    \* the call in progress
  inbox,   \* messages under way to a guest
  outbox,  \* messages under way from a guest
  table    \* what the host keeps about this player

loopVars == <<at, input, talking>>
vars == <<atHost, loopVars, play, offer, ai, token, call, inbox, outbox, table>>

Stops == {"keys", "draw", "check", "discard", "messages", "verdict"}

Idle == [why |-> "none", failed |-> 0, refused |-> FALSE, left |-> 0]

\* Whether it is the player's move, in_check[], check_on, check_for[], and what
\* the last question offered.
Tables == [stage : {"others", "ours", "holding"}, inCheck : BOOLEAN, checkOn : BOOLEAN,
           said : Answers, offer : SUBSET Calls]

Inbound  == [type : {"CHECK_CARD"}, what : SUBSET Calls]
              \cup [type : {"CAN_GET", "GET_CARD", "MAKE", "NEW_ROUND"}, what : {{}}]
              \cup [type : {"EPK"}, what : {{"eat"}, {"pong"}, {"kang"}, {"unheld"}}]
Outbound == [type : {"CHECK_RESULT"}, what : Answers]
              \cup [type : {"REQUEST_CARD", "THROW_CARD"}, what : {"pass"}]

Msg(type, what) == [type |-> type, what |-> what]

\* The loop is at this stop and not held up by a call.
Reached(stop) == at = stop /\ call = Idle
Goes(stop) == at' = stop

-----------------------------------------------------------------------------
(* What the player does, by hand or through the service.                    *)

\* write_check(): a guest tells the host, the host notes it.
Answer(c) ==
  IF atHost
  THEN table' = [table EXCEPT !.inCheck = FALSE, !.said = c] /\ UNCHANGED outbox
  ELSE outbox' = Append(outbox, Msg("CHECK_RESULT", c)) /\ UNCHANGED table

\* The person or the service is told of the verdict on a call only by messages;
\* nothing in the process makes it wait.
Undecided ==
  \/ table.said # "pass"
  \/ \E i \in DOMAIN outbox : outbox[i].type = "CHECK_RESULT" /\ outbox[i].what # "pass"
  \/ \E i \in DOMAIN inbox : inbox[i].type \in {"EPK", "MAKE"}

\* action_throw_card().  At the host the other players are asked about the tile;
\* the thrower is not.
Throw ==
  /\ Undecided => Hasty
  /\ play' = "wait"
  /\ IF atHost
     THEN table' = [table EXCEPT !.stage = "others", !.inCheck = FALSE, !.checkOn = TRUE]
          /\ UNCHANGED outbox
     ELSE outbox' = Append(outbox, Msg("THROW_CARD", "pass")) /\ UNCHANGED table

\* Mutant: the question stays open when it has been answered.
ClosedNot == UNCHANGED <<input, talking, offer>>

\* The question is answered: input_mode is PLAY_MODE, even from a chat.
Closed == input' = "play" /\ talking' = FALSE /\ offer' = {}

\* init_check_mode() without the service, or before it has answered.
Prompted == input' = "check" /\ UNCHANGED talking

Begins(why, left) == call' = [Idle EXCEPT !.why = why, !.left = left]

\* init_check_mode(): the question is put and, with the service on, decided at
\* once.  The host asks as often as there are calls to choose from when it has
\* drawn the tile itself, and marks itself as asked when the last has ended.
Ask(o, left) ==
  /\ offer' = o
  /\ Prompted
  /\ IF ai THEN Begins("claim", left) ELSE UNCHANGED call

\* action_draw_card().
HostDraw ==
  /\ play' = "throw" /\ UNCHANGED outbox
  /\ \E o \in OwnClaims \cup {{}} :
       /\ table' = [table EXCEPT !.stage = "holding", !.inCheck = o # {} /\ ~ai,
                                 !.checkOn = @ \/ o # {}, !.offer = o]
       /\ IF o = {} THEN offer' = {} /\ UNCHANGED <<input, talking, call>>
          ELSE Ask(o, Cardinality(o))

GuestDraw ==
  /\ play' = "wait"
  /\ outbox' = Append(outbox, Msg("REQUEST_CARD", "pass"))
  /\ UNCHANGED <<table, offer, input, talking, call>>

Draw == IF atHost THEN HostDraw ELSE GuestDraw

-----------------------------------------------------------------------------
(* Keys.  process_key() takes all that were typed before the loop goes on.  *)

Typed == Reached("keys") /\ UNCHANGED <<atHost, at, token, inbox>>

\* ENTER in CHECK_MODE.  To eat in one of several ways is to be asked again.
KeyAnswer ==
  /\ Typed /\ ~talking /\ input = "check"
  /\ \/ \E c \in offer \cup {"pass"} : Answer(c) /\ Closed
     \/ "eat" \in offer /\ input' = "eat" /\ UNCHANGED <<talking, offer, table, outbox>>
  /\ UNCHANGED <<play, ai, call>>

KeyEat ==
  /\ Typed /\ ~talking /\ input = "eat"
  /\ Answer("eat") /\ Closed
  /\ UNCHANGED <<play, ai, call>>

KeyDraw ==
  /\ Typed /\ ~talking /\ input = "play" /\ play = "get"
  /\ Draw
  /\ UNCHANGED ai

KeyThrow ==
  /\ Typed /\ ~talking /\ input = "play" /\ play = "throw"
  /\ Throw
  /\ UNCHANGED <<input, talking, offer, ai, call>>

\* The mode a chat is left for.
BackTo == input

\* TAB: to the chat line and back.
KeyTalk ==
  /\ Typed /\ ~talking
  /\ talking' = TRUE
  /\ UNCHANGED <<input, play, offer, ai, call, outbox, table>>

KeyBack ==
  /\ Typed /\ talking
  /\ talking' = FALSE /\ input' = BackTo
  /\ UNCHANGED <<play, offer, ai, call, outbox, table>>

\* ai_set_enabled(): on, it registers a session, unless it was on before.
Switched(on, registered) == ai' = (on /\ (ai \/ registered))

\* /AI ON and /AI OFF.
KeySwitch ==
  /\ Typed /\ talking
  /\ \E on, registered \in BOOLEAN : Switched(on, registered)
  /\ UNCHANGED <<input, talking, play, offer, call, outbox, table>>

NoKey ==
  /\ Reached("keys") /\ Goes("draw")
  /\ UNCHANGED <<atHost, input, talking, play, offer, ai, token, call, inbox, outbox, table>>

-----------------------------------------------------------------------------
(* The hooks.                                                               *)

\* Mutant: tiles are drawn whether or not it is the player's turn.
AutoDrawsAlways == ai /\ ~talking /\ input = "play" /\ play # "throw"

AutoDraws == ai /\ ~talking /\ input = "play" /\ play = "get"

DrawHook ==
  /\ Reached("draw") /\ Goes("check")
  /\ IF AutoDraws THEN Draw
     ELSE UNCHANGED <<table, offer, input, talking, call, play, outbox>>
  /\ UNCHANGED <<atHost, ai, token, inbox>>

\* in_check[my_sit] is the host's: a guest's is never set.
CheckHook ==
  /\ Reached("check") /\ Goes("discard")
  /\ IF ai /\ ~talking /\ input = "check" /\ atHost /\ table.inCheck
     THEN Begins("own", 0) ELSE UNCHANGED call
  /\ UNCHANGED <<atHost, input, talking, play, offer, ai, token, inbox, outbox, table>>

DiscardHook ==
  /\ Reached("discard") /\ Goes("messages")
  /\ IF ai /\ ~talking /\ input = "play" /\ play = "throw"
     THEN Begins("discard", 0) ELSE UNCHANGED call
  /\ UNCHANGED <<atHost, input, talking, play, offer, ai, token, inbox, outbox, table>>

-----------------------------------------------------------------------------
(* A call: ai_get_decision(), and what its caller makes of the decision.    *)

Calling == call # Idle

\* Mutant: the service may call what was not offered.
GrantsAny(d) == d

\* A call that was not offered is a pass.
Grants(d) ==
  CASE d = "unheld" -> IF "eat" \in offer THEN d ELSE "pass"
    [] d \in offer  -> d
    [] OTHER        -> "pass"

\* The answer to a claim.  A row that does not fit leaves the question to the
\* person.  The host then marks itself as asked, answered or not, and asks again
\* for the next call it could make; with the service gone it only prompts.
ClaimEnds(d, on) ==
  LET open == d = "misfit" /\ "eat" \in offer
      more == call.left > 1
  IN
  /\ IF atHost
     THEN table' = [table EXCEPT !.inCheck = TRUE, !.said = IF open THEN @ ELSE Grants(d)]
          /\ UNCHANGED outbox
     ELSE IF open THEN UNCHANGED <<table, outbox>> ELSE Answer(Grants(d))
  /\ IF open THEN UNCHANGED <<input, talking, offer>>
     ELSE IF more THEN input' = "check" /\ talking' = FALSE /\ UNCHANGED offer ELSE Closed
  /\ IF more /\ on THEN Begins("claim", call.left - 1) ELSE call' = Idle
  /\ UNCHANGED play

OwnEnds(d) ==
  /\ Answer(IF d \in OwnCalls THEN d ELSE "pass")
  /\ Closed /\ call' = Idle
  /\ UNCHANGED play

DiscardEnds(d) ==
  /\ IF d = "discard" THEN Throw ELSE UNCHANGED <<play, outbox, table>>
  /\ call' = Idle
  /\ UNCHANGED <<input, talking, offer>>

\* No decision switches the service off, before the caller goes on.
Concludes(d) ==
  /\ ai' = (d # "none")
  /\ CASE call.why = "claim"   -> ClaimEnds(d, ai')
       [] call.why = "own"     -> OwnEnds(d)
       [] call.why = "discard" -> DiscardEnds(d)
  /\ UNCHANGED <<atHost, at, inbox>>

Waits == UNCHANGED <<atHost, loopVars, play, offer, ai, inbox, outbox, table>>

\* Mutant: a failure is not counted.
FailedUncounted == call.failed

\* The attempts that failed, with this one.
Failed == call.failed + 1

GivesUp == Failed >= Attempts

\* curl_easy_perform() fails or runs into its timeout.
RequestFails ==
  /\ Calling
  /\ IF GivesUp THEN Concludes("none")
     ELSE call' = [call EXCEPT !.failed = Failed, !.refused = FALSE] /\ Waits
  /\ UNCHANGED token

\* The token is refused: it is fetched anew, which may fail, and the request
\* repeated once in the same attempt.  A second refusal is a reply without
\* a decision.
RequestRefused ==
  /\ Calling /\ Engine /\ token = "stale"
  /\ IF call.refused THEN Concludes("none") /\ UNCHANGED token
     ELSE /\ token' \in {"good", "stale"}
          /\ call' = [call EXCEPT !.refused = TRUE] /\ Waits

RequestAnswered ==
  /\ Calling
  /\ Engine => token = "good"
  /\ \E d \in Decisions : Concludes(d)
  /\ UNCHANGED token

TokenExpires ==
  /\ Engine /\ token = "good" /\ token' = "stale"
  /\ UNCHANGED <<atHost, loopVars, play, offer, ai, call, inbox, outbox, table>>

-----------------------------------------------------------------------------
(* Messages: a guest hears one in an iteration.                             *)

Takes(type) ==
  /\ Reached("messages") /\ Goes("keys") /\ ~atHost
  /\ inbox # <<>> /\ Head(inbox).type = type
  /\ inbox' = Tail(inbox)
  /\ UNCHANGED <<atHost, ai, token, table>>

Sets(mode) == play' = mode /\ UNCHANGED <<input, talking, offer, call, outbox>>

\* MSG_CHECK_CARD; of an own draw it comes before the tile.
TakeCheck == Takes("CHECK_CARD") /\ Ask(Head(inbox).what, 1) /\ UNCHANGED <<play, outbox>>

\* MSG_CAN_GET, and MSG_GET_CARD with process_new_card().
TakeTurn == Takes("CAN_GET") /\ Sets("get")
TakeCard == Takes("GET_CARD") /\ Sets("throw")

\* process_epk(): a tile is drawn after a kong and thrown after the others.
TakeEpk  == Takes("EPK") /\ Sets(IF Head(inbox).what = {"kang"} THEN "get" ELSE "throw")
TakeMake == Takes("MAKE") /\ Sets("wait")

\* opening().
TakeNewRound ==
  /\ Takes("NEW_ROUND")
  /\ Closed /\ play' = "wait"
  /\ UNCHANGED <<call, outbox>>

NoMessage ==
  /\ Reached("messages") /\ ~atHost /\ inbox = <<>>
  /\ Goes("keys")
  /\ UNCHANGED <<atHost, input, talking, play, offer, ai, token, call, inbox, outbox, table>>

-----------------------------------------------------------------------------
(* The table host, as far as this player is concerned.  Its process is the  *)
(* player's own or another that a guest only knows by its messages.         *)

\* Whatever happens at the table happens while the host reads its messages.
Elsewhere ==
  IF atHost THEN Reached("messages") /\ Goes("verdict")
  ELSE UNCHANGED at

Quiet == table.stage = "others" /\ ~table.checkOn /\ outbox = <<>>

Sends(ms) == inbox' = inbox \o ms /\ UNCHANGED <<play, input, talking, offer, call>>

\* Another player throws a tile this one can call.  The host puts the question
\* to itself and then notes that it waits for the answer.
OthersThrow ==
  /\ Quiet /\ Elsewhere
  /\ \E o \in Claims :
       /\ table' = [table EXCEPT !.checkOn = TRUE, !.offer = o, !.inCheck = ~(atHost /\ ai)]
       /\ IF atHost THEN Ask(o, 1) /\ UNCHANGED <<inbox, play>>
          ELSE Sends(<<Msg("CHECK_CARD", o)>>)
  /\ UNCHANGED <<atHost, ai, token, outbox>>

\* next_player().
OurTurn ==
  /\ Quiet /\ Elsewhere
  /\ table' = [table EXCEPT !.stage = "ours"]
  /\ IF atHost THEN play' = "get" /\ UNCHANGED <<inbox, input, talking, offer, call>>
     ELSE Sends(<<Msg("CAN_GET", {})>>)
  /\ UNCHANGED <<atHost, ai, token, outbox>>

\* Somebody wins a round: everybody is shown the tiles and dealt new ones.  A
\* round of the others is longer than a guest takes to read what is under way.
RoundOver == IF atHost THEN Closed /\ play' = "wait" /\ UNCHANGED <<inbox, call>>
             ELSE Sends(<<Msg("MAKE", {}), Msg("NEW_ROUND", {})>>)

OthersWin ==
  /\ Quiet /\ inbox = <<>> /\ Elsewhere
  /\ RoundOver
  /\ UNCHANGED <<atHost, ai, token, outbox, table>>

\* The host hears a guest: send_one_card() for a tile that was asked for.
Hears ==
  /\ ~atHost /\ outbox # <<>> /\ outbox' = Tail(outbox)
  /\ LET m == Head(outbox) IN
     CASE m.type = "CHECK_RESULT" ->
            table' = [table EXCEPT !.inCheck = FALSE, !.said = m.what] /\ UNCHANGED inbox
       [] m.type = "THROW_CARD" ->
            table' = [table EXCEPT !.stage = "others"] /\ UNCHANGED inbox
       [] m.type = "REQUEST_CARD" ->
            \E o \in OwnClaims \cup {{}} :
              /\ table' = [table EXCEPT !.stage = "holding", !.inCheck = o # {},
                                        !.checkOn = @ \/ o # {}, !.offer = o]
              /\ inbox' = inbox \o (IF o = {} THEN <<>> ELSE <<Msg("CHECK_CARD", o)>>)
                                \o <<Msg("GET_CARD", {})>>
  /\ UNCHANGED <<atHost, loopVars, play, offer, ai, token, call>>

\* The verdict reached over all answers: compare_check().
Verdict(stage, mode, what) ==
  /\ table' = [table EXCEPT !.checkOn = FALSE, !.said = "pass", !.offer = {}, !.stage = stage]
  /\ IF atHost THEN play' = mode /\ UNCHANGED <<inbox, input, talking, offer, call>>
     ELSE Sends(<<Msg("EPK", {what})>>)

\* A claim may lose against another player's.
Passed ==
  /\ table.said = "pass" \/ table.stage = "others"
  /\ table' = [table EXCEPT !.checkOn = FALSE, !.said = "pass", !.offer = {}]
  /\ UNCHANGED <<play, input, talking, offer, call, inbox>>

Melds  == table.said \in {"eat", "pong", "unheld"} /\ Verdict("holding", "throw", table.said)
Kongs  == table.said = "kang" /\ Verdict("ours", "get", "kang")
Wins   == /\ table.said = "make"
          /\ table' = [table EXCEPT !.checkOn = FALSE, !.said = "pass", !.offer = {}, !.stage = "others"]
          /\ RoundOver

Decides ==
  /\ table.checkOn /\ ~table.inCheck
  /\ IF atHost THEN Reached("verdict") /\ Goes("keys") ELSE UNCHANGED at
  /\ Passed \/ Melds \/ Kongs \/ Wins
  /\ UNCHANGED <<atHost, ai, token, outbox>>

\* An iteration of the host's loop that hears nothing, or decides nothing.
NothingHeard ==
  /\ atHost
  /\ \/ Reached("messages") /\ Goes("verdict")
     \/ Reached("verdict") /\ Goes("keys") /\ ~(table.checkOn /\ ~table.inCheck)
  /\ UNCHANGED <<atHost, input, talking, play, offer, ai, token, call, inbox, outbox, table>>

-----------------------------------------------------------------------------
(* The specification.                                                       *)

Init ==
  /\ atHost \in Places
  /\ at = "keys" /\ input = "play" /\ talking = FALSE
  /\ play = "wait" /\ offer = {}
  /\ ai \in BOOLEAN /\ token \in IF Engine THEN {"good", "stale"} ELSE {"good"}
  /\ call = Idle /\ inbox = <<>> /\ outbox = <<>>
  /\ table = [stage |-> "others", inCheck |-> FALSE, checkOn |-> FALSE,
              said |-> "pass", offer |-> {}]

Key == KeyAnswer \/ KeyEat \/ KeyDraw \/ KeyThrow \/ KeyTalk \/ KeyBack \/ KeySwitch \/ NoKey

Hook == DrawHook \/ CheckHook \/ DiscardHook

Request == RequestFails \/ RequestRefused \/ RequestAnswered

Message == \/ TakeCheck \/ TakeTurn \/ TakeCard \/ TakeEpk \/ TakeMake \/ TakeNewRound
           \/ NoMessage

Table == OthersThrow \/ OurTurn \/ OthersWin \/ Hears \/ Decides \/ NothingHeard

Next == Key \/ Hook \/ Request \/ TokenExpires \/ Message \/ Table

\* The loop goes on: select() has a timeout, and a request one too.  The other
\* end of a guest's connection reads and decides.  A person at the keyboard
\* leaves the chat line, answers a question and plays on now and then.
Fairness ==
  /\ WF_vars(NoKey) /\ WF_vars(Hook) /\ WF_vars(Request) /\ WF_vars(Message)
  /\ WF_vars(Hears) /\ WF_vars(Decides) /\ WF_vars(NothingHeard)
  /\ SF_vars(KeyBack) /\ SF_vars(KeyAnswer) /\ SF_vars(KeyEat)
  /\ SF_vars(KeyDraw) /\ SF_vars(KeyThrow)

Spec == Init /\ [][Next]_vars /\ Fairness

-----------------------------------------------------------------------------
(* Properties.                                                              *)

TypeOK ==
  /\ atHost \in Places
  /\ at \in Stops
  /\ input \in {"play", "check", "eat"} /\ talking \in BOOLEAN
  /\ play \in {"wait", "get", "throw"}
  /\ offer \in SUBSET Calls
  /\ ai \in BOOLEAN /\ token \in {"good", "stale"}
  /\ call \in [why : {"none", "claim", "own", "discard"}, failed : 0 .. Attempts - 1,
               refused : BOOLEAN, left : 0 .. Cardinality(OwnCalls)]
  /\ inbox \in Seq(Inbound) /\ outbox \in Seq(Outbound)
  /\ table \in Tables

Count(box, types) == Cardinality({i \in DOMAIN box : box[i].type \in types})
One(cond) == IF cond THEN 1 ELSE 0

(* While the host waits for a guest's answer, the question is in exactly one   *)
(* place: on its way, open on the screen, before the service, or answered and  *)
(* on its way back.  The service and the person never both answer, and a chat, *)
(* a switched-off service or a reply nobody understands never lose it.         *)
AnsweredOnce ==
  ~atHost =>
    Count(inbox, {"CHECK_CARD"}) + Count(outbox, {"CHECK_RESULT"})
      + One(input \in {"check", "eat"}) = One(table.inCheck)

(* The move is in exactly one place: a guest whose turn it is has been told,   *)
(* or has asked for its tile, or holds it and has not thrown it; nobody draws  *)
(* or throws twice for one turn, whoever presses first.                        *)
MoveInOnePlace ==
  /\ (table.stage = "ours") =>
       Count(inbox, {"CAN_GET", "EPK"}) + One(play = "get") + Count(outbox, {"REQUEST_CARD"}) = 1
  /\ (table.stage = "holding") =>
       Count(inbox, {"GET_CARD"}) + One(play = "throw") + Count(outbox, {"THROW_CARD"})
         + Count(inbox, {"EPK"}) = 1

(* A guest's process answers with what it was offered or with a pass, whatever *)
(* the service replies.                                                        *)
OnlyOffered ==
  ~atHost =>
    /\ table.said \in table.offer \cup {"pass"}
    /\ \A i \in DOMAIN outbox :
         outbox[i].type = "CHECK_RESULT" => outbox[i].what \in table.offer \cup {"pass"}

(* All processes are well-formed, calls within their attempts, answers within  *)
(* the offers.                                                                *)
AnswersSound == TypeOK /\ OnlyOffered

(* Every call ends, whatever the network does, and gives the loop back.        *)
CallsEnd == Calling ~> ~Calling

(* Every question the host waits for is settled.                               *)
QuestionsSettle == table.checkOn ~> ~table.checkOn

(* Every question to a guest is settled, even if the service is down, keeps    *)
(* refusing the token, or answers with a row that does not fit.                *)
GuestQuestionsSettle == (table.checkOn /\ ~atHost) ~> ~table.checkOn

(* A guest that holds a tile too many plays on, even if the service keeps      *)
(* naming a tile it does not hold.                                             *)
GuestMoves == (table.stage = "holding" /\ ~atHost) ~> (table.stage = "others" \/ table.stage = "ours")

(* The service holds up the game only for a while: calls end, questions to a  *)
(* guest are settled, and a guest plays on.                                   *)
GoesOn == CallsEnd /\ GuestQuestionsSettle /\ GuestMoves
=============================================================================
