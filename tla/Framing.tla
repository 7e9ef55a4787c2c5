------------------------------ MODULE Framing ------------------------------
(***************************************************************************)
(* How messages travel: send_json() writes the text of a message in as     *)
(* many pieces as the socket takes, and then a terminator; recv_json()     *)
(* waits for a piece, reads to the next terminator and parses what it has. *)
(* Both give up after a time, and a socket may wait or not: of the three   *)
(* sorts of connections each combines them in its own way.                 *)
(*                                                                         *)
(* One direction of one connection is modelled.  A message is a number; a  *)
(* piece of it says which message it is of and which piece, 0 being the    *)
(* terminator.                                                             *)
(***************************************************************************)
EXTENDS Integers, Sequences, FiniteSets

CONSTANTS
  Messages, \* bound: messages the sender may send
  Parts,    \* pieces of the longest message: MAX_JSON_PACKET_SIZE - 2 bytes in the code
  Peek,     \* pieces recv() looks at: PEEK_SIZE
  Buffer,   \* pieces that fit between the two: the sockets' buffers
  MayDie,   \* BOOLEAN: may the sender's process end?
  MayHang   \* BOOLEAN: may the receiver stop reading, at a prompt nobody answers?

ASSUME SizeAssumption ==
  /\ Messages \in Nat /\ Parts \in Nat \ {0} /\ Peek \in Nat \ {0} /\ Buffer \in Nat \ {0}
  /\ {MayDie, MayHang} \subseteq BOOLEAN

VARIABLES
  link,      \* whose sockets these are, see Links
  next,      \* the message send_json() is called with next
  out,       \* what it has still to write of the one before
  begun,     \* whether it has written some of that
  stream,    \* the bytes under way
  buf,       \* buf[] of recv_json()
  reading,   \* recv_json() is running
  closed,    \* the receiver has closed the connection
  gone,      \* the sender has
  hung,      \* the receiver has stopped
  sent,      \* messages for which send_json() returned 1: nobody looks
  torn,      \* messages that were cut short: not in the code
  delivered  \* messages recv_json() returned, in their order: not in the code

vars == <<link, next, out, begun, stream, buf, reading, closed, gone, hung, sent, torn, delivered>>

\* Between players, from a player to the lobby and from the lobby to a player.  The
\* lobby's sockets do not wait (FNDELAY); the others do.
Links == {"table", "toLobby", "fromLobby"}
WriterWaits == link # "fromLobby"
ReaderWaits == link # "toLobby"

Piece == [id : 1 .. Messages, at : 0 .. Parts, of : 1 .. Parts]
End(m, n) == [id |-> m, at |-> 0, of |-> n]
Text(m, n) == [j \in 1 .. n |-> [id |-> m, at |-> j, of |-> n]]
IsEnd(p) == p.at = 0

Room == Buffer - Len(stream)

-----------------------------------------------------------------------------
(* send_json().                                                             *)

Returns(cut) ==
  /\ out' = <<>> /\ begun' = FALSE
  /\ torn' = IF cut /\ begun THEN torn \cup {Head(out).id} ELSE torn
  /\ sent' = IF cut THEN sent ELSE sent \cup {Head(out).id}

Send ==
  /\ out = <<>> /\ next <= Messages /\ ~gone
  /\ \E n \in 1 .. Parts : out' = Append(Text(next, n), End(next, n))
  /\ next' = next + 1
  /\ UNCHANGED <<link, begun, stream, buf, reading, closed, gone, hung, sent, torn, delivered>>

\* write() of as much as there is room for.
Write ==
  /\ out # <<>> /\ ~IsEnd(Head(out)) /\ ~closed
  /\ Room > 0
  /\ stream' = Append(stream, Head(out)) /\ out' = Tail(out) /\ begun' = TRUE
  /\ UNCHANGED <<link, next, buf, reading, closed, gone, hung, sent, torn, delivered>>

\* Mutant: send_json() does not look whether it can write.
PatientAlways == TRUE

\* select() comes before the first write(); a socket that waits is then in one
\* write() until all is written.
Patient == WriterWaits /\ begun

\* No room for two seconds.
GiveUp ==
  /\ out # <<>> /\ ~IsEnd(Head(out)) /\ Room = 0
  /\ ~Patient
  /\ Returns(TRUE)
  /\ UNCHANGED <<link, next, stream, buf, reading, closed, gone, hung, delivered>>

\* Mutant: the terminator is forgotten.
TerminateNot ==
  /\ out # <<>> /\ IsEnd(Head(out)) /\ ~closed
  /\ Returns(FALSE) /\ UNCHANGED stream
  /\ UNCHANGED <<link, next, buf, reading, closed, gone, hung, delivered>>

\* The terminator, without a look whether there is room.
Terminate ==
  /\ out # <<>> /\ IsEnd(Head(out)) /\ ~closed
  /\ \/ Room > 0 /\ stream' = Append(stream, Head(out)) /\ Returns(FALSE)
     \/ Room = 0 /\ ~WriterWaits /\ Returns(TRUE) /\ UNCHANGED stream
  /\ UNCHANGED <<link, next, buf, reading, closed, gone, hung, delivered>>

\* The receiver has closed: write() fails, and SIGPIPE ends a player's process.
Fail ==
  /\ out # <<>> /\ closed
  /\ Returns(TRUE)
  /\ gone' = (gone \/ WriterWaits)
  /\ UNCHANGED <<link, next, stream, buf, reading, closed, hung, delivered>>

\* The sender's process ends.
Die ==
  /\ MayDie /\ ~gone
  /\ gone' = TRUE
  /\ out' = <<>> /\ begun' = FALSE
  /\ torn' = IF begun THEN torn \cup {Head(out).id} ELSE torn
  /\ UNCHANGED <<link, next, stream, buf, reading, closed, hung, sent, delivered>>

-----------------------------------------------------------------------------
(* recv_json(), called when there is something to read.                     *)

\* Whatever makes it return 0 makes the caller close the connection.
Close ==
  /\ closed' = TRUE /\ reading' = FALSE /\ stream' = <<>> /\ buf' = <<>>
  /\ UNCHANGED <<link, next, out, begun, gone, hung, sent, torn, delivered>>

Call ==
  /\ ~reading /\ ~closed /\ ~hung /\ (stream # <<>> \/ gone)
  /\ reading' = TRUE
  /\ UNCHANGED <<link, next, out, begun, stream, buf, closed, gone, hung, sent, torn, delivered>>

Least(S) == CHOOSE j \in S : \A k \in S : j <= k

\* cJSON_Parse() takes a text that begins with a whole message, whatever follows.
Parses(b) == \A j \in 1 .. b[1].of : j <= Len(b) /\ b[j] = [id |-> b[1].id, at |-> j, of |-> b[1].of]

\* Does b exceed buf[]?
TooLong(b) == Len(b) > IF IsEnd(b[Len(b)]) THEN Parts + 1 ELSE Parts

\* Mutant: what was looked at stays to be read.
RestPeeked(n) == stream

\* Mutant: all that was looked at is taken.
RestBeyond(n) == SubSeq(stream, (IF n > Peek THEN n ELSE Peek) + 1, Len(stream))

\* The bytes under way after n of them are read.
Rest(n) == SubSeq(stream, n + 1, Len(stream))

Read ==
  LET seen == SubSeq(stream, 1, IF Peek < Len(stream) THEN Peek ELSE Len(stream))
      ends == {j \in DOMAIN seen : IsEnd(seen[j])}
      n == IF ends = {} THEN Len(seen) ELSE Least(ends)
      b == buf \o SubSeq(seen, 1, n)
  IN
  /\ reading /\ ~closed /\ stream # <<>>
  /\ IF TooLong(b) \/ (ends # {} /\ ~Parses(b)) THEN Close
     ELSE /\ stream' = Rest(n)
          /\ buf' = IF ends = {} THEN b ELSE <<>>
          /\ reading' = (ends = {})
          /\ delivered' = IF ends = {} THEN delivered ELSE Append(delivered, b[1].id)
          /\ UNCHANGED <<link, next, out, begun, closed, gone, hung, sent, torn>>

\* No more for a second, where the socket does not wait; or no more at all.
Starve ==
  /\ reading /\ ~closed /\ stream = <<>>
  /\ gone \/ ~ReaderWaits
  /\ Close

\* The receiver's process waits for a key.
Hang ==
  /\ MayHang /\ ~reading /\ ~closed /\ link # "toLobby"
  /\ hung' = TRUE
  /\ UNCHANGED <<link, next, out, begun, stream, buf, reading, closed, gone, sent, torn, delivered>>

-----------------------------------------------------------------------------
Init ==
  /\ link \in Links
  /\ next = 1 /\ out = <<>> /\ begun = FALSE
  /\ stream = <<>> /\ buf = <<>> /\ reading = FALSE
  /\ closed = FALSE /\ gone = FALSE /\ hung = FALSE
  /\ sent = {} /\ torn = {} /\ delivered = <<>>

Writing == Write \/ GiveUp \/ Terminate \/ Fail
Reading == Call \/ Read \/ Starve
Next == Send \/ Writing \/ Die \/ Reading \/ Hang

\* send_json() and recv_json() go on once they are called, and the receiver's loop
\* comes back to a socket that has something to read, unless it hangs.
Spec == Init /\ [][Next]_vars /\ WF_vars(Writing) /\ WF_vars(Reading)

-----------------------------------------------------------------------------
TypeOK ==
  /\ link \in Links /\ next \in 1 .. Messages + 1
  /\ out \in Seq(Piece) /\ stream \in Seq(Piece) /\ Len(stream) <= Buffer
  /\ buf \in Seq(Piece) /\ Len(buf) <= Parts
  /\ {begun, reading, closed, gone, hung} \subseteq BOOLEAN
  /\ sent \subseteq 1 .. Messages /\ torn \subseteq (1 .. Messages) \ sent
  /\ delivered \in Seq(1 .. Messages)

Received == {delivered[i] : i \in DOMAIN delivered}

(* A message arrives once, and in the order of the calls, however it and its  *)
(* neighbours are cut and glued; none that is half written is taken for one.  *)
OnceInOrder ==
  /\ \A i, j \in DOMAIN delivered : i < j => delivered[i] < delivered[j]
  /\ \A m \in Received : m \in sent \/ (m \in torn /\ link = "fromLobby")
                         \/ (gone /\ m \in torn) \/ (out # <<>> /\ m = Head(out).id)

(* The stream is well-formed and keeps its order.                             *)
StreamSound == TypeOK /\ OnceInOrder

(* A message that was sent is never passed over, between players and towards  *)
(* the lobby; of the lobby's messages only the one after a message that was   *)
(* cut short: it is read as the rest of that one's text.                      *)
NothingSkipped ==
  \A m \in sent :
    (\E d \in Received : m < d) =>
      \/ m \in Received
      \/ /\ link = "fromLobby"
         /\ \E t \in torn : t < m /\ \A u \in sent : ~(t < u /\ u < m)

(* send_json() returns, though between players, and towards the lobby, it     *)
(* waits for a receiver that does not read; the lobby is never held up.       *)
SendReturns == out # <<>> ~> out = <<>> \/ (hung /\ WriterWaits)

(* What was sent arrives, or the receiver closes the connection or stops;     *)
(* messages of the lobby excepted.                                            *)
SentArrives ==
  \A m \in 1 .. Messages :
    m \in sent /\ link # "fromLobby" ~> m \in Received \/ closed \/ hung
=============================================================================
