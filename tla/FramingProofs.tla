--------------------------- MODULE FramingProofs ---------------------------
(***************************************************************************)
(* What TLAPS proves of send_json() and recv_json(), for every number and  *)
(* length of messages, size of the sockets' buffers and of a look at them: *)
(* messages arrive once and in order, and none that was sent is passed     *)
(* over but after one that the lobby's socket cut short.                   *)
(***************************************************************************)
EXTENDS Framing, SequenceTheorems, WellFoundedInduction, TLAPS

\* All that is under way, from what recv_json() has read of a message on.
Wire == buf \o stream

\* Piece q is what comes after p in a message.
Follows(p, q) ==
  /\ p.at # 0 /\ q.id = p.id /\ q.of = p.of
  /\ q.at = IF p.at = p.of THEN 0 ELSE p.at + 1

\* A later message begins with q after the end of one, or after the torso of a message of T.
Begins(p, q, T) == q.at = 1 /\ p.id < q.id /\ (p.at = 0 \/ p.id \in T)

\* Where in W the message of its piece x begins.
Start(W, x) == IF W[x].at = 0 THEN x - W[x].of ELSE x - W[x].at + 1

\* A wire that holds messages one after the other, those of T perhaps cut short.
InOrder(W, T) ==
  /\ Len(W) > 0 => W[1].at = 1
  /\ \A x \in 1 .. Len(W) - 1 : Follows(W[x], W[x + 1]) \/ Begins(W[x], W[x + 1], T)
  /\ \A x, y \in 1 .. Len(W) : x <= y => W[x].id <= W[y].id
  /\ \A x \in 1 .. Len(W) :
       LET k == Start(W, x)
       IN  k \in 1 .. x /\ W[k].at = 1 /\ W[k].id = W[x].id /\ W[k].of = W[x].of

\* Messages that only the lobby's sockets cut short and go on after.
Cut == IF link = "fromLobby" THEN torn ELSE {}

OutSound ==
  /\ out = <<>> => ~begun
  /\ out # <<>> =>
       /\ ~gone /\ next > 1
       /\ \A i \in 1 .. Len(out) : out[i].id = next - 1
       /\ \A i \in 1 .. Len(out) - 1 : Follows(out[i], out[i + 1])
       /\ out[Len(out)].at = 0
       /\ ~begun => out[1].at = 1

\* What is under way and what is still to be written fit together.
Joint ==
  IF begun THEN closed \/ (Len(Wire) > 0 /\ Follows(Wire[Len(Wire)], out[1]))
  ELSE Len(Wire) > 0 => LET p == Wire[Len(Wire)]
                        IN  p.at = 0 \/ (p.id \in torn /\ (link = "fromLobby" \/ gone))

\* The messages of which there is a trace.
Traces ==
  /\ \A m \in sent \cup torn : m < next /\ (out # <<>> => m # next - 1)
  /\ torn = {} \/ link = "fromLobby" \/ gone
  /\ \A x \in 1 .. Len(Wire) :
       /\ Wire[x].id \in sent \cup torn \/ (begun /\ Wire[x].id = next - 1)
       /\ Wire[x].at = 0 => Wire[x].id \in sent
  /\ Received \subseteq sent \cup torn
  /\ \A d \in Received : \A x \in 1 .. Len(Wire) : d < Wire[x].id
  /\ \A i, j \in 1 .. Len(delivered) : i < j => delivered[i] < delivered[j]

\* Message v came right after one that was cut short.
Swallowed(v) ==
  link = "fromLobby" /\ \E t \in torn : t < v /\ \A u \in sent : ~(t < u /\ u < v)

\* What became of a message that was sent.
Accounted(v) ==
  \/ v \in Received
  \/ \E x \in 1 .. Len(Wire) : Wire[x].at = 0 /\ Wire[x].id = v
  \/ closed /\ \A d \in Received : d < v
  \/ Swallowed(v) /\ \A x \in 1 .. Len(Wire) : v < Wire[x].id

Inv ==
  /\ TypeOK
  /\ InOrder(Wire, Cut)
  /\ \A x \in 1 .. Len(buf) : buf[x].at # 0
  /\ closed => buf = <<>> /\ stream = <<>>
  /\ OutSound
  /\ Joint
  /\ Traces
  /\ \A v \in sent : Accounted(v)

-----------------------------------------------------------------------------
(* Sequences of pieces.                                                     *)

\* A nonempty set of naturals has a least element.
LEMMA LeastIsLeast ==
  ASSUME NEW S, S \subseteq Nat, S # {}
  PROVE  Least(S) \in S /\ \A k \in S : Least(S) <= k
<1>1. IsWellFoundedOn(OpToRel(<, Nat), Nat) BY NatLessThanWellFounded
<1>2. PICK j \in S : \A k \in S : ~(<<k, j>> \in OpToRel(<, Nat)) BY <1>1, WFMin
<1>3. \A k \in S : ~(k < j) BY <1>2 DEF OpToRel
<1>4. \A k \in S : j <= k BY <1>3
<1>5. \E i \in S : \A k \in S : i <= k BY <1>4
<1> QED BY <1>5 DEF Least

LEMMA PieceFields ==
  ASSUME NEW p \in Piece
  PROVE  p.id \in 1 .. Messages /\ p.at \in 0 .. Parts /\ p.of \in 1 .. Parts
         /\ p.id \in Nat /\ p.at \in Nat /\ p.of \in Nat
BY SizeAssumption DEF Piece

LEMMA MoreCut ==
  ASSUME NEW W, NEW T, NEW U, T \subseteq U, InOrder(W, T)
  PROVE  InOrder(W, U)
BY DEF InOrder, Begins

\* One more piece, if it fits.
LEMMA AppendInOrder ==
  ASSUME NEW W \in Seq(Piece), NEW p \in Piece, NEW T, InOrder(W, T),
         Len(W) = 0 => p.at = 1,
         Len(W) > 0 => Follows(W[Len(W)], p) \/ Begins(W[Len(W)], p, T)
  PROVE  InOrder(Append(W, p), T)
<1> DEFINE n == Len(W)
           V == Append(W, p)
<1>0. /\ n \in Nat /\ Len(V) = n + 1 /\ V[n + 1] = p
      /\ \A i \in 1 .. n : V[i] = W[i] /\ W[i] \in Piece
      /\ \A i \in 1 .. n : W[i].id \in Nat /\ W[i].at \in Nat /\ W[i].of \in Nat
      /\ p.id \in Nat /\ p.at \in Nat /\ p.of \in Nat
  BY LenProperties, AppendProperties, ElementOfSeq, PieceFields
<1> HIDE DEF n, V
<1>1. V[1].at = 1
  <2>1. CASE n = 0 BY <1>0, <2>1 DEF n
  <2>2. CASE n > 0 BY <1>0, <2>2 DEF n, InOrder
  <2> QED BY <1>0, <2>1, <2>2
<1>2. ASSUME NEW x \in 1 .. n PROVE Follows(V[x], V[x + 1]) \/ Begins(V[x], V[x + 1], T)
  <2>1. CASE x = n
    <3>1. n > 0 /\ V[x] = W[n] /\ V[x + 1] = p BY <1>0, <2>1
    <3> QED BY <3>1 DEF n
  <2>2. CASE x # n
    <3>1. x \in 1 .. n - 1 /\ V[x] = W[x] /\ V[x + 1] = W[x + 1] BY <1>0, <2>2
    <3> QED BY <3>1 DEF n, InOrder
  <2> QED BY <2>1, <2>2
<1>3. ASSUME NEW x \in 1 .. n PROVE W[x].id <= p.id
  <2>1. n > 0 /\ n \in 1 .. n BY <1>0
  <2>2. W[n].id <= p.id BY <1>0, <2>1 DEF n, Follows, Begins
  <2>3. W[x].id <= W[n].id BY <1>0, <2>1 DEF n, InOrder
  <2> QED BY <1>0, <2>1, <2>2, <2>3
<1>4. ASSUME NEW x \in 1 .. n + 1, NEW y \in 1 .. n + 1, x <= y PROVE V[x].id <= V[y].id
  <2>1. CASE y \in 1 .. n
    <3>1. x \in 1 .. n BY <1>0, <1>4, <2>1
    <3>2. W[x].id <= W[y].id BY <1>4, <2>1, <3>1 DEF n, InOrder
    <3> QED BY <1>0, <2>1, <3>1, <3>2
  <2>2. CASE y = n + 1 /\ x \in 1 .. n BY <1>0, <1>3, <2>2
  <2>3. CASE y = n + 1 /\ x = n + 1 BY <1>0, <2>3
  <2> QED BY <1>0, <1>4, <2>1, <2>2, <2>3
<1>5. ASSUME NEW x \in 1 .. n
      PROVE  /\ Start(V, x) \in 1 .. x /\ V[Start(V, x)].at = 1
             /\ V[Start(V, x)].id = V[x].id /\ V[Start(V, x)].of = V[x].of
  <2>1. Start(V, x) = Start(W, x) BY <1>0 DEF Start
  <2>2. /\ Start(W, x) \in 1 .. x /\ W[Start(W, x)].at = 1
        /\ W[Start(W, x)].id = W[x].id /\ W[Start(W, x)].of = W[x].of
    BY DEF InOrder, n
  <2>3. Start(W, x) \in 1 .. n BY <1>0, <2>2
  <2> QED BY <1>0, <2>1, <2>2, <2>3
<1>6. /\ Start(V, n + 1) \in 1 .. n + 1 /\ V[Start(V, n + 1)].at = 1
      /\ V[Start(V, n + 1)].id = V[n + 1].id /\ V[Start(V, n + 1)].of = V[n + 1].of
  <2>1. CASE p.at = 1
    <3>1. Start(V, n + 1) = n + 1 BY <1>0, <2>1 DEF Start
    <3> QED BY <1>0, <2>1, <3>1
  <2>2. CASE p.at # 1
    <3>1. n > 0 /\ Follows(W[n], p) BY <1>0, <2>2 DEF n, Begins
    <3>2. n \in 1 .. n /\ V[n] = W[n] /\ W[n].at # 0 /\ p.of = W[n].of /\ p.id = W[n].id
      BY <1>0, <3>1 DEF Follows
    <3>3. Start(V, n) = n - W[n].at + 1 BY <3>2 DEF Start
    <3>4. Start(V, n + 1) = Start(V, n)
      <4>1. CASE W[n].at = W[n].of
        <5>1. p.at = 0 BY <3>1, <4>1 DEF Follows
        <5>2. V[n + 1].at = 0 /\ V[n + 1].of = W[n].of BY <1>0, <3>2, <5>1
        <5>3. W[n].of \in Nat /\ n \in Nat BY <1>0, <3>2
        <5>4. Start(V, n + 1) = n + 1 - W[n].of BY <5>2, <5>3 DEF Start
        <5> QED BY <3>3, <4>1, <5>3, <5>4
      <4>2. CASE W[n].at # W[n].of
        <5>1. p.at = W[n].at + 1 BY <3>1, <4>2 DEF Follows
        <5>2. W[n].at \in Nat /\ n \in Nat BY <1>0, <3>2
        <5>3. V[n + 1].at = W[n].at + 1 BY <1>0, <5>1
        <5>4. V[n + 1].at # 0 BY <5>2, <5>3
        <5>5. V[n + 1].at \in Nat BY <5>2, <5>3
        <5>6. Start(V, n + 1) = n + 1 - V[n + 1].at + 1 BY <5>2, <5>4, <5>5, SMTT(40) DEF Start
        <5>7. Start(V, n + 1) = n + 1 - (W[n].at + 1) + 1 BY <5>3, <5>6
        <5> QED BY <3>3, <5>2, <5>7
      <4> QED BY <4>1, <4>2
    <3> QED BY <1>0, <1>5, <3>2, <3>4
  <2> QED BY <2>1, <2>2
<1>7. \A x \in 1 .. n + 1 :
        /\ Start(V, x) \in 1 .. x /\ V[Start(V, x)].at = 1
        /\ V[Start(V, x)].id = V[x].id /\ V[Start(V, x)].of = V[x].of
  BY <1>0, <1>5, <1>6
<1>8. n + 1 - 1 = n BY <1>0
<1>9. Len(V) = n + 1 BY <1>0
<1>10. InOrder(V, T)
  <2>1. \A x \in 1 .. Len(V) - 1 : Follows(V[x], V[x + 1]) \/ Begins(V[x], V[x + 1], T)
    <3>1. n \in Nat BY <1>0
    <3>2. Len(V) - 1 = n BY <1>9, <3>1
    <3> QED BY <1>2, <3>2
  <2>2. \A x, y \in 1 .. Len(V) : x <= y => V[x].id <= V[y].id BY <1>4, <1>9
  <2>3. \A x \in 1 .. Len(V) :
          /\ Start(V, x) \in 1 .. x /\ V[Start(V, x)].at = 1
          /\ V[Start(V, x)].id = V[x].id /\ V[Start(V, x)].of = V[x].of
    BY <1>7, <1>9
  <2> QED BY <1>1, <2>1, <2>2, <2>3 DEF InOrder
<1> QED BY <1>10 DEF V

\* The wire after a message has been taken up to its end at j.
LEMMA CutInOrder ==
  ASSUME NEW W \in Seq(Piece), NEW T, InOrder(W, T), NEW j \in 1 .. Len(W), W[j].at = 0
  PROVE  LET V == SubSeq(W, j + 1, Len(W))
         IN  /\ V \in Seq(Piece) /\ InOrder(V, T) /\ Len(V) = Len(W) - j
             /\ \A x \in 1 .. Len(V) : V[x] = W[j + x] /\ W[j].id < V[x].id
<1> DEFINE n == Len(W)
           V == SubSeq(W, j + 1, n)
<1>0. /\ n \in Nat /\ \A i \in 1 .. n : W[i] \in Piece
      /\ \A i \in 1 .. n : W[i].id \in Nat /\ W[i].at \in Nat /\ W[i].of \in Nat
  BY LenProperties, ElementOfSeq, PieceFields
<1>1. V \in Seq(Piece) /\ Len(V) = n - j /\ \A x \in 1 .. n - j : V[x] = W[j + x]
  <2>1. \A i \in j + 1 .. n : W[i] \in Piece BY <1>0
  <2>2. /\ V \in Seq(Piece) /\ Len(V) = IF j + 1 <= n THEN n - (j + 1) + 1 ELSE 0
        /\ \A i \in 1 .. n - (j + 1) + 1 : V[i] = W[j + 1 + i - 1]
    BY <1>0, <2>1, SubSeqProperties
  <2> HIDE DEF V
  <2>n. j \in 1 .. n OBVIOUS
  <2> HIDE DEF n
  <2>3. n - (j + 1) + 1 = n - j /\ \A i \in Int : j + 1 + i - 1 = j + i BY <1>0
  <2>4. Len(V) = n - j BY <1>0, <2>2, <2>3, <2>n
  <2>5. ASSUME NEW x \in 1 .. n - j PROVE V[x] = W[j + x]
    <3>1. j + 1 + x - 1 = j + x /\ x \in 1 .. n - (j + 1) + 1 BY <1>0, <2>3
    <3>2. V[x] = W[j + 1 + x - 1] BY <2>2, <3>1
    <3> QED BY <3>1, <3>2
  <2> QED BY <2>2, <2>4, <2>5
<1> HIDE DEF V
<1>n. j \in 1 .. n BY DEF n
<1>o. /\ \A x \in 1 .. n - 1 : Follows(W[x], W[x + 1]) \/ Begins(W[x], W[x + 1], T)
      /\ \A x, y \in 1 .. n : x <= y => W[x].id <= W[y].id
      /\ \A x \in 1 .. n : /\ Start(W, x) \in 1 .. x /\ W[Start(W, x)].at = 1
                           /\ W[Start(W, x)].id = W[x].id /\ W[Start(W, x)].of = W[x].of
  BY DEF InOrder, n
<1> HIDE DEF n
<1>2. j < n => W[j + 1].at = 1 /\ W[j].id < W[j + 1].id
  <2>1. ASSUME j < n PROVE W[j + 1].at = 1 /\ W[j].id < W[j + 1].id
    <3>1. j \in 1 .. n - 1 BY <1>0, <1>n, <2>1
    <3> QED BY <1>o, <3>1 DEF Follows, Begins
  <2> QED BY <2>1
<1>3. ASSUME NEW x \in 1 .. n - j PROVE V[x] = W[j + x] /\ W[j].id < V[x].id
  <2>1. j < n /\ j + 1 \in 1 .. n /\ j + x \in 1 .. n /\ j + 1 <= j + x BY <1>0, <1>n
  <2>2. W[j + 1].id <= W[j + x].id BY <1>o, <2>1
  <2>3. V[x] = W[j + x] /\ W[j].id < W[j + 1].id BY <1>1, <1>2, <2>1
  <2>4. W[j].id \in Nat /\ W[j + 1].id \in Nat /\ W[j + x].id \in Nat BY <1>0, <1>n, <2>1
  <2>5. \A a, b, c \in Nat : a < b /\ b <= c => a < c OBVIOUS
  <2>6. W[j].id < W[j + x].id BY <2>2, <2>3, <2>4, <2>5
  <2> QED BY <2>3, <2>6
<1>4. n - j > 0 => V[1].at = 1 BY <1>0, <1>1, <1>2, <1>n
<1>5. \A x \in 1 .. n - j - 1 : Follows(V[x], V[x + 1]) \/ Begins(V[x], V[x + 1], T)
  <2>1. ASSUME NEW x \in 1 .. n - j - 1
        PROVE  Follows(V[x], V[x + 1]) \/ Begins(V[x], V[x + 1], T)
    <3>1. /\ x \in 1 .. n - j /\ x + 1 \in 1 .. n - j /\ j + x \in 1 .. n - 1
          /\ j + (x + 1) = j + x + 1
      BY <1>0, <1>n
    <3>2. V[x] = W[j + x] /\ V[x + 1] = W[j + x + 1] BY <1>1, <3>1
    <3> QED BY <1>o, <3>1, <3>2
  <2> QED BY <2>1
<1>6. \A x, y \in 1 .. n - j : x <= y => V[x].id <= V[y].id
  <2>1. ASSUME NEW x \in 1 .. n - j, NEW y \in 1 .. n - j, x <= y PROVE V[x].id <= V[y].id
    <3>1. j + x \in 1 .. n /\ j + y \in 1 .. n /\ j + x <= j + y BY <1>0, <1>n, <2>1
    <3> QED BY <1>1, <1>o, <3>1
  <2> QED BY <2>1
<1>7. ASSUME NEW x \in 1 .. n - j
      PROVE  /\ Start(V, x) \in 1 .. x /\ V[Start(V, x)].at = 1
             /\ V[Start(V, x)].id = V[x].id /\ V[Start(V, x)].of = V[x].of
  <2>1. j + x \in 1 .. n BY <1>0, <1>n
  <2> DEFINE k == Start(W, j + x)
  <2>2. k \in 1 .. j + x /\ W[k].at = 1 /\ W[k].id = W[j + x].id /\ W[k].of = W[j + x].of
    BY <1>o, <2>1
  <2>3. V[x] = W[j + x] BY <1>1
  <2>4. Start(V, x) = k - j
    <3>1. W[j + x].at \in Nat /\ W[j + x].of \in Nat BY <1>0, <2>1
    <3>2. x \in Int /\ j \in Int BY <1>n
    <3>3. CASE W[j + x].at = 0
      <4>1. V[x].at = 0 /\ V[x].of = W[j + x].of BY <2>3, <3>3
      <4>2. Start(V, x) = x - W[j + x].of BY <3>1, <3>2, <4>1 DEF Start
      <4>3. k = j + x - W[j + x].of BY <3>1, <3>2, <3>3 DEF Start
      <4> QED BY <3>1, <3>2, <4>2, <4>3
    <3>4. CASE W[j + x].at # 0
      <4>1. V[x].at # 0 /\ V[x].at = W[j + x].at BY <2>3, <3>4
      <4>2. Start(V, x) = x - W[j + x].at + 1 BY <3>1, <3>2, <4>1 DEF Start
      <4>3. k = j + x - W[j + x].at + 1 BY <3>1, <3>2, <3>4 DEF Start
      <4> QED BY <3>1, <3>2, <4>2, <4>3
    <3> QED BY <3>3, <3>4
  <2> HIDE DEF k
  <2>5. k > j
    <3>1. SUFFICES ASSUME k <= j PROVE FALSE BY <1>n, <2>2
    <3>2. k \in 1 .. n BY <1>0, <1>n, <2>2, <3>1
    <3>3. W[k].id <= W[j].id BY <1>n, <1>o, <3>1, <3>2
    <3>4. W[j].id < W[j + x].id BY <1>3
    <3> QED BY <1>0, <1>n, <2>1, <2>2, <3>2, <3>3, <3>4
  <2>6. k - j \in 1 .. x /\ k - j \in 1 .. n - j /\ j + (k - j) = k BY <1>0, <1>n, <2>2, <2>5
  <2>7. V[k - j] = W[k] BY <1>1, <2>6
  <2> QED BY <2>2, <2>3, <2>4, <2>6, <2>7
<1>8. InOrder(V, T) BY <1>0, <1>1, <1>4, <1>5, <1>6, <1>7, <1>n DEF InOrder
<1> QED BY <1>1, <1>3, <1>8 DEF V, n

-----------------------------------------------------------------------------
(* The steps.                                                               *)

LEMMA InvFacts ==
  ASSUME Inv
  PROVE  /\ Wire \in Seq(Piece) /\ Len(Wire) \in Nat /\ Len(Wire) = Len(buf) + Len(stream)
         /\ \A x \in 1 .. Len(Wire) :
              /\ Wire[x] \in Piece /\ Wire[x].id \in 1 .. Messages
              /\ Wire[x].id \in Nat /\ Wire[x].at \in Nat /\ Wire[x].of \in Nat
         /\ out \in Seq(Piece) /\ Len(out) \in Nat
         /\ out # <<>> => Len(out) > 0 /\ Head(out) = out[1] /\ out[1] \in Piece
                          /\ out[1].id = next - 1 /\ out[1].id \in 1 .. Messages
         /\ next \in Nat /\ next \in 1 .. Messages + 1
         /\ \A m \in sent \cup torn : m \in 1 .. Messages
         /\ Received \subseteq 1 .. Messages
         /\ begun => out # <<>>
<1>1. /\ buf \in Seq(Piece) /\ stream \in Seq(Piece) /\ out \in Seq(Piece)
      /\ next \in 1 .. Messages + 1 /\ delivered \in Seq(1 .. Messages)
      /\ sent \subseteq 1 .. Messages /\ torn \subseteq 1 .. Messages
  BY DEF Inv, TypeOK
<1>2. Wire \in Seq(Piece) /\ Len(Wire) = Len(buf) + Len(stream)
  BY <1>1, ConcatProperties DEF Wire
<1>3. \A x \in 1 .. Len(Wire) :
        /\ Wire[x] \in Piece /\ Wire[x].id \in 1 .. Messages
        /\ Wire[x].id \in Nat /\ Wire[x].at \in Nat /\ Wire[x].of \in Nat
  BY <1>2, ElementOfSeq, PieceFields
<1>4. Len(Wire) \in Nat /\ Len(out) \in Nat BY <1>1, <1>2, LenProperties
<1>5. ASSUME out # <<>>
      PROVE  /\ Len(out) > 0 /\ Head(out) = out[1] /\ out[1] \in Piece
             /\ out[1].id = next - 1 /\ out[1].id \in 1 .. Messages
  <2>1. Len(out) > 0 BY <1>1, <1>5, EmptySeq
  <2>2. 1 \in 1 .. Len(out) BY <1>4, <2>1
  <2>3. out[1] \in Piece BY <1>1, <2>2, ElementOfSeq
  <2>4. out[1].id = next - 1 BY <1>5, <2>2 DEF Inv, OutSound
  <2>5. Head(out) = out[1] BY <1>1, <1>5
  <2> QED BY <2>1, <2>3, <2>4, <2>5, PieceFields
<1>6. Received \subseteq 1 .. Messages
  <2>1. DOMAIN delivered = 1 .. Len(delivered) BY <1>1, LenProperties
  <2> QED BY <1>1, <2>1, ElementOfSeq DEF Received
<1>7. next \in Nat BY <1>1, SizeAssumption
<1>8. begun => out # <<>> BY DEF Inv, OutSound
<1> QED BY <1>1, <1>2, <1>3, <1>4, <1>5, <1>6, <1>7, <1>8

\* What holds after a step that leaves the wire and the messages' fate alone.
LEMMA Quiet ==
  ASSUME Inv, UNCHANGED <<link, stream, buf, closed, sent, delivered>>, torn \subseteq torn'
  PROVE  /\ Wire' = Wire /\ Received' = Received
         /\ InOrder(Wire', Cut')
         /\ \A x \in 1 .. Len(buf') : buf'[x].at # 0
         /\ closed' => buf' = <<>> /\ stream' = <<>>
         /\ \A v \in sent' : Accounted(v)'
<1>1. Wire' = Wire /\ Received' = Received BY DEF Wire, Received
<1>2. Cut \subseteq Cut' BY DEF Cut
<1>3. InOrder(Wire', Cut') BY <1>1, <1>2, MoreCut DEF Inv
<1>4. ASSUME NEW v \in sent PROVE Accounted(v)'
  <2>1. Accounted(v) BY DEF Inv
  <2>2. Swallowed(v) => Swallowed(v)' BY DEF Swallowed
  <2> QED BY <1>1, <2>1, <2>2 DEF Accounted
<1> QED BY <1>1, <1>3, <1>4 DEF Inv

LEMMA InitInv == Init => Inv
<1> SUFFICES ASSUME Init PROVE Inv OBVIOUS
<1>1. Wire = <<>> /\ Len(Wire) = 0 /\ Len(buf) = 0 /\ Len(delivered) = 0 BY DEF Init, Wire
<1>2. Received = {} BY DEF Init, Received
<1>3. TypeOK
  <2>1. <<>> \in Seq(Piece) /\ <<>> \in Seq(1 .. Messages) /\ Len(<<>>) = 0 BY EmptySeq
  <2>2. 1 \in 1 .. Messages + 1 /\ 0 <= Buffer /\ 0 <= Parts BY SizeAssumption
  <2> QED BY <2>1, <2>2 DEF Init, TypeOK
<1>4. InOrder(Wire, Cut) BY <1>1 DEF InOrder
<1>5. OutSound BY DEF Init, OutSound
<1>6. Joint BY <1>1 DEF Init, Joint
<1>7. Traces BY <1>1, <1>2 DEF Init, Traces
<1> QED BY <1>1, <1>3, <1>4, <1>5, <1>6, <1>7 DEF Inv, Init

\* send_json() returns 0, or its process ends.
LEMMA CutShort ==
  ASSUME Inv, UNCHANGED <<link, next, stream, buf, closed, sent, delivered>>,
         {reading', gone', hung'} \subseteq BOOLEAN, gone => gone',
         out' = <<>>, begun' = FALSE,
         torn' = IF begun THEN torn \cup {out[1].id} ELSE torn,
         begun => link = "fromLobby" \/ gone'
  PROVE  Inv'
<1>1. torn \subseteq torn' OBVIOUS
<1>2. /\ Wire' = Wire /\ Received' = Received
      /\ InOrder(Wire', Cut')
      /\ \A x \in 1 .. Len(buf') : buf'[x].at # 0
      /\ closed' => buf' = <<>> /\ stream' = <<>>
      /\ \A v \in sent' : Accounted(v)'
  BY <1>1, Quiet
<1>3. \A m \in sent \cup torn : m < next /\ (out # <<>> => m # next - 1)
  BY DEF Inv, Traces
<1>f. /\ begun => out # <<>> /\ out[1].id = next - 1 /\ out[1].id \in 1 .. Messages
      /\ next \in Nat /\ Len(Wire) \in Nat
  BY InvFacts
<1>4. torn' \subseteq (1 .. Messages) \ sent'
  <2>1. torn \subseteq (1 .. Messages) \ sent BY DEF Inv, TypeOK
  <2>2. begun => out[1].id \notin sent BY <1>3, <1>f
  <2> QED BY <1>f, <2>1, <2>2
<1>5. TypeOK'
  <2>1. <<>> \in Seq(Piece) BY EmptySeq
  <2>2. /\ link \in Links /\ next \in 1 .. Messages + 1
        /\ stream \in Seq(Piece) /\ Len(stream) <= Buffer
        /\ buf \in Seq(Piece) /\ Len(buf) <= Parts /\ closed \in BOOLEAN
        /\ sent \subseteq 1 .. Messages /\ delivered \in Seq(1 .. Messages)
    BY DEF Inv, TypeOK
  <2> QED BY <1>4, <2>1, <2>2 DEF TypeOK
<1>6. OutSound' BY DEF OutSound
<1>7. Joint'
  <2>1. CASE begun
    <3>1. closed \/ (Len(Wire) > 0 /\ Wire[Len(Wire)].id = out[1].id)
      BY <2>1 DEF Inv, Joint, Follows
    <3>2. closed => Len(Wire) = 0
      <4>1. closed => Len(buf) = 0 /\ Len(stream) = 0 BY DEF Inv
      <4> QED BY <4>1, InvFacts
    <3> QED BY <1>2, <2>1, <3>1, <3>2 DEF Joint
  <2>2. CASE ~begun BY <1>2, <2>2 DEF Inv, Joint
  <2> QED BY <2>1, <2>2
<1>8. Traces'
  <2>1. \A m \in sent' \cup torn' : m < next'
    <3>1. begun => out[1].id < next BY <1>f
    <3> QED BY <1>3, <3>1
  <2>2. torn' = {} \/ link' = "fromLobby" \/ gone' BY DEF Inv, Traces
  <2>3. ASSUME NEW x \in 1 .. Len(Wire)
        PROVE  /\ Wire[x].id \in sent' \cup torn'
               /\ Wire[x].at = 0 => Wire[x].id \in sent'
    <3>1. /\ Wire[x].id \in sent \cup torn \/ (begun /\ Wire[x].id = next - 1)
          /\ Wire[x].at = 0 => Wire[x].id \in sent
      BY DEF Inv, Traces
    <3> QED BY <1>f, <3>1
  <2>4. /\ Received \subseteq sent \cup torn
        /\ \A d \in Received : \A x \in 1 .. Len(Wire) : d < Wire[x].id
        /\ \A i, j \in 1 .. Len(delivered) : i < j => delivered[i] < delivered[j]
    BY DEF Inv, Traces
  <2> QED BY <1>2, <2>1, <2>2, <2>3, <2>4 DEF Traces
<1> QED BY <1>2, <1>5, <1>6, <1>7, <1>8 DEF Inv

\* send_json() is called.
LEMMA SendInv == Inv /\ Send => Inv'
<1> SUFFICES ASSUME Inv, Send PROVE Inv' OBVIOUS
<1>0. /\ out = <<>> /\ next <= Messages /\ ~gone /\ next' = next + 1
      /\ UNCHANGED <<link, begun, stream, buf, reading, closed, gone, hung, sent, torn, delivered>>
  BY DEF Send
<1>1. PICK n \in 1 .. Parts : out' = Append(Text(next, n), End(next, n)) BY DEF Send
<1>2. /\ Wire' = Wire /\ Received' = Received
      /\ InOrder(Wire', Cut')
      /\ \A x \in 1 .. Len(buf') : buf'[x].at # 0
      /\ closed' => buf' = <<>> /\ stream' = <<>>
      /\ \A v \in sent' : Accounted(v)'
  BY <1>0, Quiet
<1>3. next \in 1 .. Messages + 1 /\ next \in Nat BY InvFacts
<1>4. next \in 1 .. Messages /\ n \in Nat /\ n \in 1 .. Parts /\ n >= 1 BY <1>0, <1>3, SizeAssumption
<1>5. \A j \in 1 .. n : [id |-> next, at |-> j, of |-> n] \in Piece
  BY <1>4, SizeAssumption DEF Piece
<1>6. Text(next, n) \in Seq(Piece) /\ Len(Text(next, n)) = n
      /\ \A j \in 1 .. n : Text(next, n)[j] = [id |-> next, at |-> j, of |-> n]
  BY <1>4, <1>5 DEF Text
<1>7. End(next, n) \in Piece BY <1>4, SizeAssumption DEF End, Piece
<1>8. /\ out' \in Seq(Piece) /\ out' # <<>> /\ Len(out') = n + 1
      /\ \A j \in 1 .. n : out'[j] = [id |-> next, at |-> j, of |-> n]
      /\ out'[n + 1] = [id |-> next, at |-> 0, of |-> n]
  BY <1>1, <1>6, <1>7, AppendProperties DEF End
<1>9. ~begun BY <1>0 DEF Inv, OutSound
<1>10. OutSound'
  <2>1. ASSUME NEW i \in 1 .. Len(out') PROVE out'[i].id = next' - 1
    <3>1. next' - 1 = next BY <1>0, <1>3
    <3>2. i \in 1 .. n \/ i = n + 1 BY <1>4, <1>8
    <3>3. CASE i \in 1 .. n
      <4>1. out'[i] = [id |-> next, at |-> i, of |-> n] BY <1>8, <3>3
      <4> QED BY <3>1, <4>1
    <3>4. CASE i = n + 1
      <4>1. out'[i] = [id |-> next, at |-> 0, of |-> n] BY <1>8, <3>4
      <4> QED BY <3>1, <4>1
    <3> QED BY <3>2, <3>3, <3>4
  <2>2. ASSUME NEW i \in 1 .. Len(out') - 1 PROVE Follows(out'[i], out'[i + 1])
    <3>1. i \in 1 .. n BY <1>4, <1>8
    <3>2. out'[i] = [id |-> next, at |-> i, of |-> n] BY <1>8, <3>1
    <3>3. CASE i = n BY <1>4, <1>8, <3>2, <3>3 DEF Follows
    <3>4. CASE i # n
      <4>1. i + 1 \in 1 .. n BY <1>4, <3>1, <3>4
      <4>2. out'[i + 1] = [id |-> next, at |-> i + 1, of |-> n] BY <1>8, <4>1
      <4> QED BY <1>4, <3>1, <3>2, <3>4, <4>2 DEF Follows
    <3> QED BY <3>3, <3>4
  <2>3. out'[Len(out')].at = 0 BY <1>8
  <2>4. out'[1].at = 1
    <3>1. 1 \in 1 .. n BY <1>4
    <3>2. out'[1] = [id |-> next, at |-> 1, of |-> n] BY <1>8, <3>1
    <3> QED BY <3>2
  <2>5. ~gone' /\ next' > 1 BY <1>0, <1>3
  <2> QED BY <1>8, <2>1, <2>2, <2>3, <2>4, <2>5 DEF OutSound
<1>11. TypeOK'
  <2>1. next' \in 1 .. Messages + 1 BY <1>0, <1>3, SizeAssumption
  <2>2. TypeOK BY DEF Inv
  <2> QED BY <1>0, <1>8, <2>1, <2>2 DEF TypeOK
<1>12. Joint' BY <1>0, <1>2, <1>9 DEF Inv, Joint
<1>13. Traces'
  <2>1. ASSUME NEW m \in sent \cup torn PROVE m < next' /\ m # next' - 1
    <3>1. m < next /\ m \in 1 .. Messages BY InvFacts DEF Inv, Traces
    <3>2. m \in Nat BY <3>1, SizeAssumption
    <3> QED BY <1>0, <1>3, <3>1, <3>2
  <2> QED BY <1>0, <1>2, <1>9, <2>1 DEF Inv, Traces
<1> QED BY <1>2, <1>10, <1>11, <1>12, <1>13 DEF Inv

\* The next piece goes on the wire.
LEMMA PutFits ==
  ASSUME Inv, out # <<>>, ~closed, stream' = Append(stream, Head(out)), UNCHANGED <<link, buf, torn>>,
         Room > 0
  PROVE  /\ Wire' = Append(Wire, out[1]) /\ InOrder(Wire', Cut')
         /\ Wire' \in Seq(Piece) /\ Len(Wire') = Len(Wire) + 1 /\ Wire'[Len(Wire) + 1] = out[1]
         /\ \A x \in 1 .. Len(Wire) : Wire'[x] = Wire[x] /\ (Wire[x].id = next - 1 => begun)
         /\ out[1].at = 0 => begun
         /\ \A x \in 1 .. Len(Wire) : Wire[x].id <= next - 1
         /\ stream' \in Seq(Piece) /\ Len(stream') <= Buffer
<1>0. /\ Wire \in Seq(Piece) /\ Len(Wire) \in Nat /\ Head(out) = out[1] /\ out[1] \in Piece
      /\ out[1].id = next - 1 /\ next \in Nat /\ 1 \in 1 .. Len(out)
      /\ \A x \in 1 .. Len(Wire) : Wire[x].id \in Nat
  BY InvFacts
<1>1. buf \in Seq(Piece) /\ stream \in Seq(Piece) /\ Len(stream) \in Nat /\ Len(stream) <= Buffer
  BY LenProperties DEF Inv, TypeOK
<1>2. Wire' = Append(Wire, out[1])
  <2>1. Append(stream, out[1]) = stream \o <<out[1]>> BY <1>0, <1>1, AppendIsConcat
  <2>2. Append(Wire, out[1]) = Wire \o <<out[1]>> BY <1>0, AppendIsConcat
  <2>3. <<out[1]>> \in Seq(Piece) BY <1>0
  <2>4. (buf \o stream) \o <<out[1]>> = buf \o (stream \o <<out[1]>>)
    BY <1>1, <2>3, ConcatAssociative
  <2> QED BY <1>0, <2>1, <2>2, <2>4 DEF Wire
<1>3. /\ Wire' \in Seq(Piece) /\ Len(Wire') = Len(Wire) + 1 /\ Wire'[Len(Wire) + 1] = out[1]
      /\ \A x \in 1 .. Len(Wire) : Wire'[x] = Wire[x]
  BY <1>0, <1>2, AppendProperties
<1>4. stream' \in Seq(Piece) /\ Len(stream') <= Buffer
  <2>1. Len(stream') = Len(stream) + 1 /\ stream' \in Seq(Piece) BY <1>0, <1>1, AppendProperties
  <2>2. Len(stream) + 1 <= Buffer BY <1>1, SizeAssumption DEF Room
  <2> QED BY <2>1, <2>2
<1>5. Cut' = Cut BY DEF Cut
<1>6. CASE begun
  <2>1. Len(Wire) > 0 /\ Follows(Wire[Len(Wire)], out[1]) BY <1>6 DEF Inv, Joint
  <2>2. InOrder(Wire', Cut') BY <1>0, <1>2, <1>5, <2>1, AppendInOrder DEF Inv
  <2>3. ASSUME NEW x \in 1 .. Len(Wire) PROVE Wire[x].id <= next - 1
    <3>1. Len(Wire) \in 1 .. Len(Wire) /\ x <= Len(Wire) BY <1>0, <2>1
    <3>2. Wire[x].id <= Wire[Len(Wire)].id BY <3>1 DEF Inv, InOrder
    <3>3. Wire[Len(Wire)].id = out[1].id BY <2>1 DEF Follows
    <3> QED BY <1>0, <3>2, <3>3
  <2> QED BY <1>2, <1>3, <1>4, <1>6, <2>2, <2>3
<1>7. CASE ~begun
  <2>1. out[1].at = 1 /\ ~gone BY <1>7 DEF Inv, OutSound
  <2>2. \A x \in 1 .. Len(Wire) : Wire[x].id < next - 1
    <3>1. ASSUME NEW x \in 1 .. Len(Wire) PROVE Wire[x].id < next - 1
      <4>1. Wire[x].id \in sent \cup torn BY <1>7 DEF Inv, Traces
      <4>2. Wire[x].id < next /\ Wire[x].id # next - 1 BY <4>1 DEF Inv, Traces
      <4> QED BY <1>0, <4>2
    <3> QED BY <3>1
  <2>3. Len(Wire) > 0 => Begins(Wire[Len(Wire)], out[1], Cut)
    <3>1. ASSUME Len(Wire) > 0 PROVE Begins(Wire[Len(Wire)], out[1], Cut)
      <4>1. Len(Wire) \in 1 .. Len(Wire) BY <1>0, <3>1
      <4>2. Wire[Len(Wire)].id < out[1].id BY <1>0, <2>2, <4>1
      <4>3. Wire[Len(Wire)].at = 0 \/ Wire[Len(Wire)].id \in Cut
        BY <1>7, <2>1, <3>1 DEF Inv, Joint, Cut
      <4> QED BY <2>1, <4>2, <4>3 DEF Begins
    <3> QED BY <3>1
  <2>4. InOrder(Wire', Cut') BY <1>0, <1>2, <1>5, <2>1, <2>3, AppendInOrder DEF Inv
  <2>5. \A x \in 1 .. Len(Wire) : Wire[x].id <= next - 1 /\ Wire[x].id # next - 1 BY <1>0, <2>2
  <2> QED BY <1>2, <1>3, <1>4, <1>7, <2>1, <2>4, <2>5
<1> QED BY <1>6, <1>7

LEMMA WriteInv == Inv /\ Write => Inv'
<1> SUFFICES ASSUME Inv, Write PROVE Inv' OBVIOUS
<1>0. /\ out # <<>> /\ Head(out).at # 0 /\ ~closed /\ Room > 0
      /\ stream' = Append(stream, Head(out)) /\ out' = Tail(out) /\ begun' = TRUE
      /\ UNCHANGED <<link, next, buf, reading, closed, gone, hung, sent, torn, delivered>>
  BY DEF Write, IsEnd
<1>1. /\ Wire' = Append(Wire, out[1]) /\ InOrder(Wire', Cut')
      /\ Wire' \in Seq(Piece) /\ Len(Wire') = Len(Wire) + 1 /\ Wire'[Len(Wire) + 1] = out[1]
      /\ \A x \in 1 .. Len(Wire) : Wire'[x] = Wire[x] /\ (Wire[x].id = next - 1 => begun)
      /\ stream' \in Seq(Piece) /\ Len(stream') <= Buffer
  BY <1>0, PutFits
<1>2. /\ out \in Seq(Piece) /\ Len(out) \in Nat /\ Len(out) > 0 /\ Head(out) = out[1]
      /\ out[1].id = next - 1 /\ Len(Wire) \in Nat /\ next \in Nat
  BY <1>0, InvFacts
<1>3. /\ out' \in Seq(Piece) /\ Len(out') = Len(out) - 1
      /\ \A i \in 1 .. Len(out) - 1 : out'[i] = out[i + 1]
  BY <1>0, <1>2, HeadTailProperties
<1>o. /\ ~gone /\ next > 1 /\ out[Len(out)].at = 0
      /\ \A i \in 1 .. Len(out) : out[i].id = next - 1
      /\ \A i \in 1 .. Len(out) - 1 : Follows(out[i], out[i + 1])
  BY <1>0 DEF Inv, OutSound
<1>4. Len(out) > 1
  <2>1. Len(out) # 1 BY <1>0, <1>2, <1>o
  <2>2. Len(out) \in Nat /\ Len(out) > 0 BY <1>2
  <2>3. \A k \in Nat : k > 0 /\ k # 1 => k > 1 OBVIOUS
  <2> QED BY <2>1, <2>2, <2>3
<1>5. out' # <<>> BY <1>2, <1>3, <1>4
<1>6. OutSound'
  <2>1. \A i \in 1 .. Len(out') : out'[i].id = next' - 1
    <3>1. ASSUME NEW i \in 1 .. Len(out) - 1 PROVE out'[i].id = next - 1
      <4>1. i + 1 \in 1 .. Len(out) BY <1>2
      <4> QED BY <1>3, <1>o, <4>1
    <3> QED BY <1>0, <1>3, <3>1
  <2>2. \A i \in 1 .. Len(out') - 1 : Follows(out'[i], out'[i + 1])
    <3>1. ASSUME NEW i \in 1 .. Len(out) - 1 - 1 PROVE Follows(out'[i], out'[i + 1])
      <4>1. /\ i \in 1 .. Len(out) - 1 /\ i + 1 \in 1 .. Len(out) - 1 BY <1>2
      <4>2. out'[i] = out[i + 1] /\ out'[i + 1] = out[i + 1 + 1] BY <1>3, <4>1
      <4> QED BY <1>o, <4>1, <4>2
    <3> QED BY <1>3, <3>1
  <2>3. out'[Len(out')].at = 0
    <3>1. Len(out) - 1 \in 1 .. Len(out) - 1 /\ Len(out) - 1 + 1 = Len(out) BY <1>2, <1>4
    <3>2. out'[Len(out) - 1] = out[Len(out)] BY <1>3, <3>1
    <3> QED BY <1>3, <1>o, <3>2
  <2> QED BY <1>0, <1>5, <1>o, <2>1, <2>2, <2>3 DEF OutSound
<1>7. TypeOK'
  <2>1. TypeOK BY DEF Inv
  <2> QED BY <1>0, <1>1, <1>3, <2>1 DEF TypeOK
<1>8. Joint'
  <2>1. 1 \in 1 .. Len(out) - 1 /\ 1 + 1 = 2 BY <1>2, <1>4
  <2>2. Follows(out[1], out'[1]) BY <1>3, <1>o, <2>1
  <2>3. Wire'[Len(Wire')] = out[1] /\ Len(Wire') > 0 BY <1>1, <1>2
  <2> QED BY <1>0, <2>2, <2>3 DEF Joint
<1>9. Received' = Received BY <1>0 DEF Received
<1>10. Traces'
  <2>1. \A m \in sent \cup torn : m < next' /\ (out' # <<>> => m # next' - 1)
    BY <1>0 DEF Inv, Traces
  <2>2. torn' = {} \/ link' = "fromLobby" \/ gone' BY <1>0 DEF Inv, Traces
  <2>3. ASSUME NEW x \in 1 .. Len(Wire')
        PROVE  /\ Wire'[x].id \in sent' \cup torn' \/ (begun' /\ Wire'[x].id = next' - 1)
               /\ Wire'[x].at = 0 => Wire'[x].id \in sent'
    <3>1. CASE x \in 1 .. Len(Wire)
      <4>1. /\ Wire[x].id \in sent \cup torn \/ (begun /\ Wire[x].id = next - 1)
            /\ Wire[x].at = 0 => Wire[x].id \in sent
        BY <3>1 DEF Inv, Traces
      <4> QED BY <1>0, <1>1, <3>1, <4>1
    <3>2. CASE x = Len(Wire) + 1 BY <1>0, <1>1, <1>2, <3>2
    <3> QED BY <1>1, <1>2, <3>1, <3>2
  <2>4. ASSUME NEW d \in Received, NEW x \in 1 .. Len(Wire') PROVE d < Wire'[x].id
    <3>1. CASE x \in 1 .. Len(Wire)
      <4>1. d < Wire[x].id BY <3>1 DEF Inv, Traces
      <4> QED BY <1>1, <3>1, <4>1
    <3>2. CASE x = Len(Wire) + 1
      <4>1. d \in sent \cup torn BY DEF Inv, Traces
      <4>2. d < next /\ d # next - 1 BY <1>0, <4>1 DEF Inv, Traces
      <4>3. d \in Nat BY InvFacts, SizeAssumption
      <4>4. d < next - 1 BY <1>2, <4>2, <4>3
      <4> QED BY <1>1, <1>2, <3>2, <4>4
    <3> QED BY <1>1, <1>2, <3>1, <3>2
  <2>5. /\ Received \subseteq sent \cup torn
        /\ \A i, j \in 1 .. Len(delivered) : i < j => delivered[i] < delivered[j]
    BY DEF Inv, Traces
  <2> QED BY <1>0, <1>9, <2>1, <2>2, <2>3, <2>4, <2>5 DEF Traces
<1>11. ASSUME NEW v \in sent PROVE Accounted(v)'
  <2>0. Accounted(v) BY DEF Inv
  <2>1. CASE v \in Received BY <1>9, <2>1 DEF Accounted
  <2>2. ASSUME NEW x \in 1 .. Len(Wire), Wire[x].at = 0, Wire[x].id = v PROVE Accounted(v)'
    <3>1. x \in 1 .. Len(Wire') /\ Wire'[x] = Wire[x] BY <1>1, <1>2
    <3> QED BY <2>2, <3>1 DEF Accounted
  <2>3. CASE Swallowed(v) /\ \A x \in 1 .. Len(Wire) : v < Wire[x].id
    <3>1. Swallowed(v)' BY <1>0, <2>3 DEF Swallowed
    <3>2. v < next - 1
      <4>1. v < next /\ v # next - 1 BY <1>0 DEF Inv, Traces
      <4>2. v \in Nat BY InvFacts, SizeAssumption
      <4> QED BY <1>2, <4>1, <4>2
    <3>3. ASSUME NEW x \in 1 .. Len(Wire') PROVE v < Wire'[x].id
      <4>1. CASE x \in 1 .. Len(Wire) BY <1>1, <2>3, <4>1
      <4>2. CASE x = Len(Wire) + 1 BY <1>1, <1>2, <3>2, <4>2
      <4> QED BY <1>1, <1>2, <4>1, <4>2
    <3> QED BY <3>1, <3>3 DEF Accounted
  <2> QED BY <1>0, <2>0, <2>1, <2>2, <2>3 DEF Accounted
<1>12. \A x \in 1 .. Len(buf') : buf'[x].at # 0 BY <1>0 DEF Inv
<1> QED BY <1>0, <1>1, <1>6, <1>7, <1>8, <1>10, <1>11, <1>12 DEF Inv

\* The terminator goes on the wire: send_json() returns 1.
LEMMA TerminatedInv ==
  ASSUME Inv, out # <<>>, Head(out).at = 0, ~closed, Room > 0,
         stream' = Append(stream, Head(out)), out' = <<>>, begun' = FALSE,
         sent' = sent \cup {Head(out).id},
         UNCHANGED <<link, next, buf, reading, closed, gone, hung, torn, delivered>>
  PROVE  Inv'
<1>1. /\ Wire' = Append(Wire, out[1]) /\ InOrder(Wire', Cut')
      /\ Wire' \in Seq(Piece) /\ Len(Wire') = Len(Wire) + 1 /\ Wire'[Len(Wire) + 1] = out[1]
      /\ \A x \in 1 .. Len(Wire) : Wire'[x] = Wire[x]
      /\ \A x \in 1 .. Len(Wire) : Wire[x].id <= next - 1
      /\ stream' \in Seq(Piece) /\ Len(stream') <= Buffer
  BY PutFits
<1>2. /\ Head(out) = out[1] /\ out[1].id = next - 1 /\ Len(Wire) \in Nat /\ next \in Nat
      /\ out[1].id \in 1 .. Messages
  BY InvFacts
<1>3. sent' = sent \cup {next - 1} /\ out[1].at = 0 BY <1>2
<1>4. \A m \in sent \cup torn : m \in Nat /\ m < next - 1
  <2>1. ASSUME NEW m \in sent \cup torn PROVE m \in Nat /\ m < next - 1
    <3>1. m < next /\ m # next - 1 BY DEF Inv, Traces
    <3>2. m \in Nat BY InvFacts, SizeAssumption
    <3> QED BY <1>2, <3>1, <3>2
  <2> QED BY <2>1
<1>5. TypeOK'
  <2>1. TypeOK BY DEF Inv
  <2>2. torn \subseteq (1 .. Messages) \ sent' BY <1>2, <1>3, <1>4, <2>1 DEF TypeOK
  <2>3. <<>> \in Seq(Piece) BY EmptySeq
  <2>4. sent' \subseteq 1 .. Messages BY <1>2, <2>1 DEF TypeOK
  <2>5. UNCHANGED <<link, next, buf, reading, closed, gone, hung, torn, delivered>> OBVIOUS
  <2> QED BY <1>1, <2>1, <2>2, <2>3, <2>4, <2>5 DEF TypeOK
<1>6. OutSound' BY DEF OutSound
<1>7. Joint'
  <2>1. Wire'[Len(Wire')].at = 0 BY <1>1, <1>3
  <2> QED BY <2>1 DEF Joint
<1>8. Received' = Received BY DEF Received
<1>9. Traces'
  <2>1. \A m \in sent' \cup torn' : m < next'
    <3>1. next - 1 < next BY <1>2
    <3>2. \A m \in sent \cup torn : m < next BY DEF Inv, Traces
    <3> QED BY <1>3, <3>1, <3>2
  <2>2. torn' = {} \/ link' = "fromLobby" \/ gone' BY DEF Inv, Traces
  <2>3. ASSUME NEW x \in 1 .. Len(Wire')
        PROVE  /\ Wire'[x].id \in sent' \cup torn'
               /\ Wire'[x].at = 0 => Wire'[x].id \in sent'
    <3>1. CASE x \in 1 .. Len(Wire)
      <4>1. /\ Wire[x].id \in sent \cup torn \/ (begun /\ Wire[x].id = next - 1)
            /\ Wire[x].at = 0 => Wire[x].id \in sent
        BY <3>1 DEF Inv, Traces
      <4> QED BY <1>1, <1>3, <3>1, <4>1
    <3>2. CASE x = Len(Wire) + 1 BY <1>1, <1>2, <1>3, <3>2
    <3> QED BY <1>1, <1>2, <3>1, <3>2
  <2>4. ASSUME NEW d \in Received, NEW x \in 1 .. Len(Wire') PROVE d < Wire'[x].id
    <3>1. CASE x \in 1 .. Len(Wire)
      <4>1. d < Wire[x].id BY <3>1 DEF Inv, Traces
      <4> QED BY <1>1, <3>1, <4>1
    <3>2. CASE x = Len(Wire) + 1
      <4>1. d \in sent \cup torn BY DEF Inv, Traces
      <4> QED BY <1>1, <1>2, <1>4, <3>2, <4>1
    <3> QED BY <1>1, <1>2, <3>1, <3>2
  <2>5. /\ Received \subseteq sent' \cup torn'
        /\ \A i, j \in 1 .. Len(delivered) : i < j => delivered[i] < delivered[j]
    BY <1>3 DEF Inv, Traces
  <2> QED BY <1>8, <2>1, <2>2, <2>3, <2>4, <2>5 DEF Traces
<1>10. ASSUME NEW v \in sent PROVE Accounted(v)'
  <2>0. Accounted(v) BY DEF Inv
  <2>1. CASE v \in Received BY <1>8, <2>1 DEF Accounted
  <2>2. ASSUME NEW x \in 1 .. Len(Wire), Wire[x].at = 0, Wire[x].id = v PROVE Accounted(v)'
    <3>1. x \in 1 .. Len(Wire') /\ Wire'[x] = Wire[x] BY <1>1, <1>2
    <3> QED BY <2>2, <3>1 DEF Accounted
  <2>3. CASE Swallowed(v) /\ \A x \in 1 .. Len(Wire) : v < Wire[x].id
    <3>1. v < next - 1 /\ v \in Nat BY <1>4
    <3>2. Swallowed(v)'
      <4>1. PICK t \in torn : t < v /\ \A u \in sent : ~(t < u /\ u < v) BY <2>3 DEF Swallowed
      <4>2. ~(next - 1 < v) BY <1>2, <3>1
      <4>3. \A u \in sent' : ~(t < u /\ u < v) BY <1>3, <4>1, <4>2
      <4> QED BY <2>3, <4>1, <4>3 DEF Swallowed
    <3>3. ASSUME NEW x \in 1 .. Len(Wire') PROVE v < Wire'[x].id
      <4>1. CASE x \in 1 .. Len(Wire) BY <1>1, <2>3, <4>1
      <4>2. CASE x = Len(Wire) + 1 BY <1>1, <1>2, <3>1, <4>2
      <4> QED BY <1>1, <1>2, <4>1, <4>2
    <3> QED BY <3>2, <3>3 DEF Accounted
  <2> QED BY <2>0, <2>1, <2>2, <2>3 DEF Accounted
<1>11. Accounted(next - 1)'
  <2>1. Len(Wire) + 1 \in 1 .. Len(Wire') BY <1>1, <1>2
  <2>2. \E x \in 1 .. Len(Wire') : Wire'[x].at = 0 /\ Wire'[x].id = next - 1
    BY <1>1, <1>2, <1>3, <2>1
  <2> QED BY <2>2 DEF Accounted
<1>12. \A v \in sent' : Accounted(v)' BY <1>3, <1>10, <1>11
<1>13. \A x \in 1 .. Len(buf') : buf'[x].at # 0 BY DEF Inv
<1> QED BY <1>1, <1>5, <1>6, <1>7, <1>9, <1>12, <1>13 DEF Inv

LEMMA TerminateInv == Inv /\ Terminate => Inv'
<1> SUFFICES ASSUME Inv, Terminate PROVE Inv' OBVIOUS
<1>0. /\ out # <<>> /\ Head(out).at = 0 /\ ~closed
      /\ UNCHANGED <<link, next, buf, reading, closed, gone, hung, delivered>>
  BY DEF Terminate, IsEnd
<1>1. Head(out) = out[1] BY <1>0, InvFacts
<1>2. CASE Room > 0 /\ stream' = Append(stream, Head(out)) /\ Returns(FALSE)
  BY <1>0, <1>2, TerminatedInv DEF Returns
<1>3. CASE Room = 0 /\ ~WriterWaits /\ Returns(TRUE) /\ UNCHANGED stream
  <2>1. link = "fromLobby" BY <1>3 DEF WriterWaits
  <2>2. /\ out' = <<>> /\ begun' = FALSE /\ sent' = sent
        /\ torn' = IF begun THEN torn \cup {out[1].id} ELSE torn
    BY <1>1, <1>3 DEF Returns
  <2>3. {reading', gone', hung'} \subseteq BOOLEAN BY <1>0 DEF Inv, TypeOK
  <2> QED BY <1>0, <1>3, <2>1, <2>2, <2>3, CutShort
<1> QED BY <1>2, <1>3 DEF Terminate

\* send_json() gives up, or fails; or the sender's process ends.
LEMMA GivesUpInv == Inv /\ (GiveUp \/ Fail \/ Die) => Inv'
<1> SUFFICES ASSUME Inv, GiveUp \/ Fail \/ Die PROVE Inv' OBVIOUS
<1>b. {reading, gone, hung} \subseteq BOOLEAN BY DEF Inv, TypeOK
<1>h. begun => out # <<>> BY InvFacts
<1>o. out # <<>> => Head(out) = out[1] BY InvFacts
<1>1. CASE GiveUp
  <2>1. /\ out' = <<>> /\ begun' = FALSE /\ sent' = sent
        /\ torn' = IF begun THEN torn \cup {out[1].id} ELSE torn
        /\ UNCHANGED <<link, next, stream, buf, reading, closed, gone, hung, delivered>>
    BY <1>1, <1>o DEF GiveUp, Returns
  <2>2. begun => link = "fromLobby" BY <1>1 DEF GiveUp, Patient, WriterWaits
  <2>3. {reading', gone', hung'} \subseteq BOOLEAN BY <1>b, <2>1
  <2> QED BY <2>1, <2>2, <2>3, CutShort
<1>2. CASE Fail
  <2>1. /\ out' = <<>> /\ begun' = FALSE /\ sent' = sent
        /\ torn' = IF begun THEN torn \cup {out[1].id} ELSE torn
        /\ UNCHANGED <<link, next, stream, buf, reading, closed, hung, delivered>>
        /\ gone' = (gone \/ WriterWaits)
    BY <1>2, <1>o DEF Fail, Returns
  <2>2. link = "fromLobby" \/ gone' BY <2>1 DEF WriterWaits
  <2>3. {reading', gone', hung'} \subseteq BOOLEAN BY <1>b, <2>1 DEF WriterWaits
  <2> QED BY <2>1, <2>2, <2>3, CutShort
<1>3. CASE Die
  <2>1. /\ out' = <<>> /\ begun' = FALSE /\ sent' = sent /\ gone'
        /\ torn' = IF begun THEN torn \cup {out[1].id} ELSE torn
        /\ UNCHANGED <<link, next, stream, buf, reading, closed, hung, delivered>>
    BY <1>3, <1>h, <1>o DEF Die
  <2>2. gone' = TRUE BY <1>3 DEF Die
  <2>3. {reading', gone', hung'} \subseteq BOOLEAN BY <1>b, <2>1, <2>2
  <2> QED BY <2>1, <2>3, CutShort
<1> QED BY <1>1, <1>2, <1>3

\* recv_json() returns 0.
LEMMA CloseInv == Inv /\ ~closed /\ Close => Inv'
<1> SUFFICES ASSUME Inv, ~closed, Close PROVE Inv' OBVIOUS
<1>0. /\ closed' = TRUE /\ reading' = FALSE /\ stream' = <<>> /\ buf' = <<>>
      /\ UNCHANGED <<link, next, out, begun, gone, hung, sent, torn, delivered>>
  BY DEF Close
<1>1. Wire' = <<>> /\ Len(Wire') = 0 /\ Len(buf') = 0 /\ Received' = Received
  BY <1>0 DEF Wire, Received
<1>2. TypeOK'
  <2>1. <<>> \in Seq(Piece) /\ Len(<<>>) = 0 BY EmptySeq
  <2>2. 0 <= Buffer /\ 0 <= Parts BY SizeAssumption
  <2>3. TypeOK BY DEF Inv
  <2> QED BY <1>0, <2>1, <2>2, <2>3 DEF TypeOK
<1>3. InOrder(Wire', Cut') BY <1>1 DEF InOrder
<1>4. OutSound' BY <1>0 DEF Inv, OutSound
<1>5. Joint' BY <1>0, <1>1 DEF Joint
<1>6. Traces'
  <2>1. \A x \in 1 .. Len(Wire') : FALSE BY <1>1
  <2> QED BY <1>0, <1>1, <2>1 DEF Inv, Traces
<1>7. ASSUME NEW v \in sent PROVE Accounted(v)'
  <2>0. Accounted(v) BY DEF Inv
  <2>1. \A x \in 1 .. Len(Wire') : FALSE BY <1>1
  <2>2. CASE v \in Received BY <1>1, <2>2 DEF Accounted
  <2>3. ASSUME NEW x \in 1 .. Len(Wire), Wire[x].id = v PROVE Accounted(v)'
    <3>1. \A d \in Received : d < v BY <2>3 DEF Inv, Traces
    <3> QED BY <1>0, <1>1, <3>1 DEF Accounted
  <2>4. CASE Swallowed(v)
    <3>1. Swallowed(v)' BY <1>0, <2>4 DEF Swallowed
    <3> QED BY <2>1, <3>1 DEF Accounted
  <2> QED BY <2>0, <2>2, <2>3, <2>4 DEF Accounted
<1> QED BY <1>0, <1>1, <1>2, <1>3, <1>4, <1>5, <1>6, <1>7 DEF Inv

\* recv_json() has read to the end of a message, which is at j of the wire.
LEMMA DeliveredInv ==
  ASSUME Inv, ~closed, NEW j \in 1 .. Len(Wire), Wire[j].at = 0,
         \A x \in 1 .. j - 1 : Wire[x].at # 0,
         Wire' = SubSeq(Wire, j + 1, Len(Wire)), buf' = <<>>, reading' = FALSE,
         stream' \in Seq(Piece), Len(stream') <= Buffer,
         delivered' = Append(delivered, Wire[1].id),
         UNCHANGED <<link, next, out, begun, closed, gone, hung, sent, torn>>
  PROVE  Inv'
<1>0. /\ Wire \in Seq(Piece) /\ Len(Wire) \in Nat /\ next \in Nat
      /\ \A x \in 1 .. Len(Wire) : /\ Wire[x].id \in 1 .. Messages /\ Wire[x].id \in Nat
                                   /\ Wire[x].at \in Nat /\ Wire[x].of \in Nat
      /\ \A m \in sent \cup torn : m \in 1 .. Messages
      /\ Received \subseteq 1 .. Messages
  BY InvFacts
<1>n. \A m \in 1 .. Messages : m \in Nat BY SizeAssumption
<1>1. /\ Wire' \in Seq(Piece) /\ InOrder(Wire', Cut) /\ Len(Wire') = Len(Wire) - j
      /\ \A x \in 1 .. Len(Wire') : Wire'[x] = Wire[j + x] /\ Wire[j].id < Wire'[x].id
  <2> DEFINE V == SubSeq(Wire, j + 1, Len(Wire))
  <2>1. InOrder(Wire, Cut) BY DEF Inv
  <2>2. /\ V \in Seq(Piece) /\ InOrder(V, Cut) /\ Len(V) = Len(Wire) - j
        /\ \A x \in 1 .. Len(V) : V[x] = Wire[j + x] /\ Wire[j].id < V[x].id
    BY <1>0, <2>1, CutInOrder, ZenonT(60)
  <2>3. Wire' = V OBVIOUS
  <2> HIDE DEF V
  <2> QED BY <2>2, <2>3
<1>2. 1 \in 1 .. Len(Wire) /\ 1 <= j /\ \A x \in 1 .. Len(Wire') : j + x \in 1 .. Len(Wire)
  BY <1>0, <1>1
<1>3. Wire[1].id <= Wire[j].id BY <1>2 DEF Inv, InOrder
<1>4. \A x \in 1 .. Len(Wire') : Wire[1].id < Wire'[x].id
  <2>1. ASSUME NEW x \in 1 .. Len(Wire') PROVE Wire[1].id < Wire'[x].id
    <3>1. Wire[j].id < Wire[j + x].id /\ Wire'[x] = Wire[j + x] BY <1>1
    <3>2. Wire[1].id \in Nat /\ Wire[j].id \in Nat /\ Wire[j + x].id \in Nat BY <1>0, <1>2
    <3>3. \A a, b, c \in Nat : a <= b /\ b < c => a < c OBVIOUS
    <3>4. Wire[1].id < Wire[j + x].id BY <1>3, <3>1, <3>2, <3>3
    <3> QED BY <3>1, <3>4
  <2> QED BY <2>1
<1>5. /\ Received' = Received \cup {Wire[1].id}
      /\ delivered' \in Seq(1 .. Messages) /\ Len(delivered') = Len(delivered) + 1
      /\ Len(delivered) \in Nat /\ delivered'[Len(delivered) + 1] = Wire[1].id
      /\ \A i \in 1 .. Len(delivered) : delivered'[i] = delivered[i] /\ delivered[i] \in Received
  <2>1. delivered \in Seq(1 .. Messages) BY DEF Inv, TypeOK
  <2>2. Wire[1].id \in 1 .. Messages BY <1>0, <1>2
  <2>3. /\ delivered' \in Seq(1 .. Messages) /\ Len(delivered') = Len(delivered) + 1
        /\ \A i \in 1 .. Len(delivered) : delivered'[i] = delivered[i]
        /\ delivered'[Len(delivered) + 1] = Wire[1].id
    BY <2>1, <2>2, AppendProperties
  <2>4. /\ Len(delivered) \in Nat /\ DOMAIN delivered = 1 .. Len(delivered)
        /\ DOMAIN delivered' = 1 .. Len(delivered')
    BY <2>1, <2>3, LenProperties
  <2>5. \A i \in 1 .. Len(delivered) : delivered[i] \in Received BY <2>4 DEF Received
  <2>6. ASSUME NEW d \in Received' PROVE d \in Received \cup {Wire[1].id}
    <3>1. PICK i \in 1 .. Len(delivered) + 1 : d = delivered'[i] BY <2>3, <2>4 DEF Received
    <3>2. CASE i \in 1 .. Len(delivered) BY <2>3, <2>5, <3>1, <3>2
    <3>3. CASE i = Len(delivered) + 1 BY <2>3, <3>1, <3>3
    <3> QED BY <2>4, <3>2, <3>3
  <2>7. Received \subseteq Received'
    <3>1. ASSUME NEW d \in Received PROVE d \in Received'
      <4>1. PICK i \in 1 .. Len(delivered) : d = delivered[i] BY <2>4 DEF Received
      <4>2. i \in 1 .. Len(delivered') /\ d = delivered'[i] BY <2>3, <2>4, <4>1
      <4> QED BY <2>4, <4>2 DEF Received
    <3> QED BY <3>1
  <2>8. Wire[1].id \in Received'
    <3>1. Len(delivered) + 1 \in 1 .. Len(delivered') BY <2>3, <2>4
    <3> QED BY <2>3, <2>4, <3>1 DEF Received
  <2> QED BY <2>3, <2>4, <2>5, <2>6, <2>7, <2>8
<1>6. Wire[j].id \in sent BY DEF Inv, Traces
<1>7. TypeOK'
  <2>1. <<>> \in Seq(Piece) /\ Len(<<>>) = 0 BY EmptySeq
  <2>2. 0 <= Parts BY SizeAssumption
  <2>3. TypeOK BY DEF Inv
  <2> QED BY <1>5, <2>1, <2>2, <2>3 DEF TypeOK
<1>8. InOrder(Wire', Cut')
  <2>1. Cut' = Cut BY DEF Cut
  <2> QED BY <1>1, <2>1
<1>9. OutSound' BY DEF Inv, OutSound
<1>10. Joint'
  <2>1. ASSUME Len(Wire') > 0 PROVE Wire'[Len(Wire')] = Wire[Len(Wire)]
    <3>1. Len(Wire') \in 1 .. Len(Wire') /\ j + Len(Wire') = Len(Wire) BY <1>0, <1>1, <2>1
    <3> QED BY <1>1, <3>1
  <2>2. CASE begun
    <3>1. Len(Wire) > 0 /\ Follows(Wire[Len(Wire)], out[1]) BY <2>2 DEF Inv, Joint
    <3>2. j # Len(Wire) BY <3>1 DEF Follows
    <3>3. Len(Wire') > 0 BY <1>0, <1>1, <3>2
    <3> QED BY <2>1, <2>2, <3>1, <3>3 DEF Joint
  <2>3. CASE ~begun
    <3>1. ASSUME Len(Wire') > 0
          PROVE  LET p == Wire'[Len(Wire')]
                 IN  p.at = 0 \/ (p.id \in torn' /\ (link' = "fromLobby" \/ gone'))
      <4>1. Len(Wire) > 0 BY <1>0, <1>2
      <4>2. LET p == Wire[Len(Wire)]
            IN  p.at = 0 \/ (p.id \in torn /\ (link = "fromLobby" \/ gone))
        BY <2>3, <4>1 DEF Inv, Joint
      <4> QED BY <2>1, <3>1, <4>2
    <3> QED BY <2>3, <3>1 DEF Joint
  <2> QED BY <2>2, <2>3
<1>11. Wire[1].id \in sent \cup torn
  <2>1. Wire[1].id \in sent \cup torn \/ (begun /\ Wire[1].id = next - 1)
    BY <1>2 DEF Inv, Traces
  <2>2. begun => Wire[j].id < next - 1
    <3>1. ASSUME begun PROVE Wire[j].id < next - 1
      <4>1. out # <<>> BY <3>1, InvFacts
      <4>2. Wire[j].id < next /\ Wire[j].id # next - 1 BY <1>6, <4>1 DEF Inv, Traces
      <4>3. Wire[j].id \in Nat BY <1>0
      <4> QED BY <1>0, <4>2, <4>3, SMTT(40)
    <3> QED BY <3>1
  <2>3. Wire[1].id \in Nat /\ Wire[j].id \in Nat BY <1>0, <1>2
  <2> QED BY <1>0, <1>3, <2>1, <2>2, <2>3
<1>12. Traces'
  <2>1. \A m \in sent \cup torn : m < next /\ (out # <<>> => m # next - 1) BY DEF Inv, Traces
  <2>2. torn' = {} \/ link' = "fromLobby" \/ gone' BY DEF Inv, Traces
  <2>3. ASSUME NEW x \in 1 .. Len(Wire')
        PROVE  /\ Wire'[x].id \in sent' \cup torn' \/ (begun' /\ Wire'[x].id = next' - 1)
               /\ Wire'[x].at = 0 => Wire'[x].id \in sent'
    <3>1. /\ Wire[j + x].id \in sent \cup torn \/ (begun /\ Wire[j + x].id = next - 1)
          /\ Wire[j + x].at = 0 => Wire[j + x].id \in sent
      BY <1>2 DEF Inv, Traces
    <3> QED BY <1>1, <3>1
  <2>4. Received' \subseteq sent' \cup torn' BY <1>5, <1>11 DEF Inv, Traces
  <2>5. ASSUME NEW d \in Received', NEW x \in 1 .. Len(Wire') PROVE d < Wire'[x].id
    <3>1. CASE d \in Received
      <4>1. d < Wire[j + x].id BY <1>2, <3>1 DEF Inv, Traces
      <4> QED BY <1>1, <4>1
    <3>2. CASE d = Wire[1].id BY <1>4, <3>2
    <3> QED BY <1>5, <3>1, <3>2
  <2>6. ASSUME NEW i \in 1 .. Len(delivered'), NEW k \in 1 .. Len(delivered'), i < k
        PROVE  delivered'[i] < delivered'[k]
    <3>1. i \in 1 .. Len(delivered) BY <1>5, <2>6
    <3>2. CASE k \in 1 .. Len(delivered)
      <4>1. delivered[i] < delivered[k] BY <2>6, <3>1, <3>2 DEF Inv, Traces
      <4> QED BY <1>5, <3>1, <3>2, <4>1
    <3>3. CASE k = Len(delivered) + 1
      <4>1. delivered[i] \in Received BY <1>5, <3>1
      <4>2. delivered[i] < Wire[1].id BY <1>2, <4>1 DEF Inv, Traces
      <4> QED BY <1>5, <3>1, <3>3, <4>2
    <3> QED BY <1>5, <3>2, <3>3
  <2> QED BY <2>1, <2>2, <2>3, <2>4, <2>5, <2>6 DEF Traces
<1>13. Wire[1].id # Wire[j].id => Swallowed(Wire[j].id)
  <2> SUFFICES ASSUME Wire[1].id # Wire[j].id PROVE Swallowed(Wire[j].id) OBVIOUS
  <2> DEFINE k == Start(Wire, j)
             u == Wire[j].id
  <2>1. k \in 1 .. j /\ Wire[k].id = u /\ Wire[k].at = 1 BY DEF Inv, InOrder
  <2> HIDE DEF k
  <2>2. k # 1 BY <2>1
  <2>3. k - 1 \in 1 .. Len(Wire) - 1 /\ k - 1 \in 1 .. j - 1 /\ k - 1 + 1 = k
        /\ k - 1 \in 1 .. Len(Wire) /\ k \in 1 .. Len(Wire)
    BY <1>0, <2>1, <2>2
  <2>4. Wire[k - 1].at # 0 BY <2>3
  <2>5. Wire[k - 1].at \in Nat BY <1>0, <2>3
  <2>6. Follows(Wire[k - 1], Wire[k]) \/ Begins(Wire[k - 1], Wire[k], Cut)
    BY <2>3 DEF Inv, InOrder
  <2>7. ~Follows(Wire[k - 1], Wire[k]) BY <2>1, <2>4, <2>5, SMTT(40) DEF Follows
  <2> DEFINE t == Wire[k - 1].id
  <2>8. t \in torn /\ link = "fromLobby" /\ t < u BY <2>1, <2>4, <2>6, <2>7 DEF Begins, Cut
  <2>9. ASSUME NEW w \in sent, t < w, w < u PROVE FALSE
    <3>0. Accounted(w) /\ w \in Nat /\ t \in Nat /\ u \in Nat BY <1>0, <1>n, <2>3 DEF Inv
    <3>1. w \notin Received
      <4>1. SUFFICES ASSUME w \in Received PROVE FALSE OBVIOUS
      <4>2. w < t BY <2>3, <4>1 DEF Inv, Traces
      <4> QED BY <2>9, <3>0, <4>2, SMTT(40)
    <3>2. ASSUME NEW x \in 1 .. Len(Wire), Wire[x].id = w PROVE FALSE
      <4>1. CASE x <= k - 1
        <5>1. w <= t BY <2>3, <3>2, <4>1 DEF Inv, InOrder
        <5> QED BY <2>9, <3>0, <5>1
      <4>2. CASE k <= x
        <5>1. u <= w BY <2>1, <2>3, <3>2, <4>2 DEF Inv, InOrder
        <5> QED BY <2>9, <3>0, <5>1
      <4> QED BY <2>3, <4>1, <4>2
    <3>3. ~(\A x \in 1 .. Len(Wire) : w < Wire[x].id)
      <4>1. SUFFICES ASSUME w < Wire[k - 1].id PROVE FALSE BY <2>3
      <4> QED BY <2>9, <3>0, <4>1
    <3> QED BY <3>0, <3>1, <3>2, <3>3 DEF Accounted
  <2> QED BY <2>8, <2>9 DEF Swallowed
<1>14. ASSUME NEW v \in sent PROVE Accounted(v)'
  <2>0. Accounted(v) BY DEF Inv
  <2>s. Swallowed(v) => Swallowed(v)' BY DEF Swallowed
  <2>1. CASE v \in Received BY <1>5, <2>1 DEF Accounted
  <2>2. ASSUME NEW x \in 1 .. Len(Wire), Wire[x].at = 0, Wire[x].id = v PROVE Accounted(v)'
    <3>1. ~(x < j) BY <2>2, SMTT(40)
    <3>2. CASE x = j
      <4>1. CASE Wire[1].id = v BY <1>5, <4>1 DEF Accounted
      <4>2. CASE Wire[1].id # v
        <5>1. Swallowed(v)' BY <1>13, <2>2, <2>s, <3>2, <4>2
        <5>2. \A y \in 1 .. Len(Wire') : v < Wire'[y].id BY <1>1, <2>2, <3>2
        <5> QED BY <5>1, <5>2 DEF Accounted
      <4> QED BY <4>1, <4>2
    <3>3. CASE x > j
      <4>1. x - j \in 1 .. Len(Wire') /\ j + (x - j) = x BY <1>0, <1>1, <3>3
      <4>2. Wire'[x - j] = Wire[x] BY <1>1, <4>1
      <4> QED BY <2>2, <4>1, <4>2 DEF Accounted
    <3> QED BY <3>1, <3>2, <3>3
  <2>3. CASE Swallowed(v) /\ \A x \in 1 .. Len(Wire) : v < Wire[x].id
    <3>1. \A x \in 1 .. Len(Wire') : v < Wire'[x].id BY <1>1, <1>2, <2>3
    <3> QED BY <2>3, <2>s, <3>1 DEF Accounted
  <2> QED BY <2>0, <2>1, <2>2, <2>3 DEF Accounted
<1>15. Len(buf') = 0 /\ (closed' => buf' = <<>> /\ stream' = <<>>) OBVIOUS
<1> QED BY <1>7, <1>8, <1>9, <1>10, <1>12, <1>14, <1>15 DEF Inv

LEMMA ReadInv == Inv /\ Read => Inv'
<1> SUFFICES ASSUME Inv, Read PROVE Inv' OBVIOUS
<1> DEFINE l == IF Peek < Len(stream) THEN Peek ELSE Len(stream)
           seen == SubSeq(stream, 1, l)
           ends == {x \in DOMAIN seen : IsEnd(seen[x])}
           n == IF ends = {} THEN Len(seen) ELSE Least(ends)
           b == buf \o SubSeq(seen, 1, n)
<1>0. /\ reading /\ ~closed /\ stream # <<>>
      /\ \/ Close
         \/ /\ ~TooLong(b) /\ stream' = Rest(n)
            /\ buf' = IF ends = {} THEN b ELSE <<>>
            /\ reading' = (ends = {})
            /\ delivered' = IF ends = {} THEN delivered ELSE Append(delivered, b[1].id)
            /\ UNCHANGED <<link, next, out, begun, closed, gone, hung, sent, torn>>
  BY DEF Read
<1>1. CASE Close BY <1>0, <1>1, CloseInv
<1>2. CASE /\ ~TooLong(b) /\ stream' = Rest(n)
           /\ buf' = IF ends = {} THEN b ELSE <<>>
           /\ reading' = (ends = {})
           /\ delivered' = IF ends = {} THEN delivered ELSE Append(delivered, b[1].id)
           /\ UNCHANGED <<link, next, out, begun, closed, gone, hung, sent, torn>>
  <2>1. /\ buf \in Seq(Piece) /\ stream \in Seq(Piece) /\ Len(stream) \in Nat /\ Len(buf) \in Nat
        /\ Len(stream) > 0 /\ Len(stream) <= Buffer /\ Len(buf) <= Parts
    BY <1>0, LenProperties, EmptySeq, SMTT(40) DEF Inv, TypeOK
  <2>2. l \in 1 .. Len(stream) /\ l \in Nat BY <2>1, SizeAssumption
  <2> HIDE DEF l
  <2>3. /\ seen \in Seq(Piece) /\ Len(seen) = l /\ DOMAIN seen = 1 .. l
        /\ \A x \in 1 .. l : seen[x] = stream[x] /\ stream[x] \in Piece
    <3>1. \A x \in 1 .. l : x \in 1 .. Len(stream) BY <2>1, <2>2
    <3>2. \A x \in 1 .. l : stream[x] \in Piece BY <2>1, <3>1, ElementOfSeq
    <3>3. /\ seen \in Seq(Piece) /\ Len(seen) = IF 1 <= l THEN l - 1 + 1 ELSE 0
          /\ \A x \in 1 .. l - 1 + 1 : seen[x] = stream[1 + x - 1]
      BY <2>2, <3>2, SubSeqProperties
    <3> HIDE DEF seen
    <3>4. l - 1 + 1 = l /\ 1 <= l /\ \A x \in 1 .. l : 1 + x - 1 = x BY <2>2
    <3>5. Len(seen) = l BY <3>3, <3>4
    <3> QED BY <3>2, <3>3, <3>4, <3>5, LenProperties
  <2> HIDE DEF seen
  <2>4. /\ n \in 1 .. l
        /\ ends # {} => seen[n].at = 0
        /\ \A x \in 1 .. l : x < n => seen[x].at # 0
        /\ ends = {} => n = l /\ seen[n].at # 0
    <3>1. CASE ends = {}
      <4>1. n = l BY <2>3, <3>1
      <4>2. \A x \in 1 .. l : seen[x].at # 0 BY <2>3, <3>1 DEF IsEnd
      <4> QED BY <2>2, <3>1, <4>1, <4>2
    <3>2. CASE ends # {}
      <4>1. ends \subseteq Nat BY <2>3
      <4>2. n = Least(ends) BY <3>2
      <4> HIDE DEF n
      <4>3. n \in ends /\ \A k \in ends : n <= k BY <3>2, <4>1, <4>2, LeastIsLeast
      <4>4. n \in 1 .. l /\ seen[n].at = 0 BY <2>3, <4>3 DEF IsEnd
      <4>5. ASSUME NEW x \in 1 .. l, x < n PROVE seen[x].at # 0
        <5>1. x \notin ends BY <4>3, <4>4, <4>5
        <5> QED BY <2>3, <5>1 DEF IsEnd
      <4> QED BY <3>2, <4>4, <4>5
    <3> QED BY <3>1, <3>2
  <2>e. ends = {} \/ ends # {} OBVIOUS
  <2> HIDE DEF n, ends
  <2> DEFINE head == SubSeq(seen, 1, n)
  <2>5. n \in 1 .. Len(stream) /\ n \in Nat BY <2>1, <2>2, <2>4
  <2>6. head = SubSeq(stream, 1, n)
    <3>1. SubSeq(stream, 1, n) \in Seq(Piece) /\ Len(SubSeq(stream, 1, n)) = n
          /\ \A x \in 1 .. n : SubSeq(stream, 1, n)[x] = stream[x]
      <4>1. \A x \in 1 .. n : stream[x] \in Piece BY <2>3, <2>4
      <4>2. /\ SubSeq(stream, 1, n) \in Seq(Piece)
            /\ Len(SubSeq(stream, 1, n)) = IF 1 <= n THEN n - 1 + 1 ELSE 0
            /\ \A x \in 1 .. n - 1 + 1 : SubSeq(stream, 1, n)[x] = stream[1 + x - 1]
        BY <2>5, <4>1, SubSeqProperties
      <4>3. n - 1 + 1 = n /\ 1 <= n /\ \A x \in 1 .. n : 1 + x - 1 = x BY <2>5
      <4> QED BY <4>2, <4>3
    <3>2. head \in Seq(Piece) /\ Len(head) = n /\ \A x \in 1 .. n : head[x] = seen[x]
      <4>1. \A x \in 1 .. n : seen[x] \in Piece BY <2>2, <2>3, <2>4
      <4>2. /\ head \in Seq(Piece)
            /\ Len(head) = IF 1 <= n THEN n - 1 + 1 ELSE 0
            /\ \A x \in 1 .. n - 1 + 1 : head[x] = seen[1 + x - 1]
        BY <2>5, <4>1, SubSeqProperties
      <4> HIDE DEF head
      <4>3. n - 1 + 1 = n /\ 1 <= n /\ \A x \in 1 .. n : 1 + x - 1 = x BY <2>5
      <4> QED BY <4>2, <4>3
    <3>3. \A x \in 1 .. n : seen[x] = stream[x] BY <2>2, <2>3, <2>4
    <3> HIDE DEF head
    <3> QED BY <3>1, <3>2, <3>3, SeqEqual
  <2>7. /\ head \in Seq(Piece) /\ Len(head) = n /\ \A x \in 1 .. n : head[x] = seen[x]
    <3>1. \A x \in 1 .. n : seen[x] \in Piece BY <2>2, <2>3, <2>4
    <3>2. /\ head \in Seq(Piece)
          /\ Len(head) = IF 1 <= n THEN n - 1 + 1 ELSE 0
          /\ \A x \in 1 .. n - 1 + 1 : head[x] = seen[1 + x - 1]
      BY <2>5, <3>1, SubSeqProperties
    <3> HIDE DEF head
    <3>3. n - 1 + 1 = n /\ 1 <= n /\ \A x \in 1 .. n : 1 + x - 1 = x BY <2>5
    <3> QED BY <3>2, <3>3
  <2>8. Rest(n) \in Seq(Piece) /\ Len(Rest(n)) = Len(stream) - n /\ head \o Rest(n) = stream
    <3>1. \A x \in n + 1 .. Len(stream) : stream[x] \in Piece
      <4>1. \A x \in n + 1 .. Len(stream) : x \in 1 .. Len(stream) BY <2>1, <2>5
      <4> QED BY <2>1, <4>1, ElementOfSeq
    <3>2. /\ SubSeq(stream, n + 1, Len(stream)) \in Seq(Piece)
          /\ Len(SubSeq(stream, n + 1, Len(stream))) =
               IF n + 1 <= Len(stream) THEN Len(stream) - (n + 1) + 1 ELSE 0
      BY <2>1, <2>5, <3>1, SubSeqProperties
    <3>3. (IF n + 1 <= Len(stream) THEN Len(stream) - (n + 1) + 1 ELSE 0) = Len(stream) - n
      BY <2>1, <2>5
    <3>4. SubSeq(stream, 1, n) \o SubSeq(stream, n + 1, Len(stream))
            = SubSeq(stream, 1, Len(stream))
      <4>1. 1 \in 1 .. Len(stream) + 1 /\ n \in 1 - 1 .. Len(stream) /\ Len(stream) \in n .. Len(stream)
        BY <2>1, <2>5
      <4> QED BY <2>1, <4>1, ConcatAdjacentSubSeq
    <3>5. SubSeq(stream, 1, Len(stream)) = stream BY <2>1, SubSeqFull
    <3> HIDE DEF head
    <3>6. Rest(n) = SubSeq(stream, n + 1, Len(stream)) BY DEF Rest
    <3>7. head \o Rest(n) = stream BY <2>6, <3>4, <3>5, <3>6
    <3>8. Len(Rest(n)) = Len(stream) - n BY <3>2, <3>3, <3>6
    <3> QED BY <3>2, <3>6, <3>7, <3>8
  <2> HIDE DEF head
  <2>9. b = buf \o head /\ Wire = b \o Rest(n)
    <3>1. (buf \o head) \o Rest(n) = buf \o (head \o Rest(n))
      <4>1. buf \in Seq(Piece) /\ head \in Seq(Piece) /\ Rest(n) \in Seq(Piece) BY <2>1, <2>7, <2>8
      <4> QED BY <4>1, ConcatAssociative
    <3> QED BY <2>8, <3>1 DEF Wire, head
  <2> HIDE DEF b
  <2>10. /\ b \in Seq(Piece) /\ Len(b) = Len(buf) + n /\ Len(b) \in Nat
         /\ \A x \in 1 .. Len(b) : b[x] = IF x <= Len(buf) THEN buf[x] ELSE head[x - Len(buf)]
    <3>1. /\ buf \o head \in Seq(Piece) /\ Len(buf \o head) = Len(buf) + Len(head)
          /\ \A x \in 1 .. Len(buf) + Len(head) :
               (buf \o head)[x] = IF x <= Len(buf) THEN buf[x] ELSE head[x - Len(buf)]
      BY <2>1, <2>7, ConcatProperties
    <3> QED BY <2>1, <2>5, <2>7, <2>9, <3>1
  <2>11. ASSUME NEW x \in 1 .. Len(b), x < Len(b) PROVE b[x].at # 0
    <3>1. CASE x <= Len(buf)
      <4>1. x \in 1 .. Len(buf) BY <2>1, <3>1
      <4>2. buf[x].at # 0 BY <4>1 DEF Inv
      <4> QED BY <2>10, <3>1, <4>2
    <3>2. CASE ~(x <= Len(buf))
      <4>1. x - Len(buf) \in 1 .. n /\ x - Len(buf) < n /\ x - Len(buf) \in 1 .. l
        BY <2>1, <2>2, <2>4, <2>5, <2>10, <2>11, <3>2
      <4>2. seen[x - Len(buf)].at # 0 BY <2>4, <4>1
      <4>3. head[x - Len(buf)] = seen[x - Len(buf)] BY <2>7, <4>1
      <4> QED BY <2>10, <3>2, <4>2, <4>3
    <3> QED BY <3>1, <3>2
  <2>12. b[Len(b)] = seen[n] /\ Len(b) > 0 /\ Len(b) \in 1 .. Len(b)
    <3>1. /\ Len(b) \in 1 .. Len(b) /\ ~(Len(b) <= Len(buf)) /\ Len(b) - Len(buf) = n
          /\ n \in 1 .. n /\ Len(b) > 0
      BY <2>1, <2>5, <2>10
    <3>2. b[Len(b)] = head[Len(b) - Len(buf)] BY <2>10, <3>1
    <3>3. head[Len(b) - Len(buf)] = seen[n] BY <2>7, <3>1
    <3> QED BY <3>1, <3>2, <3>3
  <2>13. CASE ends = {}
    <3>1. /\ buf' = b /\ stream' = Rest(n) /\ reading' = TRUE
          /\ UNCHANGED <<link, next, out, begun, closed, gone, hung, sent, torn, delivered>>
      BY <1>2, <2>13
    <3>2. Wire' = Wire BY <2>9, <3>1 DEF Wire
    <3>3. \A x \in 1 .. Len(buf') : buf'[x].at # 0
      <4>1. b[Len(b)].at # 0 BY <2>4, <2>12, <2>13
      <4>2. \A x \in 1 .. Len(b) : x < Len(b) \/ x = Len(b) BY <2>10
      <4> QED BY <2>11, <3>1, <4>1, <4>2
    <3>4. TypeOK'
      <4>1. Len(b) <= Parts
        <5>1. b[Len(b)].at # 0 BY <2>4, <2>12, <2>13
        <5>2. ~(Len(b) > Parts) BY <1>2, <5>1 DEF TooLong, IsEnd
        <5> QED BY <2>10, <5>2, SizeAssumption
      <4>2. Len(Rest(n)) <= Buffer BY <2>1, <2>5, <2>8, SizeAssumption
      <4>3. TypeOK BY DEF Inv
      <4> QED BY <2>8, <2>10, <3>1, <4>1, <4>2, <4>3 DEF TypeOK
    <3>5. Received' = Received /\ Cut' = Cut BY <3>1 DEF Received, Cut
    <3>6. OutSound' BY <3>1 DEF Inv, OutSound
    <3>7. Joint' BY <3>1, <3>2 DEF Inv, Joint
    <3>8. Traces' BY <3>1, <3>2, <3>5 DEF Inv, Traces
    <3>9. ASSUME NEW v \in sent PROVE Accounted(v)'
      <4>1. Accounted(v) BY DEF Inv
      <4>2. Swallowed(v) => Swallowed(v)' BY <3>1 DEF Swallowed
      <4> QED BY <3>1, <3>2, <3>5, <4>1, <4>2 DEF Accounted
    <3>10. InOrder(Wire', Cut') BY <3>2, <3>5 DEF Inv
    <3> QED BY <1>0, <3>1, <3>3, <3>4, <3>6, <3>7, <3>8, <3>9, <3>10 DEF Inv
  <2>14. CASE ends # {}
    <3>1. /\ buf' = <<>> /\ stream' = Rest(n) /\ reading' = FALSE
          /\ delivered' = Append(delivered, b[1].id)
          /\ UNCHANGED <<link, next, out, begun, closed, gone, hung, sent, torn>>
      BY <1>2, <2>14
    <3> DEFINE j == Len(b)
    <3>2. /\ Wire \in Seq(Piece) /\ Len(Wire) = j + Len(Rest(n))
          /\ \A x \in 1 .. j : Wire[x] = b[x]
      <4>1. /\ b \o Rest(n) \in Seq(Piece) /\ Len(b \o Rest(n)) = Len(b) + Len(Rest(n))
            /\ \A x \in 1 .. Len(b) + Len(Rest(n)) :
                 (b \o Rest(n))[x] = IF x <= Len(b) THEN b[x] ELSE Rest(n)[x - Len(b)]
        BY <2>8, <2>10, ConcatProperties
      <4>2. Len(Rest(n)) \in Nat BY <2>8, LenProperties
      <4>3. \A x \in 1 .. Len(b) : x \in 1 .. Len(b) + Len(Rest(n)) /\ x <= Len(b) BY <2>10, <4>2
      <4> QED BY <2>9, <4>1, <4>3
    <3>3. Len(Rest(n)) \in Nat /\ Len(Rest(n)) <= Buffer
      BY <2>1, <2>5, <2>8, LenProperties, SizeAssumption
    <3>4. j \in 1 .. Len(Wire) /\ 1 \in 1 .. j BY <2>10, <2>12, <3>2, <3>3
    <3>5. Wire[j].at = 0 BY <2>4, <2>12, <2>14, <3>2
    <3>6. \A x \in 1 .. j - 1 : Wire[x].at # 0
      <4>1. \A x \in 1 .. j - 1 : x \in 1 .. j /\ x < j BY <2>10
      <4> QED BY <2>11, <3>2, <4>1
    <3>7. Wire' = SubSeq(Wire, j + 1, Len(Wire))
      <4>1. Wire' = Rest(n) BY <2>8, <3>1, ConcatEmptySeq DEF Wire
      <4> DEFINE V == SubSeq(Wire, j + 1, Len(Wire))
      <4>2. CASE Len(Rest(n)) = 0
        <5>1. Rest(n) = <<>> BY <2>8, <4>2, EmptySeq
        <5>2. Len(Wire) \in Int /\ j + 1 \in Int /\ Len(Wire) < j + 1 BY <2>10, <3>2, <4>2
        <5>3. V = <<>> BY <5>2, SubSeqEmpty
        <5> QED BY <4>1, <5>1, <5>3
      <4>3. CASE Len(Rest(n)) # 0
        <5> DEFINE r == Rest(n)
        <5>0. r \in Seq(Piece) /\ Len(r) \in Nat /\ Len(r) > 0 /\ Wire = b \o r
          BY <2>8, <2>9, <3>3, <4>3
        <5> HIDE DEF r
        <5>1. Len(b) + 1 \in Len(b) + 1 .. Len(b) + Len(r)
              /\ Len(b) + Len(r) \in Len(b) + 1 .. Len(b) + Len(r)
          BY <2>10, <5>0
        <5>2. SubSeq(b \o r, Len(b) + 1, Len(b) + Len(r))
                = SubSeq(r, Len(b) + 1 - Len(b), Len(b) + Len(r) - Len(b))
          <6>1. b \in Seq(Piece) /\ r \in Seq(Piece) BY <2>10, <5>0
          <6> QED BY <5>1, <6>1, SubSeqOfConcat2
        <5>3. Len(b) + 1 - Len(b) = 1 /\ Len(b) + Len(r) - Len(b) = Len(r) BY <2>10, <5>0
        <5>4. SubSeq(r, 1, Len(r)) = r BY <5>0, SubSeqFull
        <5>5. Len(Wire) = Len(b) + Len(r) BY <3>2 DEF r
        <5>6. V = r BY <5>0, <5>2, <5>3, <5>4, <5>5
        <5> QED BY <4>1, <5>6 DEF r
      <4> QED BY <4>2, <4>3
    <3>8. delivered' = Append(delivered, Wire[1].id) BY <3>1, <3>2, <3>4
    <3> HIDE DEF j
    <3> QED BY <1>0, <2>8, <3>1, <3>3, <3>4, <3>5, <3>6, <3>7, <3>8, DeliveredInv
  <2> QED BY <2>13, <2>14
<1> QED BY <1>0, <1>1, <1>2

\* The steps that move no message.
LEMMA StillInv == Inv /\ (Call \/ Hang \/ UNCHANGED vars) => Inv'
<1> SUFFICES ASSUME Inv, Call \/ Hang \/ UNCHANGED vars PROVE Inv' OBVIOUS
<1>0. UNCHANGED <<link, next, out, begun, stream, buf, closed, gone, sent, torn, delivered>>
  BY DEF Call, Hang, vars
<1>1. {reading', hung'} \subseteq BOOLEAN BY DEF Inv, TypeOK, Call, Hang, vars
<1>2. /\ Wire' = Wire /\ Received' = Received
      /\ InOrder(Wire', Cut')
      /\ \A x \in 1 .. Len(buf') : buf'[x].at # 0
      /\ closed' => buf' = <<>> /\ stream' = <<>>
      /\ \A v \in sent' : Accounted(v)'
  BY <1>0, Quiet
<1>3. TypeOK' BY <1>0, <1>1 DEF Inv, TypeOK
<1>4. OutSound' BY <1>0 DEF Inv, OutSound
<1>5. Joint' BY <1>0, <1>2 DEF Inv, Joint
<1>6. Traces' BY <1>0, <1>2 DEF Inv, Traces
<1> QED BY <1>2, <1>3, <1>4, <1>5, <1>6 DEF Inv

THEOREM InvHolds == Spec => []Inv
<1>1. Inv /\ [Next]_vars => Inv'
  <2> SUFFICES ASSUME Inv, [Next]_vars PROVE Inv' OBVIOUS
  <2>1. CASE Starve BY <2>1, CloseInv DEF Starve
  <2> QED BY <2>1, SendInv, WriteInv, TerminateInv, GivesUpInv, ReadInv, StillInv
           DEF Next, Writing, Reading
<1> QED BY <1>1, InitInv, PTL DEF Spec

(* Whatever sizes messages, looks and buffers have, and however recv_json()    *)
(* finds the bytes of send_json() cut and glued, it returns a message once and *)
(* in the order of the calls; only of the lobby's own sockets, or of a sender  *)
(* that ended, one for which send_json() did not return 1.                     *)
THEOREM StreamIsSound == Spec => []StreamSound
<1>1. Inv => StreamSound
  <2> SUFFICES ASSUME Inv PROVE StreamSound OBVIOUS
  <2>1. DOMAIN delivered = 1 .. Len(delivered) BY LenProperties DEF Inv, TypeOK
  <2>2. \A i, j \in DOMAIN delivered : i < j => delivered[i] < delivered[j]
    BY <2>1 DEF Inv, Traces
  <2>3. ASSUME NEW m \in Received
        PROVE  m \in sent \/ (m \in torn /\ link = "fromLobby") \/ (gone /\ m \in torn)
    BY DEF Inv, Traces
  <2> QED BY <2>2, <2>3 DEF Inv, StreamSound, OnceInOrder
<1> QED BY <1>1, InvHolds, PTL

(* A message for which send_json() returned 1 is passed over only on the       *)
(* lobby's sockets, and there only the first after one that was cut short:     *)
(* recv_json() takes it for the rest of that one's text.                       *)
THEOREM NothingIsSkipped == Spec => []NothingSkipped
<1>1. Inv => NothingSkipped
  <2> SUFFICES ASSUME Inv, NEW m \in sent, NEW d \in Received, m < d, m \notin Received
               PROVE  Swallowed(m)
    BY DEF NothingSkipped, Swallowed
  <2>1. Accounted(m) /\ m \in Nat /\ d \in Nat BY InvFacts, SizeAssumption DEF Inv
  <2>2. ASSUME NEW x \in 1 .. Len(Wire), Wire[x].id = m PROVE FALSE
    <3>1. d < m BY <2>2 DEF Inv, Traces
    <3> QED BY <2>1, <3>1
  <2>3. ~(\A e \in Received : e < m) BY <2>1
  <2> QED BY <2>1, <2>2, <2>3 DEF Accounted
<1> QED BY <1>1, InvHolds, PTL
=============================================================================
