----------------------------- MODULE Directory -----------------------------
(***************************************************************************)
(* What the lobby promises about tables, whatever the order of messages,   *)
(* lost connections and reuse of slots: a place hosts at most one table,   *)
(* a guest sits at one open table at a time, a table seats no more than    *)
(* its size, and whoever leaves takes with it the table it hosts.          *)
(* Lobby.tla is shown to implement this specification.                     *)
(***************************************************************************)
EXTENDS Integers, FiniteSets

CONSTANTS Places,     \* where a player can be: the server's slots
          Nowhere,    \* at no table: not a place
          TableSize   \* players at a full table, its host included

VARIABLES open,  \* places that host a table
          at     \* the host a place is a guest of

vars == <<open, at>>

GuestsAt(t) == {g \in Places : at[g] = t}

\* at once the places in S, and the guests of theirs, are at no table.
Vacated(S) == [g \in Places |-> IF g \in S \/ at[g] \in S THEN Nowhere ELSE at[g]]

Init == open = {} /\ at = [p \in Places |-> Nowhere]

\* p opens a table, leaving what it was at and sending away what it hosted.
Open(p) == open' = open \cup {p} /\ at' = Vacated({p})

Sit(p, t) ==
  /\ t \in open /\ p \notin open
  /\ 1 + Cardinality(GuestsAt(t)) < TableSize
  /\ at' = [at EXCEPT ![p] = t]
  /\ UNCHANGED open

Leave(p) == open' = open \ {p} /\ at' = Vacated({p})

\* The server restarts: everybody is gone.
CloseAll == open' = {} /\ at' = Vacated(Places)

Next ==
  \/ \E p \in Places : Open(p) \/ Leave(p) \/ \E t \in Places : Sit(p, t)
  \/ CloseAll

Spec == Init /\ [][Next]_vars
=============================================================================
